------------------------- MODULE AcceptLoop_proofs -------------------------
(***************************************************************************)
(* Theorems about AcceptLoop for any number of connections, any            *)
(* --max-connections and any drain: permits are conserved, and at most one *)
(* connection is started after the signal.                                 *)
(***************************************************************************)
EXTENDS AcceptLoop, FiniteSetTheorems, TLAPS

-----------------------------------------------------------------------------
(* The invariant.                                                          *)

ControlOK ==
    /\ kind \in Kinds
    /\ pc \in {"bind", "bindWait", "select", "permit", "rebind", "innerDrain",
               "drain", "exited", "failed"}
    /\ signalled \in BOOLEAN
    /\ task \in [Conns -> {"new", "queued", "held", "opening", "running",
                           "done", "lost", "killed"}]

\* The queue holds connections nobody took yet, each of them once.
QueueOK ==
    /\ backlog \in Seq(Conns)
    /\ \A i \in 1..Len(backlog) : task[backlog[i]] = "queued"
    /\ \A i, j \in 1..Len(backlog) : backlog[i] = backlog[j] => i = j

\* Exactly one connection is held while the loop waits for a permit, else none.
HeldOK ==
    /\ pc = "permit" <=> \E c \in Conns : task[c] = "held"
    /\ \A c, d \in Conns : task[c] = "held" /\ task[d] = "held" => c = d

\* The first drain is over when the second begins; no time passes elsewhere.
TimeOK ==
    /\ clock \in 0..Drain /\ drained \in Nat
    /\ pc = "innerDrain" => drained = clock
    /\ pc = "drain" => drained <= Drain + clock
    /\ pc = "exited" => drained <= 2 * Drain
    /\ pc \notin {"innerDrain", "drain", "exited"} => drained = 0 /\ clock = 0

PermitsOK == permits \in 0..MaxConns

\* A connection started late was the held one, and the loop takes no other.
LateOK ==
    /\ late \subseteq Conns
    /\ late # {} => signalled /\ pc # "permit"
    /\ \A c, d \in late : c = d

IInv ==
    /\ ControlOK /\ QueueOK /\ HeldOK /\ TimeOK /\ PermitsOK /\ LateOK
    /\ PermitConservation

-----------------------------------------------------------------------------

LEMMA HoldersFinite == IsFiniteSet(Holders) /\ Cardinality(Holders) \in Nat
  BY FS_Subset, FS_CardinalityType, ConstantsAssumption DEF Holders

LEMMA InitIInv == Init => IInv
<1> SUFFICES ASSUME Init PROVE IInv
  OBVIOUS
<1> USE DEF Init
<1>1. Holders = {} /\ Cardinality(Holders) = 0
  BY FS_EmptySet DEF Holders
<1>2. ControlOK /\ HeldOK /\ LateOK
  BY DEF ControlOK, HeldOK, LateOK
<1>3. QueueOK
  BY DEF QueueOK
<1>4. TimeOK /\ PermitsOK /\ PermitConservation
  BY <1>1, ConstantsAssumption DEF TimeOK, PermitsOK, PermitConservation
<1> QED BY <1>2, <1>3, <1>4 DEF IInv

LEMMA ControlStep == ControlOK /\ QueueOK /\ [Next]_vars => ControlOK'
<1> SUFFICES ASSUME ControlOK, QueueOK, [Next]_vars PROVE ControlOK'
  OBVIOUS
<1> USE DEF ControlOK
<1>1. CASE Signal \/ BindOk \/ BindFails \/ BindWaited \/ SelectShutdown
           \/ AcceptGivesUp \/ SourceEnds \/ Tick \/ InnerDrained
  BY <1>1 DEF Signal, BindOk, BindFails, BindWaited, SelectShutdown, AcceptGivesUp,
              SourceEnds, Tick, InnerDrained, AfterLoop
<1>2. CASE AcceptOne
  BY <1>2 DEF AcceptOne, QueueOK
<1>3. CASE Rebind
  BY <1>3 DEF Rebind
<1>4. CASE Start
  BY <1>4 DEF Start
<1>5. CASE Exit
  BY <1>5 DEF Exit
<1>6. ASSUME NEW c \in Conns, Arrive(c) \/ TaskStep(c) PROVE ControlOK'
  BY <1>6 DEF Arrive, TaskStep, Opened, OpenFails, Finish
<1>7. CASE UNCHANGED vars
  BY <1>7 DEF vars
<1> QED BY <1>1, <1>2, <1>3, <1>4, <1>5, <1>6, <1>7 DEF Next, LoopStep

LEMMA QueueStep == ControlOK /\ QueueOK /\ [Next]_vars => QueueOK'
<1> SUFFICES ASSUME ControlOK, QueueOK, [Next]_vars PROVE QueueOK'
  OBVIOUS
<1> USE DEF ControlOK, QueueOK
<1>1. CASE UNCHANGED <<backlog, task>>
  BY <1>1
<1>2. CASE AcceptOne
  <2>1. backlog' = Tail(backlog) /\ backlog # <<>>
    BY <1>2 DEF AcceptOne
  <2>2. /\ Tail(backlog) \in Seq(Conns)
        /\ Len(Tail(backlog)) = Len(backlog) - 1
        /\ \A i \in 1..Len(Tail(backlog)) : Tail(backlog)[i] = backlog[i + 1]
    BY <2>1
  <2>3. \A i \in 1..Len(Tail(backlog)) :
            i + 1 \in 1..Len(backlog) /\ backlog[i + 1] # backlog[1]
    BY <2>1, <2>2
  <2>4. Head(backlog) = backlog[1]
    BY <2>1
  <2>5. \A i \in 1..Len(Tail(backlog)) : task'[Tail(backlog)[i]] = "queued"
    BY <1>2, <2>2, <2>3, <2>4 DEF AcceptOne
  <2> QED BY <2>1, <2>2, <2>3, <2>5
<1>3. CASE backlog' = <<>>
  BY <1>3
<1>4. CASE Start
  BY <1>4 DEF Start
<1>5. ASSUME NEW c \in Conns, Arrive(c) PROVE QueueOK'
  <2>1. backlog' = Append(backlog, c) /\ task[c] = "new"
        /\ task' = [task EXCEPT ![c] = "queued"]
    BY <1>5 DEF Arrive
  <2>2. /\ backlog' \in Seq(Conns) /\ Len(backlog') = Len(backlog) + 1
        /\ backlog'[Len(backlog) + 1] = c
        /\ \A i \in 1..Len(backlog) : backlog'[i] = backlog[i]
    BY <2>1
  <2>3. \A i \in 1..Len(backlog) : backlog[i] # c
    BY <2>1
  <2>4. \A i \in 1..Len(backlog') : task'[backlog'[i]] = "queued"
    BY <2>1, <2>2, <2>3
  <2>5. \A i, j \in 1..Len(backlog') : backlog'[i] = backlog'[j] => i = j
    BY <2>2, <2>3
  <2> QED BY <2>2, <2>4, <2>5
<1>6. ASSUME NEW c \in Conns, TaskStep(c) PROVE QueueOK'
  BY <1>6 DEF TaskStep, Opened, OpenFails, Finish
<1> QED
  BY <1>1, <1>2, <1>3, <1>4, <1>5, <1>6
  DEF Next, LoopStep, vars, Signal, BindOk, BindFails, BindWaited, SelectShutdown,
      AcceptGivesUp, SourceEnds, Tick, InnerDrained, Rebind, Exit

LEMMA HeldStep == ControlOK /\ QueueOK /\ HeldOK /\ [Next]_vars => HeldOK'
<1> SUFFICES ASSUME ControlOK, QueueOK, HeldOK, [Next]_vars PROVE HeldOK'
  OBVIOUS
<1> USE DEF ControlOK, HeldOK
<1>1. CASE Signal \/ BindOk \/ BindFails \/ BindWaited \/ SelectShutdown
           \/ AcceptGivesUp \/ SourceEnds \/ Tick \/ InnerDrained
  BY <1>1 DEF Signal, BindOk, BindFails, BindWaited, SelectShutdown, AcceptGivesUp,
              SourceEnds, Tick, InnerDrained, AfterLoop
<1>2. CASE AcceptOne
  <2>1. Head(backlog) \in Conns
    BY <1>2 DEF AcceptOne, QueueOK
  <2> QED BY <1>2, <2>1 DEF AcceptOne
<1>3. CASE Rebind
  BY <1>3 DEF Rebind
<1>4. CASE Start
  BY <1>4 DEF Start
<1>5. CASE Exit
  BY <1>5 DEF Exit
<1>6. ASSUME NEW c \in Conns, Arrive(c) \/ TaskStep(c) PROVE HeldOK'
  BY <1>6 DEF Arrive, TaskStep, Opened, OpenFails, Finish
<1>7. CASE UNCHANGED vars
  BY <1>7 DEF vars
<1> QED BY <1>1, <1>2, <1>3, <1>4, <1>5, <1>6, <1>7 DEF Next, LoopStep

LEMMA TimeStep == ControlOK /\ TimeOK /\ [Next]_vars => TimeOK'
<1> SUFFICES ASSUME ControlOK, TimeOK, [Next]_vars PROVE TimeOK'
  OBVIOUS
<1> USE ConstantsAssumption DEF ControlOK, TimeOK
<1>1. CASE Signal \/ BindOk \/ BindFails \/ BindWaited \/ SelectShutdown
           \/ AcceptGivesUp \/ SourceEnds
  BY <1>1 DEF Signal, BindOk, BindFails, BindWaited, SelectShutdown, AcceptGivesUp,
              SourceEnds, AfterLoop
<1>2. CASE AcceptOne \/ Rebind \/ Start
  BY <1>2 DEF AcceptOne, Rebind, Start
<1>3. CASE Tick \/ InnerDrained \/ Exit
  BY <1>3 DEF Tick, InnerDrained, Exit
<1>4. ASSUME NEW c \in Conns, Arrive(c) \/ TaskStep(c) PROVE TimeOK'
  BY <1>4 DEF Arrive, TaskStep, Opened, OpenFails, Finish
<1>5. CASE UNCHANGED vars
  BY <1>5 DEF vars
<1> QED BY <1>1, <1>2, <1>3, <1>4, <1>5 DEF Next, LoopStep

LEMMA LateStep == ControlOK /\ HeldOK /\ LateOK /\ [Next]_vars => LateOK'
<1> SUFFICES ASSUME ControlOK, HeldOK, LateOK, [Next]_vars PROVE LateOK'
  OBVIOUS
<1> USE DEF LateOK
<1>1. CASE Signal \/ BindOk \/ BindFails \/ BindWaited \/ SelectShutdown
           \/ AcceptGivesUp \/ SourceEnds \/ Tick \/ InnerDrained
  BY <1>1 DEF Signal, BindOk, BindFails, BindWaited, SelectShutdown, AcceptGivesUp,
              SourceEnds, Tick, InnerDrained, AfterLoop
<1>2. CASE AcceptOne
  BY <1>2 DEF AcceptOne, AcceptArm
<1>3. CASE Start
  BY <1>3 DEF Start, HeldOK
<1>4. CASE Rebind \/ Exit
  BY <1>4 DEF Rebind, Exit
<1>5. ASSUME NEW c \in Conns, Arrive(c) \/ TaskStep(c) PROVE LateOK'
  BY <1>5 DEF Arrive, TaskStep, Opened, OpenFails, Finish
<1>6. CASE UNCHANGED vars
  BY <1>6 DEF vars
<1> QED BY <1>1, <1>2, <1>3, <1>4, <1>5, <1>6 DEF Next, LoopStep

-----------------------------------------------------------------------------
(* Permits.  What a step does to the holders, and to the count of permits. *)

\* A connection joins the holders and takes a permit, one leaves and gives its
\* permit back, or neither changes; when the process exits the count is moot.
HoldersEffect ==
    \/ /\ \E c \in Conns \ Holders : Holders' = Holders \cup {c}
       /\ MaxConns > 0 => permits > 0 /\ permits' = permits - 1
       /\ MaxConns = 0 => permits' = 0
    \/ /\ \E c \in Holders : Holders' = Holders \ {c}
       /\ ReleasePermit
    \/ Holders' = Holders /\ permits' = permits
    \/ pc' = "exited" /\ permits' = permits

LEMMA StepEffect ==
    ControlOK /\ QueueOK /\ HeldOK /\ PermitsOK /\ [Next]_vars => HoldersEffect
<1> SUFFICES ASSUME ControlOK, QueueOK, HeldOK, PermitsOK, [Next]_vars
             PROVE HoldersEffect
  OBVIOUS
<1> USE DEF ControlOK, Holders
<1>1. CASE UNCHANGED <<task, permits>>
  BY <1>1 DEF HoldersEffect
<1>2. CASE AcceptOne
  <2>1. Head(backlog) \in Conns /\ task[Head(backlog)] = "queued"
    BY <1>2 DEF AcceptOne, QueueOK
  <2>2. Holders' = Holders /\ permits' = permits
    BY <1>2, <2>1 DEF AcceptOne
  <2> QED BY <2>2 DEF HoldersEffect
<1>3. CASE Rebind
  <2>1. Holders' = Holders /\ permits' = permits
    BY <1>3 DEF Rebind
  <2> QED BY <2>1 DEF HoldersEffect
<1>4. CASE Exit
  BY <1>4 DEF Exit, HoldersEffect
<1>5. CASE Start
  <2>1. PICK c \in Conns : task[c] = "held"
    BY <1>5 DEF Start, HeldOK
  <2>2. {d \in Conns : task[d] = "held"} = {c}
    BY <2>1 DEF HeldOK
  <2>3. c \in Conns \ Holders /\ Holders' = Holders \cup {c}
    BY <1>5, <2>1, <2>2 DEF Start
  <2>4. permits' = IF permits = 0 THEN 0 ELSE permits - 1
    BY <1>5 DEF Start
  <2>5. /\ MaxConns > 0 => permits > 0 /\ permits' = permits - 1
        /\ MaxConns = 0 => permits' = 0
    BY <1>5, <2>4, ConstantsAssumption DEF Start, PermitFree, PermitsOK
  <2> QED BY <2>3, <2>5 DEF HoldersEffect
<1>6. ASSUME NEW c \in Conns, Arrive(c) \/ Opened(c) PROVE HoldersEffect
  <2>1. Holders' = Holders /\ permits' = permits
    BY <1>6 DEF Arrive, Opened
  <2> QED BY <2>1 DEF HoldersEffect
<1>7. ASSUME NEW c \in Conns, OpenFails(c) \/ Finish(c) PROVE HoldersEffect
  <2>1. c \in Holders /\ Holders' = Holders \ {c} /\ ReleasePermit
    BY <1>7 DEF OpenFails, Finish
  <2> QED BY <2>1 DEF HoldersEffect
<1> QED
  BY <1>1, <1>2, <1>3, <1>4, <1>5, <1>6, <1>7
  DEF Next, LoopStep, TaskStep, vars, Signal, BindOk, BindFails, BindWaited,
      SelectShutdown, AcceptGivesUp, SourceEnds, Tick, InnerDrained

LEMMA Exited == ControlOK /\ [Next]_vars => (pc = "exited" => pc' = "exited")
<1> SUFFICES ASSUME ControlOK, [Next]_vars, pc = "exited" PROVE pc' = "exited"
  OBVIOUS
<1> QED
  BY DEF Next, LoopStep, TaskStep, vars, Signal, BindOk, BindFails, BindWaited,
      SelectShutdown, AcceptOne, AcceptGivesUp, Rebind, SourceEnds, Start, Tick,
      InnerDrained, Exit, Arrive, Opened, OpenFails, Finish

LEMMA ExitedKeeps == ControlOK /\ [Next]_vars /\ pc = "exited" => permits' = permits
  BY DEF Next, LoopStep, TaskStep, vars, Signal, BindOk, BindFails, BindWaited,
      SelectShutdown, AcceptOne, AcceptGivesUp, Rebind, SourceEnds, Start, Tick,
      InnerDrained, Exit, Arrive, Opened, OpenFails, Finish

LEMMA PermitStep ==
    IInv /\ [Next]_vars => PermitConservation' /\ PermitsOK'
<1> SUFFICES ASSUME IInv, [Next]_vars PROVE PermitConservation' /\ PermitsOK'
  OBVIOUS
<1>1. HoldersEffect
  BY StepEffect DEF IInv
<1>2. IsFiniteSet(Holders) /\ Cardinality(Holders) \in Nat
  BY HoldersFinite
<1>3. permits \in 0..MaxConns /\ MaxConns \in Nat
  BY ConstantsAssumption DEF IInv, PermitsOK
<1>4. CASE pc = "exited"
  BY <1>3, <1>4, Exited, ExitedKeeps DEF IInv, PermitConservation, PermitsOK
<1>5. CASE pc # "exited"
  <2>1. MaxConns > 0 => permits + Cardinality(Holders) = MaxConns
    BY <1>5 DEF IInv, PermitConservation
  <2>2. ASSUME NEW c \in Conns \ Holders, Holders' = Holders \cup {c},
               MaxConns > 0 => permits > 0 /\ permits' = permits - 1,
               MaxConns = 0 => permits' = 0
        PROVE PermitConservation' /\ PermitsOK'
    <3>1. Cardinality(Holders') = Cardinality(Holders) + 1
      BY <1>2, <2>2, FS_AddElement
    <3> QED BY <1>2, <1>3, <2>1, <2>2, <3>1 DEF PermitConservation, PermitsOK
  <2>3. ASSUME NEW c \in Holders, Holders' = Holders \ {c}, ReleasePermit
        PROVE PermitConservation' /\ PermitsOK'
    <3>1. Cardinality(Holders') = Cardinality(Holders) - 1
      BY <1>2, <2>3, FS_RemoveElement
    <3>2. Cardinality(Holders') \in Nat
      BY <1>2, <2>3, FS_RemoveElement, FS_CardinalityType
    <3> QED BY <1>2, <1>3, <2>1, <2>3, <3>1, <3>2
            DEF PermitConservation, PermitsOK, ReleasePermit
  <2>4. CASE Holders' = Holders /\ permits' = permits
    BY <1>3, <2>1, <2>4 DEF PermitConservation, PermitsOK
  <2>5. CASE pc' = "exited" /\ permits' = permits
    BY <1>3, <2>5 DEF PermitConservation, PermitsOK
  <2> QED BY <1>1, <2>2, <2>3, <2>4, <2>5 DEF HoldersEffect
<1> QED BY <1>4, <1>5

-----------------------------------------------------------------------------

LEMMA Invariance == Spec => []IInv
<1>1. Init => IInv
  BY InitIInv
<1>2. IInv /\ [Next]_vars => IInv'
  BY ControlStep, QueueStep, HeldStep, TimeStep, LateStep, PermitStep DEF IInv
<1> QED BY <1>1, <1>2, PTL DEF Spec

\* Every variable of the loop keeps its type, permits and drain times included:
\* the semaphore never holds more than --max-connections.
THEOREM TypeCorrect == Spec => []TypeOK
<1>1. IInv => TypeOK
  <2> SUFFICES ASSUME IInv PROVE TypeOK
    OBVIOUS
  <2>1. drained \in 0..(2 * Drain)
    BY ConstantsAssumption DEF IInv, TimeOK
  <2> QED BY <2>1 DEF IInv, TypeOK, ControlOK, QueueOK, TimeOK, PermitsOK, LateOK
<1> QED BY <1>1, Invariance, PTL

\* Permits in the semaphore and connections with a task add up to
\* --max-connections, through rebinds, failures, shutdown and any interleaving of
\* the tasks (acquire_owned and the drop of the permit in the four loops).
THEOREM PermitsConserved == Spec => []PermitConservation
<1>1. IInv => PermitConservation
  BY DEF IInv
<1> QED BY <1>1, Invariance, PTL

\* The biased select! takes no connection after the signal, so at most the one
\* already waiting for its permit is started.
THEOREM LateStartBounded == Spec => []AtMostOneLateStart
<1>1. IInv => AtMostOneLateStart
  <2> SUFFICES ASSUME IInv PROVE Cardinality(late) <= 1
    BY DEF AtMostOneLateStart
  <2>1. CASE late = {}
    BY <2>1, FS_EmptySet
  <2>2. CASE late # {}
    <3>1. PICK c \in late : TRUE
      BY <2>2
    <3>2. late = {c}
      BY <3>1 DEF IInv, LateOK
    <3>3. Cardinality({c}) = 1
      BY FS_Singleton
    <3> QED BY <3>2, <3>3
  <2> QED BY <2>1, <2>2
<1> QED BY <1>1, Invariance, PTL
=============================================================================
