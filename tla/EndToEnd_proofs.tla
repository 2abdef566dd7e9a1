--------------------------- MODULE EndToEnd_proofs ---------------------------
(***************************************************************************)
(* Theorems about EndToEnd for any number of chunks, any capacities, both  *)
(* transports and both modes, with and without faults.                     *)
(***************************************************************************)
EXTENDS EndToEnd, SequenceTheorems, TLAPS

-----------------------------------------------------------------------------
(* The kinds of steps.  A task ends for a fault, because both its hops are *)
(* done or because it found its connection over.                           *)

EndReason(s, why) ==
    /\ task[s] \notin {"none", "ended"}
    /\ \/ why = Faults
       \/ why = {"refused"} \X Dir
       \/ why = {} /\ \/ BothDone(s) \/ Broken(s) \/ dead[s]
                      \/ echo /\ s = "server" /\ AtEnd("up")

TaskEnds(s) == \E why : EndReason(s, why) /\ EndTask(s, why)

Starts(s) == task[s] \in {"connecting", "starting"} /\ SetTask(s, "relay")

LearnReason(s, why) == ~dead[s] /\ (why = Faults \/ (why = {} /\ dead[Other(s)]))

Learns(s) == \E why : LearnReason(s, why) /\ Learn(s, why)

StopReason(why) == slipstream /\ ~gone /\ (why = Faults \/ (why = {} /\ task["client"] = "ended"))

Stops == \E why : StopReason(why) /\ ThreadStops(why)

Hop(d) ==
    \/ TcpRead(d) \/ Write(d) \/ ShutTransport(d) \/ Read(d) \/ TcpWrite(d) \/ ShutTcp(d)

LEMMA Ends ==
    ASSUME NEW d \in Dir
    PROVE  Src(d) \in Side /\ Dst(d) \in Side /\ Src(d) # Dst(d)
           /\ HopTo(d) \in Dir
           /\ Src("up") = "client" /\ Dst("up") = "server"
           /\ Src("down") = "server" /\ Dst("down") = "client"
BY DEF Src, Dst, Dir, Side, HopTo

LEMMA StepKind ==
    ASSUME [Next]_vars
    PROVE  \/ UNCHANGED vars
           \/ Stops
           \/ \E d \in Dir : Send(d) \/ OriginEnds(d) \/ Hop(d) \/ Transmit(d) \/ Deliver(d)
           \/ \E s \in Side : Starts(s) \/ TaskEnds(s) \/ Learns(s)
<1>1. CASE Connect \/ Handle
  BY <1>1 DEF Connect, Handle, Starts, Side
<1>2. CASE ConnectFails
  <2>1. EndReason("client", Faults) BY <1>2 DEF ConnectFails, EndReason
  <2> QED BY <1>2, <2>1 DEF ConnectFails, TaskEnds, Side
<1>3. CASE Refused
  <2>1. EndReason("server", {"refused"} \X Dir) BY <1>3 DEF Refused, EndReason
  <2> QED BY <1>3, <2>1 DEF Refused, TaskEnds, Side
<1>4. CASE EchoReturns
  <2>1. EndReason("server", {}) BY <1>4 DEF EchoReturns, EndReason, Idle
  <2> QED BY <1>4, <2>1 DEF EchoReturns, TaskEnds, Side
<1>5. ASSUME NEW s \in Side, RelayReturns(s) PROVE TaskEnds(s)
  <2>1. EndReason(s, {}) BY <1>5 DEF RelayReturns, EndReason
  <2> QED BY <1>5, <2>1 DEF RelayReturns, TaskEnds
<1>6. ASSUME NEW d \in Dir, WriteFails(d) PROVE TaskEnds(Src(d))
  <2>1. EndReason(Src(d), {}) BY <1>6 DEF WriteFails, EndReason
  <2> QED BY <1>6, <2>1 DEF WriteFails, TaskEnds
<1>7. ASSUME NEW d \in Dir, ReadFails(d) PROVE TaskEnds(Dst(d))
  <2>1. EndReason(Dst(d), {}) BY <1>7 DEF ReadFails, EndReason, Idle
  <2> QED BY <1>7, <2>1 DEF ReadFails, TaskEnds
<1>8. ASSUME NEW s \in Side, Reset(s) PROVE TaskEnds(s)
  <2>1. EndReason(s, Faults) BY <1>8 DEF Reset, EndReason
  <2> QED BY <1>8, <2>1 DEF Reset, TaskEnds
<1>9. ASSUME NEW s \in Side, CloseArrives(s) PROVE Learns(s)
  <2>1. LearnReason(s, {}) BY <1>9 DEF CloseArrives, LearnReason
  <2> QED BY <1>9, <2>1 DEF CloseArrives, Learns
<1>10. ASSUME NEW s \in Side, ConnLost(s) PROVE Learns(s)
  <2>1. LearnReason(s, Faults) BY <1>10 DEF ConnLost, LearnReason
  <2> QED BY <1>10, <2>1 DEF ConnLost, Learns
<1>11. CASE ThreadFails
  BY <1>11 DEF ThreadFails, Stops, StopReason
<1>12. CASE Abandoned
  BY <1>12 DEF Abandoned, Stops, StopReason
<1> HIDE DEF Connect, Handle, ConnectFails, Refused, EchoReturns, ThreadFails, Abandoned
<1>13. CASE Tasks
  <2>1. ASSUME NEW d \in Dir, Relay(d) PROVE Hop(d) \/ TaskEnds(Src(d)) \/ TaskEnds(Dst(d))
    BY <1>6, <1>7, <2>1 DEF Relay, Hop
  <2> QED BY <1>1, <1>2, <1>3, <1>4, <1>5, <1>13, <2>1, Ends DEF Tasks
<1>14. CASE Network
  BY <1>9, <1>12, <1>14 DEF Network
<1>15. CASE Environment
  BY <1>8, <1>10, <1>11, <1>15 DEF Environment
<1> QED BY <1>13, <1>14, <1>15 DEF Next

-----------------------------------------------------------------------------
(* Types.                                                                  *)

ClientRuns == task["client"] \in {"connecting", "relay", "ended"}

Types == TypeOK /\ ClientRuns

LEMMA TypesInit == Init => Types
<1> SUFFICES ASSUME Init PROVE Types OBVIOUS
<1> USE ConstantsAssumption
<1>1. TaskOK /\ ClientRuns
  <2>1. kind \in Kinds /\ mode \in Modes /\ gone \in BOOLEAN /\ dead \in [Side -> BOOLEAN]
    BY DEF Init
  <2>2. done \in [Side -> [Dir -> BOOLEAN]]
    BY DEF Init
  <2>3. held \in [Side -> [Dir -> Item]]
    BY DEF Init, Item
  <2>4. /\ task \in [Side -> {"none", "connecting", "starting", "relay", "ended"}]
        /\ ClientRuns
    BY DEF Init, ClientRuns, Side
  <2> QED BY <2>1, <2>2, <2>3, <2>4 DEF TaskOK
<1>2. TcpOK
  <2>1. <<>> \in Seq(Item \ {Fin}) OBVIOUS
  <2> QED BY <2>1 DEF Init, TcpOK, Dir, Item
<1>3. QueueOK
  <2>1. <<>> \in Seq(Item) /\ Len(<<>>) = 0 OBVIOUS
  <2> QED BY <2>1 DEF Init, QueueOK, Dir
<1>4. ExcuseOK
  BY DEF Init, ExcuseOK
<1> QED BY <1>1, <1>2, <1>3, <1>4 DEF Types, TypeOK

\* What comes out of QUIC reaches the receive channel, or is lost for a reason.
Losses == {"endLost", "overflow", "unopened", "tail"}

Queued(d, x) ==
    /\ task[Dst(d)] # "ended" /\ (slipstream => Len(recvQ[d]) < RecvCap)
    /\ recvQ' = [recvQ EXCEPT ![d] = Append(@, x)]

Dropped(d, x) ==
    /\ task[Dst(d)] = "ended" \/ x = Fin \/ <<"overflow", d>> \in excuse'
    /\ recvQ' = recvQ

LEMMA ArriveKind ==
    ASSUME Types, NEW d \in Dir, NEW x \in Item, NEW why, Arrive(d, x, why)
    PROVE  /\ task' = task \/ (task[Dst(d)] = "none" /\ task' = [task EXCEPT ![Dst(d)] = "starting"])
           /\ excuse \subseteq excuse' /\ why \subseteq excuse'
           /\ excuse' \subseteq excuse \cup why \cup (Losses \X Dir)
           /\ Queued(d, x) \/ Dropped(d, x)
<1>0. /\ <<"unopened", d>> \in Losses \X Dir
      /\ <<IF x = Fin THEN "endLost" ELSE "overflow", d>> \in Losses \X Dir
  BY DEF Losses
<1>a. RecvCap \in Nat /\ Len(recvQ[d]) \in Nat
  BY ConstantsAssumption DEF Types, TypeOK, QueueOK
<1>1. ASSUME task[Dst(d)] # "ended", Push(d, x, why)
      PROVE  /\ excuse \subseteq excuse' /\ why \subseteq excuse'
             /\ excuse' \subseteq excuse \cup why \cup (Losses \X Dir)
             /\ Queued(d, x) \/ Dropped(d, x)
  <2>1. CASE slipstream /\ Len(recvQ[d]) >= RecvCap
    <3>1. /\ excuse' = excuse \cup why \cup {<<IF x = Fin THEN "endLost" ELSE "overflow", d>>}
          /\ recvQ' = recvQ
      BY <1>1, <2>1, Zenon DEF Push
    <3>2. x = Fin \/ <<"overflow", d>> \in excuse'
      BY <3>1
    <3>3. Dropped(d, x) BY <3>1, <3>2, Zenon DEF Dropped
    <3>4. excuse' \subseteq excuse \cup why \cup (Losses \X Dir)
      BY <1>0, <3>1, Zenon
    <3> QED BY <3>1, <3>3, <3>4, Zenon
  <2>2. CASE ~(slipstream /\ Len(recvQ[d]) >= RecvCap)
    <3>1. recvQ' = [recvQ EXCEPT ![d] = Append(@, x)] /\ excuse' = excuse \cup why
      BY <1>1, <2>2, Zenon DEF Push
    <3>2. slipstream => Len(recvQ[d]) < RecvCap BY <1>a, <2>2
    <3> QED BY <1>1, <3>1, <3>2, Zenon DEF Queued
  <2> QED BY <2>1, <2>2, Zenon
<1>2. CASE task[Dst(d)] = "none" /\ slipstream /\ x = Fin
           /\ excuse' = excuse \cup why \cup {<<"unopened", d>>} /\ UNCHANGED <<task, recvQ>>
  <2>1. Dropped(d, x) BY <1>2 DEF Dropped
  <2> QED BY <1>0, <1>2, <2>1, Zenon
<1>3. CASE task[Dst(d)] = "none" /\ task' = [task EXCEPT ![Dst(d)] = "starting"] /\ Push(d, x, why)
  <2>1. task[Dst(d)] # "ended" BY <1>3
  <2> QED BY <1>1, <1>3, <2>1, Zenon
<1>4. CASE task[Dst(d)] = "ended" /\ excuse' = excuse \cup why /\ UNCHANGED <<task, recvQ>>
  <2>1. Dropped(d, x) BY <1>4, Zenon DEF Dropped
  <2> QED BY <1>4, <2>1, Zenon
<1>5. CASE task[Dst(d)] \notin {"none", "ended"} /\ Push(d, x, why) /\ UNCHANGED task
  <2>1. task[Dst(d)] # "ended" BY <1>5
  <2> QED BY <1>1, <1>5, <2>1, Zenon
<1> QED BY <1>2, <1>3, <1>4, <1>5, Zenon DEF Arrive

LEMMA Setting == [Next]_vars => kind' = kind /\ mode' = mode
<1> SUFFICES ASSUME [Next]_vars PROVE kind' = kind /\ mode' = mode OBVIOUS
<1>1. CASE UNCHANGED vars BY <1>1 DEF vars
<1>2. CASE Stops BY <1>2 DEF Stops, ThreadStops
<1>3. ASSUME NEW d \in Dir, Send(d) \/ OriginEnds(d) \/ Hop(d) PROVE kind' = kind /\ mode' = mode
  BY <1>3, Zenon DEF Send, OriginEnds, Hop, TcpRead, Write, ShutTransport, Read, TcpWrite, ShutTcp
<1>4. ASSUME NEW d \in Dir, Transmit(d) \/ Deliver(d) PROVE kind' = kind /\ mode' = mode
  BY <1>4, Zenon DEF Transmit, Deliver
<1>5. ASSUME NEW s \in Side, Starts(s) \/ TaskEnds(s) \/ Learns(s) PROVE kind' = kind /\ mode' = mode
  BY <1>5, Zenon DEF Starts, SetTask, TaskEnds, EndTask, Learns, Learn
<1> QED BY <1>1, <1>2, <1>3, <1>4, <1>5, StepKind

\* A queue that took an item or gave one.
LEMMA QueueTypes ==
    ASSUME NEW S, NEW f \in [Dir -> Seq(S)], NEW d \in Dir
    PROVE  /\ \A x \in S : /\ [f EXCEPT ![d] = Append(@, x)] \in [Dir -> Seq(S)]
                            /\ Len(Append(f[d], x)) = Len(f[d]) + 1
           /\ f[d] # <<>> => /\ [f EXCEPT ![d] = Tail(@)] \in [Dir -> Seq(S)]
                             /\ Len(Tail(f[d])) = Len(f[d]) - 1 /\ Head(f[d]) \in S
           /\ [f EXCEPT ![d] = <<>>] \in [Dir -> Seq(S)] /\ Len(<<>>) = 0
           /\ \A e \in Dir : Len(f[e]) \in Nat
<1>1. f[d] \in Seq(S) OBVIOUS
<1>2. ASSUME NEW x \in S
      PROVE  /\ [f EXCEPT ![d] = Append(@, x)] \in [Dir -> Seq(S)]
             /\ Len(Append(f[d], x)) = Len(f[d]) + 1
  <2>1. Append(f[d], x) \in Seq(S) /\ Len(Append(f[d], x)) = Len(f[d]) + 1 BY <1>1
  <2> QED BY <2>1
<1>3. ASSUME f[d] # <<>>
      PROVE  /\ [f EXCEPT ![d] = Tail(@)] \in [Dir -> Seq(S)]
             /\ Len(Tail(f[d])) = Len(f[d]) - 1 /\ Head(f[d]) \in S
  <2>1. Tail(f[d]) \in Seq(S) /\ Len(Tail(f[d])) = Len(f[d]) - 1 /\ Head(f[d]) \in S BY <1>1, <1>3
  <2> QED BY <2>1
<1>4. [f EXCEPT ![d] = <<>>] \in [Dir -> Seq(S)] /\ Len(<<>>) = 0
  <2>1. <<>> \in Seq(S) /\ Len(<<>>) = 0 OBVIOUS
  <2> QED BY <2>1
<1>5. \A e \in Dir : Len(f[e]) \in Nat
  <2>1. ASSUME NEW e \in Dir PROVE Len(f[e]) \in Nat
    <3>1. f[e] \in Seq(S) OBVIOUS
    <3> QED BY <3>1
  <2> QED BY <2>1
<1> QED BY <1>2, <1>3, <1>4, <1>5

LEMMA QueueTypesSend ==
    ASSUME Types, NEW d \in Dir, NEW x \in Item, Room(d), Put(d, x), UNCHANGED <<kind, recvQ>>
    PROVE  QueueOK'
<1>1. /\ sendQ \in [Dir -> Seq(Item)] /\ recvQ \in [Dir -> Seq(Item)] /\ net \in [Dir -> Seq(Item)]
      /\ slipstream => \A e \in Dir : Len(sendQ[e]) <= SendCap /\ Len(recvQ[e]) <= RecvCap
  BY Zenon DEF Types, TypeOK, QueueOK
<1>2. slipstream' = slipstream /\ recvQ' = recvQ BY DEF slipstream
<1>3. CASE slipstream
  <2>1. sendQ' = [sendQ EXCEPT ![d] = Append(@, x)] /\ net' = net /\ Len(sendQ[d]) < SendCap
    BY <1>3, Zenon DEF Put, Room
  <2>2. sendQ' \in [Dir -> Seq(Item)] /\ Len(sendQ'[d]) = Len(sendQ[d]) + 1 /\ Len(sendQ[d]) \in Nat
    BY <1>1, <2>1, QueueTypes
  <2>3. \A e \in Dir : e # d => sendQ'[e] = sendQ[e] BY <1>1, <2>1
  <2>4. \A e \in Dir : Len(sendQ'[e]) <= SendCap
    BY <1>1, <1>3, <2>1, <2>2, <2>3, ConstantsAssumption
  <2> QED BY <1>1, <1>2, <1>3, <2>1, <2>2, <2>4, Zenon DEF QueueOK
<1>4. CASE ~slipstream
  <2>1. net' = [net EXCEPT ![d] = Append(@, x)] /\ sendQ' = sendQ BY <1>4, Zenon DEF Put
  <2>2. net' \in [Dir -> Seq(Item)] BY <1>1, <2>1, QueueTypes
  <2> QED BY <1>1, <1>2, <1>4, <2>1, <2>2, Zenon DEF QueueOK
<1> QED BY <1>3, <1>4

LEMMA QueueTypesArrive ==
    ASSUME Types, NEW d \in Dir, NEW x \in Item, Queued(d, x) \/ Dropped(d, x), kind' = kind,
           sendQ' \in [Dir -> Seq(Item)], net' \in [Dir -> Seq(Item)],
           \A e \in Dir : sendQ'[e] \in {sendQ[e], <<>>}
    PROVE  QueueOK'
<1>1. /\ sendQ \in [Dir -> Seq(Item)] /\ recvQ \in [Dir -> Seq(Item)] /\ net \in [Dir -> Seq(Item)]
      /\ slipstream => \A e \in Dir : Len(sendQ[e]) <= SendCap /\ Len(recvQ[e]) <= RecvCap
  BY Zenon DEF Types, TypeOK, QueueOK
<1>2. slipstream' = slipstream BY DEF slipstream
<1>3. recvQ' \in [Dir -> Seq(Item)]
  <2>1. CASE Queued(d, x)
    <3>1. recvQ' = [recvQ EXCEPT ![d] = Append(@, x)] BY <2>1 DEF Queued
    <3> QED BY <1>1, <3>1, QueueTypes
  <2>2. CASE Dropped(d, x) BY <1>1, <2>2 DEF Dropped
  <2> QED BY <2>1, <2>2
<1>4. ASSUME slipstream, NEW e \in Dir PROVE Len(recvQ'[e]) <= RecvCap
  <2>1. CASE recvQ' = recvQ BY <1>1, <1>4, <2>1
  <2>2. CASE Len(recvQ[d]) < RecvCap /\ recvQ' = [recvQ EXCEPT ![d] = Append(@, x)]
    <3>1. Len(recvQ'[d]) = Len(recvQ[d]) + 1 /\ Len(recvQ[d]) \in Nat BY <1>1, <2>2, QueueTypes
    <3>2. e # d => recvQ'[e] = recvQ[e] BY <1>1, <2>2
    <3> QED BY <1>1, <1>4, <2>2, <3>1, <3>2, ConstantsAssumption
  <2> QED BY <1>4, <2>1, <2>2 DEF Queued, Dropped
<1>5. ASSUME slipstream, NEW e \in Dir PROVE Len(sendQ'[e]) <= SendCap
  <2>1. Len(<<>>) <= SendCap BY ConstantsAssumption
  <2> QED BY <1>1, <1>5, <2>1
<1> QED BY <1>1, <1>2, <1>3, <1>4, <1>5 DEF QueueOK
\* The tasks, the TCP sides and the record are well typed after every step.
LEMMA TypesStep == Types /\ [Next]_vars => Types'
<1> SUFFICES ASSUME Types, [Next]_vars PROVE Types' OBVIOUS
<1> USE Ends
<1>0. kind' = kind /\ mode' = mode BY Setting
<1>1. /\ sendQ \in [Dir -> Seq(Item)] /\ recvQ \in [Dir -> Seq(Item)] /\ net \in [Dir -> Seq(Item)]
      /\ slipstream => \A e \in Dir : Len(sendQ[e]) <= SendCap /\ Len(recvQ[e]) <= RecvCap
      /\ slipstream' = slipstream
  BY <1>0, Zenon DEF Types, TypeOK, QueueOK, slipstream
<1>2. /\ UNCHANGED tcpVars => TcpOK'
      /\ UNCHANGED queues => QueueOK'
      /\ UNCHANGED excuse => ExcuseOK'
      /\ UNCHANGED <<task, done, held, dead, gone>> => TaskOK' /\ ClientRuns'
  <2>1. UNCHANGED tcpVars => TcpOK' BY DEF Types, TypeOK, TcpOK, tcpVars
  <2>2. UNCHANGED queues => QueueOK' BY <1>0 DEF Types, TypeOK, QueueOK, queues, slipstream
  <2>3. UNCHANGED excuse => ExcuseOK' BY DEF Types, TypeOK, ExcuseOK
  <2>4. ASSUME UNCHANGED <<task, done, held, dead, gone>> PROVE TaskOK' /\ ClientRuns'
    <3>1. task' = task /\ done' = done /\ held' = held /\ dead' = dead /\ gone' = gone BY <2>4
    <3> QED BY <1>0, <3>1, Zenon DEF Types, TypeOK, TaskOK, ClientRuns
  <2> QED BY <2>1, <2>2, <2>3, <2>4
<1>3. CASE UNCHANGED vars
  BY <1>2, <1>3 DEF vars, tcpVars, queues, Types, TypeOK
<1>4. CASE Stops
  <2>1. PICK why : StopReason(why) /\ ThreadStops(why) BY <1>4 DEF Stops
  <2>2. UNCHANGED <<task, done, held, tcpVars, recvQ, net>> BY <2>1 DEF ThreadStops
  <2>3. TaskOK' /\ ClientRuns'
    <3>1. gone' = TRUE /\ dead' = [dead EXCEPT !["client"] = TRUE] BY <2>1 DEF ThreadStops
    <3>2. dead' \in [Side -> BOOLEAN] BY <3>1, Zenon DEF Types, TypeOK, TaskOK
    <3> QED BY <1>0, <2>2, <3>1, <3>2 DEF Types, TypeOK, TaskOK, ClientRuns
  <2>4. QueueOK'
    <3>1. sendQ' = [sendQ EXCEPT !["up"] = <<>>] /\ recvQ' = recvQ /\ net' = net
      BY <2>1, <2>2 DEF ThreadStops
    <3>2. "up" \in Dir BY DEF Dir
    <3>3. sendQ' \in [Dir -> Seq(Item)] BY <1>1, <3>1, <3>2, QueueTypes
    <3>4. slipstream => \A e \in Dir : Len(sendQ'[e]) <= SendCap
      <4>1. Len(<<>>) <= SendCap BY ConstantsAssumption
      <4> QED BY <1>1, <3>1, <4>1
    <3> QED BY <1>1, <3>1, <3>3, <3>4, Zenon DEF QueueOK
  <2>5. ExcuseOK'
    BY <2>1 DEF ThreadStops, StopReason, Faults, Types, TypeOK, ExcuseOK
  <2> QED BY <1>2, <2>2, <2>3, <2>4, <2>5 DEF Types, TypeOK
<1>5. ASSUME NEW d \in Dir, Send(d) PROVE Types'
  <2>1. UNCHANGED <<task, done, held, over, end, taken, got, queues, dead, gone, excuse>>
    BY <1>5 DEF Send
  <2>2. TcpOK' BY <1>5, <2>1, ConstantsAssumption DEF Send, Types, TypeOK, TcpOK, Item
  <2> QED BY <1>2, <2>1, <2>2 DEF Types, TypeOK
<1>6. ASSUME NEW d \in Dir, OriginEnds(d) PROVE Types'
  <2>1. UNCHANGED <<task, done, held, sent, end, taken, got, queues, dead, gone, excuse>>
    BY <1>6 DEF OriginEnds
  <2>2. over' \in [Dir -> BOOLEAN] BY <1>6, Zenon DEF OriginEnds, Types, TypeOK, TcpOK
  <2>3. TcpOK' BY <2>1, <2>2 DEF Types, TypeOK, TcpOK
  <2> QED BY <1>2, <2>1, <2>3 DEF Types, TypeOK
<1>7. ASSUME NEW d \in Dir, TcpRead(d) PROVE Types'
  <2>1. UNCHANGED <<task, done, sent, over, end, got, queues, dead, gone, excuse>>
    BY <1>7 DEF TcpRead
  <2>2. taken[d] + 1 \in Item
    <3>1. taken[d] < sent[d] /\ taken[d] \in Item /\ sent[d] \in Item
      BY <1>7 DEF TcpRead, Types, TypeOK, TcpOK
    <3> QED BY <3>1, ConstantsAssumption DEF Item
  <2>3. TcpOK' BY <1>7, <2>1, <2>2 DEF TcpRead, Types, TypeOK, TcpOK
  <2>4. held' \in [Side -> [Dir -> Item]] BY <1>7, <2>2 DEF TcpRead, Types, TypeOK, TaskOK
  <2>5. TaskOK' /\ ClientRuns'
    BY <1>0, <2>1, <2>4 DEF Types, TypeOK, TaskOK, ClientRuns
  <2> QED BY <1>2, <2>1, <2>3, <2>5 DEF Types, TypeOK
<1>8. ASSUME NEW d \in Dir, Write(d) PROVE Types'
  <2> DEFINE x == held[Src(d)][HopTo(d)]
  <2>1. UNCHANGED <<task, done, tcpVars, recvQ, dead, gone, excuse>>
    BY <1>8 DEF Write
  <2>2. x \in Item BY DEF Types, TypeOK, TaskOK
  <2>3. QueueOK' BY <1>0, <1>8, <2>1, <2>2, QueueTypesSend DEF Write
  <2>4. held' \in [Side -> [Dir -> Item]]
    BY <1>8, ConstantsAssumption DEF Write, Types, TypeOK, TaskOK, Item
  <2>5. TaskOK' /\ ClientRuns'
    BY <1>0, <2>1, <2>4 DEF Types, TypeOK, TaskOK, ClientRuns
  <2> QED BY <1>2, <2>1, <2>3, <2>5 DEF Types, TypeOK
<1>9. ASSUME NEW d \in Dir, ShutTransport(d) PROVE Types'
  <2>1. UNCHANGED <<task, held, tcpVars, recvQ, dead, gone>>
    BY <1>9 DEF ShutTransport
  <2>2. Fin \in Item BY ConstantsAssumption DEF Fin, Item
  <2>3. done' \in [Side -> [Dir -> BOOLEAN]]
    BY <1>9 DEF ShutTransport, Types, TypeOK, TaskOK
  <2>4. TaskOK' /\ ClientRuns'
    BY <1>0, <2>1, <2>3 DEF Types, TypeOK, TaskOK, ClientRuns
  <2>5. CASE Room(d) /\ Put(d, Fin) /\ UNCHANGED excuse
    <3>1. QueueOK' BY <1>0, <2>1, <2>2, <2>5, QueueTypesSend
    <3> QED BY <1>2, <2>1, <2>4, <2>5, <3>1 DEF Types, TypeOK
  <2>6. CASE excuse' = excuse \cup {<<"endLost", d>>} /\ UNCHANGED <<sendQ, net>>
    <3>1. ExcuseOK' BY <2>6 DEF Types, TypeOK, ExcuseOK
    <3> QED BY <1>2, <2>1, <2>4, <2>6, <3>1 DEF Types, TypeOK, queues
  <2>7. CASE UNCHANGED <<sendQ, net, excuse>>
    BY <1>2, <2>1, <2>4, <2>7 DEF Types, TypeOK, queues
  <2> QED BY <1>9, <2>5, <2>6, <2>7, Zenon DEF ShutTransport
<1>10. ASSUME NEW d \in Dir, Read(d) PROVE Types'
  <2>1. UNCHANGED <<task, done, tcpVars, sendQ, net, dead, gone, excuse>>
    BY <1>10 DEF Read
  <2>2. recvQ[d] # <<>> /\ recvQ' = [recvQ EXCEPT ![d] = Tail(@)]
        /\ held' = [held EXCEPT ![Dst(d)][d] = Head(recvQ[d])]
    BY <1>10 DEF Read
  <2>3. /\ recvQ' \in [Dir -> Seq(Item)] /\ Len(Tail(recvQ[d])) = Len(recvQ[d]) - 1
        /\ Head(recvQ[d]) \in Item /\ Len(recvQ[d]) \in Nat
    BY <1>1, <2>2, QueueTypes
  <2>4. \A e \in Dir : recvQ'[e] = IF e = d THEN Tail(recvQ[d]) ELSE recvQ[e]
    BY <1>1, <2>2
  <2>5. slipstream => \A e \in Dir : Len(recvQ'[e]) <= RecvCap
    BY <1>1, <2>3, <2>4, ConstantsAssumption
  <2>6. sendQ' = sendQ /\ net' = net BY <2>1
  <2>7. QueueOK' BY <1>1, <2>3, <2>5, <2>6, Zenon DEF QueueOK
  <2>8. held' \in [Side -> [Dir -> Item]] BY <2>2, <2>3 DEF Types, TypeOK, TaskOK
  <2>9. TaskOK' /\ ClientRuns'
    BY <1>0, <2>1, <2>8 DEF Types, TypeOK, TaskOK, ClientRuns
  <2> QED BY <1>2, <2>1, <2>7, <2>9 DEF Types, TypeOK
<1>11. ASSUME NEW d \in Dir, TcpWrite(d) PROVE Types'
  <2>1. UNCHANGED <<task, done, sent, over, end, taken, queues, dead, gone, excuse>>
    BY <1>11 DEF TcpWrite
  <2>2. held[Dst(d)][d] \in Item \ {Fin}
    BY <1>11 DEF TcpWrite, Types, TypeOK, TaskOK, Fin
  <2>3. got' = [got EXCEPT ![d] = Append(@, held[Dst(d)][d])] /\ got \in [Dir -> Seq(Item \ {Fin})]
    BY <1>11 DEF TcpWrite, Types, TypeOK, TcpOK
  <2>4. got' \in [Dir -> Seq(Item \ {Fin})] BY <2>2, <2>3, QueueTypes
  <2>5. TcpOK' BY <2>1, <2>4 DEF Types, TypeOK, TcpOK
  <2>6. held' \in [Side -> [Dir -> Item]]
    BY <1>11, ConstantsAssumption DEF TcpWrite, Types, TypeOK, TaskOK, Item
  <2>7. TaskOK' /\ ClientRuns'
    BY <1>0, <2>1, <2>6 DEF Types, TypeOK, TaskOK, ClientRuns
  <2> QED BY <1>2, <2>1, <2>5, <2>7 DEF Types, TypeOK
<1>12. ASSUME NEW d \in Dir, ShutTcp(d) PROVE Types'
  <2>1. UNCHANGED <<task, held, sent, over, taken, got, queues, dead, gone, excuse>>
    BY <1>12 DEF ShutTcp
  <2>2. done' \in [Side -> [Dir -> BOOLEAN]]
    BY <1>12 DEF ShutTcp, Types, TypeOK, TaskOK
  <2>3. TaskOK' /\ ClientRuns'
    BY <1>0, <2>1, <2>2 DEF Types, TypeOK, TaskOK, ClientRuns
  <2>4. TcpOK' BY <1>12, <2>1 DEF ShutTcp, Shutdown, Types, TypeOK, TcpOK
  <2> QED BY <1>2, <2>1, <2>3, <2>4 DEF Types, TypeOK
<1>13. ASSUME NEW d \in Dir, Transmit(d) PROVE Types'
  <2>1. UNCHANGED <<task, done, held, tcpVars, recvQ, dead, gone, excuse>>
    BY <1>13 DEF Transmit
  <2>2. sendQ[d] # <<>> /\ sendQ' = [sendQ EXCEPT ![d] = Tail(@)]
    BY <1>13 DEF Transmit
  <2>n. net' = net \/ net' = [net EXCEPT ![d] = Append(@, Head(sendQ[d]))]
    BY <1>13 DEF Transmit
  <2>3. /\ sendQ' \in [Dir -> Seq(Item)] /\ Len(Tail(sendQ[d])) = Len(sendQ[d]) - 1
        /\ Head(sendQ[d]) \in Item /\ Len(sendQ[d]) \in Nat
    BY <1>1, <2>2, QueueTypes
  <2>4. net' \in [Dir -> Seq(Item)]
    <3>1. CASE net' = net BY <1>1, <3>1
    <3>2. CASE net' = [net EXCEPT ![d] = Append(@, Head(sendQ[d]))]
      <4>1. Head(sendQ[d]) \in Item BY <2>3
      <4>2. \A x \in Item : [net EXCEPT ![d] = Append(@, x)] \in [Dir -> Seq(Item)]
        BY <1>1, QueueTypes
      <4> QED BY <3>2, <4>1, <4>2
    <3> QED BY <2>n, <3>1, <3>2
  <2>5. \A e \in Dir : sendQ'[e] = IF e = d THEN Tail(sendQ[d]) ELSE sendQ[e]
    BY <1>1, <2>2
  <2>6. slipstream => \A e \in Dir : Len(sendQ'[e]) <= SendCap
    BY <1>1, <2>3, <2>5, ConstantsAssumption
  <2>7. recvQ' = recvQ BY <2>1
  <2>8. QueueOK' BY <1>1, <2>3, <2>4, <2>6, <2>7, Zenon DEF QueueOK
  <2> QED BY <1>2, <2>1, <2>8 DEF Types, TypeOK
<1>14. ASSUME NEW d \in Dir, Deliver(d) PROVE Types'
  <2>1. UNCHANGED <<done, held, tcpVars, sendQ, dead, gone>> /\ net[d] # <<>>
    BY <1>14 DEF Deliver
  <2>2. PICK x \in Item, why \in SUBSET (Losses \X Dir) : Arrive(d, x, why)
    <3>1. Head(net[d]) \in Item BY <1>1, <2>1, QueueTypes
    <3>2. Fin \in Item BY ConstantsAssumption DEF Fin, Item
    <3>3. {} \in SUBSET (Losses \X Dir) /\ {<<"tail", d>>} \in SUBSET (Losses \X Dir) BY DEF Losses
    <3> QED BY <1>14, <3>1, <3>2, <3>3, Zenon DEF Deliver
  <2>3. net' \in [Dir -> Seq(Item)]
    <3>1. CASE net' = [net EXCEPT ![d] = Tail(@)] BY <1>1, <2>1, <3>1, QueueTypes
    <3>2. CASE net' = [net EXCEPT ![d] = <<>>] BY <1>1, <3>2, QueueTypes
    <3> QED BY <1>14, <3>1, <3>2, Zenon DEF Deliver
  <2>4. sendQ' = sendQ BY <2>1
  <2>5. Queued(d, x) \/ Dropped(d, x) BY <2>2, ArriveKind, Zenon
  <2>6. QueueOK' BY <1>0, <1>1, <2>3, <2>4, <2>5, QueueTypesArrive
  <2>7. ExcuseOK'
    <3>1. excuse' \subseteq excuse \cup why \cup (Losses \X Dir) BY <2>2, ArriveKind, Zenon
    <3> QED BY <3>1 DEF Types, TypeOK, ExcuseOK, Losses
  <2>8. TaskOK' /\ ClientRuns'
    <3>1. task' = task \/ (task[Dst(d)] = "none" /\ task' = [task EXCEPT ![Dst(d)] = "starting"])
      BY <2>2, ArriveKind, Zenon
    <3>2. task' \in [Side -> {"none", "connecting", "starting", "relay", "ended"}] /\ ClientRuns'
      <4>1. CASE task' = task BY <4>1 DEF Types, TypeOK, TaskOK, ClientRuns
      <4>2. CASE task[Dst(d)] = "none" /\ task' = [task EXCEPT ![Dst(d)] = "starting"]
        <5>1. Dst(d) # "client" BY <4>2 DEF Types, ClientRuns
        <5> QED BY <4>2, <5>1 DEF Types, TypeOK, TaskOK, ClientRuns
      <4> QED BY <3>1, <4>1, <4>2
    <3> QED BY <1>0, <2>1, <3>2 DEF Types, TypeOK, TaskOK
  <2> QED BY <1>2, <2>1, <2>6, <2>7, <2>8 DEF Types, TypeOK
<1>15. ASSUME NEW s \in Side, Starts(s) PROVE Types'
  <2>1. UNCHANGED <<done, held, tcpVars, queues, dead, gone, excuse>> /\ task' = [task EXCEPT ![s] = "relay"]
    BY <1>15 DEF Starts, SetTask
  <2>2. TaskOK' /\ ClientRuns'
    BY <1>0, <2>1 DEF Types, TypeOK, TaskOK, ClientRuns
  <2> QED BY <1>2, <2>1, <2>2 DEF Types, TypeOK
<1>16. ASSUME NEW s \in Side, TaskEnds(s) PROVE Types'
  <2>1. PICK why : EndReason(s, why) /\ EndTask(s, why) BY <1>16 DEF TaskEnds
  <2>2. UNCHANGED <<done, sent, over, taken, got, sendQ, net, gone>> BY <2>1 DEF EndTask
  <2>3. To(s) \in Dir BY DEF To, Dir
  <2>4. TaskOK' /\ ClientRuns'
    <3>1. task' \in [Side -> {"none", "connecting", "starting", "relay", "ended"}] /\ ClientRuns'
      BY <2>1 DEF EndTask, Types, TypeOK, TaskOK, ClientRuns
    <3>2. held' \in [Side -> [Dir -> Item]]
      BY <2>1, ConstantsAssumption DEF EndTask, Types, TypeOK, TaskOK, Item
    <3>3. dead' \in [Side -> BOOLEAN]
      BY <2>1, Zenon DEF EndTask, Types, TypeOK, TaskOK
    <3> QED BY <1>0, <2>2, <3>1, <3>2, <3>3 DEF Types, TypeOK, TaskOK
  <2>5. TcpOK'
    <3>1. end' = end \/ CloseTcp(s) BY <2>1, Zenon DEF EndTask
    <3>2. end' \in [Dir -> {"open", "fin", "rst"}]
      BY <2>3, <3>1 DEF CloseTcp, Types, TypeOK, TcpOK
    <3> QED BY <2>2, <3>2 DEF Types, TypeOK, TcpOK
  <2>6. QueueOK'
    <3>1. recvQ' = [recvQ EXCEPT ![To(s)] = <<>>] /\ sendQ' = sendQ /\ net' = net
      BY <2>1, <2>2 DEF EndTask
    <3>2. recvQ' \in [Dir -> Seq(Item)] BY <1>1, <2>3, <3>1, QueueTypes
    <3>3. slipstream => \A e \in Dir : Len(recvQ'[e]) <= RecvCap
      <4>1. Len(<<>>) <= RecvCap BY ConstantsAssumption
      <4> QED BY <1>1, <3>1, <4>1
    <3> QED BY <1>1, <3>1, <3>2, <3>3, Zenon DEF QueueOK
  <2>7. ExcuseOK'
    <3>1. why \subseteq {"fault", "refused"} \X Dir BY <2>1 DEF EndReason, Faults
    <3>2. excuse' \subseteq excuse \cup why \cup {<<"silent", "down">>} BY <2>1 DEF EndTask
    <3> QED BY <3>1, <3>2 DEF Types, TypeOK, ExcuseOK, Dir
  <2> QED BY <2>4, <2>5, <2>6, <2>7 DEF Types, TypeOK
<1>17. ASSUME NEW s \in Side, Learns(s) PROVE Types'
  <2>1. PICK why : LearnReason(s, why) /\ Learn(s, why) BY <1>17 DEF Learns
  <2>2. UNCHANGED <<done, held, tcpVars, net, gone>> BY <2>1 DEF Learn
  <2>3. dead' \in [Side -> BOOLEAN] BY <2>1, Zenon DEF Learn, Types, TypeOK, TaskOK
  <2>4. sendQ' \in [Dir -> Seq(Item)] /\ \A e \in Dir : sendQ'[e] \in {sendQ[e], <<>>}
    <3>1. "down" \in Dir BY DEF Dir
    <3>2. CASE sendQ' = sendQ BY <1>1, <3>2
    <3>3. CASE sendQ' = [sendQ EXCEPT !["down"] = <<>>]
      <4>1. sendQ' \in [Dir -> Seq(Item)] BY <1>1, <3>1, <3>3, QueueTypes
      <4> QED BY <1>1, <3>3, <4>1
    <3> QED BY <2>1, <3>2, <3>3 DEF Learn
  <2>5. net' = net /\ Fin \in Item BY <2>2, ConstantsAssumption DEF Fin, Item
  <2>6. why \subseteq {"fault"} \X Dir BY <2>1 DEF LearnReason, Faults
  <2>7. CASE Arrive("down", Fin, why)
    <3>1. "down" \in Dir BY DEF Dir
    <3>2. /\ Queued("down", Fin) \/ Dropped("down", Fin)
          /\ task' = task \/ (task[Dst("down")] = "none" /\ task' = [task EXCEPT ![Dst("down")] = "starting"])
          /\ excuse' \subseteq excuse \cup why \cup (Losses \X Dir)
      BY <2>5, <2>7, <3>1, ArriveKind, Zenon
    <3>3. QueueOK' BY <1>0, <1>1, <2>4, <2>5, <3>1, <3>2, QueueTypesArrive
    <3>4. ExcuseOK' BY <2>6, <3>2 DEF Types, TypeOK, ExcuseOK, Losses
    <3>5. task' = task BY <3>2 DEF Types, ClientRuns, Dst
    <3>6. TaskOK' /\ ClientRuns'
      BY <1>0, <2>2, <2>3, <3>5 DEF Types, TypeOK, TaskOK, ClientRuns
    <3> QED BY <1>2, <2>2, <3>3, <3>4, <3>6 DEF Types, TypeOK
  <2>8. CASE excuse' = excuse \cup why /\ UNCHANGED <<task, recvQ>>
    <3>1. ExcuseOK' BY <2>6, <2>8 DEF Types, TypeOK, ExcuseOK
    <3>2. TaskOK' /\ ClientRuns'
      BY <1>0, <2>2, <2>3, <2>8 DEF Types, TypeOK, TaskOK, ClientRuns
    <3>3. slipstream => \A e \in Dir : Len(sendQ'[e]) <= SendCap
      <4>1. Len(<<>>) <= SendCap BY ConstantsAssumption
      <4> QED BY <1>1, <2>4, <4>1
    <3>4. recvQ' = recvQ BY <2>8
    <3>5. QueueOK' BY <1>1, <2>4, <2>5, <3>3, <3>4, Zenon DEF QueueOK
    <3> QED BY <1>2, <2>2, <3>1, <3>2, <3>5 DEF Types, TypeOK
  <2> QED BY <2>1, <2>7, <2>8, Zenon DEF Learn
<1> QED BY <1>3, <1>4, <1>5, <1>6, <1>7, <1>8, <1>9, <1>10, <1>11, <1>12, <1>13, <1>14, <1>15,
           <1>16, <1>17, StepKind DEF Hop

\* The variables have their types and slipstream's channels stay within their
\* capacities, whatever ends, fails or is dropped (relay_bidirectional over
\* SlipstreamStream and QuinnBidiStream).
THEOREM TypeCorrect == Spec => []TypeOK
<1>1. Types /\ UNCHANGED vars => Types' BY TypesStep
<1>2. Types => TypeOK BY DEF Types
<1> QED BY TypesInit, TypesStep, <1>2, PTL DEF Spec

-----------------------------------------------------------------------------
(* What the state of a connection never is.                                *)

\* quinn has neither a thread nor a send channel of its own.
TransportShape ==
    /\ ~slipstream => ~gone /\ \A d \in Dir : sendQ[d] = <<>>
    /\ gone => dead["client"]

\* In echo mode there is no upstream: nothing comes from it or goes to it.
EchoShape ==
    echo => /\ sent["down"] = 0 /\ taken["down"] = 0 /\ ~over["down"]
            /\ ~done["server"]["down"] /\ held["server"]["down"] = 0
            /\ got["up"] = <<>> /\ end["up"] = "open"

\* A task that ended holds nothing, and nobody fills its receive channel.
EndedShape ==
    \A s \in Side : task[s] = "ended" => (\A d \in Dir : held[s][d] = 0) /\ recvQ[To(s)] = <<>>

\* A hop that is done holds nothing, and read all that its origin sent.
DoneShape ==
    /\ \A s \in Side, d \in Dir : done[s][d] => held[s][d] = 0
    /\ \A d \in Dir : taken[d] <= sent[d] /\ (done[Src(d)][d] => over[d] /\ taken[d] = sent[d])

ShapeInv == TransportShape /\ EchoShape /\ EndedShape /\ DoneShape

LEMMA ShapeInit == Init => ShapeInv
<1> SUFFICES ASSUME Init PROVE ShapeInv OBVIOUS
<1> USE Ends
<1>1. TransportShape BY DEF Init, TransportShape
<1>2. EchoShape
  <2>1. /\ sent["down"] = 0 /\ taken["down"] = 0 /\ held["server"]["down"] = 0
        /\ got["up"] = <<>> /\ end["up"] = "open"
    BY DEF Init, Dir, Side
  <2>2. ~over["down"] /\ ~done["server"]["down"] BY DEF Init, Dir, Side
  <2> QED BY <2>1, <2>2 DEF EchoShape
<1>3. EndedShape BY DEF Init, EndedShape
<1>4. DoneShape
  <2>1. \A s \in Side, d \in Dir : ~done[s][d] BY DEF Init
  <2>2. \A d \in Dir : taken[d] <= sent[d] BY DEF Init
  <2> QED BY <2>1, <2>2 DEF DoneShape
<1> QED BY <1>1, <1>2, <1>3, <1>4 DEF ShapeInv

\* What the types say, for the leaves that need no more.
LEMMA TypeFacts ==
    ASSUME Types
    PROVE  /\ task \in [Side -> {"none", "connecting", "starting", "relay", "ended"}]
           /\ task["client"] # "none"
           /\ held \in [Side -> [Dir -> Item]] /\ Item \subseteq Nat /\ Fin \in Item
           /\ sent \in [Dir -> Item] /\ taken \in [Dir -> Item]
           /\ end \in [Dir -> {"open", "fin", "rst"}] /\ got \in [Dir -> Seq(Item \ {Fin})]
           /\ sendQ \in [Dir -> Seq(Item)] /\ recvQ \in [Dir -> Seq(Item)] /\ net \in [Dir -> Seq(Item)]
           /\ done \in [Side -> [Dir -> BOOLEAN]] /\ dead \in [Side -> BOOLEAN]
           /\ over \in [Dir -> BOOLEAN] /\ gone \in BOOLEAN
<1>1. Item \subseteq Nat /\ Fin \in Item BY ConstantsAssumption DEF Item, Fin
<1>2. task["client"] # "none" BY DEF Types, ClientRuns
<1> QED BY <1>1, <1>2, Zenon DEF Types, TypeOK, TaskOK, TcpOK, QueueOK

LEMMA ShapeStep == Types /\ ShapeInv /\ [Next]_vars => ShapeInv'
<1> SUFFICES ASSUME Types, ShapeInv, [Next]_vars PROVE ShapeInv' OBVIOUS
<1>t. /\ task \in [Side -> {"none", "connecting", "starting", "relay", "ended"}]
      /\ held \in [Side -> [Dir -> Item]] /\ Fin \in Item
      /\ sent \in [Dir -> Item] /\ taken \in [Dir -> Item] /\ got \in [Dir -> Seq(Item \ {Fin})]
      /\ end \in [Dir -> {"open", "fin", "rst"}]
      /\ sendQ \in [Dir -> Seq(Item)] /\ recvQ \in [Dir -> Seq(Item)] /\ net \in [Dir -> Seq(Item)]
  BY TypeFacts, Zenon
<1>u. done \in [Side -> [Dir -> BOOLEAN]] /\ dead \in [Side -> BOOLEAN] /\ over \in [Dir -> BOOLEAN]
  BY TypeFacts, Zenon
<1> USE Ends, <1>t
<1>0. slipstream' = slipstream /\ echo' = echo BY Setting DEF slipstream, echo
<1>a. \A e \in Dir : taken[e] <= sent[e] /\ sent[e] \in Nat /\ taken[e] \in Nat
  <2>1. \A e \in Dir : taken[e] <= sent[e] BY Zenon DEF ShapeInv, DoneShape
  <2>2. \A e \in Dir : sent[e] \in Nat /\ taken[e] \in Nat BY TypeFacts
  <2> QED BY <2>1, <2>2
<1>b. /\ \A s \in Side, e \in Dir : done[s][e] => held[s][e] = 0
      /\ \A s \in Side : task[s] = "ended" => (\A e \in Dir : held[s][e] = 0) /\ recvQ[To(s)] = <<>>
  BY Zenon DEF ShapeInv, DoneShape, EndedShape
<1>1. /\ UNCHANGED <<sendQ, dead, gone>> => TransportShape'
      /\ UNCHANGED <<done, held, sent, taken, over, end, got>> => EchoShape' /\ DoneShape'
      /\ UNCHANGED <<task, held, recvQ>> => EndedShape'
  <2>1. UNCHANGED <<sendQ, dead, gone>> => TransportShape'
    BY <1>0 DEF ShapeInv, TransportShape
  <2>2. UNCHANGED <<done, held, sent, taken, over, end, got>> => EchoShape' /\ DoneShape'
    BY <1>0 DEF ShapeInv, EchoShape, DoneShape
  <2>3. UNCHANGED <<task, held, recvQ>> => EndedShape' BY DEF ShapeInv, EndedShape
  <2> QED BY <2>1, <2>2, <2>3
<1>2. CASE UNCHANGED vars
  BY <1>1, <1>2 DEF vars, tcpVars, queues, ShapeInv
<1>3. CASE Stops
  <2>1. PICK why : StopReason(why) /\ ThreadStops(why) BY <1>3 DEF Stops
  <2>2. UNCHANGED <<task, done, held, tcpVars, recvQ>> BY <2>1 DEF ThreadStops
  <2>3. TransportShape'
    <3>1. slipstream /\ dead' = [dead EXCEPT !["client"] = TRUE] BY <2>1 DEF ThreadStops, StopReason
    <3>2. dead'["client"] BY <1>u, <3>1, Zenon DEF Side
    <3> QED BY <1>0, <3>1, <3>2, Zenon DEF TransportShape
  <2> QED BY <1>1, <2>2, <2>3 DEF tcpVars, ShapeInv
<1>4. ASSUME NEW d \in Dir, Send(d) PROVE ShapeInv'
  <2>1. UNCHANGED <<task, done, held, over, end, taken, got, queues, dead, gone>>
        /\ TcpOpen(d) /\ ~over[d] /\ sent' = [sent EXCEPT ![d] = @ + 1]
    BY <1>4 DEF Send
  <2>2. EchoShape'
    <3>1. echo => d = "up" BY <2>1 DEF TcpOpen, Dir
    <3>2. sent'["down"] = sent["down"] \/ ~echo BY <2>1, <3>1
    <3> QED BY <1>0, <2>1, <3>2 DEF ShapeInv, EchoShape
  <2>3. DoneShape'
    <3>1. \A e \in Dir : sent'[e] = IF e = d THEN sent[e] + 1 ELSE sent[e] BY <2>1
    <3>3. \A e \in Dir : taken[e] <= sent'[e] BY ONLY <1>a, <3>1
    <3>4. \A e \in Dir : done[Src(e)][e] => over[e] /\ taken[e] = sent'[e]
      BY <2>1, <3>1 DEF ShapeInv, DoneShape
    <3> QED BY <2>1, <3>3, <3>4 DEF ShapeInv, DoneShape
  <2> QED BY <1>1, <2>1, <2>2, <2>3 DEF queues, ShapeInv
<1>5. ASSUME NEW d \in Dir, OriginEnds(d) PROVE ShapeInv'
  <2>1. UNCHANGED <<task, done, held, sent, end, taken, got, queues, dead, gone>>
        /\ TcpOpen(d) /\ over' = [over EXCEPT ![d] = TRUE]
    BY <1>5 DEF OriginEnds
  <2>2. EchoShape'
    <3>1. echo => d = "up" BY <2>1 DEF TcpOpen, Dir
    <3>2. over'["down"] = over["down"] \/ ~echo BY <1>u, <2>1, <3>1, Zenon DEF Dir
    <3> QED BY <1>0, <2>1, <3>2 DEF ShapeInv, EchoShape
  <2>3. DoneShape'
    <3>1. \A e \in Dir : over[e] => over'[e] BY <2>1
    <3> QED BY <2>1, <3>1 DEF ShapeInv, DoneShape
  <2> QED BY <1>1, <2>1, <2>2, <2>3 DEF queues, ShapeInv
<1>6. ASSUME NEW d \in Dir, TcpRead(d) PROVE ShapeInv'
  <2>1. UNCHANGED <<task, done, sent, over, end, got, queues, dead, gone>>
        /\ Idle(Src(d), d) /\ taken[d] < sent[d]
        /\ taken' = [taken EXCEPT ![d] = @ + 1] /\ held' = [held EXCEPT ![Src(d)][d] = taken[d] + 1]
    BY <1>6 DEF TcpRead
  <2>2. echo => d = "up" BY <2>1 DEF ShapeInv, EchoShape, Dir
  <2>3. \A s \in Side, e \in Dir : ~(s = Src(d) /\ e = d) => held'[s][e] = held[s][e]
    BY <2>1
  <2>4. EchoShape'
    <3>1. echo => taken'["down"] = taken["down"] BY <2>1, <2>2
    <3>2. echo => held'["server"]["down"] = held["server"]["down"] BY <2>2, <2>3 DEF Side, Dir
    <3> QED BY <1>0, <2>1, <3>1, <3>2 DEF ShapeInv, EchoShape
  <2>5. EndedShape'
    BY <2>1, <2>3 DEF ShapeInv, EndedShape, Idle, queues
  <2>6. DoneShape'
    <3>1. \A e \in Dir : taken'[e] = IF e = d THEN taken[e] + 1 ELSE taken[e] BY <2>1
    <3>2. ~done[Src(d)][d] BY <2>1 DEF Idle
    <3>4. \A e \in Dir : taken'[e] <= sent[e] BY <1>a, <2>1, <3>1
    <3>5. \A e \in Dir : done[Src(e)][e] => over[e] /\ taken'[e] = sent[e]
      BY <3>1, <3>2 DEF ShapeInv, DoneShape
    <3>6. \A s \in Side, e \in Dir : done[s][e] => held'[s][e] = 0
      BY ONLY <1>b, <2>3, <3>2
    <3> QED BY <2>1, <3>4, <3>5, <3>6 DEF DoneShape
  <2> QED BY <1>1, <2>1, <2>4, <2>5, <2>6 DEF queues, ShapeInv
<1>7. ASSUME NEW d \in Dir, Write(d) PROVE ShapeInv'
  <2>1. UNCHANGED <<task, done, tcpVars, recvQ, dead, gone>>
        /\ held' = [held EXCEPT ![Src(d)][HopTo(d)] = 0]
    BY <1>7 DEF Write
  <2>2. ~slipstream => sendQ' = sendQ BY <1>7, Zenon DEF Write, Put
  <2>3. \A s \in Side, e \in Dir : held'[s][e] = held[s][e] \/ held'[s][e] = 0
    BY <2>1
  <2>4. TransportShape' BY <1>0, <2>1, <2>2 DEF ShapeInv, TransportShape
  <2>5. held["server"]["down"] = 0 => held'["server"]["down"] = 0 BY <2>3 DEF Side, Dir
  <2>6. EchoShape' BY <1>0, <2>1, <2>5 DEF ShapeInv, EchoShape, tcpVars
  <2>7. EndedShape' BY <2>1, <2>3 DEF ShapeInv, EndedShape
  <2>8. DoneShape' BY <2>1, <2>3 DEF ShapeInv, DoneShape, tcpVars
  <2> QED BY <2>4, <2>6, <2>7, <2>8 DEF ShapeInv
<1>8. ASSUME NEW d \in Dir, ShutTransport(d) PROVE ShapeInv'
  <2>1. UNCHANGED <<task, held, tcpVars, recvQ, dead, gone>>
        /\ Idle(Src(d), d) /\ over[d] /\ taken[d] = sent[d] /\ done' = [done EXCEPT ![Src(d)][d] = TRUE]
    BY <1>8 DEF ShutTransport
  <2>2. ~slipstream => sendQ' = sendQ BY <1>8 DEF ShutTransport, Put
  <2>3. \A s \in Side, e \in Dir : done'[s][e] => done[s][e] \/ (s = Src(d) /\ e = d)
    BY <2>1
  <2>4. TransportShape' BY <1>0, <2>1, <2>2 DEF ShapeInv, TransportShape
  <2>5. EchoShape'
    <3>1. echo => ~done'["server"]["down"] BY <2>1, <2>3 DEF ShapeInv, EchoShape, Side, Dir
    <3> QED BY <1>0, <2>1, <3>1 DEF ShapeInv, EchoShape, tcpVars
  <2>6. DoneShape' BY <2>1, <2>3 DEF ShapeInv, DoneShape, tcpVars, Idle
  <2> QED BY <1>1, <2>1, <2>4, <2>5, <2>6 DEF ShapeInv
<1>9. ASSUME NEW d \in Dir, Read(d) PROVE ShapeInv'
  <2>1. UNCHANGED <<task, done, tcpVars, sendQ, net, dead, gone>>
        /\ Idle(Dst(d), d) /\ recvQ[d] # <<>>
        /\ held' = [held EXCEPT ![Dst(d)][d] = Head(recvQ[d])] /\ recvQ' = [recvQ EXCEPT ![d] = Tail(@)]
    BY <1>9 DEF Read
  <2>2. \A s \in Side, e \in Dir : ~(s = Dst(d) /\ e = d) => held'[s][e] = held[s][e]
    BY <2>1
  <2>3. EchoShape'
    <3>1. held'["server"]["down"] = held["server"]["down"] BY <2>2 DEF Dst, Side, Dir
    <3> QED BY <1>0, <2>1, <3>1 DEF ShapeInv, EchoShape, tcpVars
  <2>4. EndedShape'
    <3>1. \A s \in Side : task[s] = "ended" => recvQ'[To(s)] = recvQ[To(s)]
      <4>1. ASSUME NEW s \in Side, task[s] = "ended" PROVE To(s) \in Dir /\ To(s) # d
        BY <2>1, <4>1 DEF Idle, To, Dst, Side, Dir
      <4> QED BY <2>1, <4>1
    <3>2. task[Dst(d)] # "ended" BY <2>1 DEF Idle
    <3>3. \A s \in Side : task[s] = "ended" => \A e \in Dir : held'[s][e] = held[s][e]
      BY <2>2, <3>2
    <3>4. task' = task BY <2>1
    <3> QED BY ONLY <1>b, <3>1, <3>3, <3>4 DEF EndedShape
  <2>5. DoneShape' BY <2>1, <2>2 DEF ShapeInv, DoneShape, tcpVars, Idle
  <2> QED BY <1>1, <2>1, <2>3, <2>4, <2>5 DEF ShapeInv
<1>10. ASSUME NEW d \in Dir, TcpWrite(d) PROVE ShapeInv'
  <2>1. UNCHANGED <<task, done, sent, over, end, taken, queues, dead, gone>>
        /\ (d = "up" => ~echo) /\ got' = [got EXCEPT ![d] = Append(@, held[Dst(d)][d])]
        /\ held' = [held EXCEPT ![Dst(d)][d] = 0]
    BY <1>10 DEF TcpWrite
  <2>2. \A s \in Side, e \in Dir : held'[s][e] = held[s][e] \/ held'[s][e] = 0
    BY <2>1
  <2>3. EchoShape'
    <3>1. held["server"]["down"] = 0 => held'["server"]["down"] = 0 BY <2>2 DEF Side, Dir
    <3>2. echo => got'["up"] = got["up"] BY <2>1 DEF Dir
    <3> QED BY <1>0, <2>1, <3>1, <3>2 DEF ShapeInv, EchoShape
  <2>4. EndedShape' BY <2>1, <2>2 DEF ShapeInv, EndedShape, queues
  <2>5. DoneShape' BY <2>1, <2>2 DEF ShapeInv, DoneShape
  <2> QED BY <1>1, <2>1, <2>3, <2>4, <2>5 DEF ShapeInv, queues
<1>11. ASSUME NEW d \in Dir, ShutTcp(d) PROVE ShapeInv'
  <2>1. UNCHANGED <<task, held, sent, over, taken, got, queues, dead, gone>>
        /\ Idle(Dst(d), d) /\ (d = "up" => ~echo) /\ done' = [done EXCEPT ![Dst(d)][d] = TRUE]
        /\ end' = [end EXCEPT ![d] = "fin"]
    BY <1>11 DEF ShutTcp, Shutdown
  <2>2. \A s \in Side, e \in Dir : done'[s][e] => done[s][e] \/ (s = Dst(d) /\ e = d)
    BY <2>1
  <2>3. EchoShape'
    <3>1. done'["server"]["down"] => done["server"]["down"] BY <2>2 DEF Dst, Side, Dir
    <3>2. echo => end'["up"] = end["up"] BY <2>1 DEF Dir
    <3> QED BY <1>0, <2>1, <3>1, <3>2 DEF ShapeInv, EchoShape
  <2>4. DoneShape'
    <3>1. \A e \in Dir : done'[Src(e)][e] => done[Src(e)][e] BY <2>2
    <3> QED BY <2>1, <2>2, <3>1 DEF ShapeInv, DoneShape, Idle
  <2> QED BY <1>1, <2>1, <2>3, <2>4 DEF ShapeInv, queues
<1>12. ASSUME NEW d \in Dir, Transmit(d) PROVE ShapeInv'
  <2>1. UNCHANGED <<task, done, held, tcpVars, recvQ, dead, gone>> /\ sendQ[d] # <<>>
        /\ sendQ' = [sendQ EXCEPT ![d] = Tail(@)]
    BY <1>12 DEF Transmit
  <2>2. TransportShape' BY <1>0, <2>1 DEF ShapeInv, TransportShape
  <2> QED BY <1>1, <2>1, <2>2 DEF ShapeInv, tcpVars
<1>13. ASSUME NEW d \in Dir, NEW x \in Item, NEW why, Arrive(d, x, why) PROVE EndedShape' \/ held' # held
  <2>1. /\ task' = task \/ (task[Dst(d)] = "none" /\ task' = [task EXCEPT ![Dst(d)] = "starting"])
        /\ Queued(d, x) \/ Dropped(d, x)
    BY <1>13, ArriveKind, Zenon
  <2>2. \A s \in Side : task'[s] = "ended" => task[s] = "ended" BY <2>1
  <2>3. \A s \in Side : task[s] = "ended" => recvQ'[To(s)] = recvQ[To(s)]
    <3>1. CASE Queued(d, x)
      <4>1. task[Dst(d)] # "ended" /\ recvQ' = [recvQ EXCEPT ![d] = Append(@, x)] BY <3>1 DEF Queued
      <4>2. ASSUME NEW s \in Side, task[s] = "ended" PROVE To(s) \in Dir /\ To(s) # d
        BY <4>1, <4>2 DEF To, Dst, Side, Dir
      <4> QED BY <4>1, <4>2
    <3>2. CASE Dropped(d, x) BY <3>2 DEF Dropped
    <3> QED BY <2>1, <3>1, <3>2
  <2>4. held' = held => \A s \in Side : task[s] = "ended" => \A e \in Dir : held'[s][e] = 0
    BY DEF ShapeInv, EndedShape
  <2>5. \A s \in Side : task[s] = "ended" => recvQ[To(s)] = <<>> BY DEF ShapeInv, EndedShape
  <2> QED BY <2>2, <2>3, <2>4, <2>5 DEF EndedShape
<1>14. ASSUME NEW d \in Dir, Deliver(d) PROVE ShapeInv'
  <2>1. UNCHANGED <<done, held, tcpVars, sendQ, dead, gone>> /\ net[d] # <<>>
    BY <1>14 DEF Deliver
  <2>2. Head(net[d]) \in Item BY <2>1, QueueTypes
  <2>3. EndedShape' BY <1>13, <1>14, <2>1, <2>2, Zenon DEF Deliver
  <2> QED BY <1>1, <2>1, <2>3 DEF ShapeInv, tcpVars
<1>15. ASSUME NEW s \in Side, Starts(s) PROVE ShapeInv'
  <2>1. UNCHANGED <<done, held, tcpVars, queues, dead, gone>> /\ task' = [task EXCEPT ![s] = "relay"]
    BY <1>15 DEF Starts, SetTask
  <2>2. EndedShape' BY <2>1 DEF ShapeInv, EndedShape, queues
  <2> QED BY <1>1, <2>1, <2>2 DEF ShapeInv, tcpVars, queues
<1>16. ASSUME NEW s \in Side, TaskEnds(s) PROVE ShapeInv'
  <2>1. PICK why : EndReason(s, why) /\ EndTask(s, why) BY <1>16 DEF TaskEnds
  <2>2. UNCHANGED <<done, sent, over, taken, got, sendQ, gone>>
        /\ task' = [task EXCEPT ![s] = "ended"] /\ held' = [held EXCEPT ![s] = [d \in Dir |-> 0]]
        /\ recvQ' = [recvQ EXCEPT ![To(s)] = <<>>]
    BY <2>1 DEF EndTask
  <2>3. \A t \in Side, e \in Dir : held'[t][e] = IF t = s THEN 0 ELSE held[t][e] BY <2>2
  <2>4. TransportShape'
    <3>1. dead["client"] => dead'["client"] BY <1>u, <2>1, Zenon DEF EndTask, Side
    <3> QED BY <1>0, <2>2, <3>1, Zenon DEF ShapeInv, TransportShape
  <2>5. EchoShape'
    <3>1. echo => end'["up"] = end["up"]
      BY <2>1 DEF EndTask, CloseTcp, To, Side, Dir
    <3>2. held["server"]["down"] = 0 => held'["server"]["down"] = 0 BY <2>3 DEF Side, Dir
    <3> QED BY <1>0, <2>2, <3>1, <3>2 DEF ShapeInv, EchoShape
  <2>6. EndedShape'
    <3>1. ASSUME NEW t \in Side, task'[t] = "ended"
          PROVE  (\A d \in Dir : held'[t][d] = 0) /\ recvQ'[To(t)] = <<>>
      <4>1. t = s \/ task[t] = "ended" BY <2>2, <3>1
      <4>2. To(t) \in Dir /\ To(s) \in Dir BY DEF To, Dir
      <4> QED BY <2>2, <2>3, <4>1, <4>2 DEF ShapeInv, EndedShape
    <3> QED BY <3>1 DEF EndedShape
  <2>7. DoneShape' BY <2>2, <2>3 DEF ShapeInv, DoneShape
  <2> QED BY <2>4, <2>5, <2>6, <2>7 DEF ShapeInv
<1>17. ASSUME NEW s \in Side, Learns(s) PROVE ShapeInv'
  <2>1. PICK why : LearnReason(s, why) /\ Learn(s, why) BY <1>17 DEF Learns
  <2>2. UNCHANGED <<done, held, tcpVars, gone>> BY <2>1 DEF Learn
  <2>3. TransportShape'
    <3>1. dead["client"] => dead'["client"] BY <1>u, <2>1, Zenon DEF Learn, Side
    <3>2. \A d \in Dir : sendQ[d] = <<>> => sendQ'[d] = <<>> BY <2>1 DEF Learn
    <3> QED BY <1>0, <2>2, <3>1, <3>2 DEF ShapeInv, TransportShape
  <2>4. EndedShape'
    <3>1. CASE Arrive("down", Fin, why) BY <1>13, <2>2, <3>1 DEF Dir
    <3>2. CASE UNCHANGED <<task, recvQ>> BY <1>1, <2>2, <3>2
    <3> QED BY <2>1, <3>1, <3>2, Zenon DEF Learn
  <2> QED BY <1>1, <2>2, <2>3, <2>4 DEF ShapeInv, tcpVars
<1> QED BY <1>2, <1>3, <1>4, <1>5, <1>6, <1>7, <1>8, <1>9, <1>10, <1>11, <1>12, <1>14, <1>15,
           <1>16, <1>17, StepKind DEF Hop

-----------------------------------------------------------------------------
(* The end of a stream: nothing is behind it, anywhere on the way.         *)

HasFin(q) == \E i \in 1..Len(q) : q[i] = Fin
FinLast(q) == \A i \in 1..Len(q) : q[i] = Fin => i = Len(q)

\* The end leaves an origin whose hop is done, and is the last of all queues it
\* passed.  The client's reader also gets a marker when the connection is over.
SendFin(d) == HasFin(sendQ[d]) => done[Src(d)][d] /\ FinLast(sendQ[d])
NetFin(d) == HasFin(net[d]) => done[Src(d)][d] /\ FinLast(net[d]) /\ sendQ[d] = <<>>
RecvFin(d) ==
    HasFin(recvQ[d]) /\ ~dead[Dst(d)] =>
        done[Src(d)][d] /\ FinLast(recvQ[d]) /\ sendQ[d] = <<>> /\ net[d] = <<>>
FinInv == \A d \in Dir : SendFin(d) /\ NetFin(d) /\ RecvFin(d)

LEMMA FinEmpty == ~HasFin(<<>>) /\ FinLast(<<>>)
BY DEF HasFin, FinLast

LEMMA FinAppend ==
    ASSUME NEW q \in Seq(Item), NEW x \in Item
    PROVE  /\ HasFin(Append(q, x)) => HasFin(q) \/ x = Fin
           /\ ~HasFin(q) => FinLast(Append(q, x))
           /\ Append(q, x) # <<>>
<1>1. /\ Len(Append(q, x)) = Len(q) + 1 /\ Len(q) \in Nat
      /\ \A i \in 1..Len(q) : Append(q, x)[i] = q[i]
      /\ Append(q, x)[Len(q) + 1] = x
  OBVIOUS
<1>2. \A i \in 1..(Len(q) + 1) : i \in 1..Len(q) \/ i = Len(q) + 1 BY <1>1
<1>3. Append(q, x) # <<>> BY <1>1
<1>4. HasFin(Append(q, x)) => HasFin(q) \/ x = Fin BY ONLY <1>1, <1>2 DEF HasFin
<1>5. ~HasFin(q) => FinLast(Append(q, x)) BY ONLY <1>1, <1>2 DEF HasFin, FinLast
<1> QED BY <1>3, <1>4, <1>5

LEMMA FinTail ==
    ASSUME NEW q \in Seq(Item), q # <<>>
    PROVE  /\ Tail(q) \in Seq(Item)
           /\ HasFin(Tail(q)) => HasFin(q)
           /\ FinLast(q) => FinLast(Tail(q))
           /\ Head(q) = Fin => HasFin(q)
           /\ FinLast(q) /\ Head(q) = Fin => Tail(q) = <<>>
<1>1. /\ Tail(q) \in Seq(Item) /\ Len(Tail(q)) = Len(q) - 1 /\ Len(q) \in Nat /\ Len(q) > 0
      /\ \A i \in 1..(Len(q) - 1) : Tail(q)[i] = q[i + 1]
      /\ Head(q) = q[1]
  OBVIOUS
<1>2. \A i \in 1..(Len(q) - 1) : i + 1 \in 1..Len(q) BY <1>1
<1>3. HasFin(Tail(q)) => HasFin(q) BY ONLY <1>1, <1>2 DEF HasFin
<1>4. FinLast(q) => FinLast(Tail(q))
  <2> SUFFICES ASSUME FinLast(q), NEW i \in 1..Len(Tail(q)), Tail(q)[i] = Fin PROVE i = Len(Tail(q))
    BY DEF FinLast
  <2>1. i \in 1..(Len(q) - 1) /\ i + 1 \in 1..Len(q) /\ q[i + 1] = Fin BY <1>1
  <2>2. i + 1 = Len(q) BY <2>1, Zenon DEF FinLast
  <2>3. Len(Tail(q)) = Len(q) - 1 /\ Len(q) \in Nat BY <1>1
  <2> QED BY ONLY <2>1, <2>2, <2>3
<1>5. Head(q) = Fin => HasFin(q)
  <2>1. 1 \in 1..Len(q) BY <1>1
  <2> QED BY <1>1, <2>1 DEF HasFin
<1>6. ASSUME FinLast(q), Head(q) = Fin PROVE Tail(q) = <<>>
  <2>1. 1 \in 1..Len(q) BY <1>1
  <2>2. q[1] = Fin BY <1>1, <1>6
  <2>3. 1 = Len(q) BY <1>6, <2>1, <2>2, Zenon DEF FinLast
  <2>l. Len(Tail(q)) = Len(q) - 1 BY <1>1
  <2>4. Len(Tail(q)) = 1 - 1 BY ONLY <2>3, <2>l, Zenon
  <2>5. Len(Tail(q)) \notin Nat \ {0} BY ONLY <2>4
  <2>6. Tail(q) \in Seq(Item) BY <1>1
  <2> QED BY ONLY <2>5, <2>6, EmptySeq, Zenon
<1> QED BY <1>1, <1>3, <1>4, <1>5, <1>6

\* An end may be taken out of QUIC in one event with what is before it.
LEMMA FinSecond ==
    ASSUME NEW q \in Seq(Item), Len(q) > 1, q[2] = Fin
    PROVE  HasFin(q) /\ (FinLast(q) => Len(q) = 2)
<1>1. 2 \in 1..Len(q) OBVIOUS
<1> QED BY <1>1 DEF HasFin, FinLast

LEMMA FinInit == Init => FinInv
<1> SUFFICES ASSUME Init, NEW d \in Dir PROVE SendFin(d) /\ NetFin(d) /\ RecvFin(d) BY DEF FinInv
<1>1. sendQ[d] = <<>> /\ net[d] = <<>> /\ recvQ[d] = <<>> BY DEF Init
<1> QED BY <1>1, FinEmpty, Zenon DEF SendFin, NetFin, RecvFin

LEMMA FinStep == Types /\ ShapeInv /\ FinInv /\ [Next]_vars => FinInv'
<1> SUFFICES ASSUME Types, ShapeInv, FinInv, [Next]_vars PROVE FinInv' OBVIOUS
<1> USE Ends
<1>t. /\ Fin \in Item
      /\ sendQ \in [Dir -> Seq(Item)] /\ recvQ \in [Dir -> Seq(Item)] /\ net \in [Dir -> Seq(Item)]
  BY TypeFacts, Zenon
<1>u. done \in [Side -> [Dir -> BOOLEAN]] /\ dead \in [Side -> BOOLEAN] BY TypeFacts, Zenon
<1>f. \A e \in Dir : SendFin(e) /\ NetFin(e) /\ RecvFin(e) BY DEF FinInv
<1>e. \A e \in Dir : /\ sendQ[e] \in Seq(Item) /\ recvQ[e] \in Seq(Item) /\ net[e] \in Seq(Item)
  BY <1>t
\* Ends are not undone: what a step leaves of the queues decides.
<1>1. ASSUME NEW e \in Dir, done[Src(e)][e] => done'[Src(e)][e], dead[Dst(e)] => dead'[Dst(e)],
             UNCHANGED <<sendQ[e], net[e], recvQ[e]>>
      PROVE  SendFin(e)' /\ NetFin(e)' /\ RecvFin(e)'
  <2>1. sendQ'[e] = sendQ[e] /\ net'[e] = net[e] /\ recvQ'[e] = recvQ[e] BY <1>1
  <2>2. SendFin(e) /\ NetFin(e) /\ RecvFin(e) BY <1>f
  <2> QED BY <1>1, <2>1, <2>2, Zenon DEF SendFin, NetFin, RecvFin
<1>2. ASSUME UNCHANGED <<done, dead, sendQ, net, recvQ>> PROVE FinInv'
  <2>1. done' = done /\ dead' = dead /\ sendQ' = sendQ /\ net' = net /\ recvQ' = recvQ BY <1>2
  <2> QED BY <1>1, <2>1 DEF FinInv
<1>3. ASSUME NEW s \in Side, NEW e \in Dir, done' = [done EXCEPT ![s][e] = TRUE]
      PROVE  \A t \in Side, c \in Dir : done[t][c] => done'[t][c]
  BY <1>u, <1>3
<1>4. CASE UNCHANGED vars
  BY <1>2, <1>4 DEF vars, queues
<1>5. CASE Stops
  <2>1. PICK why : StopReason(why) /\ ThreadStops(why) BY <1>5 DEF Stops
  <2>2. UNCHANGED <<done, recvQ, net>> /\ sendQ' = [sendQ EXCEPT !["up"] = <<>>]
        /\ dead' = [dead EXCEPT !["client"] = TRUE]
    BY <2>1 DEF ThreadStops
  <2>3. ASSUME NEW e \in Dir PROVE SendFin(e)' /\ NetFin(e)' /\ RecvFin(e)'
    <3>1. (sendQ'[e] = sendQ[e] \/ sendQ'[e] = <<>>) /\ net'[e] = net[e] /\ recvQ'[e] = recvQ[e] /\ done' = done
      BY <1>t, <2>2
    <3>2. dead[Dst(e)] => dead'[Dst(e)] BY <1>u, <2>2, Zenon
    <3>3. SendFin(e) /\ NetFin(e) /\ RecvFin(e) BY <1>f
    <3> QED BY <3>1, <3>2, <3>3, FinEmpty, Zenon DEF SendFin, NetFin, RecvFin
  <2> QED BY <2>3 DEF FinInv
<1>6. ASSUME NEW d \in Dir, Send(d) \/ OriginEnds(d) \/ TcpRead(d) \/ TcpWrite(d) PROVE FinInv'
  BY <1>2, <1>6 DEF Send, OriginEnds, TcpRead, TcpWrite, queues
\* What is put on the way was not preceded by an end.
<1>7. ASSUME NEW d \in Dir, NEW x \in Item, ~done[Src(d)][d], Put(d, x), recvQ' = recvQ, dead' = dead,
             x = Fin => done'[Src(d)][d], \A e \in Dir : done[Src(e)][e] => done'[Src(e)][e]
      PROVE  FinInv'
  <2>1. SendFin(d) /\ NetFin(d) /\ RecvFin(d) BY <1>f
  <2>2. ~HasFin(sendQ[d]) /\ ~HasFin(net[d]) /\ (~HasFin(recvQ[d]) \/ dead[Dst(d)])
    BY <1>7, <2>1, Zenon DEF SendFin, NetFin, RecvFin
  <2>3. \A q \in Seq(Item) : ~HasFin(q) => (HasFin(Append(q, x)) => x = Fin) /\ FinLast(Append(q, x))
    BY FinAppend
  <2>4. CASE slipstream
    <3>1. sendQ' = [sendQ EXCEPT ![d] = Append(@, x)] /\ net' = net BY <1>7, <2>4, Zenon DEF Put
    <3>2. sendQ'[d] = Append(sendQ[d], x) /\ \A e \in Dir : e # d => sendQ'[e] = sendQ[e] BY <1>t, <3>1
    <3>3. SendFin(d)' /\ NetFin(d)' /\ RecvFin(d)'
      BY <1>e, <1>7, <2>2, <2>3, <3>1, <3>2, Zenon DEF SendFin, NetFin, RecvFin
    <3>4. ASSUME NEW e \in Dir, e # d PROVE SendFin(e)' /\ NetFin(e)' /\ RecvFin(e)'
      BY <1>1, <1>7, <3>1, <3>2, <3>4
    <3> QED BY <3>3, <3>4 DEF FinInv
  <2>5. CASE ~slipstream
    <3>1. net' = [net EXCEPT ![d] = Append(@, x)] /\ sendQ' = sendQ BY <1>7, <2>5, Zenon DEF Put
    <3>2. net'[d] = Append(net[d], x) /\ \A e \in Dir : e # d => net'[e] = net[e] BY <1>t, <3>1
    <3>3. sendQ[d] = <<>> BY <2>5, Zenon DEF ShapeInv, TransportShape
    <3>4. SendFin(d)' /\ NetFin(d)' /\ RecvFin(d)'
      BY <1>e, <1>7, <2>2, <2>3, <3>1, <3>2, <3>3, Zenon DEF SendFin, NetFin, RecvFin
    <3>5. ASSUME NEW e \in Dir, e # d PROVE SendFin(e)' /\ NetFin(e)' /\ RecvFin(e)'
      BY <1>1, <1>7, <3>1, <3>2, <3>5
    <3> QED BY <3>4, <3>5 DEF FinInv
  <2> QED BY <2>4, <2>5
<1>8. ASSUME NEW d \in Dir, Write(d) PROVE FinInv'
  <2>1. PICK x : x = held[Src(d)][HopTo(d)] OBVIOUS
  <2>2. Put(d, x) /\ x # 0 /\ UNCHANGED <<done, recvQ, dead>> BY <1>8, <2>1 DEF Write
  <2>3. x \in Item BY <2>1, TypeFacts
  <2>4. ~done[Src(d)][d]
    <3>1. CASE echo /\ d = "down" BY <3>1 DEF ShapeInv, EchoShape
    <3>2. CASE ~(echo /\ d = "down")
      <4>1. held[Src(d)][d] # 0 BY <2>1, <2>2, <3>2 DEF HopTo
      <4> QED BY <4>1 DEF ShapeInv, DoneShape
    <3> QED BY <3>1, <3>2
  <2>5. x # Fin /\ recvQ' = recvQ /\ dead' = dead /\ done' = done BY <2>2 DEF Fin
  <2> QED BY <1>7, <2>2, <2>3, <2>4, <2>5
<1>9. ASSUME NEW d \in Dir, ShutTransport(d) PROVE FinInv'
  <2>1. /\ recvQ' = recvQ /\ dead' = dead /\ ~done[Src(d)][d]
        /\ done' = [done EXCEPT ![Src(d)][d] = TRUE]
    BY <1>9 DEF ShutTransport, Idle
  <2>2. done'[Src(d)][d] /\ \A e \in Dir : done[Src(e)][e] => done'[Src(e)][e]
    <3>1. done'[Src(d)][d] BY <1>u, <2>1
    <3> QED BY <1>3, <2>1, <3>1
  <2>3. CASE Put(d, Fin) BY <1>7, <1>t, <2>1, <2>2, <2>3
  <2>4. CASE UNCHANGED <<sendQ, net>>
    <3>1. \A e \in Dir : SendFin(e)' /\ NetFin(e)' /\ RecvFin(e)' BY <1>1, <2>1, <2>2, <2>4
    <3> QED BY <3>1 DEF FinInv
  <2> QED BY <1>9, <2>3, <2>4, Zenon DEF ShutTransport
<1>10. ASSUME NEW d \in Dir, Read(d) PROVE FinInv'
  <2>1. recvQ[d] # <<>> /\ recvQ' = [recvQ EXCEPT ![d] = Tail(@)] /\ UNCHANGED <<done, dead, sendQ, net>>
    BY <1>10 DEF Read
  <2>2. recvQ'[d] = Tail(recvQ[d]) /\ \A e \in Dir : e # d => recvQ'[e] = recvQ[e] BY <1>t, <2>1
  <2>3. (HasFin(Tail(recvQ[d])) => HasFin(recvQ[d])) /\ (FinLast(recvQ[d]) => FinLast(Tail(recvQ[d])))
    BY <1>e, <2>1, FinTail
  <2>4. done' = done /\ dead' = dead /\ sendQ' = sendQ /\ net' = net BY <2>1
  <2>5. SendFin(d)' /\ NetFin(d)' /\ RecvFin(d)'
    <3>1. SendFin(d) /\ NetFin(d) /\ RecvFin(d) BY <1>f
    <3> QED BY <2>2, <2>3, <2>4, <3>1, Zenon DEF SendFin, NetFin, RecvFin
  <2>6. ASSUME NEW e \in Dir, e # d PROVE SendFin(e)' /\ NetFin(e)' /\ RecvFin(e)'
    BY <1>1, <2>2, <2>4, <2>6
  <2> QED BY <2>5, <2>6 DEF FinInv
<1>11. ASSUME NEW d \in Dir, ShutTcp(d) PROVE FinInv'
  <2>1. done' = [done EXCEPT ![Dst(d)][d] = TRUE] /\ UNCHANGED <<queues, dead>> BY <1>11 DEF ShutTcp
  <2>2. \A t \in Side, c \in Dir : done[t][c] => done'[t][c] BY <1>3, <2>1
  <2>3. \A e \in Dir : SendFin(e)' /\ NetFin(e)' /\ RecvFin(e)' BY <1>1, <2>1, <2>2 DEF queues
  <2> QED BY <2>3 DEF FinInv
<1>12. ASSUME NEW d \in Dir, Transmit(d) PROVE FinInv'
  <2>1. sendQ[d] # <<>> /\ sendQ' = [sendQ EXCEPT ![d] = Tail(@)] /\ UNCHANGED <<done, dead, recvQ>>
    BY <1>12 DEF Transmit
  <2>2. net' = net \/ net' = [net EXCEPT ![d] = Append(@, Head(sendQ[d]))] BY <1>12 DEF Transmit
  <2>3. sendQ'[d] = Tail(sendQ[d]) /\ \A e \in Dir : e # d => sendQ'[e] = sendQ[e] BY <1>t, <2>1
  <2>4. (net'[d] = net[d] \/ net'[d] = Append(net[d], Head(sendQ[d]))) /\ \A e \in Dir : e # d => net'[e] = net[e]
    BY <1>t, <2>2
  <2>5. done' = done /\ dead' = dead /\ recvQ' = recvQ BY <2>1
  <2>6. SendFin(d)' /\ NetFin(d)' /\ RecvFin(d)'
    <3>1. SendFin(d) /\ NetFin(d) /\ RecvFin(d) BY <1>f
    <3>2. ~HasFin(net[d]) /\ (~HasFin(recvQ[d]) \/ dead[Dst(d)]) BY <2>1, <3>1, Zenon DEF NetFin, RecvFin
    <3>3. SendFin(d)'
      <4>1. (HasFin(Tail(sendQ[d])) => HasFin(sendQ[d])) /\ (FinLast(sendQ[d]) => FinLast(Tail(sendQ[d])))
        BY <1>e, <2>1, FinTail
      <4> QED BY <2>3, <2>5, <3>1, <4>1, Zenon DEF SendFin
    <3>4. NetFin(d)'
      <4>1. CASE net'[d] = net[d] BY <3>2, <4>1, Zenon DEF NetFin
      <4>2. CASE net'[d] = Append(net[d], Head(sendQ[d]))
        <5>1. Head(sendQ[d]) \in Item BY <1>e, <2>1
        <5>2. /\ HasFin(net'[d]) => Head(sendQ[d]) = Fin
              /\ FinLast(net'[d])
          BY <1>e, <3>2, <4>2, <5>1, FinAppend
        <5>3. ASSUME Head(sendQ[d]) = Fin PROVE done[Src(d)][d] /\ Tail(sendQ[d]) = <<>>
          BY <1>e, <2>1, <3>1, <5>3, FinTail, Zenon DEF SendFin
        <5> QED BY <2>3, <2>5, <5>2, <5>3, Zenon DEF NetFin
      <4> QED BY <2>4, <4>1, <4>2
    <3>5. RecvFin(d)' BY <2>5, <3>2, Zenon DEF RecvFin
    <3> QED BY <3>3, <3>4, <3>5
  <2>7. ASSUME NEW e \in Dir, e # d PROVE SendFin(e)' /\ NetFin(e)' /\ RecvFin(e)'
    BY <1>1, <2>3, <2>4, <2>5, <2>7
  <2> QED BY <2>6, <2>7 DEF FinInv
<1>13. ASSUME NEW d \in Dir, Deliver(d) PROVE FinInv'
  <2>1. net[d] # <<>> /\ ~dead[Dst(d)] /\ UNCHANGED <<done, dead, sendQ>> BY <1>13 DEF Deliver
  <2>2. done' = done /\ dead' = dead /\ sendQ' = sendQ BY <2>1
  <2>3. SendFin(d) /\ NetFin(d) /\ RecvFin(d) BY <1>f
  <2>4. ~HasFin(recvQ[d]) BY <2>1, <2>3, Zenon DEF RecvFin
  <2>5. PICK x \in Item : \E why : Arrive(d, x, why) /\ net'[d] \in Seq(Item)
            /\ (\A e \in Dir : e # d => net'[e] = net[e])
            /\ (HasFin(net'[d]) => HasFin(net[d])) /\ (FinLast(net[d]) => FinLast(net'[d]))
            /\ (x = Fin => HasFin(net[d]) /\ net'[d] = <<>>)
    <3>1. CASE net' = [net EXCEPT ![d] = Tail(@)] /\ Arrive(d, Head(net[d]), {})
      <4>1. net'[d] = Tail(net[d]) /\ \A e \in Dir : e # d => net'[e] = net[e] BY <1>t, <3>1
      <4>2. Head(net[d]) \in Item BY <1>e, <2>1
      <4>3. /\ Tail(net[d]) \in Seq(Item)
            /\ (HasFin(net'[d]) => HasFin(net[d])) /\ (FinLast(net[d]) => FinLast(net'[d]))
            /\ (Head(net[d]) = Fin => HasFin(net[d]))
            /\ (FinLast(net[d]) /\ Head(net[d]) = Fin => Tail(net[d]) = <<>>)
        BY <1>e, <2>1, <4>1, FinTail
      <4>4. Head(net[d]) = Fin => HasFin(net[d]) /\ net'[d] = <<>>
        BY <2>3, <4>1, <4>3, Zenon DEF NetFin
      <4> QED BY <3>1, <4>1, <4>2, <4>3, <4>4, Zenon
    <3>2. CASE Len(net[d]) > 1 /\ net[d][2] = Fin /\ net' = [net EXCEPT ![d] = <<>>] /\ Arrive(d, Fin, {<<"tail", d>>})
      <4>1. net'[d] = <<>> /\ \A e \in Dir : e # d => net'[e] = net[e] BY <1>t, <3>2
      <4>2. <<>> \in Seq(Item) /\ HasFin(net[d]) BY <1>e, <3>2, FinSecond
      <4> QED BY <1>t, <3>2, <4>1, <4>2, FinEmpty, Zenon
    <3> QED BY <1>13, <3>1, <3>2, Zenon DEF Deliver
  <2>6. Queued(d, x) \/ Dropped(d, x) BY <2>5, ArriveKind, Zenon
  <2>7. (recvQ'[d] = recvQ[d] \/ recvQ'[d] = Append(recvQ[d], x)) /\ \A e \in Dir : e # d => recvQ'[e] = recvQ[e]
    <3>1. CASE Queued(d, x)
      <4>1. recvQ' = [recvQ EXCEPT ![d] = Append(@, x)] BY <3>1 DEF Queued
      <4> QED BY <1>t, <4>1
    <3>2. CASE Dropped(d, x) BY <3>2 DEF Dropped
    <3> QED BY <2>6, <3>1, <3>2
  <2>8. SendFin(d)' BY <2>2, <2>3, Zenon DEF SendFin
  <2>9. NetFin(d)' BY <2>2, <2>3, <2>5, Zenon DEF NetFin
  <2>10. RecvFin(d)'
    <3>1. (HasFin(recvQ'[d]) => x = Fin) /\ (x = Fin => recvQ'[d] = recvQ[d] \/ FinLast(recvQ'[d]))
      <4>1. (HasFin(Append(recvQ[d], x)) => x = Fin) /\ FinLast(Append(recvQ[d], x))
        BY <1>e, <2>4, FinAppend
      <4> QED BY <2>4, <2>7, <4>1, Zenon
    <3>2. HasFin(recvQ'[d]) => FinLast(recvQ'[d]) BY <2>4, <3>1
    <3>3. x = Fin => done[Src(d)][d] /\ sendQ[d] = <<>> /\ net'[d] = <<>>
      BY <2>3, <2>5, Zenon DEF NetFin
    <3> QED BY <2>2, <3>1, <3>2, <3>3, Zenon DEF RecvFin
  <2>11. ASSUME NEW e \in Dir, e # d PROVE SendFin(e)' /\ NetFin(e)' /\ RecvFin(e)'
    BY <1>1, <2>2, <2>5, <2>7, <2>11
  <2> QED BY <2>8, <2>9, <2>10, <2>11 DEF FinInv
<1>14. ASSUME NEW s \in Side, Starts(s) PROVE FinInv'
  BY <1>2, <1>14 DEF Starts, SetTask, queues
<1>15. ASSUME NEW s \in Side, TaskEnds(s) PROVE FinInv'
  <2>1. PICK why : EndReason(s, why) /\ EndTask(s, why) BY <1>15 DEF TaskEnds
  <2>2. recvQ' = [recvQ EXCEPT ![To(s)] = <<>>] /\ done' = done /\ sendQ' = sendQ /\ net' = net
    BY <2>1 DEF EndTask
  <2>3. ASSUME NEW e \in Dir PROVE SendFin(e)' /\ NetFin(e)' /\ RecvFin(e)'
    <3>1. recvQ'[e] = recvQ[e] \/ recvQ'[e] = <<>> BY <1>t, <2>2
    <3>2. dead[Dst(e)] => dead'[Dst(e)] BY <1>u, <2>1, Zenon DEF EndTask
    <3>3. SendFin(e) /\ NetFin(e) /\ RecvFin(e) BY <1>f
    <3> QED BY <2>2, <3>1, <3>2, <3>3, FinEmpty, Zenon DEF SendFin, NetFin, RecvFin
  <2> QED BY <2>3 DEF FinInv
<1>16. ASSUME NEW s \in Side, Learns(s) PROVE FinInv'
  <2>1. PICK why : LearnReason(s, why) /\ Learn(s, why) BY <1>16 DEF Learns
  <2>2. done' = done /\ net' = net /\ dead' = [dead EXCEPT ![s] = TRUE] BY <2>1 DEF Learn
  <2>3. \A e \in Dir : sendQ'[e] = sendQ[e] \/ sendQ'[e] = <<>>
    BY <1>t, <2>1 DEF Learn
  <2>4. \A e \in Dir : recvQ'[e] = recvQ[e] \/ (e = "down" /\ s = "client")
    <3>1. CASE s = "client" /\ Arrive("down", Fin, why)
      <4>1. "down" \in Dir BY DEF Dir
      <4>2. Queued("down", Fin) \/ Dropped("down", Fin) BY <1>t, <3>1, <4>1, ArriveKind, Zenon
      <4>3. CASE Queued("down", Fin)
        <5>1. recvQ' = [recvQ EXCEPT !["down"] = Append(@, Fin)] BY <4>3 DEF Queued
        <5> QED BY <1>t, <3>1, <5>1
      <4>4. CASE Dropped("down", Fin) BY <4>4 DEF Dropped
      <4> QED BY <4>2, <4>3, <4>4
    <3>2. CASE UNCHANGED recvQ BY <3>2
    <3> QED BY <2>1, <3>1, <3>2, Zenon DEF Learn
  <2>5. ASSUME NEW e \in Dir PROVE SendFin(e)' /\ NetFin(e)' /\ RecvFin(e)'
    <3>1. dead[Dst(e)] => dead'[Dst(e)] BY <1>u, <2>2, Zenon
    <3>2. SendFin(e) /\ NetFin(e) /\ RecvFin(e) BY <1>f
    <3>3. sendQ'[e] = sendQ[e] \/ sendQ'[e] = <<>> BY <2>3
    <3>4. SendFin(e)' /\ NetFin(e)'
      BY <2>2, <3>2, <3>3, FinEmpty, Zenon DEF SendFin, NetFin
    <3>5. RecvFin(e)'
      <4>1. CASE recvQ'[e] = recvQ[e] BY <2>2, <3>1, <3>2, <3>3, <4>1, Zenon DEF RecvFin
      <4>2. CASE e = "down" /\ s = "client"
        <5>1. dead'[Dst(e)] BY <1>u, <2>2, <4>2
        <5> QED BY <5>1, Zenon DEF RecvFin
      <4> QED BY <2>4, <4>1, <4>2
    <3> QED BY <3>4, <3>5
  <2> QED BY <2>5 DEF FinInv
<1> QED BY <1>4, <1>5, <1>6, <1>8, <1>9, <1>10, <1>11, <1>12, <1>13, <1>14, <1>15, <1>16, StepKind DEF Hop
=============================================================================
