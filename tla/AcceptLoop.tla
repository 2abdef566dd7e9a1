----------------------------- MODULE AcceptLoop -----------------------------
(***************************************************************************)
(* The four accept loops of the proxy: run_kcp_tokio_server and            *)
(* run_quinn_server (src/src/bin/server.rs), the loop of the slipstream    *)
(* run_server (src/src/transport/slipstream.rs) and the loop of the client *)
(* (src/src/bin/client.rs).  They share the shutdown signal, the semaphore *)
(* that bounds the connections, one task per connection and the drain at   *)
(* the end; kind says which of them runs.                                  *)
(***************************************************************************)
EXTENDS Naturals, Sequences, FiniteSets

CONSTANTS
    Conns,      \* bound: the connections that ever arrive
    MaxConns,   \* --max-connections; 0 means no semaphore
    Drain,      \* --shutdown-drain-secs
    Kinds       \* the loops to consider

ASSUME ConstantsAssumption ==
    /\ IsFiniteSet(Conns)
    /\ MaxConns \in Nat /\ Drain \in Nat
    /\ Kinds \subseteq {"kcp", "quinn", "slipstream", "client"}

VARIABLES
    kind,        \* which loop this process runs
    pc,          \* where the loop stands
    signalled,   \* the shutdown message is in the broadcast channel
    backlog,     \* connections ready for accept(), in order
    task,        \* the life of each connection
    permits,     \* permits left in the semaphore
    clock,       \* time slept in the current drain
    drained,     \* history: time slept in all drains
    late         \* history: connections started after the signal

vars == <<kind, pc, signalled, backlog, task, permits, clock, drained, late>>

Holders == {c \in Conns : task[c] \in {"opening", "running"}}

Init ==
    /\ kind \in Kinds
    /\ pc = "bind" /\ signalled = FALSE
    /\ backlog = <<>> /\ task = [c \in Conns |-> "new"]
    /\ permits = MaxConns
    /\ clock = 0 /\ drained = 0 /\ late = {}

-----------------------------------------------------------------------------
(* The environment.                                                        *)

Signal ==
    /\ ~signalled /\ pc \notin {"exited", "failed"}
    /\ signalled' = TRUE
    /\ UNCHANGED <<kind, pc, backlog, task, permits, clock, drained, late>>

\* The listener lives until the loop returns and, in kcp, through the 2 s before
\* a new one is bound; the client's and the slipstream queue outlive the loop.
Listening ==
    \/ pc \in {"select", "permit", "rebind"}
    \/ kind \in {"client", "slipstream"} /\ pc \in {"innerDrain", "drain"}

Arrive(c) ==
    /\ Listening /\ task[c] = "new"
    /\ task' = [task EXCEPT ![c] = "queued"]
    /\ backlog' = Append(backlog, c)
    /\ UNCHANGED <<kind, pc, signalled, permits, clock, drained, late>>

-----------------------------------------------------------------------------
(* The loop.                                                               *)

BindOk ==
    /\ pc = "bind"
    /\ pc' = "select"
    /\ UNCHANGED <<kind, signalled, backlog, task, permits, clock, drained, late>>

\* kcp sleeps 2 s and tries again; quinn and the client return the error from main.
\* The slipstream server returns only that of create_temp_pem_files.  A port that
\* is taken ends its thread and not its loop: that is BindOk, and no connection
\* ever arrives.
BindFails ==
    /\ pc = "bind"
    /\ pc' = IF kind = "kcp" THEN "bindWait" ELSE "failed"
    /\ UNCHANGED <<kind, signalled, backlog, task, permits, clock, drained, late>>

BindWaited ==
    /\ pc = "bindWait"
    /\ pc' = "bind"
    /\ UNCHANGED <<kind, signalled, backlog, task, permits, clock, drained, late>>

\* The slipstream loop sleeps for the drain itself before main does.
AfterLoop == IF kind = "slipstream" THEN "innerDrain" ELSE "drain"

\* biased: the shutdown arm is looked at first.
SelectShutdown ==
    /\ pc = "select" /\ signalled
    /\ pc' = AfterLoop
    /\ UNCHANGED <<kind, signalled, backlog, task, permits, clock, drained, late>>

\* mutant: select! without biased
EitherArm == TRUE

\* The accept arm runs only when the shutdown arm was not ready.
AcceptArm == ~signalled

AcceptOne ==
    /\ pc = "select" /\ AcceptArm
    /\ backlog # <<>>
    /\ task' = [task EXCEPT ![Head(backlog)] = "held"]
    /\ backlog' = Tail(backlog)
    /\ pc' = "permit"
    /\ UNCHANGED <<kind, signalled, permits, clock, drained, late>>

\* accept() timed out with nothing in the queue, or failed: kcp goes to bind a new
\* listener.  The other loops go round again, which changes nothing.
AcceptGivesUp ==
    /\ pc = "select" /\ AcceptArm /\ kind = "kcp"
    /\ pc' = "rebind"
    /\ UNCHANGED <<kind, signalled, backlog, task, permits, clock, drained, late>>

\* 2 s later the old listener is dropped, and what waits in it.
Rebind ==
    /\ pc = "rebind"
    /\ pc' = "bind"
    /\ task' = [c \in Conns |-> IF task[c] = "queued" THEN "lost" ELSE task[c]]
    /\ backlog' = <<>>
    /\ UNCHANGED <<kind, signalled, permits, clock, drained, late>>

\* accept() yields None: the endpoint is closed, or every accept_tx is dropped.
SourceEnds ==
    /\ pc = "select" /\ AcceptArm /\ kind \in {"quinn", "slipstream"}
    /\ backlog = <<>>
    /\ pc' = AfterLoop
    /\ UNCHANGED <<kind, signalled, backlog, task, permits, clock, drained, late>>

\* mutant: a permit is not waited for
NoWait == TRUE

\* acquire_owned() is awaited inside the accept arm: nothing else is looked at.
PermitFree == MaxConns = 0 \/ permits > 0

\* The accepted connection gets its permit and its task.
Start ==
    /\ pc = "permit" /\ PermitFree
    /\ permits' = IF permits = 0 THEN 0 ELSE permits - 1
    /\ LET started == {c \in Conns : task[c] = "held"} IN
        /\ task' = [c \in Conns |-> IF c \in started THEN "opening" ELSE task[c]]
        /\ late' = IF signalled THEN late \cup started ELSE late
    /\ pc' = "select"
    /\ UNCHANGED <<kind, signalled, backlog, clock, drained>>

-----------------------------------------------------------------------------
(* The tasks.  The permit is a local of the task: it goes back when the    *)
(* task ends, however it ends.                                             *)

\* mutant: the permit is forgotten
KeepPermit == UNCHANGED permits

ReleasePermit == permits' = IF MaxConns = 0 THEN permits ELSE permits + 1

\* The handshake, the first stream, the connect to the upstream or to the proxy.
Opened(c) ==
    /\ task[c] = "opening" /\ pc # "exited"
    /\ task' = [task EXCEPT ![c] = "running"]
    /\ UNCHANGED <<kind, pc, signalled, backlog, permits, clock, drained, late>>

OpenFails(c) ==
    /\ task[c] = "opening" /\ pc # "exited"
    /\ task' = [task EXCEPT ![c] = "done"]
    /\ ReleasePermit
    /\ UNCHANGED <<kind, pc, signalled, backlog, clock, drained, late>>

Finish(c) ==
    /\ task[c] = "running" /\ pc # "exited"
    /\ task' = [task EXCEPT ![c] = "done"]
    /\ ReleasePermit
    /\ UNCHANGED <<kind, pc, signalled, backlog, clock, drained, late>>

-----------------------------------------------------------------------------
(* The drain.                                                              *)

Tick ==
    /\ pc \in {"innerDrain", "drain"} /\ clock < Drain
    /\ clock' = clock + 1
    /\ drained' = drained + 1
    /\ UNCHANGED <<kind, pc, signalled, backlog, task, permits, late>>

InnerDrained ==
    /\ pc = "innerDrain" /\ clock = Drain
    /\ pc' = "drain"
    /\ clock' = 0
    /\ UNCHANGED <<kind, signalled, backlog, task, permits, drained, late>>

\* main returns and the runtime drops what still runs.
Exit ==
    /\ pc = "drain" /\ clock = Drain
    /\ pc' = "exited"
    /\ task' = [c \in Conns |-> CASE c \in Holders -> "killed"
                                  [] task[c] = "queued" -> "lost"
                                  [] OTHER -> task[c]]
    /\ backlog' = <<>>
    /\ UNCHANGED <<kind, signalled, permits, clock, drained, late>>

LoopStep ==
    \/ BindOk \/ BindFails \/ BindWaited \/ SelectShutdown \/ AcceptOne
    \/ AcceptGivesUp \/ Rebind \/ SourceEnds \/ Start \/ Tick \/ InnerDrained
    \/ Exit

TaskStep(c) == Opened(c) \/ OpenFails(c) \/ Finish(c)

Next ==
    \/ Signal \/ LoopStep
    \/ \E c \in Conns : Arrive(c) \/ TaskStep(c)

Spec == Init /\ [][Next]_vars

\* The loop and the timers run; they owe nothing else.
LoopFairness == WF_vars(LoopStep)

\* A bind that is tried again and again succeeds at some time.
BindFairness == SF_vars(BindOk)

\* Every connection ends at some time.
TaskFairness == \A c \in Conns : WF_vars(TaskStep(c))

FairSpec == Spec /\ LoopFairness /\ BindFairness /\ TaskFairness

-----------------------------------------------------------------------------
(* What must hold.                                                         *)

\* Every variable has its type.
TypeOK ==
    /\ kind \in Kinds
    /\ pc \in {"bind", "bindWait", "select", "permit", "rebind", "innerDrain",
               "drain", "exited", "failed"}
    /\ signalled \in BOOLEAN /\ backlog \in Seq(Conns)
    /\ task \in [Conns -> {"new", "queued", "held", "opening", "running",
                           "done", "lost", "killed"}]
    /\ permits \in 0..MaxConns
    /\ clock \in 0..Drain /\ drained \in 0..(2 * Drain) /\ late \subseteq Conns

\* The permits in the semaphore and the connections with a task always add up to
\* --max-connections: no path of a task, and no rebind, leaks or invents one.
PermitConservation ==
    MaxConns > 0 /\ pc # "exited" => permits + Cardinality(Holders) = MaxConns

\* After the signal at most the one connection that already waits for its permit
\* is started, whatever still arrives.
AtMostOneLateStart == Cardinality(late) <= 1

\* No connection the loop took is dropped on the floor: it gets its permit and
\* its task, even when the signal comes first.
HeldIsStarted == \A c \in Conns : task[c] = "held" ~> task[c] \in {"opening", "running", "done"}

\* With connections that end and a port that can be bound, the signal ends the
\* process, whatever state the loop was in.
ShutdownCompletes == signalled ~> pc \in {"exited", "failed"}
=============================================================================
