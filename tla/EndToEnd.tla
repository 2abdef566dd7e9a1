------------------------------ MODULE EndToEnd ------------------------------
(***************************************************************************)
(* One proxied connection from the application's TCP socket to the         *)
(* upstream's and back: the client's task (client.rs), the transport, the  *)
(* server's task (handle_connection in lib.rs).  relay_bidirectional is a  *)
(* pair of hops per task, one per direction; echo mode is one hop.         *)
(*                                                                         *)
(* The slipstream bridges appear as what SlipstreamClient and              *)
(* SlipstreamServer show of them at their ends: two bounded channels with  *)
(* QUIC between them.  quinn has no channels of its own.  kcp_tokio's own  *)
(* rules of shutdown and drop are not visible in the repository: left out. *)
(* excuse records what was lost in which direction, and why.               *)
(***************************************************************************)
EXTENDS Naturals, Sequences

CONSTANTS
    Kinds,      \* transports: "slipstream", "quinn"
    Modes,      \* the server's modes: "forward", "echo"
    MaxChunks,  \* bound: chunks an origin sends
    SendCap, RecvCap,   \* slipstream's channels: 512 and 4096 in the code
    MayFail     \* faults: refused connects, resets, lost connections

ASSUME ConstantsAssumption ==
    /\ Kinds \subseteq {"slipstream", "quinn"} /\ Modes \subseteq {"forward", "echo"}
    /\ MaxChunks \in Nat /\ SendCap \in Nat \ {0} /\ RecvCap \in Nat \ {0}
    /\ MayFail \in BOOLEAN

Side == {"client", "server"}
Dir == {"up", "down"}     \* from the application, to the application
Src(d) == IF d = "up" THEN "client" ELSE "server"
Dst(d) == IF d = "up" THEN "server" ELSE "client"
Other(s) == IF s = "client" THEN "server" ELSE "client"
Fin == 0                  \* end of stream; chunks are numbered from 1
Item == 0..MaxChunks

VARIABLES
    kind, mode,        \* --transport and --upstream
    task,              \* the task of each side
    done,              \* a hop read its end and shut its writer down
    held,              \* the chunk a hop has read and not written
    sent, over, end,   \* external: what origins sent, and what ends were seen
    taken, got,        \* chunks relays read from TCP and wrote to TCP
    sendQ, recvQ,      \* the bridges' channels; quinn's receive buffer
    net,               \* external: accepted by QUIC, not delivered
    dead,              \* the side's QUIC endpoint knows the connection is over
    gone,              \* the slipstream client's thread ended
    excuse             \* history: what the code lost in each direction

tcpVars == <<sent, over, end, taken, got>>
queues == <<sendQ, recvQ, net>>
vars == <<kind, mode, task, done, held, tcpVars, queues, dead, gone, excuse>>

Init ==
    /\ kind \in Kinds /\ mode \in Modes
    /\ task = [s \in Side |-> IF s = "client" THEN "connecting" ELSE "none"]
    /\ done = [s \in Side |-> [d \in Dir |-> FALSE]] /\ held = [s \in Side |-> [d \in Dir |-> 0]]
    /\ sent = [d \in Dir |-> 0] /\ taken = [d \in Dir |-> 0]
    /\ over = [d \in Dir |-> FALSE] /\ end = [d \in Dir |-> "open"]
    /\ got = [d \in Dir |-> <<>>]
    /\ sendQ = [d \in Dir |-> <<>>] /\ recvQ = [d \in Dir |-> <<>>]
    /\ net = [d \in Dir |-> <<>>]
    /\ dead = [s \in Side |-> FALSE] /\ gone = FALSE
    /\ excuse = {}

slipstream == kind = "slipstream"
echo == mode = "echo"
To(s) == IF s = "client" THEN "down" ELSE "up"     \* what its TCP peer receives
From(s) == IF s = "client" THEN "up" ELSE "down"   \* what its TCP peer sends
Faults == {"fault"} \X Dir

-----------------------------------------------------------------------------
(* The origins: the application sends up, the upstream sends down.         *)

TcpOpen(d) ==
    IF d = "up" THEN task["client"] # "ended" ELSE task["server"] = "relay" /\ ~echo

Send(d) ==
    /\ TcpOpen(d) /\ ~over[d] /\ sent[d] < MaxChunks
    /\ sent' = [sent EXCEPT ![d] = @ + 1]
    /\ UNCHANGED <<kind, mode, task, done, held, over, end, taken, got, queues,
                   dead, gone, excuse>>

OriginEnds(d) ==
    /\ TcpOpen(d) /\ ~over[d]
    /\ over' = [over EXCEPT ![d] = TRUE]
    /\ UNCHANGED <<kind, mode, task, done, held, sent, end, taken, got, queues,
                   dead, gone, excuse>>

-----------------------------------------------------------------------------
(* The start and the end of the two tasks.                                 *)

\* mutant: a handle of the quinn connection outlives the task
ClosesNever(s) == FALSE

\* The last handles of a quinn connection are dropped with the task, and that
\* closes it at once; slipstream's client notices later, its server never.
ClosesNow(s) == ~slipstream

\* A TCP socket is closed: with RST if something was left unread.
CloseTcp(s) ==
    end' = [end EXCEPT ![To(s)] =
               IF @ # "open" THEN @
               ELSE IF taken[From(s)] < sent[From(s)] THEN "rst" ELSE "fin"]

\* The task of s ends and drops what it owns.  The slipstream server's peer is
\* told nothing unless the task had shut its half down.
EndTask(s, why) ==
    /\ task' = [task EXCEPT ![s] = "ended"]
    /\ held' = [held EXCEPT ![s] = [d \in Dir |-> 0]]
    /\ recvQ' = [recvQ EXCEPT ![To(s)] = <<>>]
    /\ IF s = "server" /\ (echo \/ task[s] = "starting") THEN UNCHANGED end ELSE CloseTcp(s)
    /\ dead' = [dead EXCEPT ![s] = @ \/ ClosesNow(s)]
    /\ excuse' = excuse \cup why \cup
          (IF slipstream /\ s = "server" /\ ~dead[s] /\ ~done[s]["down"]
           THEN {<<"silent", "down">>} ELSE {})
    /\ UNCHANGED <<kind, mode, done, sent, over, taken, got, sendQ, net, gone>>

SetTask(s, t) ==
    /\ task' = [task EXCEPT ![s] = t]
    /\ UNCHANGED <<kind, mode, done, held, tcpVars, queues, dead, gone, excuse>>

\* The transport is connected; slipstream says so even when its thread ended.
Connect == task["client"] = "connecting" /\ SetTask("client", "relay")
ConnectFails == MayFail /\ task["client"] = "connecting" /\ EndTask("client", Faults)

\* handle_connection begins; with an upstream it connects to it first.
Handle == task["server"] = "starting" /\ SetTask("server", "relay")
Refused ==
    /\ MayFail /\ ~echo /\ task["server"] = "starting"
    /\ EndTask("server", {"refused"} \X Dir)

\* The TCP peer of s resets its connection: the relay's read or write fails.
Reset(s) ==
    /\ MayFail /\ task[s] = "relay" /\ (s = "server" => ~echo)
    /\ EndTask(s, Faults)

\* mutant: the relay ends with its first direction
EitherDone(s) == done[s]["up"] \/ done[s]["down"]

\* copy_bidirectional is done when both directions are.
BothDone(s) == done[s]["up"] /\ done[s]["down"]

RelayReturns(s) == task[s] = "relay" /\ BothDone(s) /\ EndTask(s, {})

-----------------------------------------------------------------------------
(* A hop: read, write, and at the end flush and shut the writer down.      *)

Idle(s, d) == task[s] = "relay" /\ ~done[s][d] /\ held[s][d] = 0

\* From TCP to the transport.  In echo mode the server has what the up hop read.
HopTo(d) == IF echo /\ d = "down" THEN "up" ELSE d

TcpRead(d) ==
    /\ Idle(Src(d), d) /\ taken[d] < sent[d]
    /\ taken' = [taken EXCEPT ![d] = @ + 1]
    /\ held' = [held EXCEPT ![Src(d)][d] = taken[d] + 1]
    /\ UNCHANGED <<kind, mode, task, done, sent, over, end, got, queues, dead,
                   gone, excuse>>

\* Nothing takes what is written: the slipstream thread or the connection is gone.
Broken(s) == IF slipstream /\ s = "client" THEN gone ELSE dead[s]

\* mutant: the last slot of the channel is not used
RoomShort(d) == Len(sendQ[d]) + 1 < SendCap

\* quinn buffers what flow control allows, and that the reader extends.
Room(d) == ~slipstream \/ Len(sendQ[d]) < SendCap

Put(d, x) ==
    IF slipstream THEN sendQ' = [sendQ EXCEPT ![d] = Append(@, x)] /\ UNCHANGED net
                  ELSE net' = [net EXCEPT ![d] = Append(@, x)] /\ UNCHANGED sendQ

Write(d) ==
    LET x == held[Src(d)][HopTo(d)] IN
    /\ task[Src(d)] = "relay" /\ x # 0 /\ ~Broken(Src(d)) /\ Room(d)
    /\ Put(d, x)
    /\ held' = [held EXCEPT ![Src(d)][HopTo(d)] = 0]
    /\ UNCHANGED <<kind, mode, task, done, tcpVars, recvQ, dead, gone, excuse>>

WriteFails(d) ==
    /\ task[Src(d)] = "relay" /\ held[Src(d)][HopTo(d)] # 0 /\ Broken(Src(d))
    /\ EndTask(Src(d), {})

\* The origin ended: poll_shutdown of the transport.  Slipstream reports success
\* also when the marker found the channel full.
ShutTransport(d) ==
    /\ Idle(Src(d), d) /\ over[d] /\ taken[d] = sent[d]
    /\ done' = [done EXCEPT ![Src(d)][d] = TRUE]
    /\ \/ ~Broken(Src(d)) /\ Room(d) /\ Put(d, Fin) /\ UNCHANGED excuse
       \/ /\ ~Broken(Src(d)) /\ ~Room(d)
          /\ excuse' = excuse \cup {<<"endLost", d>>} /\ UNCHANGED <<sendQ, net>>
       \/ Broken(Src(d)) /\ UNCHANGED <<sendQ, net, excuse>>
    /\ UNCHANGED <<kind, mode, task, held, tcpVars, recvQ, dead, gone>>

\* From the transport to TCP, or in echo mode back.
Read(d) ==
    /\ Idle(Dst(d), d) /\ recvQ[d] # <<>> /\ Head(recvQ[d]) # Fin
    /\ held' = [held EXCEPT ![Dst(d)][d] = Head(recvQ[d])]
    /\ recvQ' = [recvQ EXCEPT ![d] = Tail(@)]
    /\ UNCHANGED <<kind, mode, task, done, tcpVars, sendQ, net, dead, gone, excuse>>

TcpWrite(d) ==
    /\ task[Dst(d)] = "relay" /\ held[Dst(d)][d] # 0 /\ (d = "up" => ~echo)
    /\ got' = [got EXCEPT ![d] = Append(@, held[Dst(d)][d])]
    /\ held' = [held EXCEPT ![Dst(d)][d] = 0]
    /\ UNCHANGED <<kind, mode, task, done, sent, over, end, taken, queues, dead,
                   gone, excuse>>

\* mutant: a channel whose sender is dropped is only empty
AtMarker(d) == recvQ[d] # <<>> /\ Head(recvQ[d]) = Fin

\* mutant: a channel that is empty is taken for one that is closed
AtEmpty(d) == recvQ[d] = <<>> \/ Head(recvQ[d]) = Fin

\* read returns 0: the marker, or in slipstream the sender was dropped.
AtEnd(d) ==
    \/ recvQ[d] # <<>> /\ Head(recvQ[d]) = Fin
    \/ recvQ[d] = <<>> /\ slipstream /\ Broken(Dst(d))

\* mutant: the copy of fn relay, which returns without a shutdown
NoShutdown(d) == UNCHANGED end

\* poll_shutdown of a TCP stream: FIN.
Shutdown(d) == end' = [end EXCEPT ![d] = "fin"]

ShutTcp(d) ==
    /\ Idle(Dst(d), d) /\ AtEnd(d) /\ (d = "up" => ~echo)
    /\ done' = [done EXCEPT ![Dst(d)][d] = TRUE]
    /\ Shutdown(d)
    /\ UNCHANGED <<kind, mode, task, held, sent, over, taken, got, queues, dead,
                   gone, excuse>>

\* The echo loop breaks at the end and returns, with nothing shut down.
EchoReturns == echo /\ Idle("server", "up") /\ AtEnd("up") /\ EndTask("server", {})

\* quinn: what arrived is read first, then the closed connection is an error.
ReadFails(d) ==
    /\ ~slipstream /\ Idle(Dst(d), d) /\ recvQ[d] = <<>> /\ dead[Dst(d)]
    /\ EndTask(Dst(d), {})

-----------------------------------------------------------------------------
(* The bridges' threads and the network between them.                      *)

\* mutant: a full channel makes room by losing what is oldest
PushNewest(d, x, why) ==
    /\ recvQ' = [recvQ EXCEPT ![d] =
                    IF slipstream /\ Len(@) >= RecvCap THEN Append(Tail(@), x) ELSE Append(@, x)]
    /\ excuse' = excuse \cup why

\* mutant: the channel has no bound
PushUnbounded(d, x, why) ==
    /\ recvQ' = [recvQ EXCEPT ![d] = Append(@, x)] /\ excuse' = excuse \cup why

\* Into the receive channel; slipstream drops what finds it full.
Push(d, x, why) ==
    IF slipstream /\ Len(recvQ[d]) >= RecvCap
    THEN /\ excuse' = excuse \cup why \cup {<<IF x = Fin THEN "endLost" ELSE "overflow", d>>}
         /\ UNCHANGED recvQ
    ELSE /\ recvQ' = [recvQ EXCEPT ![d] = Append(@, x)] /\ excuse' = excuse \cup why

\* x comes out of QUIC.  The first data makes the server's stream (any frame does
\* in quinn); slipstream ignores an end that comes first.
Arrive(d, x, why) ==
    \/ /\ task[Dst(d)] = "none" /\ slipstream /\ x = Fin
       /\ excuse' = excuse \cup why \cup {<<"unopened", d>>}
       /\ UNCHANGED <<task, recvQ>>
    \/ /\ task[Dst(d)] = "none" /\ ~(slipstream /\ x = Fin)
       /\ task' = [task EXCEPT ![Dst(d)] = "starting"]
       /\ Push(d, x, why)
    \/ /\ task[Dst(d)] = "ended"
       /\ excuse' = excuse \cup why /\ UNCHANGED <<task, recvQ>>
    \/ /\ task[Dst(d)] \notin {"none", "ended"}
       /\ Push(d, x, why) /\ UNCHANGED task

\* The client thread keeps taking items after the peer's close: they are lost.
Transmit(d) ==
    /\ sendQ[d] # <<>>
    /\ sendQ' = [sendQ EXCEPT ![d] = Tail(@)]
    /\ net' = IF dead[Src(d)] THEN net ELSE [net EXCEPT ![d] = Append(@, Head(sendQ[d]))]
    /\ UNCHANGED <<kind, mode, task, done, held, tcpVars, recvQ, dead, gone, excuse>>

\* QUIC delivers in order.  An end may come in one event with the last bytes, at
\* which slipstream does not look.
Deliver(d) ==
    /\ net[d] # <<>> /\ ~dead[Dst(d)]
    /\ \/ /\ net' = [net EXCEPT ![d] = Tail(@)]
          /\ Arrive(d, Head(net[d]), {})
       \/ /\ slipstream /\ Len(net[d]) > 1 /\ net[d][2] = Fin
          /\ net' = [net EXCEPT ![d] = <<>>]
          /\ Arrive(d, Fin, {<<"tail", d>>})
    /\ UNCHANGED <<kind, mode, done, held, tcpVars, sendQ, dead, gone>>

\* s learns that the connection is over: the slipstream client's reader gets a
\* marker, the server drops the channels, quinn's halves return errors.
Learn(s, why) ==
    /\ dead' = [dead EXCEPT ![s] = TRUE]
    /\ sendQ' = IF s = "server" THEN [sendQ EXCEPT !["down"] = <<>>] ELSE sendQ
    /\ IF slipstream /\ s = "client"
       THEN Arrive("down", Fin, why)
       ELSE excuse' = excuse \cup why /\ UNCHANGED <<task, recvQ>>
    /\ UNCHANGED <<kind, mode, done, held, tcpVars, net, gone>>

CloseArrives(s) == ~dead[s] /\ dead[Other(s)] /\ Learn(s, {})

\* One endpoint gives the connection up (a timeout, a stateless reset).
ConnLost(s) ==
    /\ MayFail /\ task["client"] = "relay" /\ ~dead[s]
    /\ Learn(s, Faults)

\* Slipstream's client thread: its packet loop fails, or its stream was dropped
\* and it closes the connection.  What is in the send channel is discarded.
ThreadStops(why) ==
    /\ gone' = TRUE /\ dead' = [dead EXCEPT !["client"] = TRUE]
    /\ sendQ' = [sendQ EXCEPT !["up"] = <<>>]
    /\ excuse' = excuse \cup why
    /\ UNCHANGED <<kind, mode, task, done, held, tcpVars, recvQ, net>>

ThreadFails == MayFail /\ slipstream /\ ~gone /\ ThreadStops(Faults)
Abandoned == slipstream /\ ~gone /\ task["client"] = "ended" /\ ThreadStops({})

-----------------------------------------------------------------------------

Relay(d) ==
    \/ TcpRead(d) \/ Write(d) \/ WriteFails(d) \/ ShutTransport(d)
    \/ Read(d) \/ TcpWrite(d) \/ ShutTcp(d) \/ ReadFails(d)
Network ==
    \/ Abandoned
    \/ \E d \in Dir : Transmit(d) \/ Deliver(d)
    \/ \E s \in Side : CloseArrives(s)
Tasks ==
    \/ Connect \/ ConnectFails \/ Handle \/ Refused \/ EchoReturns
    \/ \E s \in Side : RelayReturns(s)
    \/ \E d \in Dir : Relay(d)
Environment ==
    \/ ThreadFails
    \/ \E d \in Dir : Send(d) \/ OriginEnds(d)
    \/ \E s \in Side : Reset(s) \/ ConnLost(s)

Next == Tasks \/ Network \/ Environment

Spec == Init /\ [][Next]_vars

\* The runtime polls both tasks, the threads' loops run, QUIC retransmits and its
\* timers fire.  The origins owe nothing.  No step can be repeated for ever.
Fairness == WF_vars(Tasks) /\ WF_vars(Network)
FairSpec == Spec /\ Fairness

-----------------------------------------------------------------------------
(* What must hold.                                                         *)

Back(d) == IF d = "up" THEN "down" ELSE "up"
Excused(d, causes) == \E c \in causes : <<c, d>> \in excuse

\* Faults, a refusing upstream, and slipstream's known losses of data.
Flaws == {"fault", "refused", "overflow", "tail"}

TaskOK ==
    /\ kind \in Kinds /\ mode \in Modes
    /\ task \in [Side -> {"none", "connecting", "starting", "relay", "ended"}]
    /\ done \in [Side -> [Dir -> BOOLEAN]] /\ held \in [Side -> [Dir -> Item]]
    /\ dead \in [Side -> BOOLEAN] /\ gone \in BOOLEAN

TcpOK ==
    /\ sent \in [Dir -> Item] /\ taken \in [Dir -> Item]
    /\ over \in [Dir -> BOOLEAN] /\ end \in [Dir -> {"open", "fin", "rst"}]
    /\ got \in [Dir -> Seq(Item \ {Fin})]

QueueOK ==
    /\ sendQ \in [Dir -> Seq(Item)] /\ recvQ \in [Dir -> Seq(Item)] /\ net \in [Dir -> Seq(Item)]
    /\ slipstream => \A d \in Dir : Len(sendQ[d]) <= SendCap /\ Len(recvQ[d]) <= RecvCap

ExcuseOK ==
    excuse \subseteq {"silent", "fault", "refused", "endLost", "overflow", "unopened", "tail"} \X Dir

\* Every variable has its type, and no channel holds more than it can.
TypeOK == TaskOK /\ TcpOK /\ QueueOK /\ ExcuseOK

\* Whatever fails, what arrives at the far end is in the order it was sent, never
\* twice; and without a hole unless a receive channel overflowed.
DeliveredInOrder ==
    \A d \in Dir : \A i \in 1..Len(got[d]) :
        /\ \A j \in 1..(i - 1) : got[d][j] < got[d][i]
        /\ (\A e \in Dir : <<"overflow", e>> \notin excuse) => got[d][i] = i

\* A receiver that has not ended its own direction sees a clean end only when the
\* origin ended, and then it has everything: half-close loses nothing.  Excused
\* are flaws.
HalfCloseIsComplete ==
    \A d \in Dir : end[d] = "fin" /\ ~over[Back(d)] =>
        \/ over[d] /\ Len(got[d]) = sent[d]
        \/ Excused(d, Flaws)

\* In echo mode the way down continues the way up.
Origin(d) == IF echo THEN "up" ELSE d
Overflown(o) == \E d \in Dir : Origin(d) = o /\ <<"overflow", d>> \in excuse

\* Each direction is the Tunnel that was promised: order, completeness and finality
\* of what a receiver is given and of the end it sees, at every step.  A connection
\* is cut short by a flaw, or once the receiver itself ended: then a close may
\* overtake what is on its way.
Way(d) == INSTANCE Tunnel WITH
              sent <- sent[Origin(d)], over <- over[Origin(d)],
              got <- got[d], end <- end[d], holed <- Overflown(Origin(d)),
              cut <- over[Back(d)] \/ Excused(d, Flaws)
WaysAreTunnels ==
    /\ \A d \in Dir : Way(d)!Init
    /\ [][\A d \in Dir : [Way(d)!Next]_(Way(d)!tunnelVars)]_vars

(* The liveness properties say what holds in the end and for ever: the     *)
(* origins act finitely often, and nothing they speak of is ever undone.   *)

\* The end of an origin is seen at the far end, or ends the echo, whatever the
\* other direction does.  Excused: a marker lost on a full channel, an end before
\* any data, a fault, a refusing upstream.
EndTravels ==
    <>[](\A d \in Dir : over[d] =>
            \/ end[d] # "open" \/ (echo /\ task["server"] = "ended")
            \/ Excused(d, {"endLost", "unopened", "fault", "refused"}))

\* The application learns that its connection, its thread or the server's task is
\* gone; also when connect_stream returned a stream with no thread behind it.
\* Excused: slipstream's server task that ends without a shutdown, and a marker
\* lost on a full channel.
AppLearns ==
    <>[](dead["client"] \/ gone \/ task["server"] = "ended" =>
            end["down"] # "open" \/ Excused("down", {"silent", "endLost"}))

\* Once the client's task ended, the upstream sees the end, or the server's task
\* ends, or there is none.
UpstreamLearns ==
    <>[](task["client"] = "ended" =>
            task["server"] \in {"none", "ended"} \/ end["up"] # "open")

\* When both origins ended, both tasks end and give back their permits.  Excused:
\* the marker that was lost or ignored, and the silent end of slipstream's echo.
TasksEnd ==
    <>[](over["up"] /\ (echo \/ over["down"]) =>
            \/ task["client"] = "ended" /\ task["server"] \in {"none", "ended"}
            \/ \E d \in Dir : Excused(d, {"endLost", "unopened", "silent"}))

\* What an origin sent reaches the far end, in echo mode its sender, unless both
\* ended and a close may overtake it.  Excused are faults and slipstream's losses.
DataTravels ==
    <>[](\A d \in Dir :
            \/ Len(got[IF echo THEN "down" ELSE d]) >= sent[d]
            \/ over["up"] /\ (echo \/ over["down"])
            \/ \E e \in (IF echo THEN Dir ELSE {d}) :
                   Excused(e, {"overflow", "tail", "fault", "refused"}))
=============================================================================
