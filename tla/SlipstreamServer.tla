-------------------------- MODULE SlipstreamServer --------------------------
(***************************************************************************)
(* The server bridge of src/src/transport/slipstream.rs: one thread runs   *)
(* picoquic_packet_loop for all connections and keeps a map from the       *)
(* address of a connection to its channels; the halves of each new stream  *)
(* go through an unbounded queue to the accept loop of run_server, which   *)
(* gives each a task.                                                      *)
(*                                                                         *)
(* The halves are those of SlipstreamClient; here a stream has no part of  *)
(* a chunk pending, and its two halves are dropped together: the thread    *)
(* does not ask whether a receiver is dropped.  Data on a second stream of *)
(* a connection is ignored by the code and left out.                       *)
(***************************************************************************)
EXTENDS Naturals, Sequences, FiniteSets

CONSTANTS
    Conns,       \* addresses of picoquic connections, the keys of the map
    MaxStreams,  \* bound: streams ever made
    MaxReady,    \* bound: connections ever made at one address
    SendCap, RecvCap, WakeCap,   \* capacities: 512, 4096, 512 in the code
    MaxWrites,   \* bound: chunks a task writes
    MaxIn,       \* bound: chunks a peer sends
    AddMayFail   \* picoquic_add_to_stream may return an error

ASSUME ConstantsAssumption ==
    /\ IsFiniteSet(Conns)
    /\ MaxStreams \in Nat /\ MaxReady \in Nat /\ MaxWrites \in Nat /\ MaxIn \in Nat
    /\ SendCap \in Nat \ {0} /\ RecvCap \in Nat \ {0} /\ WakeCap \in Nat \ {0}
    /\ AddMayFail \in BOOLEAN

Streams == 1..MaxStreams  \* in the order they are made
NoStream == 0             \* stream_id is None
Fin == 0                  \* the empty Vec
SendItem == 0..MaxWrites

\* What comes from the peer: the connection it came on and its number there; the
\* end marker, the empty Vec, has number 0.
InItem == [conn : Conns, life : 1..MaxReady, n : 0..MaxIn]

VARIABLES
    lpc,        \* the thread
    todo, cur,  \* connections the AFTER_* callback has still to visit; now at
    known,      \* keys of the map connections
    stream,     \* the stream of a key's state
    made,       \* how many streams were made
    accept,     \* the accept loop and its end of the queue
    half,       \* the async side of each stream
    wpc, toSend, shut, written,   \* poll_write and poll_shutdown
    sendCh, recvCh, wakeCh,
    read, eof,  \* poll_read
    out,        \* external: items picoquic_add_to_stream took
    life,       \* external: connections there were at this address
    arrived, finIn,   \* external: what came on the present one
    overflow    \* history: an item found recvCh full

threadVars == <<lpc, todo, cur>>
mapVars == <<known, stream, made>>
writeVars == <<wpc, toSend, shut, written>>
readVars == <<read, eof>>
peerVars == <<life, arrived, finIn>>
vars == <<threadVars, mapVars, accept, half, writeVars, sendCh, recvCh, wakeCh,
          readVars, out, peerVars, overflow>>

Init ==
    /\ lpc = "start" /\ todo = {} /\ cur = {}
    /\ known = {} /\ stream = [c \in Conns |-> NoStream] /\ made = 0
    /\ accept = "loop"
    /\ half = [s \in Streams |-> "none"]
    /\ wpc = [s \in Streams |-> "idle"] /\ toSend = [s \in Streams |-> 0]
    /\ shut = [s \in Streams |-> FALSE] /\ written = [s \in Streams |-> <<>>]
    /\ sendCh = [s \in Streams |-> <<>>] /\ recvCh = [s \in Streams |-> <<>>]
    /\ wakeCh = [s \in Streams |-> 0]
    /\ read = [s \in Streams |-> <<>>] /\ eof = [s \in Streams |-> FALSE]
    /\ out = [s \in Streams |-> <<>>]
    /\ life = [c \in Conns |-> 0] /\ arrived = [c \in Conns |-> 0]
    /\ finIn = [c \in Conns |-> FALSE]
    /\ overflow = [s \in Streams |-> FALSE]

\* The thread's ends of the stream's channels exist: they are in the map.
Linked(s) == \E c \in known : stream[c] = s

-----------------------------------------------------------------------------
(* The accept loop of run_server.                                          *)

Queued == {s \in Streams : half[s] = "queued"}

\* accept_rx.recv() yields streams in the order they were made.
Accept(s) ==
    /\ accept = "loop"
    /\ s \in Queued /\ \A t \in Queued : s <= t
    /\ half' = [half EXCEPT ![s] = "open"]
    /\ UNCHANGED <<threadVars, mapVars, accept, writeVars, sendCh, recvCh,
                   wakeCh, readVars, out, peerVars, overflow>>

Signal ==
    /\ accept = "loop"
    /\ accept' = "draining"
    /\ UNCHANGED <<threadVars, mapVars, half, writeVars, sendCh, recvCh, wakeCh,
                   readVars, out, peerVars, overflow>>

\* recv() yields None: accept_tx was dropped.
QueueEnds ==
    /\ accept = "loop" /\ lpc = "gone" /\ Queued = {}
    /\ accept' = "draining"
    /\ UNCHANGED <<threadVars, mapVars, half, writeVars, sendCh, recvCh, wakeCh,
                   readVars, out, peerVars, overflow>>

\* run_server returns after the drain: accept_rx is dropped with what is in it.
Return ==
    /\ accept = "draining"
    /\ accept' = "returned"
    /\ half' = [s \in Streams |-> IF half[s] = "queued" THEN "dropped" ELSE half[s]]
    /\ recvCh' = [s \in Streams |-> IF half[s] = "queued" THEN <<>> ELSE recvCh[s]]
    /\ UNCHANGED <<threadVars, mapVars, writeVars, sendCh, wakeCh, readVars, out,
                   peerVars, overflow>>

-----------------------------------------------------------------------------
(* The task of a stream: the halves' polls, and the end of the task.       *)

BeginWrite(s) ==
    /\ half[s] = "open" /\ wpc[s] = "idle" /\ ~shut[s]
    /\ Len(written[s]) < MaxWrites
    /\ wpc' = [wpc EXCEPT ![s] = "try"]
    /\ toSend' = [toSend EXCEPT ![s] = Len(written[s]) + 1]
    /\ UNCHANGED <<threadVars, mapVars, accept, half, shut, written, sendCh,
                   recvCh, wakeCh, readVars, out, peerVars, overflow>>

\* send_tx.try_send: taken, refused because full, or the receiver is gone.
TrySend(s) ==
    /\ wpc[s] = "try"
    /\ \/ /\ Linked(s) /\ Len(sendCh[s]) < SendCap
          /\ sendCh' = [sendCh EXCEPT ![s] = Append(@, toSend[s])]
          /\ written' = [written EXCEPT ![s] = Append(@, toSend[s])]
          /\ wpc' = [wpc EXCEPT ![s] = "idle"]
       \/ /\ Linked(s) /\ Len(sendCh[s]) >= SendCap
          /\ wpc' = [wpc EXCEPT ![s] = "full"]
          /\ UNCHANGED <<sendCh, written>>
       \/ /\ ~Linked(s)
          /\ wpc' = [wpc EXCEPT ![s] = "broken"]
          /\ UNCHANGED <<sendCh, written>>
    /\ UNCHANGED <<threadVars, mapVars, accept, half, toSend, shut, recvCh,
                   wakeCh, readVars, out, peerVars, overflow>>

\* wake_rx.poll_recv after Full: a token, a closed channel, or the task parks.
PollWake(s) ==
    /\ wpc[s] = "full"
    /\ \/ /\ wakeCh[s] > 0
          /\ wakeCh' = [wakeCh EXCEPT ![s] = @ - 1]
          /\ wpc' = [wpc EXCEPT ![s] = "try"]
       \/ /\ wakeCh[s] = 0
          /\ wpc' = [wpc EXCEPT ![s] = IF Linked(s) THEN "parked" ELSE "broken"]
          /\ UNCHANGED wakeCh
    /\ UNCHANGED <<threadVars, mapVars, accept, half, toSend, shut, written,
                   sendCh, recvCh, readVars, out, peerVars, overflow>>

\* The relay's other direction wakes the task, which polls the write again.
Repoll(s) ==
    /\ wpc[s] = "parked"
    /\ wpc' = [wpc EXCEPT ![s] = "try"]
    /\ UNCHANGED <<threadVars, mapVars, accept, half, toSend, shut, written,
                   sendCh, recvCh, wakeCh, readVars, out, peerVars, overflow>>

\* try_send of the empty Vec; the result is ignored.
PollShutdown(s) ==
    /\ half[s] = "open" /\ wpc[s] = "idle" /\ ~shut[s]
    /\ shut' = [shut EXCEPT ![s] = TRUE]
    /\ IF Linked(s) /\ Len(sendCh[s]) < SendCap
       THEN /\ sendCh' = [sendCh EXCEPT ![s] = Append(@, Fin)]
            /\ written' = [written EXCEPT ![s] = Append(@, Fin)]
       ELSE UNCHANGED <<sendCh, written>>
    /\ UNCHANGED <<threadVars, mapVars, accept, half, wpc, toSend, recvCh,
                   wakeCh, readVars, out, peerVars, overflow>>

Readable(s) == half[s] = "open" /\ ~eof[s] /\ wpc[s] \in {"idle", "parked", "broken"}

\* poll_read: a chunk, or the empty Vec read as the end.
ReadChunk(s) ==
    /\ Readable(s) /\ recvCh[s] # <<>>
    /\ recvCh' = [recvCh EXCEPT ![s] = Tail(@)]
    /\ IF Head(recvCh[s]).n = 0
       THEN eof' = [eof EXCEPT ![s] = TRUE] /\ UNCHANGED read
       ELSE read' = [read EXCEPT ![s] = Append(@, Head(recvCh[s]))] /\ UNCHANGED eof
    /\ UNCHANGED <<threadVars, mapVars, accept, half, writeVars, sendCh, wakeCh,
                   out, peerVars, overflow>>

\* recv_tx is dropped and the channel is empty: None, read as the end.
ReadClosed(s) ==
    /\ Readable(s) /\ recvCh[s] = <<>> /\ ~Linked(s)
    /\ eof' = [eof EXCEPT ![s] = TRUE]
    /\ UNCHANGED <<threadVars, mapVars, accept, half, writeVars, sendCh, recvCh,
                   wakeCh, read, out, peerVars, overflow>>

\* The task ends at an await point and drops both halves, with all they hold;
\* what it wrote stays in the channel.
TaskEnds(s) ==
    /\ half[s] = "open" /\ wpc[s] \in {"idle", "parked", "broken"}
    /\ half' = [half EXCEPT ![s] = "dropped"]
    /\ wpc' = [wpc EXCEPT ![s] = "idle"] /\ toSend' = [toSend EXCEPT ![s] = 0]
    /\ shut' = [shut EXCEPT ![s] = FALSE] /\ eof' = [eof EXCEPT ![s] = FALSE]
    /\ read' = [read EXCEPT ![s] = <<>>] /\ overflow' = [overflow EXCEPT ![s] = FALSE]
    /\ recvCh' = [recvCh EXCEPT ![s] = <<>>]
    /\ wakeCh' = [wakeCh EXCEPT ![s] = 0]
    /\ UNCHANGED <<threadVars, mapVars, accept, written, sendCh, out, peerVars>>

-----------------------------------------------------------------------------
(* The thread.                                                             *)

\* PEM files, picoquic_create, and the second try fail: the Box is dropped, and
\* accept_tx with it.
CreateFails ==
    /\ lpc = "start"
    /\ lpc' = "gone"
    /\ UNCHANGED <<todo, cur, mapVars, accept, half, writeVars, sendCh, recvCh,
                   wakeCh, readVars, out, peerVars, overflow>>

Start ==
    /\ lpc = "start"
    /\ lpc' = "loop"
    /\ UNCHANGED <<todo, cur, mapVars, accept, half, writeVars, sendCh, recvCh,
                   wakeCh, readVars, out, peerVars, overflow>>

\* A writer parked on a wake channel whose sender is dropped polls again.
Wakened(gone) == [s \in Streams |-> IF s \in gone /\ wpc[s] = "parked" THEN "try" ELSE wpc[s]]

\* The states of the connections in cs are dropped, and the channel ends in them.
Unlink(cs) ==
    LET gone == {stream[c] : c \in cs \cap known} IN
    /\ known' = known \ cs
    /\ wpc' = Wakened(gone)
    /\ sendCh' = [s \in Streams |-> IF s \in gone THEN <<>> ELSE sendCh[s]]

\* picoquic_packet_loop returns.  picoquic_free deletes the connections and may
\* report the close of each; the Box is not reclaimed, nor what is left in it.
LoopEnds ==
    /\ lpc = "loop"
    /\ lpc' = "exited"
    /\ \E cs \in SUBSET known : Unlink(cs)
    /\ UNCHANGED <<todo, cur, stream, made, accept, half, toSend, shut, written,
                   recvCh, wakeCh, readVars, out, peerVars, overflow>>

\* mutant: every other connection is forgotten
VisitOne == {CHOOSE c \in Conns : TRUE} \cap {c \in known : stream[c] # NoStream}

\* The states the AFTER_* callback iterates over: those with a stream.
ToVisit == {c \in known : stream[c] # NoStream}

\* map.iter_mut() goes to a state of cs next, in no known order, or is at its end.
VisitNext(cs) ==
    \/ cs = {} /\ lpc' = "loop" /\ todo' = {} /\ cur' = {}
    \/ \E c \in cs : lpc' = "drain" /\ todo' = cs \ {c} /\ cur' = {c}

\* AFTER_RECEIVE or AFTER_SEND begins; with nothing to visit it has no effect.
After ==
    /\ lpc = "loop" /\ ToVisit # {}
    /\ VisitNext(ToVisit)
    /\ UNCHANGED <<mapVars, accept, half, writeVars, sendCh, recvCh, wakeCh,
                   readVars, out, peerVars, overflow>>

\* mutant: nobody is told of the last item
WakeUnlessLast(s) == Len(sendCh[s]) > 1

\* After each item the writer is woken.
Wakes(s) == TRUE

\* One turn of the drain loop: an item goes to QUIC, which may refuse it; then it
\* is gone.
Drain(c) ==
    LET s == stream[c] IN
    /\ lpc = "drain" /\ cur = {c} /\ sendCh[s] # <<>>
    /\ sendCh' = [sendCh EXCEPT ![s] = Tail(@)]
    /\ \/ out' = [out EXCEPT ![s] = Append(@, Head(sendCh[s]))]
       \/ AddMayFail /\ UNCHANGED out
    /\ lpc' = IF Wakes(s) THEN "wake" ELSE "drain"
    /\ UNCHANGED <<todo, cur, mapVars, accept, half, writeVars, recvCh, wakeCh,
                   readVars, peerVars, overflow>>

\* wake_tx.try_send: one more token unless the channel is full, and a parked
\* task polls the write again.
Wake(c) ==
    LET s == stream[c] IN
    /\ lpc = "wake" /\ cur = {c}
    /\ lpc' = "drain"
    /\ wakeCh' = [wakeCh EXCEPT ![s] =
                     IF half[s] # "dropped" /\ @ < WakeCap THEN @ + 1 ELSE @]
    /\ wpc' = Wakened({s})
    /\ UNCHANGED <<todo, cur, mapVars, accept, half, toSend, shut, written,
                   sendCh, recvCh, readVars, out, peerVars, overflow>>

\* try_recv fails, empty or the sender is dropped: on to the next state.
Drained(c) ==
    /\ lpc = "drain" /\ cur = {c} /\ sendCh[stream[c]] = <<>>
    /\ VisitNext(todo)
    /\ UNCHANGED <<mapVars, accept, half, writeVars, sendCh, recvCh, wakeCh,
                   readVars, out, peerVars, overflow>>

-----------------------------------------------------------------------------
(* server_stream_callback, called by picoquic from inside the loop.        *)

\* mutant: the state of the address is kept when a new connection is made there
KeepState(c) == UNCHANGED stream

\* The new connection's state has no stream yet.
FreshState(c) == stream' = [stream EXCEPT ![c] = NoStream]

\* A new connection, at an address that was never used or is free again.
CbReady(c) ==
    /\ lpc = "loop" /\ c \notin known /\ life[c] < MaxReady
    /\ life' = [life EXCEPT ![c] = @ + 1]
    /\ known' = known \cup {c}
    /\ FreshState(c)
    /\ UNCHANGED <<threadVars, made, accept, half, writeVars, sendCh, recvCh,
                   wakeCh, readVars, out, arrived, finIn, overflow>>

Full(s) == Len(recvCh[s]) >= RecvCap

\* mutant: the channel has no bound
PushUnbounded(s, x) ==
    /\ recvCh' = [recvCh EXCEPT ![s] = Append(@, x)]
    /\ UNCHANGED overflow

\* recv_tx.try_send, its result ignored: a full channel loses the item.
Push(s, x) ==
    /\ recvCh' = IF half[s] # "dropped" /\ ~Full(s)
                 THEN [recvCh EXCEPT ![s] = Append(@, x)] ELSE recvCh
    /\ overflow' = [overflow EXCEPT ![s] = @ \/ Full(s)]

Incoming(c, n) == [conn |-> c, life |-> life[c], n |-> n]

\* mutant: the bytes that made the stream are not forwarded to it
Created(c) == <<>>

\* What a new stream's channel holds: the data that made the stream.
FirstItems(c) == <<Incoming(c, arrived[c] + 1)>>

\* The first data makes the channels, and the halves go to the accept loop; with
\* accept_rx dropped the halves are dropped on the spot.
CbFirstData(c) ==
    /\ lpc = "loop" /\ c \in known /\ stream[c] = NoStream
    /\ ~finIn[c] /\ arrived[c] < MaxIn /\ made < MaxStreams
    /\ made' = made + 1
    /\ stream' = [stream EXCEPT ![c] = made + 1]
    /\ arrived' = [arrived EXCEPT ![c] = @ + 1]
    /\ IF accept = "returned"
       THEN /\ half' = [half EXCEPT ![made + 1] = "dropped"]
            /\ UNCHANGED recvCh
       ELSE /\ half' = [half EXCEPT ![made + 1] = "queued"]
            /\ recvCh' = [recvCh EXCEPT ![made + 1] = FirstItems(c)]
    /\ UNCHANGED <<threadVars, known, accept, writeVars, sendCh, wakeCh, readVars,
                   out, life, finIn, overflow>>

CbData(c) ==
    /\ lpc = "loop" /\ c \in known /\ stream[c] # NoStream
    /\ ~finIn[c] /\ arrived[c] < MaxIn
    /\ arrived' = [arrived EXCEPT ![c] = @ + 1]
    /\ Push(stream[c], Incoming(c, arrived[c] + 1))
    /\ UNCHANGED <<threadVars, mapVars, accept, half, writeVars, sendCh, wakeCh,
                   readVars, out, life, finIn>>

\* stream_fin: an end marker if the stream is known; one that comes first is
\* ignored.  Bytes that come with the event are not looked at.
CbFin(c) ==
    /\ lpc = "loop" /\ c \in known /\ ~finIn[c]
    /\ finIn' = [finIn EXCEPT ![c] = TRUE]
    /\ IF stream[c] = NoStream
       THEN UNCHANGED <<recvCh, overflow>>
       ELSE Push(stream[c], Incoming(c, 0))
    /\ UNCHANGED <<threadVars, mapVars, accept, half, writeVars, sendCh, wakeCh,
                   readVars, out, life, arrived>>

\* close, application_close or stateless_reset: the state leaves the map.
\* stream_reset and stop_sending change nothing.
CbClose(c) ==
    /\ lpc = "loop" /\ c \in known
    /\ Unlink({c})
    /\ arrived' = [arrived EXCEPT ![c] = 0] /\ finIn' = [finIn EXCEPT ![c] = FALSE]
    /\ UNCHANGED <<threadVars, stream, made, accept, half, toSend, shut, written,
                   recvCh, wakeCh, readVars, out, life, overflow>>

-----------------------------------------------------------------------------

Server == (\E s \in Streams : Accept(s)) \/ QueueEnds \/ Return

Poll(s) == TrySend(s) \/ PollWake(s)
Reading(s) == ReadChunk(s) \/ ReadClosed(s)

Task(s) ==
    BeginWrite(s) \/ Poll(s) \/ Repoll(s) \/ PollShutdown(s) \/ Reading(s) \/ TaskEnds(s)

InAfter(c) == Drain(c) \/ Wake(c) \/ Drained(c)

Loop == Start \/ After \/ \E c \in Conns : InAfter(c)

Callback(c) == CbReady(c) \/ CbFirstData(c) \/ CbData(c) \/ CbFin(c) \/ CbClose(c)

Next ==
    \/ Signal \/ Server \/ CreateFails \/ LoopEnds \/ Loop
    \/ \E s \in Streams : Task(s)
    \/ \E c \in Conns : Callback(c)

Spec == Init /\ [][Next]_vars

\* The loop's cycle does not stop and the runtime polls a woken task.  picoquic, the
\* network and the signal owe nothing, nor does any task have to read.
Fairness == WF_vars(Loop) /\ \A s \in Streams : WF_vars(Poll(s))

-----------------------------------------------------------------------------
(* What must hold.                                                         *)

MapOK ==
    /\ lpc \in {"start", "loop", "drain", "wake", "exited", "gone"}
    /\ todo \subseteq Conns /\ (cur = {} \/ \E c \in Conns : cur = {c})
    /\ known \subseteq Conns /\ stream \in [Conns -> 0..MaxStreams]
    /\ made \in 0..MaxStreams
    /\ accept \in {"loop", "draining", "returned"}
    /\ life \in [Conns -> 0..MaxReady] /\ arrived \in [Conns -> 0..MaxIn]
    /\ finIn \in [Conns -> BOOLEAN]

TaskOK ==
    /\ half \in [Streams -> {"none", "queued", "open", "dropped"}]
    /\ wpc \in [Streams -> {"idle", "try", "full", "parked", "broken"}]
    /\ toSend \in [Streams -> SendItem] /\ shut \in [Streams -> BOOLEAN]
    /\ eof \in [Streams -> BOOLEAN] /\ overflow \in [Streams -> BOOLEAN]
    /\ wakeCh \in [Streams -> 0..WakeCap]

SendChannel == {q \in Seq(SendItem) : Len(q) <= SendCap}
RecvChannel == {q \in Seq(InItem) : Len(q) <= RecvCap}

SendOK ==
    /\ written \in [Streams -> Seq(SendItem)] /\ out \in [Streams -> Seq(SendItem)]
    /\ sendCh \in [Streams -> SendChannel]

ReceiveOK == recvCh \in [Streams -> RecvChannel] /\ read \in [Streams -> Seq(InItem)]

\* Every variable has its type, and no channel holds more than it can.
TypeOK == MapOK /\ TaskOK /\ SendOK /\ ReceiveOK

\* While the loop runs, a task parked in poll_write will be woken: its stream is
\* in the map, and the thread has an item of it to take or a wake for it to send.
NoLostWakeup ==
    \A s \in Streams : wpc[s] = "parked" /\ lpc # "exited" =>
        \E c \in known :
            /\ stream[c] = s
            /\ sendCh[s] # <<>> \/ (lpc = "wake" /\ cur = {c})

\* Each stream's send path is the FIFO SendFifo promises, until the connection is
\* closed; a task that ends takes nothing of what it wrote with it.  Holds when
\* picoquic_add_to_stream does not fail.
Fifo(s) == INSTANCE SendFifo WITH
               Item <- SendItem, Cap <- SendCap, written <- written[s],
               out <- out[s], closed <- (s <= made /\ ~Linked(s))
SendPathsAreFifo ==
    /\ \A s \in Streams : Fifo(s)!Init
    /\ [][\A s \in Streams : [Fifo(s)!Next]_(Fifo(s)!fifoVars)]_vars

\* A stream reads the chunks of one connection, in order, although picoquic may
\* make a new connection at the address of one it deleted; it begins with the data
\* that made it, and leaves none out unless the channel overflowed, also when the
\* connection is closed or the loop ends in the middle of a transfer.
ReadsOneConnection ==
    \A s \in Streams :
        /\ \A i, j \in 1..Len(read[s]) : i < j =>
              /\ read[s][i].conn = read[s][j].conn /\ read[s][i].life = read[s][j].life
              /\ read[s][i].n < read[s][j].n
        /\ ~overflow[s] => \A i \in 1..Len(read[s]) : read[s][i].n = i

\* A stream that sees its end while the connection is there has read everything
\* that came as data, unless the channel overflowed.
TailComplete ==
    \A c \in known : LET s == stream[c] IN
        s # NoStream /\ half[s] = "open" /\ eof[s] /\ ~overflow[s] =>
            finIn[c] /\ Len(read[s]) = arrived[c]

\* What poll_write and poll_shutdown accepted is offered to picoquic, although one
\* thread serves all connections and their tasks keep writing, and also after the
\* task ended; unless the connection is closed or the loop ends.
AcceptedReachesQuic ==
    \A s \in Streams : \A n \in 1..(MaxWrites + 1) :
        Len(written[s]) >= n ~>
            Len(written[s]) - Len(sendCh[s]) >= n \/ ~Linked(s) \/ lpc = "exited"

\* A task parked in poll_write is woken, by the drain of its own connection or by its
\* close, whatever the thread has to do for the others; unless the loop ends.
ParkedWriterResumes ==
    \A s \in Streams : wpc[s] = "parked" ~> wpc[s] # "parked" \/ lpc = "exited"
=============================================================================
