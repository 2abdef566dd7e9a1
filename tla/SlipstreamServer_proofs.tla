----------------------- MODULE SlipstreamServer_proofs -----------------------
(***************************************************************************)
(* Invariants of SlipstreamServer, for any finite set of addresses, any    *)
(* capacities and bounds, with and without refusals.                       *)
(***************************************************************************)
EXTENDS SlipstreamServer, TLAPS

USE ConstantsAssumption DEF Streams, NoStream, Fin, SendItem

-----------------------------------------------------------------------------
(* Types.  An item names the connection it came on, so an address that is  *)
(* in the map has had a connection.                                        *)

KnownAlive == \A c \in known : life[c] >= 1

Types == TypeOK /\ KnownAlive

\* What is known of the sequences of one stream.
LEMMA SendItems ==
    ASSUME SendOK, NEW s \in Streams
    PROVE  /\ sendCh[s] \in Seq(SendItem) /\ Len(sendCh[s]) \in Nat /\ Len(sendCh[s]) <= SendCap
           /\ written[s] \in Seq(SendItem) /\ out[s] \in Seq(SendItem)
<1>1. sendCh[s] \in SendChannel BY DEF SendOK
<1> QED BY <1>1 DEF SendOK, SendChannel

LEMMA RecvItems ==
    ASSUME ReceiveOK, NEW s \in Streams
    PROVE  /\ recvCh[s] \in Seq(InItem) /\ Len(recvCh[s]) \in Nat /\ Len(recvCh[s]) <= RecvCap
           /\ read[s] \in Seq(InItem)
<1>1. recvCh[s] \in RecvChannel BY DEF ReceiveOK
<1> QED BY <1>1 DEF ReceiveOK, RecvChannel

\* The wake-up of a set of writers keeps their states' type.
LEMMA WakenedType ==
    ASSUME TaskOK, NEW gone
    PROVE  Wakened(gone) \in [Streams -> {"idle", "try", "full", "parked", "broken"}]
BY DEF TaskOK, Wakened

\* Dropping the states of some connections keeps the types.
LEMMA UnlinkType ==
    ASSUME TypeOK, NEW cs, Unlink(cs)
    PROVE  /\ known' \subseteq known
           /\ wpc' \in [Streams -> {"idle", "try", "full", "parked", "broken"}]
           /\ sendCh' \in [Streams -> SendChannel]
<1> DEFINE gone == {stream[c] : c \in cs \cap known}
<1>1. known' = known \ cs /\ wpc' = Wakened(gone)
      /\ sendCh' = [s \in Streams |-> IF s \in gone THEN <<>> ELSE sendCh[s]]
  BY DEF Unlink
<1>2. <<>> \in SendChannel BY DEF SendChannel
<1> HIDE DEF gone
<1> QED BY <1>1, <1>2, WakenedType DEF TypeOK, SendOK

\* A new item in a receive channel, or its loss, keeps the types.
LEMMA PushType ==
    ASSUME TypeOK, NEW s \in Streams, NEW x \in InItem, Push(s, x)
    PROVE  recvCh' \in [Streams -> RecvChannel] /\ overflow' \in [Streams -> BOOLEAN]
<1> DEFINE q == Append(recvCh[s], x)
<1>1. overflow' \in [Streams -> BOOLEAN]
  BY DEF Push, TypeOK, TaskOK, Full
<1>2. CASE ~Full(s) /\ recvCh' = [recvCh EXCEPT ![s] = q]
  <2>1. q \in RecvChannel
    BY <1>2, RecvItems DEF TypeOK, RecvChannel, Full
  <2> HIDE DEF q
  <2> QED BY <1>1, <1>2, <2>1 DEF TypeOK, ReceiveOK
<1>3. CASE recvCh' = recvCh
  BY <1>1, <1>3 DEF TypeOK, ReceiveOK
<1> QED BY <1>2, <1>3 DEF Push

LEMMA IncomingType ==
    ASSUME Types, NEW c \in known, NEW n \in 0..MaxIn
    PROVE  Incoming(c, n) \in InItem
BY DEF Types, TypeOK, MapOK, KnownAlive, Incoming, InItem

\* The steps of the task of a stream keep the types.
LEMMA TaskTypes == ASSUME Types, NEW s \in Streams, Task(s) PROVE Types'
<1> USE DEF Types, TypeOK, KnownAlive
<1>1. CASE BeginWrite(s)
  <2>1. Len(written[s]) + 1 \in SendItem
    BY <1>1 DEF BeginWrite, SendOK
  <2> QED BY <1>1, <2>1 DEF BeginWrite, threadVars, mapVars, readVars, peerVars, MapOK, TaskOK, SendOK, ReceiveOK
<1>2. CASE TrySend(s)
  <2> DEFINE w == Append(written[s], toSend[s])
             q == Append(sendCh[s], toSend[s])
  <2>1. ASSUME Linked(s), Len(sendCh[s]) < SendCap PROVE SendOK'
    <3>1. toSend[s] \in SendItem BY DEF TaskOK
    <3>2. w \in Seq(SendItem) /\ q \in SendChannel
      BY <2>1, <3>1, SendItems DEF SendChannel
    <3>3. sendCh' = [sendCh EXCEPT ![s] = q] /\ written' = [written EXCEPT ![s] = w] /\ out' = out
      BY <1>2, <2>1 DEF TrySend
    <3> HIDE DEF w, q
    <3> QED BY <3>2, <3>3 DEF SendOK
  <2>2. ASSUME ~(Linked(s) /\ Len(sendCh[s]) < SendCap) PROVE SendOK'
    BY <1>2, <2>2 DEF TrySend, SendOK
  <2>3. TaskOK'
    BY <1>2 DEF TrySend, TaskOK, readVars
  <2>4. SendOK'
    BY <2>1, <2>2
  <2> QED BY <1>2, <2>3, <2>4 DEF TrySend, threadVars, mapVars, readVars, peerVars, MapOK, ReceiveOK
<1>3. CASE PollWake(s)
  <2>2. wpc' \in [Streams -> {"idle", "try", "full", "parked", "broken"}]
    BY <1>3 DEF PollWake, TaskOK
  <2>3. wakeCh' \in [Streams -> 0..WakeCap]
    <3>1. CASE wakeCh[s] > 0 /\ wakeCh' = [wakeCh EXCEPT ![s] = @ - 1]
      <4>1. wakeCh[s] \in 0..WakeCap BY DEF TaskOK
      <4>2. PICK w \in 0..WakeCap : w = wakeCh[s] - 1 BY ONLY <3>1, <4>1, ConstantsAssumption
      <4>3. wakeCh' = [wakeCh EXCEPT ![s] = w] BY ONLY <3>1, <4>2
      <4>4. wakeCh \in [Streams -> 0..WakeCap] BY DEF TaskOK
      <4> QED BY ONLY <4>3, <4>4, w \in 0..WakeCap
    <3>2. CASE UNCHANGED wakeCh
      BY <3>2 DEF TaskOK
    <3> QED BY <1>3, <3>1, <3>2 DEF PollWake
  <2>1. TaskOK'
    BY <1>3, <2>2, <2>3 DEF PollWake, TaskOK, readVars
  <2> QED BY <1>3, <2>1 DEF PollWake, threadVars, mapVars, readVars, peerVars, MapOK, SendOK, ReceiveOK
<1>4. CASE Repoll(s)
  BY <1>4 DEF Repoll, threadVars, mapVars, readVars, peerVars, MapOK, TaskOK, SendOK, ReceiveOK
<1>5. CASE PollShutdown(s)
  <2> DEFINE w == Append(written[s], Fin)
             q == Append(sendCh[s], Fin)
  <2>1. ASSUME Linked(s), Len(sendCh[s]) < SendCap PROVE SendOK'
    <3>1. w \in Seq(SendItem) /\ q \in SendChannel
      BY <2>1, SendItems DEF SendChannel
    <3>2. sendCh' = [sendCh EXCEPT ![s] = q] /\ written' = [written EXCEPT ![s] = w] /\ out' = out
      BY <1>5, <2>1 DEF PollShutdown
    <3> HIDE DEF w, q
    <3> QED BY <3>1, <3>2 DEF SendOK
  <2>2. ASSUME ~(Linked(s) /\ Len(sendCh[s]) < SendCap) PROVE SendOK'
    BY <1>5, <2>2 DEF PollShutdown, SendOK
  <2>3. SendOK'
    BY <2>1, <2>2
  <2> QED BY <1>5, <2>3 DEF PollShutdown, threadVars, mapVars, readVars, peerVars, MapOK, TaskOK, ReceiveOK
<1>6. CASE ReadChunk(s)
  <2> DEFINE q == Tail(recvCh[s])
             r == Append(read[s], Head(recvCh[s]))
  <2>1. recvCh[s] # <<>> BY <1>6 DEF ReadChunk
  <2>2. q \in RecvChannel /\ r \in Seq(InItem)
    BY <2>1, RecvItems DEF RecvChannel
  <2>3. recvCh' = [recvCh EXCEPT ![s] = q] /\ (read' = [read EXCEPT ![s] = r] \/ read' = read)
    BY <1>6 DEF ReadChunk
  <2>4. ReceiveOK'
    <3> HIDE DEF q, r
    <3> QED BY <2>2, <2>3 DEF ReceiveOK
  <2>5. TaskOK'
    BY <1>6 DEF ReadChunk, writeVars, TaskOK
  <2> QED BY <1>6, <2>4, <2>5 DEF ReadChunk, threadVars, mapVars, writeVars, peerVars, MapOK, SendOK
<1>7. CASE ReadClosed(s)
  BY <1>7 DEF ReadClosed, threadVars, mapVars, writeVars, peerVars, MapOK, TaskOK, SendOK, ReceiveOK
<1>8. CASE TaskEnds(s)
  <2>1. TaskOK'
    BY <1>8 DEF TaskEnds, TaskOK
  <2>3. <<>> \in RecvChannel BY DEF RecvChannel
  <2>2. ReceiveOK'
    BY <1>8, <2>3 DEF TaskEnds, ReceiveOK
  <2> QED BY <1>8, <2>1, <2>2 DEF TaskEnds, threadVars, mapVars, peerVars, MapOK, SendOK
<1> QED BY <1>1, <1>2, <1>3, <1>4, <1>5, <1>6, <1>7, <1>8 DEF Task, Poll, Reading

\* The accept loop's steps keep the types.
LEMMA ServerTypes == ASSUME Types, Server \/ Signal PROVE Types'
<1> USE DEF Types, TypeOK, KnownAlive
<1>1. ASSUME NEW s \in Streams, Accept(s) PROVE Types'
  BY <1>1 DEF Accept, threadVars, mapVars, writeVars, readVars, peerVars, MapOK, TaskOK, SendOK, ReceiveOK
<1>2. CASE Signal \/ QueueEnds
  BY <1>2 DEF Signal, QueueEnds, threadVars, mapVars, writeVars, readVars, peerVars, MapOK, TaskOK, SendOK, ReceiveOK
<1>3. CASE Return
  <2>2. <<>> \in RecvChannel BY DEF RecvChannel
  <2>1. ReceiveOK'
    BY <1>3, <2>2 DEF Return, readVars, ReceiveOK
  <2> QED BY <1>3, <2>1 DEF Return, threadVars, mapVars, writeVars, readVars, peerVars, MapOK, TaskOK, SendOK
<1> QED BY <1>1, <1>2, <1>3 DEF Server

\* The thread's steps keep the types.
LEMMA LoopTypes == ASSUME Types, Loop \/ CreateFails \/ LoopEnds PROVE Types'
<1> USE DEF Types, TypeOK, KnownAlive
<1>1. CASE Start \/ CreateFails
  BY <1>1 DEF Start, CreateFails, threadVars, mapVars, writeVars, readVars, peerVars, MapOK, TaskOK, SendOK, ReceiveOK
<1>2. CASE LoopEnds
  <2>1. PICK cs \in SUBSET known : Unlink(cs)
    BY <1>2 DEF LoopEnds
  <2> QED BY <1>2, <2>1, UnlinkType DEF LoopEnds, readVars, peerVars, MapOK, TaskOK, SendOK, ReceiveOK
<1>3. CASE After
  <2>1. MapOK'
    BY <1>3 DEF After, VisitNext, ToVisit, mapVars, peerVars, MapOK
  <2> QED BY <1>3, <2>1 DEF After, mapVars, writeVars, readVars, peerVars, TaskOK, SendOK, ReceiveOK
<1>4. ASSUME NEW c \in Conns, Drain(c) PROVE Types'
  <2> DEFINE s == stream[c]
             q == Tail(sendCh[s])
             o == Append(out[s], Head(sendCh[s]))
  <2>1. sendCh' = [sendCh EXCEPT ![s] = q] /\ (out' = [out EXCEPT ![s] = o] \/ out' = out)
        /\ written' = written
    BY <1>4 DEF Drain, writeVars
  <2>2. ASSUME s \in Streams PROVE SendOK'
    <3>1. sendCh[s] # <<>> BY <1>4 DEF Drain
    <3>2. q \in SendChannel /\ o \in Seq(SendItem)
      <4>1. sendCh[s] \in SendChannel /\ out[s] \in Seq(SendItem)
        BY <2>2 DEF SendOK
      <4> HIDE DEF Types, TypeOK, KnownAlive
      <4> QED BY <3>1, <4>1, SendItems DEF SendChannel
    <3> HIDE DEF q, o, s
    <3>3. sendCh' \in [Streams -> SendChannel]
      <4>1. sendCh \in [Streams -> SendChannel] BY DEF SendOK
      <4> QED BY <2>1, <2>2, <3>2, <4>1
    <3>4. out' \in [Streams -> Seq(SendItem)]
      <4>1. out \in [Streams -> Seq(SendItem)] BY DEF SendOK
      <4> QED BY <2>1, <2>2, <3>2, <4>1
    <3> QED BY <2>1, <3>3, <3>4, Zenon DEF SendOK
  <2>3. ASSUME s \notin Streams PROVE SendOK'
    <3> HIDE DEF q, o, s
    <3> QED BY <2>1, <2>3 DEF SendOK
  <2>4. SendOK' BY <2>2, <2>3
  <2> QED BY <1>4, <2>4 DEF Drain, mapVars, writeVars, readVars, peerVars, MapOK, TaskOK, ReceiveOK
<1>5. ASSUME NEW c \in Conns, Wake(c) PROVE Types'
  <2>1. wpc' \in [Streams -> {"idle", "try", "full", "parked", "broken"}]
    BY <1>5, WakenedType DEF Wake
  <2> DEFINE s == stream[c]
  <2>3. wakeCh' = [wakeCh EXCEPT ![s] = IF half[s] # "dropped" /\ @ < WakeCap THEN @ + 1 ELSE @]
    BY <1>5 DEF Wake
  <2>2. wakeCh' \in [Streams -> 0..WakeCap]
    <3> HIDE DEF s
    <3>1. ASSUME NEW t \in Streams PROVE wakeCh'[t] \in 0..WakeCap
      BY <2>3 DEF TaskOK
    <3> QED BY <2>3, <3>1 DEF TaskOK
  <2> QED BY <1>5, <2>1, <2>2 DEF Wake, mapVars, readVars, peerVars, MapOK, TaskOK, SendOK, ReceiveOK
<1>6. ASSUME NEW c \in Conns, Drained(c) PROVE Types'
  <2>1. MapOK'
    BY <1>6 DEF Drained, VisitNext, mapVars, peerVars, MapOK
  <2> QED BY <1>6, <2>1 DEF Drained, mapVars, writeVars, readVars, peerVars, TaskOK, SendOK, ReceiveOK
<1> QED BY <1>1, <1>2, <1>3, <1>4, <1>5, <1>6 DEF Loop, InAfter

\* picoquic's callbacks keep the types.
LEMMA CallbackTypes == ASSUME Types, NEW c \in Conns, Callback(c) PROVE Types'
<1> USE DEF Types, TypeOK, KnownAlive
<1>1. CASE CbReady(c)
  <2>1. MapOK' /\ KnownAlive'
    BY <1>1 DEF CbReady, FreshState, threadVars, MapOK
  <2> QED BY <1>1, <2>1 DEF CbReady, writeVars, readVars, TaskOK, SendOK, ReceiveOK
<1>2. CASE CbFirstData(c)
  <2>1. Incoming(c, arrived[c] + 1) \in InItem /\ made + 1 \in Streams
    BY <1>2, IncomingType DEF CbFirstData, MapOK
  <2>2. MapOK' /\ KnownAlive'
    BY <1>2, <2>1 DEF CbFirstData, threadVars, MapOK
  <2>3. TaskOK'
    BY <1>2 DEF CbFirstData, writeVars, readVars, TaskOK
  <2>4. FirstItems(c) \in RecvChannel
    BY <2>1 DEF FirstItems, RecvChannel
  <2>6. read' = read /\ (recvCh' = recvCh \/ recvCh' = [recvCh EXCEPT ![made + 1] = FirstItems(c)])
    BY <1>2 DEF CbFirstData, readVars
  <2>5. ReceiveOK'
    BY <2>1, <2>4, <2>6 DEF ReceiveOK
  <2> QED BY <1>2, <2>2, <2>3, <2>5 DEF CbFirstData, writeVars, SendOK
<1>3. CASE CbData(c)
  <2>1. Incoming(c, arrived[c] + 1) \in InItem /\ stream[c] \in Streams
    BY <1>3, IncomingType DEF CbData, MapOK
  <2>2. MapOK' /\ KnownAlive'
    BY <1>3, <2>1 DEF CbData, threadVars, mapVars, MapOK
  <2> QED BY <1>3, <2>1, <2>2, PushType DEF CbData, writeVars, readVars, TaskOK, SendOK, ReceiveOK
<1>4. CASE CbFin(c)
  <2>1. Incoming(c, 0) \in InItem
    BY <1>4, IncomingType DEF CbFin, MapOK
  <2>2. MapOK' /\ KnownAlive'
    BY <1>4 DEF CbFin, threadVars, mapVars, MapOK
  <2>3. CASE stream[c] = NoStream
    BY <1>4, <2>2, <2>3 DEF CbFin, writeVars, readVars, TaskOK, SendOK, ReceiveOK
  <2>4. CASE stream[c] # NoStream
    <3>1. stream[c] \in Streams
      BY <2>4 DEF MapOK
    <3> QED BY <1>4, <2>1, <2>2, <2>4, <3>1, PushType DEF CbFin, writeVars, readVars, TaskOK, SendOK, ReceiveOK
  <2> QED BY <2>3, <2>4
<1>5. CASE CbClose(c)
  <2>1. /\ known' \subseteq known
        /\ wpc' \in [Streams -> {"idle", "try", "full", "parked", "broken"}]
        /\ sendCh' \in [Streams -> SendChannel]
    BY <1>5, UnlinkType DEF CbClose
  <2>2. MapOK' /\ KnownAlive'
    BY <1>5, <2>1 DEF CbClose, threadVars, MapOK
  <2> QED BY <1>5, <2>1, <2>2 DEF CbClose, readVars, TaskOK, SendOK, ReceiveOK
<1> QED BY <1>1, <1>2, <1>3, <1>4, <1>5 DEF Callback

LEMMA TypesStep == Types /\ [Next]_vars => Types'
<1> SUFFICES ASSUME Types, [Next]_vars PROVE Types' OBVIOUS
<1>1. CASE UNCHANGED vars
  BY <1>1 DEF vars, threadVars, mapVars, writeVars, readVars, peerVars, Types, KnownAlive, TypeOK,
              MapOK, TaskOK, SendOK, ReceiveOK
<1> QED BY <1>1, TaskTypes, ServerTypes, LoopTypes, CallbackTypes DEF Next

LEMMA TypesInit == Init => Types
<1> SUFFICES ASSUME Init PROVE Types OBVIOUS
<1>1. <<>> \in SendChannel /\ <<>> \in RecvChannel
  BY DEF SendChannel, RecvChannel
<1>2. MapOK /\ TaskOK /\ KnownAlive
  BY DEF Init, MapOK, TaskOK, KnownAlive
<1> QED BY <1>1, <1>2 DEF Init, Types, TypeOK, SendOK, ReceiveOK

LEMMA TypesAlways == Spec => []Types
BY TypesInit, TypesStep, PTL DEF Spec

\* Every variable has its type, and no channel holds more than it can.
THEOREM TypeCorrect == Spec => []TypeOK
<1>1. Types => TypeOK BY DEF Types
<1> QED BY <1>1, TypesAlways, PTL

-----------------------------------------------------------------------------
(* How streams, connections and tasks belong together.                     *)

\* A stream that was not made yet has no task.
Unmade == \A s \in Streams : s > made => wpc[s] = "idle" /\ half[s] = "none"

\* No two connections in the map have the same stream.
Distinct ==
    /\ \A c \in Conns : stream[c] <= made
    /\ \A c, d \in known : stream[c] = stream[d] => stream[c] = NoStream \/ c = d

\* The AFTER_* callback is at a state of the map that has a stream.
Visiting ==
    /\ lpc \in {"drain", "wake"} => todo \subseteq ToVisit /\ \E c \in ToVisit : cur = {c}

\* Only an open stream's task is in poll_write.
WriterOpen == \A s \in Streams : wpc[s] \in {"try", "full", "parked"} => half[s] = "open"

Structure == Unmade /\ Distinct /\ Visiting /\ WriterOpen

LEMMA StructureInit == Init => Structure
BY DEF Init, Structure, Unmade, Distinct, Visiting, WriterOpen

\* What the task and the accept loop do to the writer's state and to half.
LEMMA TaskStructure ==
    ASSUME Types, Structure, NEW s \in Streams, Task(s) \/ Accept(s) PROVE Structure'
<1> USE DEF Types, TypeOK, MapOK, TaskOK
<1>1. UNCHANGED <<threadVars, mapVars>>
  BY DEF Task, Poll, Reading, BeginWrite, TrySend, PollWake, Repoll, PollShutdown, ReadChunk, ReadClosed, TaskEnds, Accept
<1>2. Distinct' /\ Visiting'
  BY <1>1 DEF Structure, Distinct, Visiting, threadVars, mapVars, ToVisit
<1> SUFFICES Unmade' /\ WriterOpen'
  BY <1>2 DEF Structure
<1> USE DEF Structure, Unmade, WriterOpen
<1>3. \A t \in Streams \ {s} : wpc'[t] = wpc[t] /\ half'[t] = half[t]
  <2>1. CASE BeginWrite(s) \/ Repoll(s) \/ PollShutdown(s) \/ ReadClosed(s) \/ TaskEnds(s) \/ Accept(s)
    BY <2>1 DEF BeginWrite, Repoll, PollShutdown, ReadClosed, TaskEnds, Accept, writeVars
  <2>2. CASE TrySend(s)
    BY <2>2 DEF TrySend
  <2>3. CASE PollWake(s)
    BY <2>3 DEF PollWake
  <2>4. CASE ReadChunk(s)
    BY <2>4 DEF ReadChunk, writeVars
  <2> QED BY <2>1, <2>2, <2>3, <2>4 DEF Task, Poll, Reading
<1>4. CASE wpc'[s] = wpc[s] /\ half'[s] = half[s]
  <2>1. \A t \in Streams : wpc'[t] = wpc[t] /\ half'[t] = half[t]
    BY <1>3, <1>4
  <2>2. made' = made BY <1>1 DEF mapVars
  <2> QED BY <2>1, <2>2
<1>5. CASE half[s] = "open" /\ half'[s] = "open"
  BY <1>1, <1>3, <1>5 DEF mapVars
<1>6. CASE half[s] # "none" /\ wpc'[s] = "idle"
  BY <1>1, <1>3, <1>6 DEF mapVars
<1>7. CASE half[s] = "queued" /\ wpc'[s] = wpc[s]
  BY <1>1, <1>3, <1>7 DEF mapVars
<1>8. QED
  <2>1. CASE BeginWrite(s) BY <1>5, <2>1 DEF BeginWrite
  <2>2. CASE TrySend(s) BY <1>5, <2>2 DEF TrySend
  <2>3. CASE PollWake(s) BY <1>5, <2>3 DEF PollWake
  <2>4. CASE Repoll(s) BY <1>5, <2>4 DEF Repoll
  <2>5. CASE PollShutdown(s) BY <1>4, <2>5 DEF PollShutdown
  <2>6. CASE ReadChunk(s) \/ ReadClosed(s) BY <1>4, <2>6 DEF ReadChunk, ReadClosed, writeVars
  <2>7. CASE TaskEnds(s) BY <1>6, <2>7 DEF TaskEnds
  <2>8. CASE Accept(s) BY <1>7, <2>8 DEF Accept, Queued, writeVars
  <2> QED BY <2>1, <2>2, <2>3, <2>4, <2>5, <2>6, <2>7, <2>8 DEF Task, Poll, Reading

\* A writer is only ever woken by the thread, and wakened writers are open.
LEMMA WakenedStructure ==
    ASSUME Types, Structure, NEW gone, wpc' = Wakened(gone), UNCHANGED <<made, half>>
    PROVE  Unmade' /\ WriterOpen'
BY DEF Wakened, Structure, Unmade, WriterOpen, Types, TypeOK, TaskOK

LEMMA SameStructure ==
    ASSUME Structure, UNCHANGED <<threadVars, mapVars, wpc, half>> PROVE Structure'
BY DEF Structure, Unmade, Distinct, Visiting, WriterOpen, ToVisit, threadVars, mapVars

LEMMA OtherStructure ==
    ASSUME Types, Structure, Signal \/ QueueEnds \/ Return \/ CreateFails \/ LoopEnds \/ Loop
    PROVE  Structure'
<1> USE DEF Structure, Types, TypeOK, MapOK, TaskOK
<1>1. CASE Signal \/ QueueEnds
  BY <1>1, SameStructure DEF Signal, QueueEnds, writeVars
<1>2. CASE Return
  BY <1>2 DEF Return, threadVars, mapVars, writeVars, Unmade, Distinct, Visiting, WriterOpen, ToVisit
<1>3. CASE CreateFails \/ Start
  BY <1>3 DEF CreateFails, Start, mapVars, writeVars, Unmade, Distinct, Visiting, WriterOpen
<1>4. CASE LoopEnds
  <2>1. PICK cs \in SUBSET known : Unlink(cs) BY <1>4 DEF LoopEnds
  <2>2. known' = known \ cs /\ \E gone : wpc' = Wakened(gone)
    BY <2>1 DEF Unlink
  <2>3. UNCHANGED <<stream, made, half>> /\ lpc' = "exited" BY <1>4 DEF LoopEnds
  <2>4. Unmade' /\ WriterOpen' BY <2>2, <2>3, WakenedStructure
  <2> QED BY <2>2, <2>3, <2>4 DEF Distinct, Visiting
<1>5. CASE After
  BY <1>5 DEF After, VisitNext, ToVisit, mapVars, writeVars, Unmade, Distinct, Visiting, WriterOpen
<1>6. ASSUME NEW c \in Conns, Drain(c) PROVE Structure'
  BY <1>6 DEF Drain, ToVisit, mapVars, writeVars, Wakes, Unmade, Distinct, Visiting, WriterOpen
<1>7. ASSUME NEW c \in Conns, Wake(c) PROVE Structure'
  <2>1. \E gone : wpc' = Wakened(gone) BY <1>7 DEF Wake
  <2>2. Unmade' /\ WriterOpen' BY <1>7, <2>1, WakenedStructure DEF Wake, mapVars
  <2> QED BY <1>7, <2>2 DEF Wake, ToVisit, mapVars, Distinct, Visiting
<1>8. ASSUME NEW c \in Conns, Drained(c) PROVE Structure'
  BY <1>8 DEF Drained, VisitNext, ToVisit, mapVars, writeVars, Unmade, Distinct, Visiting, WriterOpen
<1> QED BY <1>1, <1>2, <1>3, <1>4, <1>5, <1>6, <1>7, <1>8 DEF Loop, InAfter

LEMMA CallbackStructure == ASSUME Types, Structure, NEW c \in Conns, Callback(c) PROVE Structure'
<1>1. Unmade /\ Distinct /\ Visiting /\ WriterOpen
  BY DEF Structure
<1>2. /\ known \subseteq Conns /\ made \in Nat /\ stream \in [Conns -> 0..MaxStreams]
      /\ half \in [Streams -> {"none", "queued", "open", "dropped"}]
  BY ConstantsAssumption DEF Types, TypeOK, MapOK, TaskOK
<1>3. \A d \in Conns : stream[d] \in Nat /\ stream[d] <= made
  BY <1>1, <1>2, ConstantsAssumption DEF Distinct
<1>4. CASE CbReady(c)
  <2>1. made' = made /\ wpc' = wpc /\ half' = half /\ lpc' = "loop" /\ known' = known \cup {c}
    BY <1>4 DEF CbReady, threadVars, writeVars
  <2>2. stream' = [stream EXCEPT ![c] = NoStream]
    BY <1>4 DEF CbReady, FreshState
  <2>3. stream'[c] = NoStream /\ \A d \in Conns : d # c => stream'[d] = stream[d]
    BY <1>2, <2>2
  <2>4. Unmade' /\ WriterOpen' BY <1>1, <2>1, Zenon DEF Unmade, WriterOpen
  <2>5. ASSUME NEW d \in Conns PROVE stream'[d] <= made'
    <3>1. CASE d = c BY <1>2, <2>1, <2>3, <3>1 DEF NoStream
    <3>2. CASE d # c BY <1>3, <2>1, <2>3, <3>2
    <3> QED BY <3>1, <3>2
  <2>6. ASSUME NEW d \in known', NEW e \in known', stream'[d] = stream'[e]
        PROVE  stream'[d] = NoStream \/ d = e
    <3>1. CASE d = c \/ e = c BY <2>3, <2>6, <3>1, Zenon
    <3>2. CASE d # c /\ e # c
      <4>1. d \in known /\ e \in known /\ d \in Conns /\ e \in Conns BY <1>2, <2>1, <2>6, <3>2
      <4> QED BY <1>1, <2>3, <2>6, <3>2, <4>1, Zenon DEF Distinct
    <3> QED BY <3>1, <3>2
  <2>7. Distinct' BY <2>5, <2>6, Zenon DEF Distinct
  <2>8. Visiting' BY <2>1 DEF Visiting
  <2> QED BY <2>4, <2>7, <2>8 DEF Structure
<1>5. CASE CbFirstData(c)
  <2>1. made' = made + 1 /\ wpc' = wpc /\ known' = known /\ lpc' = "loop" /\ made < MaxStreams
    BY <1>5 DEF CbFirstData, writeVars, threadVars
  <2>2. stream' = [stream EXCEPT ![c] = made + 1]
    BY <1>5, Zenon DEF CbFirstData
  <2>3. stream'[c] = made + 1 /\ \A d \in Conns : d # c => stream'[d] = stream[d]
    BY <1>2, <2>2
  <2>4. \/ half' = [half EXCEPT ![made + 1] = "dropped"]
        \/ half' = [half EXCEPT ![made + 1] = "queued"]
    BY <1>5, Zenon DEF CbFirstData
  <2>5. \A s \in Streams : s # made + 1 => half'[s] = half[s]
    BY <1>2, <2>4
  <2>6. wpc[made + 1] = "idle"
    <3>1. made + 1 \in Streams /\ made + 1 > made
      BY <1>2, <2>1, ConstantsAssumption DEF Streams
    <3> QED BY <1>1, <3>1 DEF Unmade
  <2>7. WriterOpen'
    <3>1. SUFFICES ASSUME NEW s \in Streams, wpc[s] \in {"try", "full", "parked"}
                   PROVE  half'[s] = "open"
      BY <2>1, Zenon DEF WriterOpen
    <3>2. s # made + 1 BY <2>6, <3>1
    <3> QED BY <1>1, <2>5, <3>1, <3>2, Zenon DEF WriterOpen
  <2>8. Unmade'
    <3>1. SUFFICES ASSUME NEW s \in Streams, s > made + 1
                   PROVE  wpc[s] = "idle" /\ half'[s] = "none"
      BY <2>1, Zenon DEF Unmade
    <3>2. s > made /\ s # made + 1 BY <1>2, <3>1 DEF Streams
    <3> QED BY <1>1, <2>5, <3>2, Zenon DEF Unmade
  <2>9. ASSUME NEW d \in Conns PROVE stream'[d] <= made'
    <3>1. CASE d = c BY <1>2, <2>1, <2>3, <3>1
    <3>2. CASE d # c BY <1>2, <1>3, <2>1, <2>3, <3>2
    <3> QED BY <3>1, <3>2
  <2>10. ASSUME NEW d \in known, NEW e \in known, stream'[d] = stream'[e]
         PROVE  stream'[d] = NoStream \/ d = e
    <3>1. d \in Conns /\ e \in Conns BY <1>2
    <3>2. \A f \in Conns : f # c => stream'[f] # stream'[c]
      BY <1>2, <1>3, <2>3
    <3>3. CASE d = c \/ e = c BY <2>10, <3>1, <3>2, <3>3, Zenon
    <3>4. CASE d # c /\ e # c BY <1>1, <2>3, <2>10, <3>1, <3>4, Zenon DEF Distinct
    <3> QED BY <3>3, <3>4
  <2>11. Distinct' BY <2>1, <2>9, <2>10, Zenon DEF Distinct
  <2>12. Visiting' BY <2>1 DEF Visiting
  <2> QED BY <2>7, <2>8, <2>11, <2>12 DEF Structure
<1>6. CASE CbData(c) \/ CbFin(c)
  <2>1. UNCHANGED <<threadVars, mapVars, wpc, half>>
    BY <1>6 DEF CbData, CbFin, writeVars
  <2> QED BY <2>1, SameStructure
<1>7. CASE CbClose(c)
  <2>1. known' = known \ {c} /\ \E gone : wpc' = Wakened(gone)
    BY <1>7 DEF CbClose, Unlink
  <2>2. stream' = stream /\ made' = made /\ half' = half /\ lpc' = "loop"
    BY <1>7 DEF CbClose, threadVars
  <2>3. Unmade' /\ WriterOpen' BY <2>1, <2>2, WakenedStructure
  <2>4. Distinct' BY <1>1, <2>1, <2>2, Zenon DEF Distinct
  <2>5. Visiting' BY <2>2 DEF Visiting
  <2> QED BY <2>3, <2>4, <2>5 DEF Structure
<1> QED BY <1>4, <1>5, <1>6, <1>7 DEF Callback

LEMMA StructureStep == Types /\ Structure /\ [Next]_vars => Structure'
<1> SUFFICES ASSUME Types, Structure, [Next]_vars PROVE Structure' OBVIOUS
<1>1. CASE UNCHANGED vars
  BY <1>1, SameStructure DEF vars, writeVars
<1> QED BY <1>1, TaskStructure, OtherStructure, CallbackStructure DEF Next, Server

LEMMA StructureAlways == Spec => []Structure
BY StructureInit, StructureStep, TypesAlways, PTL DEF Spec

-----------------------------------------------------------------------------
(* No lost wake-up.  A writer that found the channel full and no token is  *)
(* about to park, so what will wake it must be there before it parks.      *)

\* An item of the stream is still to be taken, or its wake still to be sent.
WakeComing(s) ==
    \E c \in known : stream[c] = s /\ (sendCh[s] # <<>> \/ (lpc = "wake" /\ cur = {c}))

WakeAt(s) == lpc # "exited" =>
    /\ wpc[s] = "parked" => WakeComing(s)
    /\ wpc[s] = "full" /\ wakeCh[s] = 0 /\ Linked(s) => WakeComing(s)

WakeInv == \A s \in Streams : WakeAt(s)

LEMMA WakeInit == Init => WakeInv
BY DEF Init, WakeInv, WakeAt

\* A step that leaves a stream's channels, and a wake that is under way, alone.
LEMMA Undisturbed ==
    ASSUME NEW t \in Streams, WakeAt(t), UNCHANGED <<known, stream>>,
           wpc'[t] = wpc[t] \/ wpc'[t] \in {"idle", "try", "broken"},
           wakeCh'[t] = wakeCh[t], sendCh'[t] = sendCh[t],
           lpc = "wake" \/ lpc = "exited" => UNCHANGED <<lpc, cur>>
    PROVE  WakeAt(t)'
<1>1. WakeComing(t) => WakeComing(t)' BY DEF WakeComing
<1>2. Linked(t)' => Linked(t) BY DEF Linked
<1> QED BY <1>1, <1>2 DEF WakeAt

\* A writer that is neither about to park nor parked needs no wake.
LEMMA NeedsNoWake ==
    ASSUME NEW t \in Streams, wpc'[t] \in {"idle", "try", "broken"} PROVE WakeAt(t)'
BY DEF WakeAt

LEMMA TaskWake ==
    ASSUME Types, WakeInv, NEW s \in Streams, Task(s), NEW t \in Streams PROVE WakeAt(t)'
<1> USE DEF Types, TypeOK, TaskOK
<1>1. WakeAt(t) /\ UNCHANGED <<known, stream, lpc, cur>>
  BY DEF WakeInv, Task, Poll, Reading, BeginWrite, TrySend, PollWake, Repoll, PollShutdown, ReadChunk,
         ReadClosed, TaskEnds, threadVars, mapVars
<1>2. CASE ReadChunk(s) \/ ReadClosed(s)
  BY <1>1, <1>2, Undisturbed DEF ReadChunk, ReadClosed, writeVars
<1>3. CASE BeginWrite(s) \/ Repoll(s)
  BY <1>1, <1>3, Undisturbed DEF BeginWrite, Repoll
<1>4. CASE TaskEnds(s)
  <2>1. CASE t = s BY <1>4, <2>1, NeedsNoWake DEF TaskEnds
  <2>2. CASE t # s BY <1>1, <1>4, <2>2, Undisturbed DEF TaskEnds
  <2> QED BY <2>1, <2>2
<1>5. CASE PollShutdown(s)
  <2>1. CASE t = s BY <1>5, <2>1, NeedsNoWake DEF PollShutdown
  <2>2. CASE t # s
    <3>1. wpc' = wpc /\ wakeCh' = wakeCh /\ sendCh'[t] = sendCh[t]
      BY <1>5, <2>2 DEF PollShutdown, SendOK
    <3> QED BY <1>1, <3>1, Undisturbed
  <2> QED BY <2>1, <2>2
<1>6. CASE TrySend(s)
  <2>1. CASE t # s
    <3>1. wpc'[t] = wpc[t] /\ wakeCh' = wakeCh /\ sendCh'[t] = sendCh[t]
      BY <1>6, <2>1 DEF TrySend, SendOK
    <3> QED BY <1>1, <3>1, Undisturbed
  <2>2. CASE t = s /\ wpc'[s] \in {"idle", "broken"}
    BY <2>2, NeedsNoWake
  <2>3. CASE t = s /\ Linked(s) /\ Len(sendCh[s]) >= SendCap /\ wpc'[s] = "full" /\ sendCh' = sendCh
    <3>1. sendCh[s] # <<>>
      BY <2>3, SendItems
    <3>2. WakeComing(s)'
      BY <1>1, <2>3, <3>1 DEF WakeComing, Linked
    <3> QED BY <2>3, <3>2 DEF WakeAt
  <2> QED BY <1>6, <2>1, <2>2, <2>3 DEF TrySend
<1>7. CASE PollWake(s)
  <2>1. CASE t # s
    <3>1. wpc'[t] = wpc[t] /\ wakeCh'[t] = wakeCh[t] /\ sendCh'[t] = sendCh[t]
      BY <1>7, <2>1 DEF PollWake
    <3> QED BY <1>1, <3>1, Undisturbed
  <2>2. CASE t = s /\ wpc'[s] \in {"try", "broken"}
    BY <2>2, NeedsNoWake
  <2>3. CASE t = s /\ wpc[s] = "full" /\ wakeCh[s] = 0 /\ Linked(s) /\ wpc'[s] = "parked" /\ sendCh' = sendCh
    <3>1. lpc # "exited" => WakeComing(s)
      BY <1>1, <2>3 DEF WakeAt
    <3>2. lpc # "exited" => WakeComing(s)'
      BY <1>1, <2>3, <3>1 DEF WakeComing
    <3> QED BY <1>1, <2>3, <3>2 DEF WakeAt
  <2> QED BY <1>7, <2>1, <2>2, <2>3 DEF PollWake
<1> QED BY <1>2, <1>3, <1>4, <1>5, <1>6, <1>7 DEF Task, Poll, Reading

LEMMA LoopWake ==
    ASSUME Types, Structure, WakeInv, NEW c \in Conns, InAfter(c), NEW t \in Streams
    PROVE  WakeAt(t)'
<1> USE DEF Types, TypeOK, MapOK, TaskOK
<1> DEFINE s == stream[c]
<1>1. WakeAt(t) /\ UNCHANGED <<known, stream>> /\ lpc \in {"drain", "wake"} /\ cur = {c}
  BY DEF WakeInv, InAfter, Drain, Wake, Drained, mapVars
<1>2. c \in known /\ s \in Streams
  <2>1. PICK d \in ToVisit : cur = {d} BY <1>1 DEF Structure, Visiting
  <2>2. c = d BY <1>1, <2>1
  <2>3. c \in known /\ s # 0 BY <2>1, <2>2 DEF ToVisit
  <2> QED BY <2>3
<1>3. CASE Drained(c)
  <2>1. UNCHANGED <<wpc, wakeCh, sendCh>> /\ lpc = "drain"
    BY <1>3 DEF Drained, writeVars
  <2> QED BY <1>1, <2>1, Undisturbed
<1>4. CASE Drain(c)
  <2>1. UNCHANGED <<wpc, wakeCh>> /\ lpc = "drain" /\ lpc' = "wake" /\ cur' = cur
    BY <1>4 DEF Drain, Wakes, writeVars
  <2>2. CASE t = s
    BY <1>1, <1>2, <2>1, <2>2 DEF WakeAt, WakeComing
  <2>3. CASE t # s
    <3>1. sendCh'[t] = sendCh[t] BY <1>4, <2>3 DEF Drain, SendOK
    <3> QED BY <1>1, <2>1, <3>1, Undisturbed
  <2> QED BY <2>2, <2>3
<1>5. CASE Wake(c)
  <2>1. sendCh' = sendCh /\ lpc = "wake" /\ lpc' = "drain" /\ wpc' = Wakened({s})
    BY <1>5 DEF Wake
  <2>2. CASE t = s
    <3>1. wpc'[t] # "parked"
      BY <2>1, <2>2 DEF Wakened
    <3>2. ASSUME wpc'[t] = "full" PROVE wakeCh'[t] # 0
      <4>1. half[s] = "open"
        BY <1>2, <2>1, <2>2, <3>2 DEF Wakened, Structure, WriterOpen
      <4>2. wakeCh'[s] = IF wakeCh[s] < WakeCap THEN wakeCh[s] + 1 ELSE wakeCh[s]
        <5>1. wakeCh' = [wakeCh EXCEPT ![s] = IF half[s] # "dropped" /\ @ < WakeCap THEN @ + 1 ELSE @]
          BY <1>5 DEF Wake
        <5>2. wakeCh \in [Streams -> 0..WakeCap] OBVIOUS
        <5>3. PICK r : r = s OBVIOUS
        <5> HIDE DEF s
        <5> QED BY ONLY <1>2, <4>1, <5>1, <5>2, <5>3
      <4>3. wakeCh[s] \in 0..WakeCap
        BY <1>2
      <4> HIDE DEF s
      <4> QED BY <2>2, <4>2, <4>3
    <3> QED BY <3>1, <3>2 DEF WakeAt
  <2>3. CASE t # s
    <3>1. wpc'[t] = wpc[t] BY <2>1, <2>3 DEF Wakened
    <3>2. wakeCh'[t] = wakeCh[t] BY <1>5, <2>3 DEF Wake
    <3>3. WakeComing(t) => WakeComing(t)'
      <4>1. ASSUME NEW d \in known, stream[d] = t, lpc = "wake", cur = {d} PROVE FALSE
        BY <1>1, <2>3, <4>1
      <4> QED BY <1>1, <2>1, <4>1 DEF WakeComing
    <3>4. Linked(t)' => Linked(t) BY <1>1 DEF Linked
    <3> QED BY <1>1, <2>1, <3>1, <3>2, <3>3, <3>4 DEF WakeAt
  <2> QED BY <2>2, <2>3
<1> QED BY <1>3, <1>4, <1>5 DEF InAfter

LEMMA CallbackWake ==
    ASSUME Types, Structure, WakeInv, NEW c \in Conns, Callback(c), NEW t \in Streams
    PROVE  WakeAt(t)'
<1> USE DEF Types, TypeOK, MapOK, TaskOK
<1>1. WakeAt(t) /\ UNCHANGED <<lpc, cur, wakeCh>> /\ lpc = "loop" /\ known \subseteq Conns
  BY DEF WakeInv, Callback, CbReady, CbFirstData, CbData, CbFin, CbClose, threadVars
<1>2. CASE CbData(c) \/ CbFin(c)
  BY <1>1, <1>2, Undisturbed DEF CbData, CbFin, mapVars, writeVars
<1>3. ASSUME \A d \in known : stream[d] = t => d # c,
             \A d \in Conns : d # c => stream'[d] = stream[d],
             known \subseteq known', known' \subseteq known \cup {c}, stream'[c] # t,
             UNCHANGED <<wpc, sendCh>>
      PROVE  WakeAt(t)'
  <2>1. WakeComing(t) => WakeComing(t)' BY <1>1, <1>3 DEF WakeComing
  <2>2. Linked(t)' => Linked(t) BY <1>1, <1>3 DEF Linked
  <2> QED BY <1>1, <1>3, <2>1, <2>2 DEF WakeAt
<1>4. CASE CbReady(c)
  <2>1. stream'[c] = NoStream /\ \A d \in Conns : d # c => stream'[d] = stream[d]
    BY <1>4 DEF CbReady, FreshState
  <2>2. UNCHANGED <<wpc, sendCh>> /\ known' = known \cup {c} /\ c \notin known
    BY <1>4 DEF CbReady, writeVars
  <2> QED BY <1>3, <2>1, <2>2
<1>5. CASE CbFirstData(c)
  <2>1. stream'[c] = made + 1 /\ \A d \in Conns : d # c => stream'[d] = stream[d]
    BY <1>5 DEF CbFirstData
  <2>2. UNCHANGED <<wpc, sendCh, known>> /\ stream[c] = NoStream
    BY <1>5 DEF CbFirstData, writeVars
  <2>3. CASE t = made + 1
    <3>1. wpc[t] = "idle" BY <2>3 DEF Structure, Unmade
    <3> QED BY <2>2, <3>1, NeedsNoWake
  <2>4. CASE t # made + 1
    BY <1>3, <2>1, <2>2, <2>4
  <2> QED BY <2>3, <2>4
<1>6. CASE CbClose(c)
  <2> DEFINE gone == {stream[d] : d \in {c} \cap known}
  <2>1. /\ known' = known \ {c} /\ stream' = stream /\ c \in known
        /\ wpc' = Wakened(gone) /\ sendCh' = [s \in Streams |-> IF s \in gone THEN <<>> ELSE sendCh[s]]
    BY <1>6 DEF CbClose, Unlink
  <2>2. gone = {stream[c]} BY <2>1
  <2> HIDE DEF gone
  <2>3. CASE t = stream[c]
    <3>1. wpc'[t] # "parked" BY <2>1, <2>2, <2>3 DEF Wakened
    <3>2. ASSUME NEW d \in known, d # c PROVE stream[d] # t
      <4>1. Distinct /\ c \in known BY <2>1 DEF Structure
      <4>2. stream[c] # NoStream BY <2>3
      <4> QED BY <2>3, <3>2, <4>1, <4>2 DEF Distinct
    <3>4. ~Linked(t)'
      BY <2>1, <3>2 DEF Linked
    <3> QED BY <3>1, <3>4 DEF WakeAt
  <2>4. CASE t # stream[c]
    <3>1. wpc'[t] = wpc[t] /\ sendCh'[t] = sendCh[t] BY <2>1, <2>2, <2>4 DEF Wakened
    <3>2. WakeComing(t) => WakeComing(t)' BY <1>1, <2>1, <2>4, <3>1 DEF WakeComing
    <3>3. Linked(t)' => Linked(t) BY <2>1 DEF Linked
    <3> QED BY <1>1, <3>1, <3>2, <3>3 DEF WakeAt
  <2> QED BY <2>3, <2>4
<1> QED BY <1>2, <1>4, <1>5, <1>6 DEF Callback

LEMMA WakeStep == Types /\ Structure /\ WakeInv /\ [Next]_vars => WakeInv'
<1> SUFFICES ASSUME Types, Structure, WakeInv, [Next]_vars, NEW t \in Streams PROVE WakeAt(t)'
  BY DEF WakeInv
<1>1. WakeAt(t) BY DEF WakeInv
<1>2. CASE UNCHANGED vars \/ Signal \/ Server
  BY <1>1, <1>2, Undisturbed DEF vars, Signal, Server, Accept, QueueEnds, Return, threadVars, mapVars, writeVars
<1>3. CASE CreateFails \/ Start \/ After
  BY <1>1, <1>3, Undisturbed DEF CreateFails, Start, After, mapVars, writeVars
<1>4. CASE LoopEnds
  BY <1>4 DEF LoopEnds, WakeAt
<1> QED BY <1>2, <1>3, <1>4, TaskWake, LoopWake, CallbackWake DEF Next, Loop

\* A task parked in poll_write of a stream of the map always has an item of its
\* own to be taken, or the wake of the last one still to be sent.
THEOREM WakeupsNotLost == Spec => []NoLostWakeup
<1>1. WakeInv => NoLostWakeup
  BY DEF WakeInv, WakeAt, WakeComing, NoLostWakeup
<1> QED BY <1>1, WakeInit, WakeStep, TypesAlways, StructureAlways, PTL DEF Spec

-----------------------------------------------------------------------------
(* A stream reads the chunks of one connection, in order.  The items it    *)
(* has read and those still in its channel are in order together, and,     *)
(* while it is in the map, they came on the connection that is there now.  *)

Same(x, y) == x.conn = y.conn /\ x.life = y.life

\* y came after x on the same connection; an end marker has no number.
Newer(x, y) == Same(x, y) /\ (y.n = 0 \/ x.n < y.n)

InOrder(r) == \A i, j \in 1..Len(r) : i < j => Same(r[i], r[j]) /\ r[i].n < r[j].n
Before(r, q) == \A i \in 1..Len(r), j \in 1..Len(q) : Newer(r[i], q[j])
Chain(q) == \A i, j \in 1..Len(q) : i < j => Newer(q[i], q[j])
From(q, c, l, n) == \A i \in 1..Len(q) : q[i].conn = c /\ q[i].life = l /\ q[i].n <= n

Ordered(s) == InOrder(read[s]) /\ Before(read[s], recvCh[s]) /\ Chain(recvCh[s])

Owned(c) == stream[c] # NoStream =>
    /\ From(read[stream[c]], c, life[c], arrived[c])
    /\ From(recvCh[stream[c]], c, life[c], arrived[c])

\* Nothing came yet for a stream that was not made.
NothingYet == \A s \in Streams : s > made => read[s] = <<>> /\ recvCh[s] = <<>>

OrderInv ==
    /\ \A s \in Streams : Ordered(s)
    /\ \A c \in known : Owned(c)
    /\ NothingYet

LEMMA EmptyInOrder ==
    ASSUME NEW r
    PROVE  InOrder(<<>>) /\ Chain(<<>>) /\ Before(r, <<>>) /\ Before(<<>>, r)
           /\ \A c, l, n : From(<<>>, c, l, n)
BY DEF InOrder, Chain, Before, From

LEMMA OrderInit == Init => OrderInv
<1> SUFFICES ASSUME Init PROVE OrderInv OBVIOUS
<1>1. known = {} /\ \A s \in Streams : read[s] = <<>> /\ recvCh[s] = <<>>
  BY DEF Init
<1>2. InOrder(<<>>) /\ Before(<<>>, <<>>) /\ Chain(<<>>)
  BY EmptyInOrder
<1>3. ASSUME NEW s \in Streams PROVE Ordered(s)
  <2>1. read[s] = <<>> /\ recvCh[s] = <<>> BY <1>1
  <2> QED BY <1>2, <2>1 DEF Ordered
<1> QED BY <1>1, <1>3 DEF OrderInv, NothingYet

LEMMA TailIs ==
    ASSUME NEW q \in Seq(InItem), q # <<>>
    PROVE  /\ Tail(q) \in Seq(InItem) /\ Len(Tail(q)) = Len(q) - 1 /\ Head(q) = q[1]
           /\ \A i \in 1..Len(Tail(q)) : Tail(q)[i] = q[i + 1]
<1>1. Tail(q) \in Seq(InItem) /\ Len(Tail(q)) = Len(q) - 1 /\ Head(q) = q[1]
  OBVIOUS
<1>2. \A i \in 1..Len(Tail(q)) : Tail(q)[i] = q[i + 1]
  OBVIOUS
<1> QED BY <1>1, <1>2

LEMMA AppendIs ==
    ASSUME NEW q \in Seq(InItem), NEW x \in InItem
    PROVE  /\ Append(q, x) \in Seq(InItem) /\ Len(Append(q, x)) = Len(q) + 1
           /\ Append(q, x)[Len(q) + 1] = x
           /\ \A i \in 1..Len(q) : Append(q, x)[i] = q[i]
<1>1. Append(q, x) \in Seq(InItem) /\ Len(Append(q, x)) = Len(q) + 1
  OBVIOUS
<1>2. Append(q, x)[Len(q) + 1] = x
  OBVIOUS
<1>3. \A i \in 1..Len(q) : Append(q, x)[i] = q[i]
  OBVIOUS
<1> QED BY <1>1, <1>2, <1>3

LEMMA FieldsOf ==
    ASSUME NEW q \in Seq(InItem), NEW i \in 1..Len(q) PROVE q[i] \in InItem /\ q[i].n \in Nat
<1>1. q[i] \in InItem OBVIOUS
<1> QED BY <1>1 DEF InItem

\* The reader takes the first item of the channel and, unless it is the end
\* marker, has read it.
LEMMA TakeInOrder ==
    ASSUME NEW r \in Seq(InItem), NEW q \in Seq(InItem), q # <<>>,
           InOrder(r), Before(r, q), Chain(q)
    PROVE  /\ Before(r, Tail(q)) /\ Chain(Tail(q))
           /\ Head(q).n # 0 => /\ InOrder(Append(r, Head(q)))
                               /\ Before(Append(r, Head(q)), Tail(q))
<1> DEFINE t == Tail(q)
           x == Head(q)
           a == Append(r, x)
<1>1. t \in Seq(InItem) /\ Len(t) = Len(q) - 1 /\ x = q[1] /\ \A i \in 1..Len(t) : t[i] = q[i + 1]
  BY TailIs
<1>2. Len(q) \in Nat /\ Len(q) >= 1 /\ x \in InItem
  BY <1>1
<1>3. Len(a) = Len(r) + 1 /\ a[Len(r) + 1] = x /\ (\A i \in 1..Len(r) : a[i] = r[i]) /\ Len(r) \in Nat
  BY <1>2, AppendIs
<1> HIDE DEF t, x, a
<1>8. \A i \in 1..Len(t) : i + 1 \in 1..Len(q) /\ t[i] = q[i + 1]
  BY <1>1, <1>2
<1>4. Before(r, t)
  BY <1>8, Zenon DEF Before
<1>5. Chain(t)
  <2>1. SUFFICES ASSUME NEW i \in 1..Len(t), NEW j \in 1..Len(t), i < j PROVE Newer(t[i], t[j])
    BY DEF Chain
  <2>2. i + 1 < j + 1 BY <1>1, <2>1
  <2> QED BY <1>8, <2>2, Zenon DEF Chain
<1>6. ASSUME x.n # 0 PROVE InOrder(a)
  <2>1. \A i \in 1..Len(r) : Newer(r[i], x)
    BY <1>1, <1>2 DEF Before
  <2>2. SUFFICES ASSUME NEW i \in 1..Len(a), NEW j \in 1..Len(a), i < j
                 PROVE  Same(a[i], a[j]) /\ a[i].n < a[j].n
    BY DEF InOrder
  <2>3. CASE j = Len(r) + 1
    BY <1>3, <1>6, <2>1, <2>2, <2>3 DEF Newer
  <2>4. CASE j # Len(r) + 1
    BY <1>3, <2>2, <2>4 DEF InOrder
  <2> QED BY <2>3, <2>4
<1>7. Before(a, t)
  <2>1. SUFFICES ASSUME NEW i \in 1..Len(a), NEW j \in 1..Len(t) PROVE Newer(a[i], t[j])
    BY DEF Before
  <2>2. CASE i = Len(r) + 1
    <3>1. t[j] = q[j + 1] /\ j + 1 \in 1..Len(q) /\ 1 < j + 1 /\ 1 \in 1..Len(q)
      BY <1>1, <1>2
    <3> QED BY <1>1, <1>3, <2>2, <3>1 DEF Chain
  <2>3. CASE i # Len(r) + 1
    BY <1>3, <1>4, <2>3 DEF Before
  <2> QED BY <2>2, <2>3
<1> QED BY <1>4, <1>5, <1>6, <1>7 DEF t, x, a

\* An item that is newer than all that came before goes to the end of the channel.
LEMMA AddInOrder ==
    ASSUME NEW r \in Seq(InItem), NEW q \in Seq(InItem), NEW x \in InItem,
           Before(r, q), Chain(q),
           \A i \in 1..Len(r) : Newer(r[i], x), \A i \in 1..Len(q) : Newer(q[i], x)
    PROVE  Before(r, Append(q, x)) /\ Chain(Append(q, x))
<1> DEFINE a == Append(q, x)
<1>1. Len(a) = Len(q) + 1 /\ a[Len(q) + 1] = x /\ (\A i \in 1..Len(q) : a[i] = q[i]) /\ Len(q) \in Nat
  BY AppendIs
<1> HIDE DEF a
<1>2. Before(r, a)
  BY <1>1 DEF Before
<1>3. Chain(a)
  BY <1>1 DEF Chain
<1> QED BY <1>2, <1>3 DEF a

LEMMA FromTake ==
    ASSUME NEW r \in Seq(InItem), NEW q \in Seq(InItem), q # <<>>, NEW c, NEW l, NEW n,
           From(r, c, l, n), From(q, c, l, n)
    PROVE  From(Tail(q), c, l, n) /\ From(Append(r, Head(q)), c, l, n)
<1> DEFINE t == Tail(q)
           a == Append(r, Head(q))
<1>1. Len(t) = Len(q) - 1 /\ Head(q) = q[1] /\ (\A i \in 1..Len(t) : t[i] = q[i + 1])
      /\ Len(q) \in Nat /\ Len(q) >= 1 /\ Head(q) \in InItem
  BY TailIs
<1>2. Len(a) = Len(r) + 1 /\ a[Len(r) + 1] = Head(q) /\ (\A i \in 1..Len(r) : a[i] = r[i]) /\ Len(r) \in Nat
  BY <1>1, AppendIs
<1> HIDE DEF t, a
<1>3. From(t, c, l, n) BY <1>1 DEF From
<1>4. From(a, c, l, n) BY <1>1, <1>2 DEF From
<1> QED BY <1>3, <1>4 DEF t, a

LEMMA FromAdd ==
    ASSUME NEW q \in Seq(InItem), NEW x \in InItem, NEW n \in Nat, NEW m \in Nat, n <= m,
           From(q, x.conn, x.life, n), x.n <= m
    PROVE  From(Append(q, x), x.conn, x.life, m)
<1> DEFINE a == Append(q, x)
<1>1. Len(a) = Len(q) + 1 /\ a[Len(q) + 1] = x /\ (\A i \in 1..Len(q) : a[i] = q[i]) /\ Len(q) \in Nat
  BY AppendIs
<1>2. \A i \in 1..Len(q) : q[i].n \in Nat
  BY FieldsOf
<1> HIDE DEF a
<1>3. From(a, x.conn, x.life, m) BY <1>1, <1>2 DEF From
<1> QED BY <1>3 DEF a

\* A step that moves no item, and leaves the connections with a stream alone.
LEMMA SameOrder ==
    ASSUME Types, OrderInv, UNCHANGED <<read, recvCh, made>>,
           \A d \in known' : \/ stream'[d] = NoStream
                             \/ /\ d \in known /\ stream'[d] = stream[d]
                                /\ life'[d] = life[d] /\ arrived'[d] = arrived[d]
    PROVE  OrderInv'
<1>1. ASSUME NEW s \in Streams PROVE Ordered(s)'
  BY DEF OrderInv, Ordered
<1>2. ASSUME NEW d \in known' PROVE Owned(d)'
  <2>1. CASE stream'[d] = NoStream
    BY <2>1 DEF Owned
  <2>2. CASE d \in known /\ stream'[d] = stream[d] /\ life'[d] = life[d] /\ arrived'[d] = arrived[d]
    <3>1. Owned(d) BY <2>2 DEF OrderInv
    <3> QED BY <2>2, <3>1 DEF Owned
  <2> QED BY <2>1, <2>2
<1> QED BY <1>1, <1>2 DEF OrderInv, NothingYet

\* A step at one stream that was made.
LEMMA OneStreamOrder ==
    ASSUME Types, OrderInv, NEW s \in Streams, s <= made,
           UNCHANGED <<known, stream, made, life>>,
           \A t \in Streams \ {s} : read'[t] = read[t] /\ recvCh'[t] = recvCh[t],
           Ordered(s)',
           \A d \in known : IF stream[d] = s THEN Owned(d)' ELSE arrived'[d] = arrived[d]
    PROVE  OrderInv'
<1>1. ASSUME NEW t \in Streams PROVE Ordered(t)'
  BY DEF OrderInv, Ordered
<1>2. ASSUME NEW d \in known' PROVE Owned(d)'
  <2>1. d \in known /\ d \in Conns /\ stream'[d] = stream[d] /\ life'[d] = life[d]
    BY DEF Types, TypeOK, MapOK
  <2>2. CASE stream[d] # s /\ stream[d] # NoStream
    <3>1. Owned(d) /\ arrived'[d] = arrived[d] BY <2>1, <2>2 DEF OrderInv
    <3>2. stream[d] \in Streams \ {s} BY <2>1, <2>2 DEF Types, TypeOK, MapOK
    <3>3. read'[stream[d]] = read[stream[d]] /\ recvCh'[stream[d]] = recvCh[stream[d]] BY <3>2
    <3> QED BY <2>1, <3>1, <3>3 DEF Owned
  <2>3. CASE stream[d] = s
    BY <2>1, <2>3
  <2>4. CASE stream[d] = NoStream
    BY <2>1, <2>4 DEF Owned
  <2> QED BY <2>2, <2>3, <2>4
<1>3. NothingYet'
  <2>1. ASSUME NEW t \in Streams, t > made PROVE read'[t] = <<>> /\ recvCh'[t] = <<>>
    <3>1. t # s BY <2>1 DEF Types, TypeOK, MapOK
    <3> QED BY <2>1, <3>1 DEF OrderInv, NothingYet
  <2> QED BY <2>1 DEF NothingYet
<1> QED BY <1>1, <1>2, <1>3 DEF OrderInv

LEMMA TaskOrder ==
    ASSUME Types, Structure, OrderInv, NEW s \in Streams, Task(s) PROVE OrderInv'
<1>1. UNCHANGED <<known, stream, made, life, arrived>>
  BY DEF Task, Poll, Reading, BeginWrite, TrySend, PollWake, Repoll, PollShutdown, ReadChunk, ReadClosed,
         TaskEnds, mapVars, peerVars
<1>2. CASE BeginWrite(s) \/ Poll(s) \/ Repoll(s) \/ PollShutdown(s) \/ ReadClosed(s)
  <2>1. UNCHANGED <<read, recvCh>>
    BY <1>2 DEF BeginWrite, Poll, TrySend, PollWake, Repoll, PollShutdown, ReadClosed, readVars
  <2> QED BY <1>1, <2>1, SameOrder
<1>3. CASE TaskEnds(s)
  <2>1. read' = [read EXCEPT ![s] = <<>>] /\ recvCh' = [recvCh EXCEPT ![s] = <<>>] /\ half[s] = "open"
    BY <1>3 DEF TaskEnds
  <2>2. /\ read'[s] = <<>> /\ recvCh'[s] = <<>>
        /\ \A t \in Streams \ {s} : read'[t] = read[t] /\ recvCh'[t] = recvCh[t]
    BY <2>1 DEF Types, TypeOK, ReceiveOK
  <2>3. s <= made
    BY <2>1 DEF Types, TypeOK, MapOK, Structure, Unmade
  <2>4. Ordered(s)'
    BY <2>2, EmptyInOrder DEF Ordered
  <2>5. ASSUME NEW d \in known, stream[d] = s PROVE Owned(d)'
    BY <1>1, <2>2, <2>5, EmptyInOrder DEF Owned
  <2> QED BY <1>1, <2>2, <2>3, <2>4, <2>5, OneStreamOrder
<1>4. CASE ReadChunk(s)
  <2> DEFINE q == recvCh[s]
             r == read[s]
             a == Append(r, Head(q))
  <2>1. /\ q # <<>> /\ half[s] = "open"
        /\ recvCh' = [recvCh EXCEPT ![s] = Tail(q)]
        /\ IF Head(q).n = 0 THEN read' = read ELSE read' = [read EXCEPT ![s] = a]
    BY <1>4 DEF ReadChunk, Readable
  <2>2. s <= made
    BY <2>1 DEF Types, TypeOK, MapOK, Structure, Unmade
  <2>3. q \in Seq(InItem) /\ r \in Seq(InItem)
    BY RecvItems DEF Types, TypeOK
  <2>4. InOrder(r) /\ Before(r, q) /\ Chain(q)
    BY DEF OrderInv, Ordered
  <2>5. /\ recvCh'[s] = Tail(q) /\ read'[s] = IF Head(q).n = 0 THEN r ELSE a
        /\ \A t \in Streams \ {s} : read'[t] = read[t] /\ recvCh'[t] = recvCh[t]
    BY <2>1 DEF Types, TypeOK, ReceiveOK
  <2>6. Ordered(s)'
    <3>1. /\ Before(r, Tail(q)) /\ Chain(Tail(q))
          /\ Head(q).n # 0 => InOrder(a) /\ Before(a, Tail(q))
      BY <2>1, <2>3, <2>4, TakeInOrder
    <3> HIDE DEF q, r, a
    <3> QED BY <2>4, <2>5, <3>1 DEF Ordered
  <2>7. ASSUME NEW d \in known, stream[d] = s PROVE Owned(d)'
    <3>1. From(r, d, life[d], arrived[d]) /\ From(q, d, life[d], arrived[d])
      BY <2>7 DEF OrderInv, Owned
    <3>2. From(Tail(q), d, life[d], arrived[d]) /\ From(a, d, life[d], arrived[d])
      BY <2>1, <2>3, <3>1, FromTake
    <3> HIDE DEF q, r, a
    <3> QED BY <1>1, <2>5, <2>7, <3>1, <3>2 DEF Owned
  <2> HIDE DEF q, r, a
  <2> QED BY <1>1, <2>2, <2>5, <2>6, <2>7, OneStreamOrder
<1> QED BY <1>2, <1>3, <1>4 DEF Task, Reading

\* The bound on numbers may grow.
LEMMA FromLater ==
    ASSUME NEW q \in Seq(InItem), NEW c, NEW l, NEW n \in Nat, NEW m \in Nat, n <= m, From(q, c, l, n)
    PROVE  From(q, c, l, m)
BY FieldsOf DEF From

LEMMA PushOrder ==
    ASSUME Types, Structure, OrderInv, NEW c \in known, stream[c] # NoStream,
           NEW n \in 0..MaxIn, n = 0 \/ n = arrived[c] + 1,
           arrived'[c] = (IF n = 0 THEN arrived[c] ELSE n),
           \A d \in Conns \ {c} : arrived'[d] = arrived[d],
           Push(stream[c], Incoming(c, n)), UNCHANGED <<known, stream, made, life, read>>
    PROVE  OrderInv'
<1>0. PICK s \in Streams : s = stream[c]
  BY DEF Types, TypeOK, MapOK
<1> DEFINE x == Incoming(c, n)
           r == read[s]
           q == recvCh[s]
<1>1. /\ s <= made /\ c \in Conns
      /\ arrived[c] \in Nat /\ arrived'[c] \in Nat /\ arrived[c] <= arrived'[c] /\ n <= arrived'[c]
  BY <1>0 DEF Types, TypeOK, MapOK, Structure, Distinct
<1>2. q \in Seq(InItem) /\ r \in Seq(InItem)
  BY <1>1, RecvItems DEF Types, TypeOK
<1>3. x \in InItem /\ x.conn = c /\ x.life = life[c] /\ x.n = n
  BY IncomingType DEF Incoming
<1>4. Ordered(s) /\ From(r, c, life[c], arrived[c]) /\ From(q, c, life[c], arrived[c])
  BY <1>0, <1>1 DEF OrderInv, Owned
<1>5. /\ read'[s] = r
      /\ recvCh'[s] = q \/ recvCh'[s] = Append(q, x)
      /\ \A t \in Streams \ {s} : read'[t] = read[t] /\ recvCh'[t] = recvCh[t]
  BY <1>0, <1>1 DEF Push, Types, TypeOK, ReceiveOK
<1> HIDE DEF x, r, q
<1>6. (\A i \in 1..Len(r) : Newer(r[i], x)) /\ (\A i \in 1..Len(q) : Newer(q[i], x))
  <2>1. \A i \in 1..Len(r) : r[i].n \in Nat BY <1>2, FieldsOf
  <2>2. \A i \in 1..Len(q) : q[i].n \in Nat BY <1>2, FieldsOf
  <2>3. (\A i \in 1..Len(r) : Same(r[i], x)) /\ (\A i \in 1..Len(q) : Same(q[i], x))
    BY <1>3, <1>4 DEF From, Same
  <2>4. CASE n = 0 BY <1>3, <2>3, <2>4 DEF Newer
  <2>5. CASE n = arrived[c] + 1
    <3>1. ASSUME NEW i \in 1..Len(r) PROVE r[i].n < x.n
      BY <1>1, <1>3, <1>4, <2>1, <2>5 DEF From
    <3>2. ASSUME NEW i \in 1..Len(q) PROVE q[i].n < x.n
      BY <1>1, <1>3, <1>4, <2>2, <2>5 DEF From
    <3> QED BY <2>3, <3>1, <3>2 DEF Newer
  <2> QED BY <2>4, <2>5
<1>7. Ordered(s)'
  <2>1. InOrder(r) /\ Before(r, q) /\ Chain(q) BY <1>4 DEF Ordered, r, q
  <2>2. Before(r, Append(q, x)) /\ Chain(Append(q, x))
    BY <1>2, <1>3, <1>6, <2>1, AddInOrder
  <2> QED BY <1>5, <2>1, <2>2 DEF Ordered
<1>8. Owned(c)'
  <2>1. From(r, c, life[c], arrived'[c]) /\ From(q, c, life[c], arrived'[c])
    BY <1>1, <1>2, <1>4, FromLater
  <2>2. From(Append(q, x), c, life[c], arrived'[c])
    BY <1>1, <1>2, <1>3, <1>4, FromAdd
  <2> QED BY <1>0, <1>5, <2>1, <2>2 DEF Owned
<1>9. \A d \in known : stream[d] = s => d = c
  BY <1>0, <1>1 DEF Structure, Distinct
<1>10. ASSUME NEW d \in known PROVE IF stream[d] = s THEN Owned(d)' ELSE arrived'[d] = arrived[d]
  <2>1. CASE d = c BY <1>0, <1>8, <2>1
  <2>2. CASE d # c
    <3>1. d \in Conns \ {c} BY <2>2 DEF Types, TypeOK, MapOK
    <3> QED BY <1>9, <2>2, <3>1
  <2> QED BY <2>1, <2>2
<1> QED BY <1>1, <1>5, <1>7, <1>10, OneStreamOrder

\* The first data of a connection makes a stream nobody knows of.
LEMMA FirstOrder ==
    ASSUME Types, Structure, OrderInv, NEW c \in Conns, CbFirstData(c) PROVE OrderInv'
<1> DEFINE x == Incoming(c, arrived[c] + 1)
           s == made + 1
<1>1. /\ c \in known /\ stream[c] = NoStream /\ made \in Nat /\ s \in Streams /\ arrived[c] \in Nat
      /\ UNCHANGED <<known, life, read>> /\ made' = s
      /\ stream' = [stream EXCEPT ![c] = s] /\ arrived' = [arrived EXCEPT ![c] = @ + 1]
      /\ recvCh' = recvCh \/ recvCh' = [recvCh EXCEPT ![s] = <<x>>]
  BY DEF CbFirstData, FirstItems, readVars, Types, TypeOK, MapOK
<1>2. x.conn = c /\ x.life = life[c] /\ x.n = arrived[c] + 1
  BY DEF Incoming
<1> HIDE DEF x
<1>3. read[s] = <<>> /\ recvCh[s] = <<>>
  BY <1>1 DEF OrderInv, NothingYet
<1>4. /\ recvCh'[s] = <<>> \/ recvCh'[s] = <<x>>
      /\ \A t \in Streams \ {s} : recvCh'[t] = recvCh[t]
  BY <1>1, <1>3 DEF Types, TypeOK, ReceiveOK
<1>5. Before(<<>>, <<x>>) /\ Chain(<<x>>) /\ From(<<x>>, c, life[c], arrived[c] + 1)
  <2>1. Len(<<x>>) = 1 /\ <<x>>[1] = x OBVIOUS
  <2>2. \A i \in 1..1 : i = 1 OBVIOUS
  <2> HIDE DEF x
  <2>3. Chain(<<x>>) BY <2>1, <2>2 DEF Chain
  <2>4. From(<<x>>, c, life[c], arrived[c] + 1) BY <1>1, <1>2, <2>1, <2>2 DEF From
  <2> QED BY <2>3, <2>4, EmptyInOrder
<1>6. ASSUME NEW t \in Streams PROVE Ordered(t)'
  <2>1. CASE t = s BY <1>1, <1>3, <1>4, <1>5, <2>1, EmptyInOrder DEF Ordered
  <2>2. CASE t # s
    <3>1. Ordered(t) BY DEF OrderInv
    <3> QED BY <1>1, <1>4, <2>2, <3>1 DEF Ordered
  <2> QED BY <2>1, <2>2
<1>7. ASSUME NEW d \in known' PROVE Owned(d)'
  <2>1. d \in known /\ d \in Conns BY <1>1 DEF Types, TypeOK, MapOK
  <2>2. CASE d = c
    <3>1. stream'[c] = s /\ arrived'[c] = arrived[c] + 1 /\ life'[c] = life[c]
      BY <1>1 DEF Types, TypeOK, MapOK
    <3>2. read'[s] = <<>> /\ (recvCh'[s] = <<>> \/ recvCh'[s] = <<x>>) BY <1>1, <1>3, <1>4
    <3> HIDE DEF s
    <3> QED BY <1>5, <2>2, <3>1, <3>2, EmptyInOrder DEF Owned
  <2>3. CASE d # c
    <3>1. stream'[d] = stream[d] /\ arrived'[d] = arrived[d] /\ life'[d] = life[d] /\ stream[d] <= made
      BY <1>1, <2>1, <2>3 DEF Structure, Distinct
    <3>2. stream[d] # NoStream => stream[d] \in Streams \ {s}
      BY <1>1, <2>1, <3>1 DEF Types, TypeOK, MapOK
    <3>3. stream[d] # NoStream => recvCh'[stream[d]] = recvCh[stream[d]]
      BY <1>4, <3>2
    <3>4. Owned(d) BY <2>1 DEF OrderInv
    <3> QED BY <1>1, <3>1, <3>3, <3>4 DEF Owned
  <2> QED BY <2>2, <2>3
<1>8. NothingYet'
  <2>1. ASSUME NEW t \in Streams, t > s PROVE read'[t] = <<>> /\ recvCh'[t] = <<>>
    <3>1. t > made /\ t # s BY <1>1, <2>1
    <3> QED BY <1>1, <1>4, <3>1 DEF OrderInv, NothingYet
  <2> QED BY <1>1, <2>1 DEF NothingYet
<1> QED BY <1>6, <1>7, <1>8 DEF OrderInv

LEMMA CallbackOrder ==
    ASSUME Types, Structure, OrderInv, NEW c \in Conns, Callback(c) PROVE OrderInv'
<1>1. CASE CbReady(c)
  <2>1. /\ UNCHANGED <<read, recvCh, made, arrived>> /\ known' = known \cup {c} /\ stream'[c] = NoStream
        /\ life' = [life EXCEPT ![c] = @ + 1]
        /\ \A d \in Conns \ {c} : stream'[d] = stream[d]
    BY <1>1 DEF CbReady, FreshState, readVars, Types, TypeOK, MapOK
  <2>2. \A d \in known : d \in Conns BY DEF Types, TypeOK, MapOK
  <2> QED BY <2>1, <2>2, SameOrder DEF Types, TypeOK, MapOK
<1>2. CASE CbData(c)
  <2>1. /\ arrived[c] + 1 \in 0..MaxIn /\ arrived[c] + 1 # 0 /\ c \in known /\ stream[c] # NoStream
        /\ UNCHANGED <<known, stream, made, life, read>>
        /\ Push(stream[c], Incoming(c, arrived[c] + 1))
    BY <1>2 DEF CbData, mapVars, readVars, Types, TypeOK, MapOK
  <2>2. arrived'[c] = arrived[c] + 1 /\ \A d \in Conns \ {c} : arrived'[d] = arrived[d]
    BY <1>2 DEF CbData, Types, TypeOK, MapOK
  <2> DEFINE n == arrived[c] + 1
  <2>3. n \in 0..MaxIn /\ n = arrived[c] + 1 /\ arrived'[c] = (IF n = 0 THEN arrived[c] ELSE n)
        /\ Push(stream[c], Incoming(c, n))
    BY <2>1, <2>2
  <2> HIDE DEF n
  <2> QED BY <2>1, <2>2, <2>3, PushOrder
<1>3. CASE CbFin(c)
  <2>1. UNCHANGED <<known, stream, made, life, read, arrived>> /\ c \in known
    BY <1>3 DEF CbFin, mapVars, readVars
  <2>2. CASE stream[c] = NoStream
    BY <1>3, <2>1, <2>2, SameOrder DEF CbFin, Types, TypeOK, MapOK
  <2>3. CASE stream[c] # NoStream
    <3>1. Push(stream[c], Incoming(c, 0)) BY <1>3, <2>3 DEF CbFin
    <3>2. 0 \in 0..MaxIn OBVIOUS
    <3> QED BY <2>1, <2>3, <3>1, <3>2, PushOrder
  <2> QED BY <2>2, <2>3
<1>4. CASE CbClose(c)
  <2>1. UNCHANGED <<read, recvCh, made, stream, life>> /\ known' = known \ {c}
        /\ arrived' = [arrived EXCEPT ![c] = 0]
    BY <1>4 DEF CbClose, Unlink, readVars
  <2> QED BY <2>1, SameOrder DEF Types, TypeOK, MapOK
<1> QED BY <1>1, <1>2, <1>3, <1>4, FirstOrder DEF Callback

LEMMA OrderStep == Types /\ Structure /\ OrderInv /\ [Next]_vars => OrderInv'
<1> SUFFICES ASSUME Types, Structure, OrderInv, [Next]_vars PROVE OrderInv' OBVIOUS
<1>1. CASE UNCHANGED vars \/ Signal \/ QueueEnds \/ \E s \in Streams : Accept(s)
  BY <1>1, SameOrder DEF vars, Signal, QueueEnds, Accept, mapVars, readVars, peerVars
<1>2. CASE CreateFails \/ Start \/ After
  BY <1>2, SameOrder DEF CreateFails, Start, After, mapVars, readVars, peerVars
<1>3. ASSUME NEW c \in Conns, InAfter(c) PROVE OrderInv'
  BY <1>3, SameOrder DEF InAfter, Drain, Wake, Drained, mapVars, readVars, peerVars
<1>4. CASE LoopEnds
  <2>1. UNCHANGED <<read, recvCh, made, stream, life, arrived>> /\ known' \subseteq known
    BY <1>4 DEF LoopEnds, Unlink, readVars, peerVars
  <2> QED BY <2>1, SameOrder
<1>5. CASE Return
  <2>1. UNCHANGED <<known, stream, made, read, life, arrived>>
        /\ \A s \in Streams : recvCh'[s] = recvCh[s] \/ recvCh'[s] = <<>>
    BY <1>5 DEF Return, mapVars, readVars, peerVars
  <2>2. ASSUME NEW s \in Streams PROVE Ordered(s)'
    BY <2>1, EmptyInOrder DEF OrderInv, Ordered
  <2>3. ASSUME NEW d \in known' PROVE Owned(d)'
    <3>1. Owned(d) /\ (stream[d] = NoStream \/ stream[d] \in Streams)
      BY <2>1 DEF OrderInv, Types, TypeOK, MapOK
    <3> QED BY <2>1, <3>1, EmptyInOrder DEF Owned
  <2>4. NothingYet' BY <2>1 DEF OrderInv, NothingYet
  <2> QED BY <2>2, <2>3, <2>4 DEF OrderInv
<1> QED BY <1>1, <1>2, <1>3, <1>4, <1>5, TaskOrder, CallbackOrder DEF Next, Server, Loop

-----------------------------------------------------------------------------
(* The end comes after everything.  As long as the channel never was full, *)
(* what a stream has read and what is in its channel is all that came, the *)
(* end marker last.                                                        *)

\* The end marker is in the channel, at its end, if it came.
Whole(q, fin) == (\A i \in 1..Len(q) : q[i].n = 0 <=> fin /\ i = Len(q)) /\ (fin => q # <<>>)

Markers(fin) == IF fin THEN 1 ELSE 0

Counted(c) ==
    LET s == stream[c] IN
    s # NoStream /\ half[s] # "dropped" /\ ~overflow[s] =>
        IF eof[s]
        THEN finIn[c] /\ recvCh[s] = <<>> /\ Len(read[s]) = arrived[c]
        ELSE /\ Whole(recvCh[s], finIn[c])
             /\ Len(read[s]) + Len(recvCh[s]) = arrived[c] + Markers(finIn[c])

\* Nothing came yet at an address without a stream.
NothingCame == lpc # "exited" => \A c \in Conns : c \notin known \/ stream[c] = NoStream => arrived[c] = 0

\* A stream that was not made has no end and lost nothing.
NoEndYet == \A s \in Streams : s > made => ~eof[s] /\ ~overflow[s]

CountInv == (\A c \in known : Counted(c)) /\ NothingCame /\ NoEndYet

LEMMA CountInit == Init => CountInv
<1> SUFFICES ASSUME Init PROVE CountInv OBVIOUS
<1>1. known = {} /\ (\A c \in Conns : arrived[c] = 0) /\ \A s \in Streams : ~eof[s] /\ ~overflow[s]
  BY DEF Init
<1> QED BY <1>1 DEF CountInv, NothingCame, NoEndYet

\* A step that does nothing to the receiving side of a stream.
LEMMA SameCount ==
    ASSUME Types, CountInv, UNCHANGED <<read, recvCh, made, eof, overflow, half>>,
           \A d \in known' : \/ stream'[d] = NoStream
                             \/ /\ d \in known /\ stream'[d] = stream[d]
                                /\ arrived'[d] = arrived[d] /\ finIn'[d] = finIn[d],
           NothingCame'
    PROVE  CountInv'
<1>1. ASSUME NEW d \in known' PROVE Counted(d)'
  <2>1. CASE stream'[d] = NoStream
    BY <2>1 DEF Counted
  <2>2. CASE d \in known /\ stream'[d] = stream[d] /\ arrived'[d] = arrived[d] /\ finIn'[d] = finIn[d]
    <3>1. Counted(d) BY <2>2 DEF CountInv
    <3> QED BY <2>2, <3>1 DEF Counted
  <2> QED BY <2>1, <2>2
<1> QED BY <1>1 DEF CountInv, NoEndYet

\* A step at the receiving side of one stream that was made.
LEMMA OneStreamCount ==
    ASSUME Types, CountInv, NEW s \in Streams, s <= made, UNCHANGED <<known, stream, made>>,
           \A t \in Streams \ {s} : /\ read'[t] = read[t] /\ recvCh'[t] = recvCh[t]
                                    /\ eof'[t] = eof[t] /\ overflow'[t] = overflow[t]
                                    /\ half'[t] = half[t],
           \A d \in known : IF stream[d] = s THEN Counted(d)'
                            ELSE arrived'[d] = arrived[d] /\ finIn'[d] = finIn[d],
           NothingCame'
    PROVE  CountInv'
<1>1. ASSUME NEW d \in known' PROVE Counted(d)'
  <2>1. d \in known /\ d \in Conns /\ stream'[d] = stream[d]
    BY DEF Types, TypeOK, MapOK
  <2>2. CASE stream[d] # s /\ stream[d] # NoStream
    <3>1. Counted(d) /\ arrived'[d] = arrived[d] /\ finIn'[d] = finIn[d] BY <2>1, <2>2 DEF CountInv
    <3>2. stream[d] \in Streams \ {s} BY <2>1, <2>2 DEF Types, TypeOK, MapOK
    <3>3. /\ read'[stream[d]] = read[stream[d]] /\ recvCh'[stream[d]] = recvCh[stream[d]]
          /\ eof'[stream[d]] = eof[stream[d]] /\ overflow'[stream[d]] = overflow[stream[d]]
          /\ half'[stream[d]] = half[stream[d]]
      BY <3>2
    <3> QED BY <2>1, <3>1, <3>3 DEF Counted
  <2>3. CASE stream[d] = s
    BY <2>1, <2>3
  <2>4. CASE stream[d] = NoStream
    BY <2>1, <2>4 DEF Counted
  <2> QED BY <2>2, <2>3, <2>4
<1>3. NoEndYet'
  <2>1. ASSUME NEW t \in Streams, t > made PROVE ~eof'[t] /\ ~overflow'[t]
    <3>1. t # s BY <2>1 DEF Types, TypeOK, MapOK
    <3> QED BY <2>1, <3>1 DEF CountInv, NoEndYet
  <2> QED BY <2>1 DEF NoEndYet
<1> QED BY <1>1, <1>3 DEF CountInv

\* Reading the first item of a channel that is whole leaves it whole, or ends it.
LEMMA TakeWhole ==
    ASSUME NEW q \in Seq(InItem), q # <<>>, NEW fin \in BOOLEAN, Whole(q, fin)
    PROVE  /\ Head(q).n = 0 => fin /\ Tail(q) = <<>> /\ Len(q) = 1
           /\ Head(q).n # 0 => Whole(Tail(q), fin)
<1> DEFINE t == Tail(q)
<1>1. /\ t \in Seq(InItem) /\ Len(t) = Len(q) - 1 /\ Head(q) = q[1]
      /\ (\A i \in 1..Len(t) : t[i] = q[i + 1]) /\ Len(q) \in Nat /\ Len(q) >= 1
  BY TailIs
<1>2. Len(t) = 0 => t = <<>>
  BY <1>1
<1> HIDE DEF t
<1>3. ASSUME q[1].n = 0 PROVE fin /\ t = <<>> /\ Len(q) = 1
  BY <1>1, <1>2, <1>3 DEF Whole
<1>4. ASSUME q[1].n # 0 PROVE Whole(t, fin)
  <2>1. ASSUME NEW i \in 1..Len(t) PROVE t[i].n = 0 <=> fin /\ i = Len(t)
    <3>1. t[i] = q[i + 1] /\ i + 1 \in 1..Len(q) /\ (i = Len(t) <=> i + 1 = Len(q)) BY <1>1, <2>1
    <3> QED BY <3>1 DEF Whole
  <2>2. ASSUME fin PROVE Len(t) # 0
    BY <1>1, <1>4, <2>2 DEF Whole
  <2>3. Len(<<>>) = 0 OBVIOUS
  <2> QED BY <2>1, <2>2, <2>3 DEF Whole
<1> QED BY <1>1, <1>3, <1>4 DEF t

\* A channel without the end marker stays whole with one more item.
LEMMA AddWhole ==
    ASSUME NEW q \in Seq(InItem), NEW x \in InItem, Whole(q, FALSE)
    PROVE  Whole(Append(q, x), x.n = 0) /\ Len(Append(q, x)) = Len(q) + 1
<1> DEFINE a == Append(q, x)
<1>1. Len(a) = Len(q) + 1 /\ a[Len(q) + 1] = x /\ (\A i \in 1..Len(q) : a[i] = q[i]) /\ Len(q) \in Nat
  BY AppendIs
<1>2. a # <<>> OBVIOUS
<1> HIDE DEF a
<1>3. ASSUME NEW i \in 1..Len(a) PROVE a[i].n = 0 <=> x.n = 0 /\ i = Len(a)
  <2>1. CASE i = Len(q) + 1 BY <1>1, <2>1
  <2>2. CASE i # Len(q) + 1
    <3>1. i \in 1..Len(q) /\ i # Len(a) BY <1>1, <1>3, <2>2
    <3> QED BY <1>1, <3>1 DEF Whole
  <2> QED BY <2>1, <2>2
<1> QED BY <1>1, <1>2, <1>3 DEF Whole, a

LEMMA TaskCount ==
    ASSUME Types, Structure, CountInv, NEW s \in Streams, Task(s) PROVE CountInv'
<1>1. UNCHANGED <<known, stream, made, arrived, finIn, lpc>>
  BY DEF Task, Poll, Reading, BeginWrite, TrySend, PollWake, Repoll, PollShutdown, ReadChunk, ReadClosed,
         TaskEnds, threadVars, mapVars, peerVars
<1>2. NothingCame'
  BY <1>1 DEF CountInv, NothingCame
<1>3. CASE BeginWrite(s) \/ Poll(s) \/ Repoll(s) \/ PollShutdown(s)
  <2>1. UNCHANGED <<read, recvCh, eof, overflow, half>>
    BY <1>3 DEF BeginWrite, Poll, TrySend, PollWake, Repoll, PollShutdown, readVars
  <2> QED BY <1>1, <1>2, <2>1, SameCount
<1>4. half[s] = "open" => s <= made
  BY DEF Types, TypeOK, MapOK, Structure, Unmade
<1>5. CASE TaskEnds(s)
  <2>1. /\ half[s] = "open" /\ half'[s] = "dropped"
        /\ \A t \in Streams \ {s} : /\ read'[t] = read[t] /\ recvCh'[t] = recvCh[t]
                                    /\ eof'[t] = eof[t] /\ overflow'[t] = overflow[t]
                                    /\ half'[t] = half[t]
    BY <1>5 DEF TaskEnds, Types, TypeOK, TaskOK, ReceiveOK
  <2>2. ASSUME NEW d \in known, stream[d] = s PROVE Counted(d)'
    BY <1>1, <2>1, <2>2 DEF Counted
  <2> QED BY <1>1, <1>2, <1>4, <2>1, <2>2, OneStreamCount
<1>6. CASE ReadClosed(s)
  <2>1. /\ half[s] = "open" /\ ~Linked(s)
        /\ \A t \in Streams \ {s} : /\ read'[t] = read[t] /\ recvCh'[t] = recvCh[t]
                                    /\ eof'[t] = eof[t] /\ overflow'[t] = overflow[t]
                                    /\ half'[t] = half[t]
    BY <1>6 DEF ReadClosed, Readable, Types, TypeOK, TaskOK, ReceiveOK
  <2>2. \A d \in known : stream[d] # s
    BY <2>1 DEF Linked
  <2> QED BY <1>1, <1>2, <1>4, <2>1, <2>2, OneStreamCount
<1>7. CASE ReadChunk(s)
  <2> DEFINE q == recvCh[s]
             r == read[s]
             h == Head(q)
  <2>1. /\ q # <<>> /\ half[s] = "open" /\ ~eof[s] /\ UNCHANGED <<half, overflow>>
        /\ recvCh' = [recvCh EXCEPT ![s] = Tail(q)]
        /\ IF h.n = 0 THEN eof' = [eof EXCEPT ![s] = TRUE] /\ read' = read
           ELSE read' = [read EXCEPT ![s] = Append(r, h)] /\ eof' = eof
    BY <1>7 DEF ReadChunk, Readable
  <2>2. q \in Seq(InItem) /\ r \in Seq(InItem) /\ Len(q) \in Nat /\ Len(r) \in Nat
    BY RecvItems DEF Types, TypeOK
  <2>3. /\ recvCh'[s] = Tail(q)
        /\ h.n = 0 => eof'[s] /\ read'[s] = r
        /\ h.n # 0 => ~eof'[s] /\ read'[s] = Append(r, h)
        /\ \A t \in Streams \ {s} : /\ read'[t] = read[t] /\ recvCh'[t] = recvCh[t] /\ eof'[t] = eof[t]
    BY <2>1 DEF Types, TypeOK, TaskOK, ReceiveOK
  <2>4. h \in InItem /\ Len(Tail(q)) = Len(q) - 1
    BY <2>1, <2>2, TailIs
  <2>5. Len(Append(r, h)) = Len(r) + 1
    BY <2>2, <2>4, AppendIs
  <2> HIDE DEF q, r, h
  <2>6. ASSUME NEW d \in known, stream[d] = s PROVE Counted(d)'
    <3>1. SUFFICES ASSUME ~overflow[s]
                   PROVE  IF eof'[s]
                          THEN finIn[d] /\ recvCh'[s] = <<>> /\ Len(read'[s]) = arrived[d]
                          ELSE /\ Whole(recvCh'[s], finIn[d])
                               /\ Len(read'[s]) + Len(recvCh'[s]) = arrived[d] + Markers(finIn[d])
      BY <1>1, <2>1, <2>6 DEF Counted
    <3>2. d \in Conns /\ arrived[d] \in Nat /\ finIn[d] \in BOOLEAN
      BY DEF Types, TypeOK, MapOK
    <3>3. Whole(q, finIn[d]) /\ Len(r) + Len(q) = arrived[d] + Markers(finIn[d])
      <4>1. Counted(d) BY DEF CountInv
      <4>2. stream[d] # NoStream BY <2>6
      <4> QED BY <2>1, <2>6, <3>1, <4>1, <4>2 DEF Counted, q, r
    <3>7. Markers(TRUE) = 1 /\ (finIn[d] => Markers(finIn[d]) = 1) /\ Markers(finIn[d]) \in Nat
      BY DEF Markers
    <3>4. /\ h.n = 0 => finIn[d] /\ Tail(q) = <<>> /\ Len(q) = 1
          /\ h.n # 0 => Whole(Tail(q), finIn[d])
      BY <2>1, <2>2, <3>2, <3>3, TakeWhole DEF h
    <3>5. CASE h.n = 0
      <4>1. finIn[d] /\ recvCh'[s] = <<>> /\ eof'[s] BY <2>3, <3>4, <3>5
      <4>2. Len(q) = 1 /\ Markers(finIn[d]) = 1 /\ Len(read'[s]) = Len(r) BY <2>3, <3>4, <3>5, <3>7
      <4>3. Len(read'[s]) = arrived[d] BY <2>2, <3>2, <3>3, <4>2
      <4> QED BY <4>1, <4>3
    <3>6. CASE h.n # 0
      <4>2. Len(read'[s]) = Len(r) + 1 /\ Len(recvCh'[s]) = Len(q) - 1
        BY <2>3, <2>4, <2>5, <3>6
      <4>1. Len(read'[s]) + Len(recvCh'[s]) = Len(r) + Len(q)
        BY <2>2, <4>2
      <4> QED BY <2>3, <3>3, <3>4, <3>6, <4>1
    <3> QED BY <3>5, <3>6
  <2> QED BY <1>1, <1>2, <1>4, <2>1, <2>3, <2>6, OneStreamCount
<1> QED BY <1>3, <1>5, <1>6, <1>7 DEF Task, Reading

\* What comes for a stream that is there, as long as its end did not come.
LEMMA PushCount ==
    ASSUME Types, Structure, CountInv, NEW c \in known, stream[c] # NoStream, ~finIn[c],
           NEW n \in 0..MaxIn,
           arrived'[c] = (IF n = 0 THEN arrived[c] ELSE arrived[c] + 1), finIn'[c] = (n = 0),
           \A d \in Conns \ {c} : arrived'[d] = arrived[d] /\ finIn'[d] = finIn[d],
           Push(stream[c], Incoming(c, n)), UNCHANGED <<known, stream, made, read, eof, half, lpc>>
    PROVE  CountInv'
<1>0. PICK s \in Streams : s = stream[c]
  BY DEF Types, TypeOK, MapOK
<1> DEFINE x == Incoming(c, n)
           r == read[s]
           q == recvCh[s]
<1>1. s <= made /\ c \in Conns /\ arrived[c] \in Nat
  BY <1>0 DEF Types, TypeOK, MapOK, Structure, Distinct
<1>2. q \in Seq(InItem) /\ r \in Seq(InItem) /\ Len(q) \in Nat /\ Len(r) \in Nat
  BY RecvItems DEF Types, TypeOK
<1>3. x \in InItem /\ x.n = n
  BY IncomingType DEF Incoming
<1>4. /\ recvCh'[s] = (IF half[s] # "dropped" /\ ~Full(s) THEN Append(q, x) ELSE q)
      /\ overflow'[s] = (overflow[s] \/ Full(s))
      /\ \A t \in Streams \ {s} : recvCh'[t] = recvCh[t] /\ overflow'[t] = overflow[t]
  BY <1>0 DEF Push, Types, TypeOK, TaskOK, ReceiveOK
<1> HIDE DEF x, r, q
<1>5. NothingCame'
  BY DEF Types, TypeOK, MapOK, CountInv, NothingCame
<1>6. Counted(c)'
  <2>1. SUFFICES ASSUME half[s] # "dropped", ~overflow[s], ~Full(s)
                 PROVE  /\ ~eof[s]
                        /\ Whole(recvCh'[s], n = 0)
                        /\ Len(r) + Len(recvCh'[s]) = arrived'[c] + Markers(n = 0)
    BY <1>0, <1>4 DEF Counted, r
  <2>2. ~eof[s] /\ Whole(q, FALSE) /\ Len(r) + Len(q) = arrived[c]
    <3>1. finIn[c] = FALSE /\ Markers(FALSE) = 0 BY <1>1 DEF Types, TypeOK, MapOK, Markers
    <3>2. Counted(c) BY DEF CountInv
    <3>3. ~eof[s] /\ Whole(q, finIn[c]) /\ Len(r) + Len(q) = arrived[c] + Markers(finIn[c])
      BY <1>0, <2>1, <3>2 DEF Counted, r, q
    <3>4. Whole(q, FALSE) BY <3>1, <3>3
    <3>5. Markers(finIn[c]) = 0 BY <3>1
    <3>6. arrived[c] + Markers(finIn[c]) = arrived[c] BY <1>1, <3>5
    <3>7. Len(r) + Len(q) = arrived[c] BY <3>3, <3>6
    <3> QED BY <3>3, <3>4, <3>7
  <2>5. Markers(n = 0) = IF n = 0 THEN 1 ELSE 0 BY DEF Markers
  <2>3. Whole(Append(q, x), x.n = 0) /\ Len(Append(q, x)) = Len(q) + 1
    BY <1>2, <1>3, <2>2, AddWhole
  <2>4. recvCh'[s] = Append(q, x)
    BY <1>4, <2>1
  <2> QED BY <1>1, <1>2, <1>3, <2>2, <2>3, <2>4, <2>5
<1>9. \A d \in known : stream[d] = s => d = c
  BY <1>0, <1>1 DEF Structure, Distinct
<1>10. ASSUME NEW d \in known
       PROVE  IF stream[d] = s THEN Counted(d)' ELSE arrived'[d] = arrived[d] /\ finIn'[d] = finIn[d]
  <2>1. CASE d = c BY <1>0, <1>6, <2>1
  <2>2. CASE d # c
    <3>1. d \in Conns \ {c} BY <2>2 DEF Types, TypeOK, MapOK
    <3> QED BY <1>9, <2>2, <3>1
  <2> QED BY <2>1, <2>2
<1> QED BY <1>1, <1>4, <1>5, <1>10, OneStreamCount

LEMMA FirstCount ==
    ASSUME Types, Structure, CountInv, OrderInv, NEW c \in Conns, CbFirstData(c) PROVE CountInv'
<1> DEFINE x == Incoming(c, arrived[c] + 1)
           s == made + 1
<1>0. /\ c \in known /\ stream[c] = NoStream /\ made \in Nat /\ s \in Streams /\ finIn[c] = FALSE
      /\ UNCHANGED <<known, read, eof, finIn, overflow, lpc>> /\ made' = s /\ lpc = "loop"
  BY DEF CbFirstData, threadVars, readVars, Types, TypeOK, MapOK
<1>9. arrived[c] = 0
  BY <1>0 DEF CountInv, NothingCame
<1>1. /\ \A d \in Conns \ {c} : stream'[d] = stream[d] /\ arrived'[d] = arrived[d]
      /\ stream'[c] = s /\ arrived'[c] = 1
      /\ \A t \in Streams \ {s} : recvCh'[t] = recvCh[t] /\ half'[t] = half[t]
      /\ half'[s] # "dropped" => recvCh'[s] = <<x>>
  <2>1. (\A d \in Conns \ {c} : stream'[d] = stream[d] /\ arrived'[d] = arrived[d])
        /\ stream'[c] = s /\ arrived'[c] = 1
    BY <1>9 DEF CbFirstData, Types, TypeOK, MapOK
  <2>2. /\ \A t \in Streams \ {s} : recvCh'[t] = recvCh[t] /\ half'[t] = half[t]
        /\ half'[s] # "dropped" => recvCh'[s] = <<x>>
    BY <1>0 DEF CbFirstData, FirstItems, Types, TypeOK, TaskOK, ReceiveOK
  <2> QED BY <2>1, <2>2
<1>2. x.n = 1
  BY <1>9 DEF Incoming
<1> HIDE DEF x
<1>3. read[s] = <<>> /\ ~eof[s] /\ ~overflow[s]
  BY <1>0, <1>1 DEF OrderInv, NothingYet, CountInv, NoEndYet
<1>4. Whole(<<x>>, FALSE) /\ Len(<<x>>) = 1 /\ Len(<<>>) = 0
  <2>1. Len(<<x>>) = 1 /\ <<x>>[1] = x /\ \A i \in 1..1 : i = 1 OBVIOUS
  <2> QED BY <1>2, <2>1 DEF Whole
<1>5. ASSUME NEW d \in known' PROVE Counted(d)'
  <2>1. d \in known /\ d \in Conns BY <1>0, <1>1 DEF Types, TypeOK, MapOK
  <2>2. CASE d = c
    <3> HIDE DEF s
    <3>1. Markers(FALSE) = 0 BY DEF Markers
    <3>2. SUFFICES ASSUME half'[s] # "dropped"
                   PROVE  /\ ~eof'[s] /\ Whole(recvCh'[s], finIn'[c])
                          /\ Len(read'[s]) + Len(recvCh'[s]) = arrived'[c] + Markers(finIn'[c])
      BY <1>1, <2>2 DEF Counted
    <3>3. finIn'[c] = FALSE /\ recvCh'[s] = <<x>> /\ read'[s] = <<>> /\ ~eof'[s] BY <1>0, <1>1, <1>3, <3>2
    <3>4. Whole(recvCh'[s], finIn'[c]) BY <1>4, <3>3
    <3>5. Markers(finIn'[c]) = 0 BY <3>1, <3>3
    <3>6. Len(recvCh'[s]) = 1 /\ Len(read'[s]) = 0 BY <1>4, <3>3
    <3> QED BY <1>1, <3>3, <3>4, <3>5, <3>6
  <2>3. CASE d # c
    <3>1. Counted(d) /\ stream[d] <= made /\ stream'[d] = stream[d] /\ arrived'[d] = arrived[d] /\ finIn'[d] = finIn[d]
      BY <1>0, <1>1, <2>1, <2>3 DEF CountInv, Structure, Distinct
    <3>2. stream[d] # NoStream => stream[d] \in Streams \ {s}
      BY <1>0, <1>1, <2>1, <3>1 DEF Types, TypeOK, MapOK
    <3>3. stream[d] # NoStream => recvCh'[stream[d]] = recvCh[stream[d]] /\ half'[stream[d]] = half[stream[d]]
      BY <1>0, <1>1, <3>2
    <3>4. UNCHANGED <<read, eof, overflow>> BY <1>0
    <3> QED BY ONLY <3>1, <3>3, <3>4, stream'[d] = stream[d] DEF Counted
  <2> QED BY <2>2, <2>3
<1>6. NothingCame'
  <2>1. ASSUME NEW d \in Conns, d \notin known \/ stream'[d] = NoStream PROVE arrived'[d] = 0
    <3>1. d # c BY <1>0, <1>1, <2>1
    <3> QED BY <1>0, <1>1, <2>1, <3>1 DEF CountInv, NothingCame
  <2> QED BY <1>0, <1>1, <2>1 DEF NothingCame
<1>7. NoEndYet'
  <2>1. ASSUME NEW t \in Streams, t > s PROVE ~eof[t] /\ ~overflow[t]
    BY <1>0, <1>1, <2>1 DEF CountInv, NoEndYet
  <2> QED BY <1>0, <1>1, <2>1 DEF NoEndYet
<1> QED BY <1>5, <1>6, <1>7 DEF CountInv

LEMMA CallbackCount ==
    ASSUME Types, Structure, CountInv, OrderInv, NEW c \in Conns, Callback(c) PROVE CountInv'
<1>1. CASE CbReady(c)
  <2>1. /\ UNCHANGED <<read, recvCh, made, arrived, finIn, eof, overflow, half, lpc>>
        /\ known' = known \cup {c} /\ stream'[c] = NoStream /\ lpc = "loop" /\ c \notin known
        /\ \A d \in Conns \ {c} : stream'[d] = stream[d]
    BY <1>1 DEF CbReady, FreshState, threadVars, readVars, Types, TypeOK, MapOK
  <2>2. \A d \in known : d \in Conns BY DEF Types, TypeOK, MapOK
  <2>3. NothingCame' BY <2>1 DEF CountInv, NothingCame
  <2> QED BY <2>1, <2>2, <2>3, SameCount
<1>2. CASE CbData(c)
  <2> DEFINE n == arrived[c] + 1
  <2>1. /\ n \in 0..MaxIn /\ n # 0 /\ c \in known /\ stream[c] # NoStream /\ ~finIn[c]
        /\ UNCHANGED <<known, stream, made, read, eof, half, lpc, finIn>>
        /\ Push(stream[c], Incoming(c, n))
    BY <1>2 DEF CbData, threadVars, mapVars, readVars, Types, TypeOK, MapOK
  <2>2. arrived'[c] = arrived[c] + 1 /\ \A d \in Conns \ {c} : arrived'[d] = arrived[d]
    BY <1>2 DEF CbData, Types, TypeOK, MapOK
  <2>3. finIn'[c] = (n = 0) /\ \A d \in Conns \ {c} : finIn'[d] = finIn[d]
    BY <2>1 DEF Types, TypeOK, MapOK
  <2> HIDE DEF n
  <2> QED BY <2>1, <2>2, <2>3, PushCount
<1>3. CASE CbFin(c)
  <2>1. UNCHANGED <<known, stream, made, read, eof, half, lpc, arrived>> /\ c \in known /\ ~finIn[c]
        /\ finIn'[c] = TRUE /\ \A d \in Conns \ {c} : finIn'[d] = finIn[d]
    BY <1>3 DEF CbFin, threadVars, mapVars, readVars, Types, TypeOK, MapOK
  <2>2. CASE stream[c] = NoStream
    <3>1. NothingCame' BY <2>1 DEF CountInv, NothingCame
    <3>2. UNCHANGED <<recvCh, overflow>> BY <1>3, <2>2 DEF CbFin
    <3> QED BY <2>1, <2>2, <3>1, <3>2, SameCount DEF Types, TypeOK, MapOK
  <2>3. CASE stream[c] # NoStream
    <3>1. Push(stream[c], Incoming(c, 0)) BY <1>3, <2>3 DEF CbFin
    <3>2. 0 \in 0..MaxIn OBVIOUS
    <3> QED BY <2>1, <2>3, <3>1, <3>2, PushCount
  <2> QED BY <2>2, <2>3
<1>4. CASE CbClose(c)
  <2>1. /\ UNCHANGED <<read, recvCh, made, stream, eof, overflow, half, lpc>> /\ known' = known \ {c}
        /\ arrived' = [arrived EXCEPT ![c] = 0] /\ finIn' = [finIn EXCEPT ![c] = FALSE]
    BY <1>4 DEF CbClose, Unlink, threadVars, readVars
  <2>2. NothingCame'
    BY <2>1 DEF Types, TypeOK, MapOK, CountInv, NothingCame
  <2> QED BY <2>1, <2>2, SameCount DEF Types, TypeOK, MapOK
<1> QED BY <1>1, <1>2, <1>3, <1>4, FirstCount DEF Callback

LEMMA CountStep == Types /\ Structure /\ OrderInv /\ CountInv /\ [Next]_vars => CountInv'
<1> SUFFICES ASSUME Types, Structure, OrderInv, CountInv, [Next]_vars PROVE CountInv' OBVIOUS
<1>1. ASSUME UNCHANGED <<read, recvCh, eof, overflow, half, mapVars, peerVars>>,
             lpc = "exited" => lpc' = "exited"
      PROVE  CountInv'
  <2>1. NothingCame' BY <1>1 DEF CountInv, NothingCame, mapVars, peerVars
  <2> QED BY <1>1, <2>1, SameCount DEF mapVars, peerVars
<1>2. CASE UNCHANGED vars \/ Signal \/ QueueEnds
  BY <1>1, <1>2 DEF vars, threadVars, readVars, Signal, QueueEnds
<1>3. CASE CreateFails \/ Start \/ After
  BY <1>1, <1>3 DEF CreateFails, Start, After, readVars
<1>4. ASSUME NEW c \in Conns, InAfter(c) PROVE CountInv'
  <2>1. UNCHANGED <<read, recvCh, eof, overflow, half, mapVars, peerVars>> /\ lpc # "exited"
    BY <1>4 DEF InAfter, Drain, Wake, Drained, readVars
  <2> QED BY <1>1, <2>1
<1>5. CASE LoopEnds
  <2>1. UNCHANGED <<read, recvCh, made, stream, eof, overflow, half, arrived, finIn>> /\ known' \subseteq known
        /\ lpc' = "exited"
    BY <1>5 DEF LoopEnds, Unlink, readVars, peerVars
  <2>2. NothingCame' BY <2>1 DEF NothingCame
  <2> QED BY <2>1, <2>2, SameCount
<1>6. ASSUME UNCHANGED <<read, eof, overflow, mapVars, peerVars, lpc>>,
             \A s \in Streams : \/ recvCh'[s] = recvCh[s] /\ half'[s] = half[s]
                                \/ half'[s] = "dropped"
                                \/ half[s] = "queued" /\ recvCh'[s] = recvCh[s]
      PROVE  CountInv'
  <2>1. NothingCame' /\ NoEndYet' BY <1>6 DEF CountInv, NothingCame, NoEndYet, mapVars, peerVars
  <2>2. ASSUME NEW d \in known' PROVE Counted(d)'
    <3>1. d \in known /\ Counted(d) /\ (stream[d] = NoStream \/ stream[d] \in Streams)
      BY <1>6 DEF CountInv, Types, TypeOK, MapOK, mapVars
    <3> QED BY <1>6, <3>1 DEF Counted, mapVars, peerVars
  <2> QED BY <2>1, <2>2 DEF CountInv
<1>7. CASE Return
  BY <1>6, <1>7 DEF Return, threadVars, readVars
<1>8. ASSUME NEW s \in Streams, Accept(s) PROVE CountInv'
  BY <1>6, <1>8 DEF Accept, Queued, threadVars, readVars, Types, TypeOK, TaskOK
<1> QED BY <1>2, <1>3, <1>4, <1>5, <1>7, <1>8, TaskCount, CallbackCount DEF Next, Server, Loop

\* A task that is told the end while the connection is there has read all that
\* came before the end, unless the channel overflowed.
THEOREM TailIsComplete == Spec => []TailComplete
<1>1. CountInv => TailComplete
  BY DEF CountInv, Counted, TailComplete
<1>2. Spec => [](Types /\ Structure /\ OrderInv)
  BY OrderInit, OrderStep, TypesAlways, StructureAlways, PTL DEF Spec
<1> QED BY <1>1, <1>2, CountInit, CountStep, PTL DEF Spec

-----------------------------------------------------------------------------
(* Nothing is left out.  OrderInv allows a gap; as long as the channel was *)
(* never full the chunks in it follow those that were read, one by one.    *)
(* This stays so when the connection is gone and nothing counts any more.  *)

Consecutive(r) == \A i \in 1..Len(r) : r[i].n = i

\* The chunks of q are the ones after the first k.
Follow(k, q) == \A j \in 1..Len(q) : q[j].n # 0 => q[j].n = k + j

Gapless(s) == ~overflow[s] =>
    Consecutive(read[s]) /\ (~eof[s] => Follow(Len(read[s]), recvCh[s]))

GaplessInv == \A s \in Streams : Gapless(s)

LEMMA NoneFollow ==
    ASSUME NEW k PROVE Consecutive(<<>>) /\ Follow(k, <<>>)
BY DEF Consecutive, Follow

LEMMA GaplessInit == Init => GaplessInv
<1> SUFFICES ASSUME Init, NEW s \in Streams PROVE Gapless(s) BY DEF GaplessInv
<1>1. read[s] = <<>> /\ recvCh[s] = <<>> BY DEF Init
<1> QED BY <1>1, NoneFollow DEF Gapless

LEMMA TakeNext ==
    ASSUME NEW r \in Seq(InItem), NEW q \in Seq(InItem), q # <<>>, Head(q).n # 0,
           Consecutive(r), Follow(Len(r), q)
    PROVE  /\ Consecutive(Append(r, Head(q)))
           /\ Follow(Len(Append(r, Head(q))), Tail(q))
<1> DEFINE t == Tail(q)
           a == Append(r, Head(q))
<1>1. Len(t) = Len(q) - 1 /\ Head(q) = q[1] /\ (\A i \in 1..Len(t) : t[i] = q[i + 1])
      /\ Len(q) \in Nat /\ Len(q) >= 1 /\ Head(q) \in InItem
  BY TailIs
<1>2. Len(a) = Len(r) + 1 /\ a[Len(r) + 1] = Head(q) /\ (\A i \in 1..Len(r) : a[i] = r[i]) /\ Len(r) \in Nat
  BY <1>1, AppendIs
<1> HIDE DEF t, a
<1>3. Head(q).n = Len(r) + 1
  BY <1>1 DEF Follow
<1>4. Consecutive(a)
  BY <1>2, <1>3 DEF Consecutive
<1>5. Follow(Len(a), t)
  <2>1. SUFFICES ASSUME NEW i \in 1..Len(t), t[i].n # 0 PROVE t[i].n = Len(a) + i
    BY DEF Follow
  <2>2. t[i] = q[i + 1] /\ i + 1 \in 1..Len(q)
    BY <1>1
  <2>3. t[i].n = Len(r) + (i + 1)
    BY <2>1, <2>2 DEF Follow
  <2> QED BY <1>2, <2>3
<1> QED BY <1>4, <1>5 DEF t, a

LEMMA AddNext ==
    ASSUME NEW k \in Nat, NEW q \in Seq(InItem), NEW x \in InItem, Follow(k, q),
           x.n # 0 => x.n = k + Len(q) + 1
    PROVE  Follow(k, Append(q, x))
<1> DEFINE a == Append(q, x)
<1>1. Len(a) = Len(q) + 1 /\ a[Len(q) + 1] = x /\ (\A i \in 1..Len(q) : a[i] = q[i]) /\ Len(q) \in Nat
  BY AppendIs
<1> HIDE DEF a
<1>2. Follow(k, a)
  BY <1>1 DEF Follow
<1> QED BY <1>2 DEF a

\* What a stream read and what waits for it stay, or what waits is dropped.
Kept(t) == /\ read'[t] = read[t] /\ recvCh'[t] = recvCh[t]
           /\ overflow[t] => overflow'[t]
           /\ eof[t] => eof'[t]
Emptied(t) == recvCh'[t] = <<>> /\ (read'[t] = <<>> \/ (read'[t] = read[t] /\ (overflow[t] => overflow'[t])))

LEMMA KeptGapless ==
    ASSUME GaplessInv, NEW t \in Streams, Kept(t) \/ Emptied(t) PROVE Gapless(t)'
<1>1. Gapless(t) BY DEF GaplessInv
<1>2. CASE Kept(t) BY <1>1, <1>2 DEF Kept, Gapless
<1>3. CASE Emptied(t)
  <2>1. CASE read'[t] = <<>> BY <1>3, <2>1, NoneFollow DEF Emptied, Gapless
  <2>2. CASE read'[t] = read[t] /\ (overflow[t] => overflow'[t])
    BY <1>1, <1>3, <2>2, NoneFollow DEF Emptied, Gapless
  <2> QED BY <1>3, <2>1, <2>2 DEF Emptied
<1> QED BY <1>2, <1>3

LEMMA TaskGapless ==
    ASSUME Types, GaplessInv, NEW s \in Streams, Task(s), NEW t \in Streams PROVE Gapless(t)'
<1>1. CASE BeginWrite(s) \/ Poll(s) \/ Repoll(s) \/ PollShutdown(s)
  <2>1. Kept(t)
    BY <1>1 DEF BeginWrite, Poll, TrySend, PollWake, Repoll, PollShutdown, readVars, Kept
  <2> QED BY <2>1, KeptGapless
<1>2. CASE ReadClosed(s)
  <2>1. UNCHANGED <<read, recvCh, overflow>> /\ eof' = [eof EXCEPT ![s] = TRUE]
    BY <1>2 DEF ReadClosed
  <2>2. eof[t] => eof'[t]
    BY <2>1 DEF Types, TypeOK, TaskOK
  <2>3. Kept(t) BY <2>1, <2>2 DEF Kept
  <2> QED BY <2>3, KeptGapless
<1>5. CASE TaskEnds(s)
  <2>1. /\ read' = [read EXCEPT ![s] = <<>>] /\ recvCh' = [recvCh EXCEPT ![s] = <<>>]
        /\ overflow' = [overflow EXCEPT ![s] = FALSE] /\ eof' = [eof EXCEPT ![s] = FALSE]
    BY <1>5 DEF TaskEnds
  <2>2. IF t = s THEN read'[t] = <<>> /\ recvCh'[t] = <<>>
        ELSE read'[t] = read[t] /\ recvCh'[t] = recvCh[t]
    BY <2>1 DEF Types, TypeOK, ReceiveOK
  <2>3. t # s => overflow'[t] = overflow[t] /\ eof'[t] = eof[t]
    BY <2>1 DEF Types, TypeOK, TaskOK
  <2>4. Kept(t) \/ Emptied(t) BY <2>2, <2>3 DEF Kept, Emptied
  <2> QED BY <2>4, KeptGapless
<1>3. CASE ReadChunk(s) /\ t # s
  <2>1. Kept(t)
    BY <1>3 DEF ReadChunk, Kept, Types, TypeOK, TaskOK, ReceiveOK
  <2> QED BY <2>1, KeptGapless
<1>4. CASE ReadChunk(s) /\ t = s
  <2> DEFINE q == recvCh[s]
             r == read[s]
             h == Head(q)
  <2>1. /\ q # <<>> /\ ~eof[s] /\ overflow' = overflow
        /\ recvCh' = [recvCh EXCEPT ![s] = Tail(q)]
        /\ IF h.n = 0 THEN eof' = [eof EXCEPT ![s] = TRUE] /\ read' = read
           ELSE read' = [read EXCEPT ![s] = Append(r, h)] /\ eof' = eof
    BY <1>4 DEF ReadChunk, Readable
  <2>2. q \in Seq(InItem) /\ r \in Seq(InItem)
    BY RecvItems DEF Types, TypeOK
  <2>3. /\ recvCh'[s] = Tail(q) /\ overflow'[s] = overflow[s]
        /\ h.n = 0 => eof'[s] /\ read'[s] = r
        /\ h.n # 0 => read'[s] = Append(r, h)
    BY <2>1 DEF Types, TypeOK, TaskOK, ReceiveOK
  <2>4. ~overflow[s] => Consecutive(r) /\ Follow(Len(r), q)
    BY <2>1 DEF GaplessInv, Gapless
  <2> HIDE DEF q, r, h
  <2>5. CASE h.n = 0
    BY <1>4, <2>3, <2>4, <2>5 DEF Gapless
  <2>6. CASE h.n # 0
    <3>1. ~overflow[s] => Consecutive(Append(r, h)) /\ Follow(Len(Append(r, h)), Tail(q))
      BY <2>1, <2>2, <2>4, <2>6, TakeNext DEF h
    <3> QED BY <1>4, <2>3, <2>6, <3>1 DEF Gapless
  <2> QED BY <2>5, <2>6
<1> QED BY <1>1, <1>2, <1>3, <1>4, <1>5 DEF Task, Reading

LEMMA PushGapless ==
    ASSUME Types, Structure, CountInv, GaplessInv, NEW c \in known, stream[c] # NoStream, ~finIn[c],
           NEW n \in 0..MaxIn, n = 0 \/ n = arrived[c] + 1,
           Push(stream[c], Incoming(c, n)), UNCHANGED <<read, eof>>, NEW t \in Streams
    PROVE  Gapless(t)'
<1>0. PICK s \in Streams : s = stream[c]
  BY DEF Types, TypeOK, MapOK
<1> DEFINE x == Incoming(c, n)
           r == read[s]
           q == recvCh[s]
<1>1. c \in Conns /\ arrived[c] \in Nat /\ finIn[c] = FALSE
  BY DEF Types, TypeOK, MapOK
<1>2. q \in Seq(InItem) /\ r \in Seq(InItem) /\ Len(q) \in Nat /\ Len(r) \in Nat
  BY RecvItems DEF Types, TypeOK
<1>3. x \in InItem /\ x.n = n
  BY IncomingType DEF Incoming
<1>4. /\ recvCh'[s] = (IF half[s] # "dropped" /\ ~Full(s) THEN Append(q, x) ELSE q)
      /\ overflow'[s] = (overflow[s] \/ Full(s))
      /\ \A u \in Streams \ {s} : recvCh'[u] = recvCh[u] /\ overflow'[u] = overflow[u]
  BY <1>0 DEF Push, Types, TypeOK, TaskOK, ReceiveOK
<1> HIDE DEF x, r, q
<1>5. CASE t # s \/ recvCh'[s] = q
  <2>1. recvCh'[t] = recvCh[t] /\ (overflow[t] => overflow'[t]) BY <1>4, <1>5 DEF q
  <2>2. Kept(t) BY <2>1 DEF Kept
  <2> QED BY <2>2, KeptGapless
<1>6. CASE t = s /\ recvCh'[s] # q
  <2>1. half[s] # "dropped" /\ recvCh'[s] = Append(q, x) BY <1>4, <1>6
  <2>2. SUFFICES ASSUME ~overflow[s], ~eof[s] PROVE Consecutive(r) /\ Follow(Len(r), Append(q, x))
    <3>1. ASSUME ~overflow[s], eof[s] PROVE Consecutive(r)
      BY <3>1 DEF GaplessInv, Gapless, r
    <3> QED BY <1>4, <1>6, <2>1, <2>2, <3>1 DEF Gapless, r
  <2>3. Consecutive(r) /\ Follow(Len(r), q)
    BY <2>2 DEF GaplessInv, Gapless, r, q
  <2>4. Len(r) + Len(q) = arrived[c] + Markers(finIn[c])
    <3>1. Counted(c) BY DEF CountInv
    <3> QED BY <1>0, <2>1, <2>2, <3>1 DEF Counted, r, q
  <2>5. Markers(finIn[c]) = 0 BY <1>1 DEF Markers
  <2>6. x.n # 0 => x.n = Len(r) + Len(q) + 1
    BY <1>1, <1>3, <2>4, <2>5
  <2> QED BY <1>2, <1>3, <2>3, <2>6, AddNext
<1> QED BY <1>5, <1>6

LEMMA FirstGapless ==
    ASSUME Types, Structure, OrderInv, CountInv, GaplessInv, NEW c \in Conns, CbFirstData(c), NEW t \in Streams
    PROVE  Gapless(t)'
<1> DEFINE x == Incoming(c, arrived[c] + 1)
           s == made + 1
<1>1. /\ c \in known /\ stream[c] = NoStream /\ made \in Nat /\ s \in Streams
      /\ UNCHANGED <<read, eof, overflow>> /\ lpc = "loop"
      /\ recvCh' = recvCh \/ recvCh' = [recvCh EXCEPT ![s] = <<x>>]
  BY DEF CbFirstData, FirstItems, readVars, Types, TypeOK, MapOK
<1>2. arrived[c] = 0
  BY <1>1 DEF CountInv, NothingCame
<1>3. x.n = 1
  BY <1>2 DEF Incoming
<1> HIDE DEF x
<1>4. CASE recvCh'[t] = recvCh[t]
  BY <1>1, <1>4, KeptGapless DEF Kept
<1>5. CASE recvCh'[t] # recvCh[t]
  <2>1. t = s /\ recvCh'[t] = <<x>>
    BY <1>1, <1>5 DEF Types, TypeOK, ReceiveOK
  <2>2. read'[t] = <<>>
    BY <1>1, <2>1 DEF OrderInv, NothingYet
  <2>3. Len(<<x>>) = 1 /\ <<x>>[1] = x /\ (\A i \in 1..1 : i = 1) /\ Len(<<>>) = 0 OBVIOUS
  <2>4. Follow(Len(<<>>), <<x>>)
    BY <1>3, <2>3 DEF Follow
  <2> QED BY <2>1, <2>2, <2>4, NoneFollow DEF Gapless
<1> QED BY <1>4, <1>5

LEMMA CallbackGapless ==
    ASSUME Types, Structure, OrderInv, CountInv, GaplessInv, NEW c \in Conns, Callback(c), NEW t \in Streams
    PROVE  Gapless(t)'
<1>1. CASE CbReady(c) \/ CbClose(c)
  <2>1. Kept(t) BY <1>1 DEF CbReady, CbClose, readVars, Kept
  <2> QED BY <2>1, KeptGapless
<1>2. CASE CbData(c)
  <2> DEFINE n == arrived[c] + 1
  <2>1. /\ n \in 0..MaxIn /\ n = arrived[c] + 1 /\ c \in known /\ stream[c] # NoStream /\ ~finIn[c]
        /\ UNCHANGED <<read, eof>> /\ Push(stream[c], Incoming(c, n))
    BY <1>2 DEF CbData, readVars, Types, TypeOK, MapOK
  <2> HIDE DEF n
  <2> QED BY <2>1, PushGapless
<1>3. CASE CbFin(c)
  <2>1. UNCHANGED <<read, eof>> /\ c \in known /\ ~finIn[c]
    BY <1>3 DEF CbFin, readVars
  <2>2. CASE stream[c] = NoStream
    <3>1. Kept(t) BY <1>3, <2>1, <2>2 DEF CbFin, Kept
    <3> QED BY <3>1, KeptGapless
  <2>3. CASE stream[c] # NoStream
    <3>1. Push(stream[c], Incoming(c, 0)) BY <1>3, <2>3 DEF CbFin
    <3>2. 0 \in 0..MaxIn OBVIOUS
    <3> QED BY <2>1, <2>3, <3>1, <3>2, PushGapless
  <2> QED BY <2>2, <2>3
<1> QED BY <1>1, <1>2, <1>3, FirstGapless DEF Callback

LEMMA GaplessStep ==
    Types /\ Structure /\ OrderInv /\ CountInv /\ GaplessInv /\ [Next]_vars => GaplessInv'
<1> SUFFICES ASSUME Types, Structure, OrderInv, CountInv, GaplessInv, [Next]_vars, NEW t \in Streams
             PROVE  Gapless(t)'
  BY DEF GaplessInv
<1>1. CASE UNCHANGED <<read, eof, recvCh, overflow>>
  <2>1. Kept(t) BY <1>1 DEF Kept
  <2> QED BY <2>1, KeptGapless
<1>2. CASE UNCHANGED vars \/ Signal \/ QueueEnds \/ \E s \in Streams : Accept(s)
  BY <1>1, <1>2 DEF vars, Signal, QueueEnds, Accept, readVars
<1>3. CASE CreateFails \/ Start \/ After \/ LoopEnds
  BY <1>1, <1>3 DEF CreateFails, Start, After, LoopEnds, readVars
<1>4. ASSUME NEW c \in Conns, InAfter(c) PROVE Gapless(t)'
  BY <1>1, <1>4 DEF InAfter, Drain, Wake, Drained, readVars
<1>5. CASE Return
  <2>1. UNCHANGED <<read, eof, overflow>> /\ (recvCh'[t] = recvCh[t] \/ recvCh'[t] = <<>>)
    BY <1>5 DEF Return, readVars
  <2>2. Kept(t) \/ Emptied(t) BY <2>1 DEF Kept, Emptied
  <2> QED BY <2>2, KeptGapless
<1> QED BY <1>2, <1>3, <1>4, <1>5, TaskGapless, CallbackGapless DEF Next, Server, Loop

\* What a stream has read came on one connection, in the order it was sent,
\* although a new connection may be made at the address of one that is gone; and it
\* is all that was sent up to there, unless the channel overflowed.
THEOREM OneConnectionRead == Spec => []ReadsOneConnection
<1>1. OrderInv /\ GaplessInv => ReadsOneConnection
  BY DEF OrderInv, Ordered, InOrder, Same, GaplessInv, Gapless, Consecutive, ReadsOneConnection
<1>2. Spec => [](Types /\ Structure /\ OrderInv /\ CountInv)
  BY OrderInit, OrderStep, CountInit, CountStep, TypesAlways, StructureAlways, PTL DEF Spec
<1> QED BY <1>1, <1>2, GaplessInit, GaplessStep, PTL DEF Spec

-----------------------------------------------------------------------------
(* Each send path implements SendFifo.  To every stream a step of the      *)
(* server is an Accept, a Transmit, a Close or a stutter, and as long as   *)
(* the thread's ends of the stream's channels exist nothing of what was    *)
(* accepted is anywhere but with QUIC or in the channel.                   *)

\* The stream is not closed: it is in the map, or was not made yet.
Alive(t) == t > made \/ Linked(t)

Conserved(t) == Alive(t) => written[t] = out[t] \o sendCh[t]

ConservedInv == \A t \in Streams : Conserved(t)

\* What a step does to the send path of a stream.
Accepted(t, x) ==
    /\ Linked(t) /\ Len(sendCh[t]) < SendCap
    /\ sendCh'[t] = Append(sendCh[t], x) /\ written'[t] = Append(written[t], x)
    /\ out'[t] = out[t] /\ UNCHANGED mapVars

Handed(t) ==
    /\ Linked(t) /\ sendCh[t] # <<>>
    /\ sendCh'[t] = Tail(sendCh[t]) /\ out'[t] = Append(out[t], Head(sendCh[t]))
    /\ written'[t] = written[t] /\ UNCHANGED mapVars

Closes(t) ==
    /\ Alive(t) /\ ~Alive(t)'
    /\ written'[t] = written[t] /\ out'[t] = out[t]

Untouched(t) ==
    /\ Alive(t)' <=> Alive(t)
    /\ written'[t] = written[t] /\ out'[t] = out[t]
    /\ Alive(t) => sendCh'[t] = sendCh[t]

Effect(t) == (\E x \in SendItem : Accepted(t, x)) \/ Handed(t) \/ Closes(t) \/ Untouched(t)

LEMMA SameMap ==
    ASSUME UNCHANGED mapVars, NEW t \in Streams
    PROVE  (Alive(t)' <=> Alive(t)) /\ (Linked(t)' <=> Linked(t))
BY DEF mapVars, Alive, Linked

LEMMA LeftAlone ==
    ASSUME UNCHANGED mapVars, NEW t \in Streams,
           written'[t] = written[t], out'[t] = out[t], sendCh'[t] = sendCh[t]
    PROVE  Effect(t)
BY SameMap DEF Untouched, Effect

\* A new item in the channel of a stream, and nothing else.
LEMMA AcceptEffect ==
    ASSUME SendOK, UNCHANGED mapVars, out' = out, NEW s \in Streams, NEW x \in SendItem,
           Linked(s), Len(sendCh[s]) < SendCap,
           sendCh' = [sendCh EXCEPT ![s] = Append(@, x)],
           written' = [written EXCEPT ![s] = Append(@, x)], NEW t \in Streams
    PROVE  Effect(t)
<1>1. CASE t = s
  <2>1. sendCh'[s] = Append(sendCh[s], x) /\ written'[s] = Append(written[s], x)
    BY DEF SendOK
  <2> QED BY <1>1, <2>1 DEF Accepted, Effect
<1>2. CASE t # s
  <2>1. sendCh'[t] = sendCh[t] /\ written'[t] = written[t] BY <1>2 DEF SendOK
  <2> QED BY <2>1, LeftAlone
<1> QED BY <1>1, <1>2

LEMMA TaskEffect ==
    ASSUME Types, NEW s \in Streams, Task(s), NEW t \in Streams PROVE Effect(t)
<1>1. SendOK /\ toSend[s] \in SendItem /\ Fin \in SendItem
  BY DEF Types, TypeOK, TaskOK
<1>2. UNCHANGED mapVars /\ out' = out
  BY DEF Task, Poll, Reading, BeginWrite, TrySend, PollWake, Repoll, PollShutdown, ReadChunk,
         ReadClosed, TaskEnds
<1>3. CASE UNCHANGED <<sendCh, written>>
  BY <1>2, <1>3, LeftAlone
<1>4. CASE TrySend(s)
  <2>1. CASE Linked(s) /\ Len(sendCh[s]) < SendCap
    <3>0. ~(Len(sendCh[s]) >= SendCap) BY <1>1, <2>1, SendItems
    <3>1. /\ sendCh' = [sendCh EXCEPT ![s] = Append(@, toSend[s])]
          /\ written' = [written EXCEPT ![s] = Append(@, toSend[s])]
      BY <1>4, <2>1, <3>0, Zenon DEF TrySend
    <3>2. PICK x \in SendItem : x = toSend[s] BY <1>1
    <3> QED BY <1>1, <1>2, <2>1, <3>1, <3>2, AcceptEffect
  <2>2. CASE ~(Linked(s) /\ Len(sendCh[s]) < SendCap)
    BY <1>3, <1>4, <2>2 DEF TrySend
  <2> QED BY <2>1, <2>2
<1>5. CASE PollShutdown(s)
  <2>1. CASE Linked(s) /\ Len(sendCh[s]) < SendCap
    <3>1. /\ sendCh' = [sendCh EXCEPT ![s] = Append(@, Fin)]
          /\ written' = [written EXCEPT ![s] = Append(@, Fin)]
      BY <1>5, <2>1, Zenon DEF PollShutdown
    <3>2. PICK x \in SendItem : x = Fin BY <1>1
    <3> QED BY <1>1, <1>2, <2>1, <3>1, <3>2, AcceptEffect
  <2>2. CASE ~(Linked(s) /\ Len(sendCh[s]) < SendCap)
    BY <1>3, <1>5, <2>2 DEF PollShutdown
  <2> QED BY <2>1, <2>2
<1>6. CASE BeginWrite(s) \/ PollWake(s) \/ Repoll(s) \/ Reading(s) \/ TaskEnds(s)
  <2>1. UNCHANGED <<sendCh, written>>
    BY <1>6 DEF BeginWrite, PollWake, Repoll, Reading, ReadChunk, ReadClosed, TaskEnds, writeVars
  <2> QED BY <1>3, <2>1
<1> QED BY <1>4, <1>5, <1>6 DEF Task, Poll

\* The states of some connections leave the map: their streams are closed, and
\* to no other stream anything happens.
LEMMA UnlinkEffect ==
    ASSUME Types, Structure, NEW cs, Unlink(cs), UNCHANGED <<stream, made, written, out>>,
           NEW t \in Streams
    PROVE  Effect(t)
<1> DEFINE gone == {stream[c] : c \in cs \cap known}
<1>1. /\ known' = known \ cs
      /\ sendCh' = [s \in Streams |-> IF s \in gone THEN <<>> ELSE sendCh[s]]
  BY DEF Unlink
<1>2. CASE t \in gone
  <2>1. PICK c \in cs \cap known : stream[c] = t BY <1>2
  <2>2. c \in Conns /\ t # NoStream BY <2>1 DEF Types, TypeOK, MapOK
  <2>3. \A d \in known : stream[d] = t => d = c
    BY <2>1, <2>2 DEF Structure, Distinct
  <2>4. ~Linked(t)' BY <1>1, <2>1, <2>3 DEF Linked
  <2>5. t <= made BY <2>1, <2>2 DEF Structure, Distinct
  <2>6. Alive(t) BY <2>1 DEF Alive, Linked
  <2>7. ~Alive(t)' BY <2>4, <2>5 DEF Alive, Types, TypeOK, MapOK
  <2> QED BY <2>6, <2>7 DEF Closes, Effect
<1>3. CASE t \notin gone
  <2>1. sendCh'[t] = sendCh[t] BY <1>1, <1>3
  <2>2. Linked(t)' <=> Linked(t)
    <3>1. \A d \in known : stream[d] = t => d \notin cs BY <1>3
    <3> HIDE DEF gone
    <3> QED BY <1>1, <3>1 DEF Linked
  <2> QED BY <2>1, <2>2 DEF Alive, Untouched, Effect
<1> QED BY <1>2, <1>3

LEMMA DrainEffect ==
    ASSUME ~AddMayFail, Types, Structure, NEW c \in Conns, Drain(c), NEW t \in Streams
    PROVE  Effect(t)
<1>1. PICK d \in ToVisit : cur = {d} BY DEF Drain, Structure, Visiting
<1>2. c \in known /\ stream[c] # NoStream
  <2>1. c = d BY <1>1 DEF Drain
  <2> QED BY <1>1, <2>1 DEF ToVisit
<1>3. PICK s \in Streams : s = stream[c] BY <1>2 DEF Types, TypeOK, MapOK
<1>4. Linked(s) BY <1>2, <1>3 DEF Linked
<1>5. /\ sendCh[s] # <<>> /\ sendCh' = [sendCh EXCEPT ![s] = Tail(@)]
      /\ out' = [out EXCEPT ![s] = Append(@, Head(sendCh[s]))]
      /\ written' = written /\ UNCHANGED mapVars
  BY <1>3 DEF Drain, writeVars
<1>6. SendOK BY DEF Types, TypeOK
<1>7. CASE t = s
  <2>1. sendCh'[s] = Tail(sendCh[s]) /\ out'[s] = Append(out[s], Head(sendCh[s]))
    BY <1>5, <1>6 DEF SendOK
  <2> QED BY <1>4, <1>5, <1>7, <2>1 DEF Handed, Effect
<1>8. CASE t # s
  <2>1. sendCh'[t] = sendCh[t] /\ out'[t] = out[t] BY <1>5, <1>6, <1>8 DEF SendOK
  <2> QED BY <1>5, <2>1, LeftAlone
<1> QED BY <1>7, <1>8

LEMMA CallbackEffect ==
    ASSUME Types, Structure, NEW c \in Conns, Callback(c), NEW t \in Streams PROVE Effect(t)
<1>1. CASE CbClose(c)
  BY <1>1, UnlinkEffect DEF CbClose
<1>2. CASE CbData(c) \/ CbFin(c)
  BY <1>2, LeftAlone DEF CbData, CbFin, writeVars
<1>3. ASSUME UNCHANGED <<sendCh, written, out>>, Alive(t)' <=> Alive(t) PROVE Effect(t)
  BY <1>3 DEF Untouched, Effect
<1>4. stream \in [Conns -> 0..MaxStreams] /\ known \subseteq Conns /\ made \in Nat
  BY DEF Types, TypeOK, MapOK
<1>5. CASE CbReady(c)
  <2>1. /\ stream' = [stream EXCEPT ![c] = NoStream] /\ known' = known \cup {c} /\ c \notin known
        /\ UNCHANGED <<made, sendCh, written, out>>
    BY <1>5 DEF CbReady, FreshState, writeVars
  <2>2. stream'[c] # t /\ \A d \in known : stream'[d] = stream[d] BY <1>4, <2>1
  <2>3. Linked(t)' <=> Linked(t) BY <2>1, <2>2 DEF Linked
  <2> QED BY <1>3, <2>1, <2>3 DEF Alive
<1>6. CASE CbFirstData(c)
  <2>1. /\ stream' = [stream EXCEPT ![c] = made + 1] /\ made' = made + 1
        /\ UNCHANGED <<known, sendCh, written, out>> /\ c \in known /\ stream[c] = NoStream
    BY <1>6 DEF CbFirstData, writeVars
  <2>2. stream'[c] = made + 1 /\ \A d \in known : d # c => stream'[d] = stream[d]
    BY <1>4, <2>1
  <2>3. CASE t = made + 1
    <3>1. Linked(t)' BY <2>1, <2>2, <2>3 DEF Linked
    <3> QED BY <1>3, <1>4, <2>1, <2>3, <3>1 DEF Alive
  <2>4. CASE t # made + 1
    <3>1. Linked(t)' <=> Linked(t) BY <2>1, <2>2, <2>4 DEF Linked
    <3>2. t > made' <=> t > made BY <1>4, <2>1, <2>4
    <3> QED BY <1>3, <2>1, <3>1, <3>2 DEF Alive
  <2> QED BY <2>3, <2>4
<1> QED BY <1>1, <1>2, <1>5, <1>6 DEF Callback

LEMMA SendEffect ==
    ASSUME ~AddMayFail, Types, Structure, [Next]_vars, NEW t \in Streams PROVE Effect(t)
<1>1. CASE UNCHANGED vars \/ Signal \/ CreateFails \/ Start \/ After
  BY <1>1, LeftAlone DEF vars, writeVars, Signal, CreateFails, Start, After
<1>2. CASE Server
  BY <1>2, LeftAlone DEF Server, Accept, QueueEnds, Return, writeVars
<1>3. ASSUME NEW c \in Conns, Wake(c) \/ Drained(c) PROVE Effect(t)
  BY <1>3, LeftAlone DEF Wake, Drained, writeVars
<1>4. CASE LoopEnds
  <2>1. PICK cs \in SUBSET known : Unlink(cs) BY <1>4 DEF LoopEnds
  <2> QED BY <1>4, <2>1, UnlinkEffect DEF LoopEnds
<1> QED BY <1>1, <1>2, <1>3, <1>4, TaskEffect, DrainEffect, CallbackEffect DEF Next, Loop, InAfter

LEMMA AppendBehind ==
    ASSUME NEW p \in Seq(SendItem), NEW q \in Seq(SendItem), NEW x \in SendItem
    PROVE  Append(p \o q, x) = p \o Append(q, x)
<1> HIDE DEF SendItem
<1> QED OBVIOUS

LEMMA MoveHead ==
    ASSUME NEW S, NEW p \in Seq(S), NEW q \in Seq(S), q # <<>>
    PROVE  p \o q = Append(p, Head(q)) \o Tail(q)
OBVIOUS

LEMMA NextOfBoth ==
    ASSUME NEW S, NEW p \in Seq(S), NEW q \in Seq(S), q # <<>>
    PROVE  Len(p) < Len(p \o q) /\ (p \o q)[Len(p) + 1] = Head(q)
OBVIOUS

LEMMA LenOfBoth ==
    ASSUME NEW S, NEW p \in Seq(S), NEW q \in Seq(S), Len(q) < SendCap
    PROVE  Len(p \o q) < Len(p) + SendCap
OBVIOUS

LEMMA ConservedStep ==
    ASSUME SendOK, NEW t \in Streams, Effect(t), Conserved(t) PROVE Conserved(t)'
<1>1. sendCh[t] \in Seq(SendItem) /\ out[t] \in Seq(SendItem)
  BY SendItems
<1>2. ASSUME NEW x \in SendItem, Accepted(t, x) PROVE Conserved(t)'
  <2>1. written[t] = out[t] \o sendCh[t] BY <1>2 DEF Accepted, Conserved, Alive
  <2>2. Append(out[t] \o sendCh[t], x) = out[t] \o Append(sendCh[t], x)
    <3>1. PICK q, o : q = sendCh[t] /\ o = out[t] OBVIOUS
    <3>2. q \in Seq(SendItem) /\ o \in Seq(SendItem) BY <1>1, <3>1
    <3>3. Append(o \o q, x) = o \o Append(q, x) BY <3>2, AppendBehind, Zenon
    <3> QED BY <3>1, <3>3
  <2> QED BY <1>2, <2>1, <2>2 DEF Accepted, Conserved
<1>3. CASE Handed(t)
  <2>1. written[t] = out[t] \o sendCh[t] BY <1>3 DEF Handed, Conserved, Alive
  <2>2. out[t] \o sendCh[t] = Append(out[t], Head(sendCh[t])) \o Tail(sendCh[t])
    BY <1>1, <1>3, MoveHead DEF Handed
  <2> QED BY <1>3, <2>1, <2>2 DEF Handed, Conserved
<1>4. CASE Closes(t) \/ Untouched(t)
  BY <1>4 DEF Closes, Untouched, Conserved
<1> QED BY <1>2, <1>3, <1>4 DEF Effect

\* SendFifo's closed is false of a stream exactly while it is alive here.
LEMMA FifoStep ==
    ASSUME Types, Types', Structure, NEW t \in Streams, Effect(t), Conserved(t)
    PROVE  [Fifo(t)!Next]_(Fifo(t)!fifoVars)
<1>1. sendCh[t] \in Seq(SendItem) /\ out[t] \in Seq(SendItem) /\ written[t] \in Seq(SendItem)
  BY SendItems DEF Types, TypeOK
<1>2. made \in Nat /\ t \in Nat /\ (Linked(t) => t <= made)
  BY DEF Types, TypeOK, MapOK, Linked, Structure, Distinct
<1>3. (t <= made /\ ~Linked(t)) = ~Alive(t)
  BY <1>2 DEF Alive
<1>4. made' \in Nat
  BY DEF Types, TypeOK, MapOK
<1>5. (t <= made' /\ ~Linked(t)') = ~Alive(t)'
  BY <1>2, <1>4 DEF Alive
<1>6. ASSUME NEW x \in SendItem, Accepted(t, x) PROVE Fifo(t)!Accept(x)
  <2>1. written[t] = out[t] \o sendCh[t] /\ Alive(t) BY <1>6 DEF Accepted, Conserved, Alive
  <2>2. Len(written[t]) < Len(out[t]) + SendCap
    BY <1>1, <1>6, <2>1, LenOfBoth DEF Accepted
  <2>3. Alive(t)' BY <1>6, <2>1, SameMap DEF Accepted
  <2> QED BY <1>3, <1>5, <1>6, <2>1, <2>2, <2>3 DEF Fifo!Accept, Accepted
<1>7. CASE Handed(t)
  <2>1. written[t] = out[t] \o sendCh[t] /\ Alive(t) BY <1>7 DEF Handed, Conserved, Alive
  <2>2. Len(out[t]) < Len(written[t]) /\ written[t][Len(out[t]) + 1] = Head(sendCh[t])
    <3>1. PICK q, o : q = sendCh[t] /\ o = out[t] OBVIOUS
    <3>2. q \in Seq(SendItem) /\ o \in Seq(SendItem) /\ q # <<>> BY <1>1, <1>7, <3>1 DEF Handed
    <3>3. Len(o) < Len(o \o q) /\ (o \o q)[Len(o) + 1] = Head(q) BY ONLY <3>2, NextOfBoth, Zenon
    <3> QED BY <2>1, <3>1, <3>3
  <2>3. Alive(t)' BY <1>7, <2>1, SameMap DEF Handed
  <2>4. Fifo(t)!Transmit
    BY <1>3, <1>5, <1>7, <2>1, <2>2, <2>3 DEF Fifo!Transmit, Handed
  <2> QED BY <2>4 DEF Fifo!Next
<1>8. CASE Closes(t)
  BY <1>3, <1>5, <1>8 DEF Closes, Fifo!Next, Fifo!Close
<1>9. CASE Untouched(t)
  BY <1>3, <1>5, <1>9 DEF Untouched, Fifo!fifoVars
<1> QED BY <1>6, <1>7, <1>8, <1>9 DEF Effect, Fifo!Next

\* As long as picoquic_add_to_stream does not fail, what the tasks' poll_write
\* and poll_shutdown accept reaches it in order and once, each stream through its
\* own channel, whatever connections come and go at the addresses of others.
THEOREM SendPathsCorrect == ~AddMayFail => (Spec => SendPathsAreFifo)
<1> SUFFICES ASSUME ~AddMayFail PROVE Spec => SendPathsAreFifo
  OBVIOUS
<1>1. Init => ConservedInv /\ \A s \in Streams : Fifo(s)!Init
  <2>1. <<>> = <<>> \o <<>> OBVIOUS
  <2> QED BY <2>1 DEF Init, ConservedInv, Conserved, Linked, Fifo!Init
<1>2. Types /\ Structure /\ ConservedInv /\ [Next]_vars =>
          ConservedInv' /\ \A s \in Streams : [Fifo(s)!Next]_(Fifo(s)!fifoVars)
  BY TypesStep, SendEffect, ConservedStep, FifoStep DEF ConservedInv, Types, TypeOK
<1> QED BY <1>1, <1>2, TypesAlways, StructureAlways, PTL DEF Spec, SendPathsAreFifo
=============================================================================
