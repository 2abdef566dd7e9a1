-------------------------- MODULE SlipstreamClient --------------------------
(***************************************************************************)
(* The client bridge of src/src/transport/slipstream.rs: an async task     *)
(* that owns the two halves of a stream (SlipstreamRecvHalf and            *)
(* SlipstreamSendHalf), a thread that runs picoquic_packet_loop, and the   *)
(* three bounded channels between them.                                    *)
(*                                                                         *)
(* The thread and the task are interleaved at every channel operation.     *)
(* picoquic is external: it calls loop_callback in the fixed cycle         *)
(* TIME_CHECK, AFTER_RECEIVE (when a packet came), AFTER_SEND, and         *)
(* stream_callback at any time between TIME_CHECK and AFTER_SEND.          *)
(***************************************************************************)
EXTENDS Naturals, Sequences

CONSTANTS
    SendCap,         \* capacity of send_tx/send_rx (512 in the code)
    RecvCap,         \* capacity of recv_tx/recv_rx (4096)
    WakeCap,         \* capacity of wake_tx/wake_rx (512)
    MaxTicks,        \* AFTER_* callbacks waited for after the close (5000)
    MaxWrites,       \* bound: chunks the task writes
    MaxIn,           \* bound: chunks the peer sends
    AddMayFail,      \* picoquic_add_to_stream may return an error
    FinCarriesData   \* a stream_fin event may carry the last bytes

ASSUME ConstantsAssumption ==
    /\ SendCap \in Nat \ {0} /\ RecvCap \in Nat \ {0} /\ WakeCap \in Nat \ {0}
    /\ MaxTicks \in Nat /\ MaxWrites \in Nat /\ MaxIn \in Nat
    /\ AddMayFail \in BOOLEAN /\ FinCarriesData \in BOOLEAN

Fin == 0                  \* the empty Vec: end of stream in every channel
Nothing == 0              \* no chunk in hand
Chunk == Nat \ {0}        \* chunks are numbered in the order they are made
Item == Nat
SendItem == 0..MaxWrites  \* what the send channel carries

LoopState ==
    {"start", "check", "peek", "receive", "send", "wake1", "drain", "wake2", "exited"}

VARIABLES
    conn,          \* connect_stream and the life of the stream it returns
    wpc,           \* where poll_write stands
    toSend,        \* chunk in poll_write's hands or in pending_send
    written,       \* history: every item try_send took, in order
    shut,          \* poll_shutdown was called
    txOpen,        \* send_tx and wake_rx not dropped
    rxOpen,        \* recv_rx not dropped
    pending,       \* rest of a chunk poll_read delivered in part
    read,          \* history: chunks the caller has read in full
    eof,           \* poll_read returned 0 bytes
    sendCh, recvCh, wakeCh,
    lpc, resume,   \* the thread; where the AFTER_* callback returns to
    peek,          \* peek_buf, as a sequence of at most one item
    cnx, stream,   \* cnx and stream_id are set
    readySent, disconnected, shouldClose, closeSent, ticks,
    quic,          \* external: the connection as picoquic sees it
    out,           \* external: items picoquic_add_to_stream took
    arrived,       \* external: chunks that came from the peer
    finIn,         \* external: the peer's end of stream came
    tail,          \* external: bytes came with it
    aborted,       \* external: stream_reset or stop_sending came
    overflow       \* history: a chunk or marker found recvCh full

taskVars == <<conn, wpc, toSend, written, shut, txOpen, rxOpen,
              pending, read, eof>>
writeVars == <<toSend, written, shut>>
readVars == <<pending, read, eof>>
ctxVars == <<cnx, stream, readySent, disconnected, shouldClose, closeSent, ticks>>
inVars == <<quic, arrived, finIn, tail, aborted, overflow>>
vars == <<taskVars, sendCh, recvCh, wakeCh, lpc, resume, peek, ctxVars,
          inVars, out>>

Init ==
    /\ conn = "connecting" /\ wpc = "idle" /\ toSend = Nothing
    /\ written = <<>> /\ shut = FALSE
    /\ txOpen = TRUE /\ rxOpen = TRUE
    /\ pending = Nothing /\ read = <<>> /\ eof = FALSE
    /\ sendCh = <<>> /\ recvCh = <<>> /\ wakeCh = 0
    /\ lpc = "start" /\ resume = "check" /\ peek = <<>>
    /\ cnx = FALSE /\ stream = FALSE /\ readySent = FALSE
    /\ disconnected = FALSE /\ shouldClose = FALSE /\ closeSent = FALSE
    /\ ticks = 0
    /\ quic = "handshake" /\ out = <<>> /\ arrived = 0
    /\ finIn = FALSE /\ tail = FALSE /\ aborted = FALSE /\ overflow = FALSE

-----------------------------------------------------------------------------
(* The task: connect_stream, poll_write, poll_shutdown, poll_read, drop.   *)

\* ready_rx.recv() yields Some(()) or, once the thread dropped ready_tx, None.
\* Either way connect_stream returns a stream.
ConnectReturn ==
    /\ conn = "connecting"
    /\ readySent \/ lpc = "exited"
    /\ conn' = "stream"
    /\ UNCHANGED <<wpc, writeVars, txOpen, rxOpen, readVars, sendCh, recvCh,
                   wakeCh, lpc, resume, peek, ctxVars, inVars, out>>

\* The 30 s timer; select! may take it even when the ready signal is there.
ConnectTimeout ==
    /\ conn = "connecting"
    /\ conn' = "failed"
    /\ UNCHANGED <<wpc, writeVars, txOpen, rxOpen, readVars, sendCh, recvCh,
                   wakeCh, lpc, resume, peek, ctxVars, inVars, out>>

\* The stream is in use and no poll of it is running.
Between == conn = "stream" /\ rxOpen /\ wpc \in {"idle", "parked"}
Readable == conn = "stream" /\ rxOpen /\ wpc \in {"idle", "parked", "broken"}

\* Only chunks are written before the shutdown.
NextChunk == Len(written) + 1

BeginWrite ==
    /\ Between /\ wpc = "idle" /\ ~shut
    /\ NextChunk <= MaxWrites
    /\ toSend' = IF toSend = Nothing THEN NextChunk ELSE toSend
    /\ wpc' = "try"
    /\ UNCHANGED <<conn, written, shut, txOpen, rxOpen, readVars,
                   sendCh, recvCh, wakeCh, lpc, resume, peek, ctxVars, inVars, out>>

\* send_tx.try_send: taken, refused because full, or the receiver is gone.
TrySend ==
    /\ wpc = "try"
    /\ \/ /\ lpc # "exited" /\ Len(sendCh) < SendCap
          /\ sendCh' = Append(sendCh, toSend)
          /\ written' = Append(written, toSend)
          /\ toSend' = Nothing
          /\ wpc' = "idle"
       \/ /\ lpc # "exited" /\ Len(sendCh) >= SendCap
          /\ wpc' = "full"
          /\ UNCHANGED <<sendCh, written, toSend>>
       \/ /\ lpc = "exited"
          /\ wpc' = "broken"
          /\ toSend' = Nothing
          /\ UNCHANGED <<sendCh, written>>
    /\ UNCHANGED <<conn, shut, txOpen, rxOpen, readVars, recvCh,
                   wakeCh, lpc, resume, peek, ctxVars, inVars, out>>

\* wake_rx.poll_recv after Full: a token, a closed channel, or the task parks.
PollWake ==
    /\ wpc = "full"
    /\ \/ /\ wakeCh > 0
          /\ wakeCh' = wakeCh - 1
          /\ wpc' = "try"
       \/ /\ wakeCh = 0 /\ lpc = "exited"
          /\ wpc' = "broken"
          /\ UNCHANGED wakeCh
       \/ /\ wakeCh = 0 /\ lpc # "exited"
          /\ wpc' = "parked"
          /\ UNCHANGED wakeCh
    /\ UNCHANGED <<conn, writeVars, txOpen, rxOpen, readVars, sendCh, recvCh,
                   lpc, resume, peek, ctxVars, inVars, out>>

\* The relay's other direction wakes the task, which polls the write again.
Repoll ==
    /\ Between /\ wpc = "parked"
    /\ wpc' = "try"
    /\ UNCHANGED <<conn, writeVars, txOpen, rxOpen, readVars, sendCh, recvCh,
                   wakeCh, lpc, resume, peek, ctxVars, inVars, out>>

\* try_send of the empty Vec; the result is ignored.
PollShutdown ==
    /\ Between /\ wpc = "idle" /\ ~shut
    /\ shut' = TRUE
    /\ IF lpc = "exited" \/ Len(sendCh) >= SendCap
       THEN UNCHANGED <<sendCh, written>>
       ELSE /\ sendCh' = Append(sendCh, Fin)
            /\ written' = Append(written, Fin)
    /\ UNCHANGED <<conn, wpc, toSend, txOpen, rxOpen, readVars, recvCh,
                   wakeCh, lpc, resume, peek, ctxVars, inVars, out>>

\* mutant: what is left of a chunk is kept from its first byte
DeliverAgain(x) ==
    \/ read' = Append(read, x) /\ pending' \in {Nothing, x}
    \/ pending' = x /\ UNCHANGED read

\* A read that ends a chunk leaves nothing pending; one into a small buffer
\* leaves the rest for the next poll.
Deliver(x) ==
    \/ read' = Append(read, x) /\ pending' = Nothing
    \/ pending' = x /\ UNCHANGED read

\* mutant: the rest of a chunk is forgotten when the next one is there
RestForgotten == pending = Nothing \/ recvCh # <<>>

\* poll_read looks at the channel only when the last chunk is delivered.
NothingPending == pending = Nothing

\* poll_read with nothing pending: a chunk, or the empty Vec read as the end.
ReadChunk ==
    /\ Readable
    /\ ~eof /\ NothingPending /\ recvCh # <<>>
    /\ recvCh' = Tail(recvCh)
    /\ IF Head(recvCh) = Fin
       THEN eof' = TRUE /\ UNCHANGED <<pending, read>>
       ELSE Deliver(Head(recvCh)) /\ UNCHANGED eof
    /\ UNCHANGED <<conn, wpc, writeVars, txOpen, rxOpen, sendCh, wakeCh, lpc,
                   resume, peek, ctxVars, inVars, out>>

\* poll_read serves the rest of the last chunk before it looks at the channel.
ReadPending ==
    /\ Readable
    /\ pending # Nothing
    /\ read' = Append(read, pending)
    /\ pending' = Nothing
    /\ UNCHANGED <<conn, wpc, writeVars, txOpen, rxOpen, eof, sendCh, recvCh,
                   wakeCh, lpc, resume, peek, ctxVars, inVars, out>>

\* mutant: an empty channel is read as a closed one
SenderIdle == TRUE

SenderGone == lpc = "exited"

\* recv_tx is dropped and the channel is empty: None, read as the end.
ReadClosed ==
    /\ Readable
    /\ ~eof /\ NothingPending /\ recvCh = <<>> /\ SenderGone
    /\ eof' = TRUE
    /\ UNCHANGED <<conn, wpc, writeVars, txOpen, rxOpen, pending, read, sendCh,
                   recvCh, wakeCh, lpc, resume, peek, ctxVars, inVars, out>>

\* The stream is dropped at an await point: recv_rx first, then send_tx.  A
\* connect that failed drops its locals the other way round.
DropRecv ==
    /\ Readable \/ (rxOpen /\ conn = "failed" /\ ~txOpen)
    /\ rxOpen' = FALSE
    /\ wpc' = "idle" /\ toSend' = Nothing /\ pending' = Nothing /\ recvCh' = <<>>
    /\ UNCHANGED <<conn, written, shut, txOpen, read, eof, sendCh,
                   wakeCh, lpc, resume, peek, ctxVars, inVars, out>>

DropSend ==
    /\ txOpen
    /\ (conn = "stream" /\ ~rxOpen) \/ conn = "failed"
    /\ txOpen' = FALSE
    /\ wakeCh' = 0
    /\ UNCHANGED <<conn, wpc, writeVars, rxOpen, readVars, sendCh, recvCh, lpc,
                   resume, peek, ctxVars, inVars, out>>

-----------------------------------------------------------------------------
(* The thread: connect, then the packet loop and its callbacks.            *)

\* mutant: consumption is not reported
WakeNobody == UNCHANGED <<wakeCh, wpc>>

\* wake_tx.try_send: one more token unless the channel is full, and the parked
\* task polls the write again.  With the task gone the token has no reader.
WakeWriter ==
    /\ wakeCh' = IF txOpen /\ wakeCh < WakeCap THEN wakeCh + 1 ELSE wakeCh
    /\ wpc' = IF wpc = "parked" THEN "try" ELSE wpc

\* The loop returned: picoquic_free, then the Box is dropped with every channel
\* end in it.  A writer parked on wake_rx is woken.
Exit ==
    /\ lpc' = "exited"
    /\ sendCh' = <<>> /\ peek' = <<>>
    /\ wpc' = IF wpc = "parked" THEN "try" ELSE wpc

\* Anything before the loop fails: the address, picoquic_create, the connection.
ThreadFail ==
    /\ lpc = "start"
    /\ Exit
    /\ UNCHANGED <<conn, writeVars, txOpen, rxOpen, readVars, recvCh, wakeCh,
                   resume, ctxVars, inVars, out>>

ThreadStart ==
    /\ lpc = "start"
    /\ lpc' = "check"
    /\ UNCHANGED <<taskVars, sendCh, recvCh, wakeCh, resume, peek, ctxVars,
                   inVars, out>>

\* picoquic_packet_loop gives up (a socket error).
LoopFails ==
    /\ lpc \in {"receive", "send"}
    /\ Exit
    /\ UNCHANGED <<conn, writeVars, txOpen, rxOpen, readVars, recvCh, wakeCh,
                   resume, ctxVars, inVars, out>>

Connected == cnx /\ stream

\* mutant: a lone item is left in the channel
PeekSecond == peek = <<>> /\ Len(sendCh) > 1

\* An item may be taken: there is one, and peek_buf is free for it.
PeekPossible == peek = <<>> /\ sendCh # <<>>

\* mutant: an empty send channel is taken for a dropped one
EmptyIsDropped == peek = <<>> /\ sendCh = <<>>

\* try_recv found the channel empty and send_tx dropped.
SenderDropped == peek = <<>> /\ sendCh = <<>> /\ ~txOpen

\* TIME_CHECK: recv_tx.is_closed() asks for the close.  The delay is capped at
\* 1 ms, so TIME_CHECK comes again soon.
TimeCheck ==
    /\ lpc = "check"
    /\ lpc' = "peek"
    /\ shouldClose' = (shouldClose \/ ~rxOpen)
    /\ UNCHANGED <<taskVars, sendCh, recvCh, wakeCh, resume, peek, cnx, stream,
                   readySent, disconnected, closeSent, ticks, inVars, out>>

\* TIME_CHECK, once connected: one item is taken into an empty peek_buf; a
\* dropped sender asks for the close too.
TimeCheckPeek ==
    /\ lpc = "peek"
    /\ lpc' = "receive"
    /\ IF Connected /\ PeekPossible
       THEN peek' = <<Head(sendCh)>> /\ sendCh' = Tail(sendCh)
       ELSE UNCHANGED <<peek, sendCh>>
    /\ shouldClose' = (shouldClose \/ (Connected /\ SenderDropped))
    /\ UNCHANGED <<taskVars, recvCh, wakeCh, resume, cnx, stream, readySent,
                   disconnected, closeSent, ticks, inVars, out>>

\* Where an AFTER_* callback returns to.
Following(l) == IF l = "receive" THEN "send" ELSE "check"

\* No packet came: picoquic skips AFTER_RECEIVE.
NoPacket ==
    /\ lpc = "receive"
    /\ lpc' = "send"
    /\ UNCHANGED <<taskVars, sendCh, recvCh, wakeCh, resume, peek, ctxVars,
                   inVars, out>>

\* AFTER_* with a close wanted and nobody left to tell: the loop ends.
AfterTerminate ==
    /\ lpc \in {"receive", "send"}
    /\ shouldClose /\ (disconnected \/ ~cnx)
    /\ Exit
    /\ UNCHANGED <<conn, writeVars, txOpen, rxOpen, readVars, recvCh, wakeCh,
                   resume, ctxVars, inVars, out>>

\* mutant: the callbacks after the close are not counted
NoTick == ticks

NextTick == ticks + 1

\* AFTER_* with a close wanted: picoquic_close once, then count the callbacks;
\* the send channel is not looked at again.
AfterClose ==
    /\ lpc \in {"receive", "send"}
    /\ shouldClose /\ ~disconnected /\ cnx
    /\ closeSent' = TRUE
    /\ ticks' = NextTick
    /\ IF ticks > MaxTicks
       THEN Exit
       ELSE lpc' = Following(lpc) /\ UNCHANGED <<sendCh, peek, wpc>>
    /\ UNCHANGED <<conn, writeVars, txOpen, rxOpen, readVars, recvCh, wakeCh,
                   resume, cnx, stream, readySent, disconnected, shouldClose,
                   inVars, out>>

\* AFTER_* with nothing in peek_buf: consumed stays false, nothing is drained.
AfterIdle ==
    /\ lpc \in {"receive", "send"}
    /\ ~shouldClose /\ (~Connected \/ peek = <<>>)
    /\ lpc' = Following(lpc)
    /\ UNCHANGED <<taskVars, sendCh, recvCh, wakeCh, resume, peek, ctxVars,
                   inVars, out>>

\* mutant: peek_buf is left for later, what is behind it is drained
PeekLast ==
    /\ lpc \in {"receive", "send"}
    /\ ~shouldClose /\ Connected /\ peek # <<>>
    /\ lpc' = "wake1" /\ resume' = Following(lpc)
    /\ UNCHANGED <<taskVars, sendCh, recvCh, wakeCh, peek, ctxVars, inVars, out>>

\* AFTER_* with an item in peek_buf: it goes to QUIC.  If QUIC refuses a chunk it
\* stays in peek_buf; an end marker QUIC refuses is gone.
AfterPeek ==
    /\ lpc \in {"receive", "send"}
    /\ ~shouldClose /\ Connected /\ peek # <<>>
    /\ \/ out' = Append(out, Head(peek)) /\ peek' = <<>>
       \/ /\ AddMayFail
          /\ peek' = IF Head(peek) = Fin THEN <<>> ELSE peek
          /\ UNCHANGED out
    /\ lpc' = "wake1" /\ resume' = Following(lpc)
    /\ UNCHANGED <<taskVars, sendCh, recvCh, wakeCh, ctxVars, inVars>>

Wake1 ==
    /\ lpc = "wake1"
    /\ WakeWriter
    /\ lpc' = "drain"
    /\ UNCHANGED <<conn, writeVars, txOpen, rxOpen, readVars, sendCh, recvCh,
                   resume, peek, ctxVars, inVars, out>>

\* One turn of the drain loop.  A chunk QUIC refuses is lost and ends the loop.
Drain ==
    /\ lpc = "drain"
    /\ IF sendCh = <<>>
       THEN /\ shouldClose' = (shouldClose \/ ~txOpen)
            /\ lpc' = "wake2"
            /\ UNCHANGED <<sendCh, out>>
       ELSE /\ sendCh' = Tail(sendCh)
            /\ \/ out' = Append(out, Head(sendCh)) /\ UNCHANGED lpc
               \/ /\ AddMayFail
                  /\ lpc' = IF Head(sendCh) = Fin THEN lpc ELSE "wake2"
                  /\ UNCHANGED out
            /\ UNCHANGED shouldClose
    /\ UNCHANGED <<taskVars, recvCh, wakeCh, resume, peek, cnx, stream,
                   readySent, disconnected, closeSent, ticks, inVars>>

Wake2 ==
    /\ lpc = "wake2"
    /\ WakeWriter
    /\ lpc' = resume
    /\ UNCHANGED <<conn, writeVars, txOpen, rxOpen, readVars, sendCh, recvCh,
                   resume, peek, ctxVars, inVars, out>>

-----------------------------------------------------------------------------
(* stream_callback, called by picoquic from inside the loop.               *)

InLoop == lpc \in {"receive", "send"}

\* mutant: the last slot of the channel is not used, and nobody is told
PushShort(x) ==
    /\ recvCh' = IF rxOpen /\ Len(recvCh) + 1 < RecvCap THEN Append(recvCh, x) ELSE recvCh
    /\ overflow' = (overflow \/ (rxOpen /\ Len(recvCh) >= RecvCap))

\* mutant: the channel has no bound
PushUnbounded(x) ==
    /\ recvCh' = IF rxOpen THEN Append(recvCh, x) ELSE recvCh
    /\ UNCHANGED overflow

\* recv_tx.try_send, its result ignored: a full channel loses the item.
Push(x) ==
    /\ recvCh' = IF rxOpen /\ Len(recvCh) < RecvCap THEN Append(recvCh, x) ELSE recvCh
    /\ overflow' = (overflow \/ (rxOpen /\ Len(recvCh) >= RecvCap))

\* ready: the connection is stored, and the stream unless picoquic refuses to
\* mark it active; that error makes picoquic give the connection up.
CbReady ==
    /\ InLoop /\ quic = "handshake"
    /\ cnx' = TRUE
    /\ \/ quic' = "ready" /\ stream' = TRUE /\ readySent' = TRUE
       \/ quic' = "failing" /\ UNCHANGED <<stream, readySent>>
    /\ UNCHANGED <<taskVars, sendCh, recvCh, wakeCh, lpc, resume, peek,
                   disconnected, shouldClose, closeSent, ticks, arrived, finIn,
                   tail, aborted, overflow, out>>

CbData ==
    /\ InLoop /\ quic = "ready" /\ ~finIn /\ arrived < MaxIn
    /\ arrived' = arrived + 1
    /\ Push(arrived + 1)
    /\ UNCHANGED <<taskVars, sendCh, wakeCh, lpc, resume, peek, ctxVars, quic,
                   finIn, tail, aborted, out>>

\* stream_fin: an end marker; bytes that come with the event are not looked at.
CbFin ==
    /\ InLoop /\ quic = "ready" /\ ~finIn
    /\ finIn' = TRUE
    /\ UNCHANGED tail \/ (FinCarriesData /\ tail' = TRUE)
    /\ Push(Fin)
    /\ UNCHANGED <<taskVars, sendCh, wakeCh, lpc, resume, peek, ctxVars, quic,
                   arrived, aborted, out>>

\* stream_reset or stop_sending: both are an end marker for the reader.
CbAbort ==
    /\ InLoop /\ quic = "ready" /\ ~aborted
    /\ aborted' = TRUE
    /\ Push(Fin)
    /\ UNCHANGED <<taskVars, sendCh, wakeCh, lpc, resume, peek, ctxVars, quic,
                   arrived, finIn, tail, out>>

\* close, application_close or stateless_reset, in any state of the connection.
CbClose ==
    /\ InLoop /\ quic # "closed"
    /\ quic' = "closed"
    /\ disconnected' = TRUE
    /\ Push(Fin)
    /\ UNCHANGED <<taskVars, sendCh, wakeCh, lpc, resume, peek, cnx, stream,
                   readySent, shouldClose, closeSent, ticks, arrived, finIn,
                   tail, aborted, out>>

-----------------------------------------------------------------------------

Loop ==
    \/ ThreadStart \/ TimeCheck \/ TimeCheckPeek \/ NoPacket
    \/ AfterTerminate \/ AfterClose \/ AfterIdle \/ AfterPeek \/ Wake1 \/ Drain \/ Wake2

Callback == CbReady \/ CbData \/ CbFin \/ CbAbort \/ CbClose

Task ==
    \/ ConnectReturn \/ ConnectTimeout \/ BeginWrite \/ TrySend \/ PollWake
    \/ Repoll \/ PollShutdown \/ ReadChunk \/ ReadPending \/ ReadClosed
    \/ DropRecv \/ DropSend

Next == Task \/ Loop \/ ThreadFail \/ LoopFails \/ Callback

Spec == Init /\ [][Next]_vars

\* The loop's cycle does not stop (TIME_CHECK caps the wait), the runtime polls
\* a woken task, a relay keeps reading, and a drop that began is finished.
\* picoquic, the network and the caller owe nothing.
Fairness ==
    /\ WF_vars(Loop)
    /\ WF_vars(TrySend \/ PollWake)
    /\ WF_vars(ReadChunk \/ ReadPending \/ ReadClosed)
    /\ WF_vars(ConnectReturn \/ ConnectTimeout)
    /\ WF_vars(DropSend \/ (conn = "failed" /\ DropRecv))

FairSpec == Spec /\ Fairness

-----------------------------------------------------------------------------
(* What must hold.                                                         *)

FlagsOK ==
    /\ shut \in BOOLEAN
    /\ txOpen \in BOOLEAN /\ rxOpen \in BOOLEAN /\ eof \in BOOLEAN
    /\ cnx \in BOOLEAN /\ stream \in BOOLEAN /\ readySent \in BOOLEAN
    /\ disconnected \in BOOLEAN /\ shouldClose \in BOOLEAN /\ closeSent \in BOOLEAN
    /\ finIn \in BOOLEAN /\ tail \in BOOLEAN /\ aborted \in BOOLEAN /\ overflow \in BOOLEAN

ControlOK ==
    /\ conn \in {"connecting", "stream", "failed"}
    /\ wpc \in {"idle", "try", "full", "parked", "broken"}
    /\ lpc \in LoopState /\ resume \in {"check", "send"}
    /\ quic \in {"handshake", "ready", "failing", "closed"}
    /\ ticks \in 0..(MaxTicks + 2) /\ wakeCh \in 0..WakeCap /\ arrived \in 0..MaxIn
    /\ toSend \in SendItem

SendDataOK ==
    /\ written \in Seq(SendItem) /\ out \in Seq(SendItem)
    /\ sendCh \in Seq(SendItem) /\ Len(sendCh) <= SendCap
    /\ peek \in Seq(SendItem) /\ Len(peek) <= 1

ReceiveDataOK ==
    /\ pending \in Item /\ read \in Seq(Chunk)
    /\ recvCh \in Seq(Item) /\ Len(recvCh) <= RecvCap

\* Every variable has its type, and no channel holds more than it can.
TypeOK == FlagsOK /\ ControlOK /\ SendDataOK /\ ReceiveDataOK

\* A task parked in poll_write will be woken: the thread is alive, and what it
\* still has to take from the channel, or the wake it is about to send, is there.
\* Breaks if the thread empties the channel between the task's Full and its
\* poll_recv, or after it, without a wake that comes later.
NoLostWakeup ==
    wpc = "parked" =>
        /\ lpc # "exited"
        /\ sendCh # <<>> \/ peek # <<>> \/ lpc \in {"wake1", "drain", "wake2"}

\* The thread decides to close only when a half of the stream is dropped: an
\* idle stream, an empty channel or a slow task is never mistaken for that.
CloseOnlyIfAbandoned == shouldClose => ~rxOpen \/ ~txOpen

\* The send path is the FIFO SendFifo promises, from poll_write through the
\* channel, peek_buf and the drain loop to picoquic, however the thread and the
\* task interleave.  Holds when picoquic_add_to_stream does not fail.
Fifo == INSTANCE SendFifo WITH
            Item <- SendItem, Cap <- SendCap + 1, closed <- (lpc = "exited")
SendPathIsFifo == Fifo!Spec

\* The caller reads chunks in the order they came, none twice, whatever is lost.
InboundInOrder ==
    \A i, j \in 1..Len(read) : i < j => read[i] < read[j]

\* poll_read reports the end only when there was one: the peer's end of stream,
\* a reset, the end of the connection or of the thread.
EofTruthful == eof => finIn \/ aborted \/ disconnected \/ lpc = "exited"

\* When the caller sees the end and nothing overflowed or was aborted, it has
\* read everything that came as data; bytes in the event of the end are lost.
TailComplete ==
    eof /\ ~overflow /\ ~aborted => read = [i \in 1..arrived |-> i]

\* The receive path, from the callbacks through the channel to the caller, is the
\* Tunnel a whole connection is: each read gives the next chunk, after an end there
\* is none, and an end that comes after stream_fin comes after everything, unless
\* the channel overflowed or the stream, the connection or the thread is gone.
Inbound == INSTANCE Tunnel WITH
               sent <- arrived, over <- finIn, got <- read,
               end <- IF eof THEN "fin" ELSE "open", holed <- overflow,
               cut <- overflow \/ aborted \/ disconnected \/ lpc = "exited"
ReceivePathIsTunnel == Inbound!Spec

\* Once both halves are dropped the thread ends, connected or not, whether the
\* peer answers the close or not.
AbandonedThreadExits == (~rxOpen /\ ~txOpen) ~> lpc = "exited"

\* A parked writer runs again.
ParkedWriterResumes == wpc = "parked" ~> wpc # "parked"

\* What poll_write and poll_shutdown accepted reaches picoquic unless the stream
\* is dropped or the loop ends.
AcceptedReachesQuic ==
    \A n \in 1..(MaxWrites + 1) :
        Len(written) >= n ~> Len(out) >= n \/ shouldClose \/ lpc = "exited"

\* The peer's end of stream is reported to a caller that keeps reading, unless
\* the receive channel overflowed.
EndIsReported == finIn ~> eof \/ ~rxOpen \/ overflow

=============================================================================
