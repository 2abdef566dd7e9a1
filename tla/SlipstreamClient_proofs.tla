---------------------- MODULE SlipstreamClient_proofs ----------------------
(***************************************************************************)
(* Theorems about SlipstreamClient for every value of its constants: types *)
(* and channel bounds, no lost wake-up of a parked writer, no close of a   *)
(* stream in use, the send path as an implementation of SendFifo, and the  *)
(* receive path: order, truthful ends and completeness.                    *)
(***************************************************************************)
EXTENDS SlipstreamClient, SequenceTheorems, TLAPS

-----------------------------------------------------------------------------
(* Types.  TypeOK is not inductive by itself: that ticks stays bounded     *)
(* needs the loop to end with the callback that counts past MaxTicks.      *)

TicksBounded == lpc # "exited" => ticks <= MaxTicks + 1

LEMMA FlagsStep == FlagsOK /\ [Next]_vars => FlagsOK'
<1> SUFFICES ASSUME FlagsOK, [Next]_vars PROVE FlagsOK'
  OBVIOUS
<1>1. CASE ConnectReturn \/ ConnectTimeout \/ BeginWrite \/ TrySend
  BY <1>1 DEF ConnectReturn, ConnectTimeout, BeginWrite, TrySend,
              FlagsOK, taskVars, writeVars, readVars, ctxVars, inVars
<1>2. CASE PollWake \/ Repoll \/ ReadPending
  BY <1>2 DEF PollWake, Repoll, ReadPending,
              FlagsOK, taskVars, writeVars, readVars, ctxVars, inVars
<1>3. CASE PollShutdown
  <2>1. UNCHANGED <<txOpen, rxOpen, eof, cnx, stream, readySent, disconnected,
                    shouldClose, closeSent, finIn, tail, aborted, overflow>>
    BY <1>3 DEF PollShutdown,
               taskVars, writeVars, readVars, ctxVars, inVars
  <2>2. shut' \in BOOLEAN
    BY <1>3, Zenon DEF PollShutdown, FlagsOK
  <2> QED BY <2>1, <2>2 DEF FlagsOK
<1>4. CASE ReadChunk
  <2>1. UNCHANGED <<shut, txOpen, rxOpen, cnx, stream, readySent, disconnected,
                    shouldClose, closeSent, finIn, tail, aborted, overflow>>
    BY <1>4 DEF ReadChunk,
               taskVars, writeVars, readVars, ctxVars, inVars
  <2>2. eof' \in BOOLEAN
    BY <1>4, Zenon DEF ReadChunk, FlagsOK
  <2> QED BY <2>1, <2>2 DEF FlagsOK
<1>17. CASE ReadClosed
  <2>1. UNCHANGED <<shut, txOpen, rxOpen, cnx, stream, readySent, disconnected,
                    shouldClose, closeSent, finIn, tail, aborted, overflow>>
    BY <1>17 DEF ReadClosed,
               taskVars, writeVars, readVars, ctxVars, inVars
  <2>2. eof' \in BOOLEAN
    BY <1>17, Zenon DEF ReadClosed, FlagsOK
  <2> QED BY <2>1, <2>2 DEF FlagsOK
<1>5. CASE DropRecv
  <2>1. UNCHANGED <<shut, txOpen, eof, cnx, stream, readySent, disconnected,
                    shouldClose, closeSent, finIn, tail, aborted, overflow>>
    BY <1>5 DEF DropRecv,
               taskVars, writeVars, readVars, ctxVars, inVars
  <2>2. rxOpen' \in BOOLEAN
    BY <1>5, Zenon DEF DropRecv, FlagsOK
  <2> QED BY <2>1, <2>2 DEF FlagsOK
<1>18. CASE DropSend
  <2>1. UNCHANGED <<shut, rxOpen, eof, cnx, stream, readySent, disconnected,
                    shouldClose, closeSent, finIn, tail, aborted, overflow>>
    BY <1>18 DEF DropSend,
               taskVars, writeVars, readVars, ctxVars, inVars
  <2>2. txOpen' \in BOOLEAN
    BY <1>18, Zenon DEF DropSend, FlagsOK
  <2> QED BY <2>1, <2>2 DEF FlagsOK
<1>6. CASE ThreadStart \/ NoPacket \/ AfterTerminate \/ ThreadFail \/ LoopFails
  BY <1>6 DEF ThreadStart, NoPacket, AfterTerminate, ThreadFail, LoopFails, Exit,
              FlagsOK, taskVars, writeVars, readVars, ctxVars, inVars
<1>7. CASE TimeCheck
  <2>1. UNCHANGED <<shut, txOpen, rxOpen, eof, cnx, stream, readySent, disconnected,
                    closeSent, finIn, tail, aborted, overflow>>
    BY <1>7 DEF TimeCheck,
               taskVars, writeVars, readVars, ctxVars, inVars
  <2>2. shouldClose' \in BOOLEAN
    BY <1>7, Zenon DEF TimeCheck, FlagsOK
  <2> QED BY <2>1, <2>2 DEF FlagsOK
<1>19. CASE TimeCheckPeek
  <2>1. UNCHANGED <<shut, txOpen, rxOpen, eof, cnx, stream, readySent, disconnected,
                    closeSent, finIn, tail, aborted, overflow>>
    BY <1>19 DEF TimeCheckPeek,
               taskVars, writeVars, readVars, ctxVars, inVars
  <2>2. shouldClose' \in BOOLEAN
    BY <1>19, Zenon DEF TimeCheckPeek, FlagsOK
  <2> QED BY <2>1, <2>2 DEF FlagsOK
<1>8. CASE AfterClose
  <2>1. UNCHANGED <<shut, txOpen, rxOpen, eof, cnx, stream, readySent, disconnected,
                    shouldClose, finIn, tail, aborted, overflow>>
    BY <1>8 DEF AfterClose, Exit,
               taskVars, writeVars, readVars, ctxVars, inVars
  <2>2. closeSent' \in BOOLEAN
    BY <1>8, Zenon DEF AfterClose, Exit, FlagsOK
  <2> QED BY <2>1, <2>2 DEF FlagsOK
<1>9. CASE AfterIdle \/ AfterPeek \/ Wake1 \/ Wake2
  BY <1>9 DEF AfterIdle, AfterPeek, Wake1, Wake2, WakeWriter,
              FlagsOK, taskVars, writeVars, readVars, ctxVars, inVars
<1>10. CASE Drain
  <2>1. /\ shouldClose' \in BOOLEAN
    <3>1. CASE sendCh = <<>>
      BY <1>10, <3>1, Zenon DEF Drain, FlagsOK
    <3>2. CASE sendCh # <<>>
      BY <1>10, <3>2, Zenon DEF Drain, FlagsOK
    <3> QED BY <3>1, <3>2
  <2>2. UNCHANGED <<shut, txOpen, rxOpen, eof, cnx, stream, readySent,
                    disconnected, closeSent, finIn, tail, aborted, overflow>>
    BY <1>10 DEF Drain, taskVars, writeVars, readVars, ctxVars, inVars
  <2> QED BY <2>1, <2>2 DEF FlagsOK
<1>11. CASE CbReady
  <2>1. UNCHANGED <<shut, txOpen, rxOpen, eof, disconnected, shouldClose, closeSent,
                    finIn, tail, aborted, overflow>>
    BY <1>11 DEF CbReady,
               taskVars, writeVars, readVars, ctxVars, inVars
  <2>2. cnx' \in BOOLEAN /\ stream' \in BOOLEAN /\ readySent' \in BOOLEAN
    BY <1>11, Zenon DEF CbReady, FlagsOK
  <2> QED BY <2>1, <2>2 DEF FlagsOK
<1>12. CASE CbData
  <2>1. UNCHANGED <<shut, txOpen, rxOpen, eof, cnx, stream, readySent, disconnected,
                    shouldClose, closeSent, finIn, tail, aborted>>
    BY <1>12 DEF CbData, Push,
               taskVars, writeVars, readVars, ctxVars, inVars
  <2>2. overflow' \in BOOLEAN
    BY <1>12, Zenon DEF CbData, Push, FlagsOK
  <2> QED BY <2>1, <2>2 DEF FlagsOK
<1>13. CASE CbFin
  <2>1. UNCHANGED <<shut, txOpen, rxOpen, eof, cnx, stream, readySent, disconnected,
                    shouldClose, closeSent, aborted>>
    BY <1>13 DEF CbFin, Push,
               taskVars, writeVars, readVars, ctxVars, inVars
  <2>2. finIn' \in BOOLEAN /\ tail' \in BOOLEAN /\ overflow' \in BOOLEAN
    BY <1>13, Zenon DEF CbFin, Push, FlagsOK
  <2> QED BY <2>1, <2>2 DEF FlagsOK
<1>14. CASE CbAbort
  <2>1. UNCHANGED <<shut, txOpen, rxOpen, eof, cnx, stream, readySent, disconnected,
                    shouldClose, closeSent, finIn, tail>>
    BY <1>14 DEF CbAbort, Push,
               taskVars, writeVars, readVars, ctxVars, inVars
  <2>2. aborted' \in BOOLEAN /\ overflow' \in BOOLEAN
    BY <1>14, Zenon DEF CbAbort, Push, FlagsOK
  <2> QED BY <2>1, <2>2 DEF FlagsOK
<1>15. CASE CbClose
  <2>1. UNCHANGED <<shut, txOpen, rxOpen, eof, cnx, stream, readySent, shouldClose,
                    closeSent, finIn, tail, aborted>>
    BY <1>15 DEF CbClose, Push,
               taskVars, writeVars, readVars, ctxVars, inVars
  <2>2. disconnected' \in BOOLEAN /\ overflow' \in BOOLEAN
    BY <1>15, Zenon DEF CbClose, Push, FlagsOK
  <2> QED BY <2>1, <2>2 DEF FlagsOK
<1>16. CASE UNCHANGED vars
  BY <1>16 DEF vars, FlagsOK, taskVars, writeVars, readVars, ctxVars, inVars
<1> QED
  BY <1>1, <1>2, <1>3, <1>4, <1>5, <1>6, <1>7, <1>8, <1>9, <1>10, <1>11, <1>12,
     <1>13, <1>14, <1>15, <1>16, <1>17, <1>18, <1>19
     DEF Next, Task, Loop, Callback

LEMMA ControlStep ==
  ControlOK /\ TicksBounded /\ SendDataOK /\ [Next]_vars
    => ControlOK' /\ TicksBounded'
<1> SUFFICES ASSUME ControlOK, TicksBounded, SendDataOK, [Next]_vars
             PROVE  ControlOK' /\ TicksBounded'
  OBVIOUS
<1> USE ConstantsAssumption
    DEF ControlOK, TicksBounded, LoopState, taskVars, writeVars, readVars,
        ctxVars, inVars, SendItem, Nothing
<1>1. CASE ConnectReturn \/ ConnectTimeout \/ TrySend \/ PollWake \/ Repoll
  BY <1>1 DEF ConnectReturn, ConnectTimeout, TrySend, PollWake, Repoll
<1>9. CASE BeginWrite
  BY <1>9 DEF BeginWrite, NextChunk, SendDataOK
<1>2. CASE PollShutdown \/ ReadChunk \/ ReadPending \/ ReadClosed \/ DropRecv \/ DropSend
  BY <1>2 DEF PollShutdown, ReadChunk, ReadPending, ReadClosed, DropRecv, DropSend
<1>3. CASE ThreadStart \/ NoPacket \/ AfterIdle \/ AfterPeek \/ Drain
  BY <1>3 DEF ThreadStart, NoPacket, AfterIdle, AfterPeek, Drain, Following
<1>10. CASE TimeCheck \/ TimeCheckPeek
  BY <1>10 DEF TimeCheck, TimeCheckPeek
<1>4. CASE AfterTerminate \/ ThreadFail \/ LoopFails
  BY <1>4 DEF AfterTerminate, ThreadFail, LoopFails, Exit
<1>5. CASE AfterClose
  BY <1>5 DEF AfterClose, Exit, NextTick, Following
<1>6. CASE Wake1 \/ Wake2
  BY <1>6 DEF Wake1, Wake2, WakeWriter
<1>7. CASE CbReady \/ CbData \/ CbFin \/ CbAbort \/ CbClose
  BY <1>7 DEF CbReady, CbData, CbFin, CbAbort, CbClose
<1>8. CASE UNCHANGED vars
  BY <1>8 DEF vars
<1> QED
  BY <1>1, <1>2, <1>3, <1>4, <1>5, <1>6, <1>7, <1>8, <1>9, <1>10
     DEF Next, Task, Loop, Callback

-----------------------------------------------------------------------------
(* What a step can do to the send path.  Every later argument about the    *)
(* send path is by cases on this, not on the actions.                      *)

Accepted(x) ==
    /\ lpc # "exited" /\ Len(sendCh) < SendCap
    /\ sendCh' = Append(sendCh, x) /\ written' = Append(written, x)
    /\ UNCHANGED <<out, peek, lpc>>

Peeked ==
    /\ lpc = "peek" /\ peek = <<>> /\ sendCh # <<>>
    /\ peek' = <<Head(sendCh)>> /\ sendCh' = Tail(sendCh) /\ lpc' = "receive"
    /\ UNCHANGED <<written, out>>

PeekHanded ==
    /\ lpc \in {"receive", "send"} /\ peek # <<>>
    /\ out' = Append(out, Head(peek)) /\ peek' = <<>> /\ lpc' = "wake1"
    /\ UNCHANGED <<written, sendCh>>

HeadHanded ==
    /\ lpc = "drain" /\ sendCh # <<>>
    /\ out' = Append(out, Head(sendCh)) /\ sendCh' = Tail(sendCh)
    /\ UNCHANGED <<written, peek, lpc>>

Refused ==
    /\ AddMayFail
    /\ lpc \in {"receive", "send", "drain"} /\ lpc' \in {"wake1", "drain", "wake2"}
    /\ peek' = <<>> \/ peek' = peek
    /\ sendCh' = sendCh \/ (sendCh # <<>> /\ sendCh' = Tail(sendCh))
    /\ UNCHANGED <<written, out>>

Gone ==
    /\ lpc # "exited" /\ lpc' = "exited"
    /\ sendCh' = <<>> /\ peek' = <<>>
    /\ UNCHANGED <<written, out>>

Handling == lpc \in {"wake1", "drain", "wake2"}

Untouched ==
    /\ UNCHANGED <<written, out, sendCh, peek>>
    /\ lpc' = "exited" <=> lpc = "exited"
    /\ Handling' => Handling
    /\ lpc \in {"wake1", "drain"} => Handling'

SendEffect ==
    \/ \E x \in SendItem : Accepted(x)
    \/ Peeked \/ PeekHanded \/ HeadHanded \/ Refused \/ Gone \/ Untouched

LEMMA SendStep ==
  ASSUME ControlOK, SendDataOK, [Next]_vars
  PROVE  SendEffect
<1> USE DEF SendEffect, taskVars, writeVars, readVars, ctxVars, inVars
<1>1. CASE TrySend
  <2>1. CASE lpc # "exited" /\ Len(sendCh) < SendCap
    <3>1. toSend \in SendItem
      BY DEF ControlOK
    <3>2. Accepted(toSend)
      BY <1>1, <2>1, ConstantsAssumption DEF TrySend, Accepted, SendDataOK
    <3> QED BY <3>1, <3>2
  <2>2. CASE ~(lpc # "exited" /\ Len(sendCh) < SendCap)
    BY <1>1, <2>2, ConstantsAssumption DEF TrySend, Untouched, Handling, SendDataOK
  <2> QED BY <2>1, <2>2
<1>3. CASE PollShutdown
  <2>1. CASE lpc = "exited" \/ Len(sendCh) >= SendCap
    BY <1>3, <2>1 DEF PollShutdown, Untouched, Handling
  <2>2. CASE ~(lpc = "exited" \/ Len(sendCh) >= SendCap)
    <3>1. Fin \in SendItem
      BY ConstantsAssumption DEF Fin, SendItem
    <3>2. Accepted(Fin)
      BY <1>3, <2>2, ConstantsAssumption DEF PollShutdown, Accepted, SendDataOK
    <3> QED BY <3>1, <3>2
  <2> QED BY <2>1, <2>2
<1>5. CASE TimeCheckPeek
  <2>1. CASE Connected /\ PeekPossible
    BY <1>5, <2>1, Zenon DEF TimeCheckPeek, PeekPossible, Peeked
  <2>2. CASE ~(Connected /\ PeekPossible)
    <3>1. UNCHANGED <<written, out, sendCh, peek>> /\ lpc = "peek" /\ lpc' = "receive"
      BY <1>5, <2>2, Zenon DEF TimeCheckPeek
    <3> QED BY <3>1 DEF Untouched, Handling
  <2> QED BY <2>1, <2>2
<1>6. CASE AfterTerminate \/ ThreadFail \/ LoopFails
  BY <1>6 DEF AfterTerminate, ThreadFail, LoopFails, Exit, Gone
<1>13. CASE AfterClose
  BY <1>13 DEF AfterClose, Exit, Gone, Untouched, Following, Handling
<1>7. CASE AfterPeek
  BY <1>7 DEF AfterPeek, PeekHanded, Refused
<1>8. CASE Drain
  BY <1>8 DEF Drain, HeadHanded, Refused, Untouched, Handling
<1>9. CASE ConnectReturn \/ ConnectTimeout \/ BeginWrite \/ PollWake \/ Repoll
           \/ ReadChunk \/ ReadPending \/ ReadClosed \/ DropRecv \/ DropSend
  BY <1>9 DEF ConnectReturn, ConnectTimeout, BeginWrite, PollWake, Repoll,
              ReadChunk, ReadPending, ReadClosed, DropRecv, DropSend, Untouched, Handling
<1>10. CASE ThreadStart \/ TimeCheck \/ NoPacket \/ AfterIdle \/ Wake1 \/ Wake2
  BY <1>10 DEF ThreadStart, TimeCheck, NoPacket, AfterIdle, Wake1, Wake2, Untouched, Handling,
               Following, ControlOK
<1>11. CASE Callback
  BY <1>11 DEF Callback, CbReady, CbData, CbFin, CbAbort, CbClose,
               Untouched, Handling
<1>12. CASE UNCHANGED vars
  BY <1>12 DEF vars, Untouched, Handling
<1> QED
  BY <1>1, <1>3,  <1>5, <1>6, <1>13, <1>7, <1>8, <1>9, <1>10, <1>11, <1>12
     DEF Next, Task, Loop

LEMMA SendDataStep == SendDataOK /\ ControlOK /\ [Next]_vars => SendDataOK'
<1> SUFFICES ASSUME SendDataOK, ControlOK, [Next]_vars PROVE SendDataOK'
  OBVIOUS
<1> USE DEF SendDataOK
<1>1. SendEffect
  BY SendStep
<1>2. ASSUME NEW x \in SendItem, Accepted(x) PROVE SendDataOK'
  BY <1>2, ConstantsAssumption DEF Accepted
<1>3. CASE Peeked
  <2>1. /\ Head(sendCh) \in SendItem /\ Tail(sendCh) \in Seq(SendItem)
        /\ Len(Tail(sendCh)) = Len(sendCh) - 1 /\ Len(sendCh) \in Nat
    BY <1>3, HeadTailProperties, LenProperties DEF Peeked
  <2> QED BY <1>3, <2>1, ConstantsAssumption DEF Peeked
<1>4. CASE PeekHanded
  BY <1>4 DEF PeekHanded
<1>5. CASE HeadHanded
  <2>1. /\ Head(sendCh) \in SendItem /\ Tail(sendCh) \in Seq(SendItem)
        /\ Len(Tail(sendCh)) = Len(sendCh) - 1 /\ Len(sendCh) \in Nat
    BY <1>5, HeadTailProperties, LenProperties DEF HeadHanded
  <2> QED BY <1>5, <2>1, ConstantsAssumption DEF HeadHanded
<1>6. CASE Refused
  <2>1. peek' \in Seq(SendItem) /\ Len(peek') <= 1
    <3>1. CASE peek' = <<>>
      BY <3>1, EmptySeq
    <3>2. CASE peek' = peek
      BY <3>2
    <3> QED BY <1>6, <3>1, <3>2 DEF Refused
  <2>2. sendCh' \in Seq(SendItem) /\ Len(sendCh') <= SendCap
    <3>1. CASE sendCh' = sendCh
      BY <3>1
    <3>2. CASE sendCh' = Tail(sendCh) /\ sendCh # <<>>
      BY <3>2, HeadTailProperties, LenProperties, ConstantsAssumption
    <3> QED BY <1>6, <3>1, <3>2 DEF Refused
  <2>3. UNCHANGED <<written, out>>
    BY <1>6 DEF Refused
  <2> QED BY <2>1, <2>2, <2>3
<1>7. CASE Gone
  BY <1>7, ConstantsAssumption DEF Gone
<1>8. CASE Untouched
  BY <1>8 DEF Untouched
<1> QED
  BY <1>1, <1>2, <1>3, <1>4, <1>5, <1>6, <1>7, <1>8 DEF SendEffect

-----------------------------------------------------------------------------

LEMMA ReceiveDataStep ==
  ReceiveDataOK /\ ControlOK /\ [Next]_vars => ReceiveDataOK'
<1> SUFFICES ASSUME ReceiveDataOK, ControlOK, [Next]_vars PROVE ReceiveDataOK'
  OBVIOUS
<1> USE ConstantsAssumption
    DEF ReceiveDataOK, Item, Chunk, Fin, Nothing, taskVars, writeVars, readVars,
        ctxVars, inVars
<1>1. CASE ReadChunk
  <2>1. /\ Head(recvCh) \in Nat /\ Tail(recvCh) \in Seq(Nat)
        /\ Len(Tail(recvCh)) = Len(recvCh) - 1 /\ Len(recvCh) \in Nat
    BY <1>1, HeadTailProperties, LenProperties DEF ReadChunk
  <2>2. recvCh' = Tail(recvCh)
    BY <1>1 DEF ReadChunk
  <2>3. CASE Head(recvCh) = Fin
    <3>1. UNCHANGED <<pending, read>>
      BY <1>1, <2>3, Zenon DEF ReadChunk
    <3> QED BY <2>1, <2>2, <3>1
  <2>4. CASE Head(recvCh) # Fin
    <3>1. Deliver(Head(recvCh))
      BY <1>1, <2>4, Zenon DEF ReadChunk
    <3>2. CASE read' = Append(read, Head(recvCh)) /\ pending' = Nothing
      <4>1. read' \in Seq(Chunk)
        BY <2>1, <2>4, <3>2, AppendProperties
      <4> QED BY <2>1, <2>2, <3>2, <4>1
    <3>3. CASE pending' = Head(recvCh) /\ UNCHANGED read
      BY <2>1, <2>2, <3>3
    <3> QED BY <3>1, <3>2, <3>3 DEF Deliver
  <2> QED BY <2>3, <2>4
<1>2. CASE ReadPending
  BY <1>2 DEF ReadPending
<1>10. CASE ReadClosed
  BY <1>10 DEF ReadClosed
<1>3. CASE DropRecv
  BY <1>3 DEF DropRecv
<1>4. CASE CbData
  BY <1>4 DEF CbData, Push, ControlOK
<1>5. CASE CbFin \/ CbAbort \/ CbClose
  <2>1. Push(Fin) /\ UNCHANGED <<pending, read>>
    BY <1>5 DEF CbFin, CbAbort, CbClose
  <2> QED BY <2>1 DEF Push
<1>6. CASE ConnectReturn \/ ConnectTimeout \/ BeginWrite \/ TrySend \/ PollWake
           \/ Repoll \/ PollShutdown \/ DropSend
  BY <1>6 DEF ConnectReturn, ConnectTimeout, BeginWrite, TrySend, PollWake, Repoll,
              PollShutdown, DropSend
<1>7. CASE Loop
  BY <1>7 DEF Loop, ThreadStart, TimeCheck, TimeCheckPeek, NoPacket, AfterTerminate,
              AfterClose, AfterIdle, AfterPeek, Wake1, Drain, Wake2
<1>8. CASE ThreadFail \/ LoopFails \/ CbReady
  BY <1>8 DEF ThreadFail, LoopFails, CbReady
<1>9. CASE UNCHANGED vars
  BY <1>9 DEF vars
<1> QED
  BY <1>1, <1>2, <1>3, <1>4, <1>5, <1>6, <1>7, <1>8, <1>9, <1>10
     DEF Next, Task, Callback

TypeInv == TypeOK /\ TicksBounded

LEMMA TypeInit == Init => TypeInv
<1> SUFFICES ASSUME Init PROVE TypeInv
  OBVIOUS
<1>1. FlagsOK
  BY Zenon DEF Init, FlagsOK
<1>2. ControlOK /\ TicksBounded
  BY ConstantsAssumption
     DEF Init, ControlOK, TicksBounded, LoopState, SendItem, Nothing
<1>3. SendDataOK
  BY ConstantsAssumption DEF Init, SendDataOK
<1>4. ReceiveDataOK
  BY ConstantsAssumption DEF Init, ReceiveDataOK, Item, Chunk, Nothing
<1> QED
  BY <1>1, <1>2, <1>3, <1>4 DEF TypeInv, TypeOK

LEMMA TypeStep == TypeInv /\ [Next]_vars => TypeInv'
  BY FlagsStep, ControlStep, SendDataStep, ReceiveDataStep DEF TypeInv, TypeOK

\* Every variable keeps its type and every channel its bound, whatever the
\* capacities of the channels and the number of chunks (ClientBridgeCtx).
THEOREM TypeCorrect == Spec => []TypeOK
<1>1. TypeInv => TypeOK
  BY DEF TypeInv
<1> QED
  BY TypeInit, TypeStep, <1>1, PTL DEF Spec

-----------------------------------------------------------------------------
(* The stream is closed only when it was dropped.                          *)

\* No idle channel, slow task or refused chunk makes the thread close a stream
\* both of whose halves are in use (should_close in loop_callback).
THEOREM CloseSafe == Spec => []CloseOnlyIfAbandoned
<1>1. Init => CloseOnlyIfAbandoned
  BY DEF Init, CloseOnlyIfAbandoned
<1>2. CloseOnlyIfAbandoned /\ [Next]_vars => CloseOnlyIfAbandoned'
  <2> SUFFICES ASSUME CloseOnlyIfAbandoned, [Next]_vars PROVE CloseOnlyIfAbandoned'
    OBVIOUS
  <2> USE DEF CloseOnlyIfAbandoned, taskVars, writeVars, readVars, ctxVars, inVars
  <2>1. CASE TimeCheck
    BY <2>1, Zenon DEF TimeCheck
  <2>10. CASE TimeCheckPeek
    BY <2>10, Zenon DEF TimeCheckPeek, SenderDropped
  <2>2. CASE Drain
    <3>1. UNCHANGED <<rxOpen, txOpen>>
      BY <2>2 DEF Drain
    <3>2. CASE sendCh = <<>>
      <4>1. shouldClose' = (shouldClose \/ ~txOpen)
        BY <2>2, <3>2, Zenon DEF Drain
      <4> QED BY <3>1, <4>1, Zenon
    <3>3. CASE sendCh # <<>>
      <4>1. UNCHANGED shouldClose
        BY <2>2, <3>3, Zenon DEF Drain
      <4> QED BY <3>1, <4>1
    <3> QED BY <3>2, <3>3
  <2>3. CASE ConnectReturn \/ ConnectTimeout \/ BeginWrite \/ TrySend \/ PollWake \/ Repoll
    BY <2>3 DEF ConnectReturn, ConnectTimeout, BeginWrite, TrySend, PollWake, Repoll
  <2>4. CASE PollShutdown \/ ReadChunk \/ ReadPending \/ ReadClosed
    BY <2>4 DEF PollShutdown, ReadChunk, ReadPending, ReadClosed
  <2>5. CASE DropRecv
    BY <2>5, Zenon DEF DropRecv
  <2>6. CASE DropSend
    BY <2>6, Zenon DEF DropSend
  <2>7. CASE ThreadStart \/ NoPacket \/ AfterTerminate \/ AfterClose \/ AfterIdle
             \/ AfterPeek \/ Wake1 \/ Wake2 \/ ThreadFail \/ LoopFails
    BY <2>7 DEF ThreadStart, NoPacket, AfterTerminate, AfterClose, AfterIdle,
                AfterPeek, Wake1, Wake2, ThreadFail, LoopFails
  <2>8. CASE Callback
    BY <2>8 DEF Callback, CbReady, CbData, CbFin, CbAbort, CbClose
  <2>9. CASE UNCHANGED vars
    BY <2>9 DEF vars
  <2> QED
    BY <2>1, <2>2, <2>3, <2>4, <2>5, <2>6, <2>7, <2>8, <2>9, <2>10
       DEF Next, Task, Loop
<1> QED
  BY <1>1, <1>2, PTL DEF Spec

-----------------------------------------------------------------------------
(* The send path implements SendFifo.                                      *)

\* Nothing is lost or reordered on the way: what was accepted is what QUIC has,
\* then peek_buf, then the channel.  peek_buf is empty while the drain loop runs,
\* so what the loop hands over comes next.
Conserved ==
    /\ lpc # "exited" => written = out \o (peek \o sendCh)
    /\ Handling => peek = <<>>

LEMMA MoveHead ==
  ASSUME NEW S, NEW s \in Seq(S), NEW t \in Seq(S), NEW x \in S
  PROVE  s \o (<<x>> \o t) = Append(s, x) \o t
<1>1. <<x>> \in Seq(S)
  OBVIOUS
<1>2. Append(s, x) = s \o <<x>>
  BY AppendIsConcat
<1>3. (s \o <<x>>) \o t = s \o (<<x>> \o t)
  BY <1>1, ConcatAssociative
<1> QED BY ONLY <1>2, <1>3, Zenon

LEMMA SplitHead ==
  ASSUME NEW S, NEW s \in Seq(S), s # <<>>
  PROVE  /\ Head(s) \in S /\ Tail(s) \in Seq(S)
         /\ s = <<Head(s)>> \o Tail(s)
         /\ Len(s) <= 1 => s = <<Head(s)>>
  OBVIOUS

LEMMA AppendLast ==
  ASSUME NEW s \in Seq(SendItem), NEW t \in Seq(SendItem), NEW x \in SendItem
  PROVE  Append(s \o t, x) = s \o Append(t, x)
  OBVIOUS

LEMMA AcceptedAtEnd ==
  ASSUME SendDataOK, NEW x \in SendItem
  PROVE  Append(out \o (peek \o sendCh), x) = out \o (peek \o Append(sendCh, x))
<1>1. /\ out \in Seq(SendItem) /\ peek \in Seq(SendItem) /\ sendCh \in Seq(SendItem)
  BY DEF SendDataOK
<1>2. peek \o sendCh \in Seq(SendItem)
  BY <1>1, ConcatProperties
<1>3. Append(out \o (peek \o sendCh), x) = out \o Append(peek \o sendCh, x)
  BY <1>1, <1>2, AppendLast
<1>4. Append(peek \o sendCh, x) = peek \o Append(sendCh, x)
  BY <1>1, AppendLast
<1> QED BY ONLY <1>3, <1>4, Zenon

LEMMA ConservedStep ==
  ASSUME ~AddMayFail, SendDataOK, SendEffect, Conserved
  PROVE  Conserved'
<1> USE DEF SendDataOK, Conserved
<1>1. ASSUME NEW x \in SendItem, Accepted(x) PROVE Conserved'
  <2>1. Append(out \o (peek \o sendCh), x) = out \o (peek \o Append(sendCh, x))
    BY AcceptedAtEnd
  <2> QED BY <1>1, <2>1, Zenon DEF Accepted, Handling
<1>2. CASE Peeked
  <2>1. sendCh = <<Head(sendCh)>> \o Tail(sendCh)
    BY <1>2, SplitHead DEF Peeked
  <2>2. peek \o sendCh = peek' \o sendCh'
    BY <1>2, <2>1, ConcatEmptySeq DEF Peeked
  <2> QED BY <1>2, <2>2 DEF Peeked, Handling
<1>3. CASE PeekHanded
  <2>1. peek = <<Head(peek)>> /\ Head(peek) \in SendItem
    BY <1>3, SplitHead DEF PeekHanded
  <2>2. out \o (<<Head(peek)>> \o sendCh) = Append(out, Head(peek)) \o sendCh
    BY <2>1, MoveHead
  <2>3. <<>> \o sendCh = sendCh
    BY ConcatEmptySeq
  <2> QED BY <1>3, <2>1, <2>2, <2>3, Zenon DEF PeekHanded, Handling
<1>4. CASE HeadHanded
  <2>1. /\ sendCh = <<Head(sendCh)>> \o Tail(sendCh)
        /\ Head(sendCh) \in SendItem /\ Tail(sendCh) \in Seq(SendItem)
    BY <1>4, SplitHead DEF HeadHanded
  <2>2. peek = <<>>
    BY <1>4 DEF HeadHanded, Handling
  <2>3. out \o (peek \o sendCh) = Append(out, Head(sendCh)) \o (peek \o Tail(sendCh))
    BY <2>1, <2>2, MoveHead, ConcatEmptySeq
  <2> QED BY <1>4, <2>2, <2>3 DEF HeadHanded, Handling
<1>5. CASE Gone
  BY <1>5 DEF Gone, Handling
<1>6. CASE Untouched
  BY <1>6 DEF Untouched
<1> QED
  BY <1>1, <1>2, <1>3, <1>4, <1>5, <1>6 DEF SendEffect, Refused

LEMMA FifoStep ==
  ASSUME ~AddMayFail, SendDataOK, SendEffect, Conserved
  PROVE  [Fifo!Next]_(Fifo!fifoVars)
<1> USE DEF SendDataOK, Conserved
<1>1. ASSUME NEW x \in SendItem, Accepted(x) PROVE Fifo!Accept(x)
  <2>1. Len(written) = Len(out) + (Len(peek) + Len(sendCh))
    BY <1>1, ConcatProperties DEF Accepted
  <2>2. Len(written) < Len(out) + (SendCap + 1)
    BY <1>1, <2>1, LenProperties, ConstantsAssumption DEF Accepted
  <2> QED BY <1>1, <2>2 DEF Accepted, Fifo!Accept
<1>2. ASSUME lpc # "exited", lpc' # "exited", UNCHANGED written,
             NEW x \in SendItem, NEW t \in Seq(SendItem),
             written = out \o (<<x>> \o t), out' = Append(out, x)
      PROVE  Fifo!Transmit
  <2>1. Len(out) < Len(written) /\ written[Len(out) + 1] = x
    BY <1>2
  <2> QED BY <1>2, <2>1 DEF Fifo!Transmit
<1>3. CASE PeekHanded
  <2>1. peek = <<Head(peek)>> /\ Head(peek) \in SendItem
    BY <1>3, SplitHead DEF PeekHanded
  <2> QED BY <1>2, <1>3, <2>1 DEF PeekHanded, Fifo!Next
<1>4. CASE HeadHanded
  <2>1. /\ sendCh = <<Head(sendCh)>> \o Tail(sendCh)
        /\ Head(sendCh) \in SendItem /\ Tail(sendCh) \in Seq(SendItem)
    BY <1>4, SplitHead DEF HeadHanded
  <2>2. peek \o sendCh = sendCh
    BY <1>4, ConcatEmptySeq DEF HeadHanded, Handling
  <2> QED BY <1>2, <1>4, <2>1, <2>2 DEF HeadHanded, Fifo!Next
<1>5. CASE Gone
  BY <1>5 DEF Gone, Fifo!Next, Fifo!Close
<1>6. CASE Peeked \/ Untouched
  BY <1>6 DEF Peeked, Untouched, Fifo!fifoVars
<1> QED
  BY <1>1, <1>3, <1>4, <1>5, <1>6 DEF SendEffect, Refused, Fifo!Next

\* As long as picoquic_add_to_stream does not fail, what poll_write and
\* poll_shutdown accept reaches it in order and once, through the channel,
\* peek_buf and the drain loop, under every interleaving.
THEOREM SendPathCorrect == ~AddMayFail => (Spec => SendPathIsFifo)
<1> SUFFICES ASSUME ~AddMayFail PROVE Spec => SendPathIsFifo
  OBVIOUS
<1>1. Init => Fifo!Init /\ Conserved
  <2>1. <<>> = <<>> \o (<<>> \o <<>>)
    BY ConcatEmptySeq, EmptySeq
  <2> QED BY <2>1 DEF Init, Fifo!Init, Conserved, Handling
<1>2. TypeInv /\ Conserved /\ [Next]_vars => Conserved' /\ [Fifo!Next]_(Fifo!fifoVars)
  BY SendStep, ConservedStep, FifoStep DEF TypeInv, TypeOK
<1> QED
  BY TypeInit, TypeStep, <1>1, <1>2, PTL DEF Spec, SendPathIsFifo, Fifo!Spec

-----------------------------------------------------------------------------
(* No lost wake-up.  The invariant must also speak of the writer between   *)
(* its Full and its poll_recv, and say that the task is alive, so that the *)
(* wake the thread sends finds a receiver.                                 *)

Handled == sendCh # <<>> \/ peek # <<>> \/ Handling

WriterAlive ==
    /\ wpc # "idle" => conn = "stream" /\ rxOpen
    /\ conn = "connecting" => txOpen /\ rxOpen
    /\ conn = "stream" /\ rxOpen => txOpen

WakeInv ==
    /\ wpc = "full" /\ wakeCh = 0 /\ lpc # "exited" => Handled
    /\ wpc = "parked" => lpc # "exited" /\ Handled

LEMMA WriterAliveStep == WriterAlive /\ [Next]_vars => WriterAlive'
<1> SUFFICES ASSUME WriterAlive, [Next]_vars PROVE WriterAlive'
  OBVIOUS
<1> USE DEF WriterAlive, taskVars, writeVars, readVars, ctxVars, inVars, Between, Readable
<1>1. CASE ConnectReturn \/ ConnectTimeout \/ BeginWrite \/ TrySend \/ PollWake \/ Repoll
  BY <1>1 DEF ConnectReturn, ConnectTimeout, BeginWrite, TrySend, PollWake, Repoll
<1>2. CASE PollShutdown \/ ReadChunk \/ ReadPending \/ ReadClosed
  BY <1>2 DEF PollShutdown, ReadChunk, ReadPending, ReadClosed
<1>3. CASE DropRecv
  BY <1>3, Zenon DEF DropRecv
<1>4. CASE DropSend
  BY <1>4, Zenon DEF DropSend
<1>5. CASE Loop
  BY <1>5 DEF Loop, ThreadStart, TimeCheck, TimeCheckPeek, NoPacket, AfterTerminate,
              AfterClose, AfterIdle, AfterPeek, Wake1, Drain, Wake2, Exit, WakeWriter
<1>6. CASE ThreadFail \/ LoopFails
  BY <1>6 DEF ThreadFail, LoopFails, Exit
<1>7. CASE Callback
  BY <1>7 DEF Callback, CbReady, CbData, CbFin, CbAbort, CbClose
<1>8. CASE UNCHANGED vars
  BY <1>8 DEF vars
<1> QED
  BY <1>1, <1>2, <1>3, <1>4, <1>5, <1>6, <1>7, <1>8 DEF Next, Task

\* What the writer waits for stays there until the thread's last wake or its end.
LEMMA HandledStays ==
  ASSUME SendDataOK, ControlOK, Handled, lpc # "wake2", [Next]_vars
  PROVE  Handled' \/ lpc' = "exited"
<1> USE DEF Handled, Handling
<1>1. SendEffect
  BY SendStep
<1>2. ASSUME NEW x \in SendItem, Accepted(x) PROVE Handled'
  <2>1. Append(sendCh, x) # <<>>
    BY <1>2, AppendProperties DEF SendDataOK
  <2> QED BY <1>2, <2>1 DEF Accepted
<1>3. CASE Peeked
  <2>1. <<Head(sendCh)>> # <<>>
    OBVIOUS
  <2> QED BY <1>3, <2>1 DEF Peeked
<1>4. CASE PeekHanded \/ HeadHanded \/ Refused \/ Gone
  BY <1>4 DEF PeekHanded, HeadHanded, Refused, Gone
<1>5. CASE Untouched
  <2>1. CASE Handling
    BY <1>5, <2>1 DEF Untouched
  <2>2. CASE sendCh # <<>> \/ peek # <<>>
    BY <1>5, <2>2 DEF Untouched
  <2> QED BY <2>1, <2>2
<1> QED
  BY <1>1, <1>2, <1>3, <1>4, <1>5 DEF SendEffect

LEMMA WakeInvStep ==
  TypeInv /\ WriterAlive /\ WakeInv /\ [Next]_vars => WakeInv'
<1> SUFFICES ASSUME TypeInv, WriterAlive, WakeInv, [Next]_vars
             PROVE  WakeInv'
  OBVIOUS
<1> USE DEF taskVars, writeVars, readVars, ctxVars, inVars
<1>0. ControlOK /\ SendDataOK
  BY DEF TypeInv, TypeOK
<1>1. CASE TrySend
  <2>1. CASE lpc # "exited" /\ Len(sendCh) >= SendCap
    <3>1. Len(sendCh) # 0
      BY <2>1, <1>0, LenProperties, ConstantsAssumption DEF SendDataOK
    <3>2. sendCh # <<>>
      BY <3>1, EmptySeq
    <3> QED BY <1>1, <2>1, <3>2 DEF TrySend, WakeInv, Handled
  <2>2. CASE ~(lpc # "exited" /\ Len(sendCh) >= SendCap)
    BY <1>1, <2>2 DEF TrySend, WakeInv
  <2> QED BY <2>1, <2>2
<1>2. CASE PollWake
  BY <1>2, <1>0 DEF PollWake, WakeInv, Handled, Handling, ControlOK
<1>3. CASE Wake1 \/ Wake2
  <2>1. wpc = "full" => wakeCh' # 0
    <3>1. wpc = "full" => txOpen
      BY Zenon DEF WriterAlive
    <3>2. wakeCh' = IF txOpen /\ wakeCh < WakeCap THEN wakeCh + 1 ELSE wakeCh
      BY <1>3, Zenon DEF Wake1, Wake2, WakeWriter
    <3>3. wakeCh \in 0..WakeCap /\ WakeCap \in Nat \ {0}
      BY <1>0, ConstantsAssumption DEF ControlOK
    <3>4. CASE wpc = "full"
      BY <3>1, <3>2, <3>3, <3>4
    <3> QED BY <3>4
  <2> QED BY <1>3, <2>1 DEF Wake1, Wake2, WakeWriter, WakeInv
<1>4. CASE AfterTerminate \/ ThreadFail \/ LoopFails
  BY <1>4 DEF AfterTerminate, ThreadFail, LoopFails, Exit, WakeInv
<1>5. CASE AfterClose
  BY <1>5 DEF AfterClose, Exit, Following, WakeInv, Handled, Handling
<1>6. CASE BeginWrite \/ Repoll \/ DropRecv
  BY <1>6 DEF BeginWrite, Repoll, DropRecv, WakeInv
<1>7. CASE DropSend
  BY <1>7 DEF DropSend, WriterAlive, WakeInv, Handled, Handling
<1>8. ASSUME UNCHANGED <<wpc, wakeCh>>, lpc' = "exited" <=> lpc = "exited",
             lpc # "wake2"
      PROVE  WakeInv'
  BY <1>8, <1>0, HandledStays DEF WakeInv
<1>9. CASE ThreadStart \/ TimeCheck \/ TimeCheckPeek \/ NoPacket \/ AfterIdle
           \/ AfterPeek \/ Drain
  BY <1>8, <1>9
     DEF ThreadStart, TimeCheck, TimeCheckPeek, NoPacket, AfterIdle, AfterPeek, Drain,
         Following
<1>11. CASE ConnectReturn \/ ConnectTimeout \/ ReadChunk \/ ReadPending \/ ReadClosed
  BY <1>11
     DEF ConnectReturn, ConnectTimeout, ReadChunk, ReadPending, ReadClosed, WakeInv,
         Handled, Handling
<1>12. CASE PollShutdown
  BY <1>12 DEF PollShutdown, Between, WakeInv
<1>13. CASE Callback
  BY <1>13
     DEF Callback, CbReady, CbData, CbFin, CbAbort, CbClose, WakeInv, Handled, Handling
<1>14. CASE UNCHANGED vars
  BY <1>14 DEF vars, WakeInv, Handled, Handling
<1> QED
  BY <1>1, <1>2, <1>3, <1>4, <1>5, <1>6, <1>7, <1>9, <1>11, <1>12, <1>13, <1>14
     DEF Next, Task, Loop

\* A writer that parked in poll_write because the channel was full is always
\* about to be woken, whatever the capacities of the channels, also when
\* picoquic refuses chunks or the thread ends.
THEOREM NoWakeupLost == Spec => []NoLostWakeup
<1>1. Init => WriterAlive /\ WakeInv
  BY DEF Init, WriterAlive, WakeInv
<1>2. WakeInv => NoLostWakeup
  BY DEF WakeInv, NoLostWakeup, Handled, Handling
<1> QED
  BY TypeInit, TypeStep, WriterAliveStep, WakeInvStep, <1>1, <1>2, PTL DEF Spec

-----------------------------------------------------------------------------
(* What a step can do to the receive path, by cases as for the send path.  *)

InputKept == UNCHANGED <<lpc, rxOpen, quic, arrived, finIn, aborted, disconnected, overflow>>

TookEnd ==
    /\ rxOpen /\ ~eof /\ pending = Nothing /\ recvCh # <<>> /\ Head(recvCh) = Fin
    /\ recvCh' = Tail(recvCh) /\ eof' = TRUE
    /\ UNCHANGED <<pending, read>> /\ InputKept

TookChunk ==
    /\ rxOpen /\ ~eof /\ pending = Nothing /\ recvCh # <<>> /\ Head(recvCh) # Fin
    /\ recvCh' = Tail(recvCh) /\ Deliver(Head(recvCh))
    /\ UNCHANGED eof /\ InputKept

TookRest ==
    /\ rxOpen /\ pending # Nothing
    /\ read' = Append(read, pending) /\ pending' = Nothing
    /\ UNCHANGED <<eof, recvCh>> /\ InputKept

SawClosed ==
    /\ rxOpen /\ ~eof /\ pending = Nothing /\ recvCh = <<>> /\ lpc = "exited"
    /\ eof' = TRUE
    /\ UNCHANGED <<pending, read, recvCh>> /\ InputKept

ReceiverDropped ==
    /\ rxOpen' = FALSE /\ pending' = Nothing /\ recvCh' = <<>>
    /\ UNCHANGED <<read, eof, lpc, quic, arrived, finIn, aborted, disconnected, overflow>>

DataCame ==
    /\ InLoop /\ quic = "ready" /\ ~finIn
    /\ arrived' = arrived + 1 /\ Push(arrived + 1)
    /\ UNCHANGED <<pending, read, eof, rxOpen, lpc, quic, finIn, aborted, disconnected>>

\* An end marker, and why there is one.
EndCame ==
    /\ Push(Fin)
    /\ \/ ~finIn /\ finIn' = TRUE /\ UNCHANGED <<quic, aborted, disconnected>>
       \/ aborted' = TRUE /\ UNCHANGED <<quic, finIn, disconnected>>
       \/ quic' = "closed" /\ disconnected' = TRUE /\ UNCHANGED <<finIn, aborted>>
    /\ UNCHANGED <<pending, read, eof, rxOpen, lpc, arrived>>

Elsewhere ==
    /\ UNCHANGED <<pending, read, eof, rxOpen, recvCh, arrived, finIn, aborted, disconnected, overflow>>
    /\ lpc = "exited" => lpc' = "exited"
    /\ quic = "closed" => quic' = "closed"

ReceiveEffect ==
    \/ TookEnd \/ TookChunk \/ TookRest \/ SawClosed \/ ReceiverDropped
    \/ DataCame \/ EndCame \/ Elsewhere

LEMMA ReceiveStep ==
  ASSUME TypeInv, [Next]_vars
  PROVE  ReceiveEffect
<1> USE DEF ReceiveEffect, taskVars, writeVars, readVars, ctxVars, inVars, InputKept
<1>1. CASE ReadChunk
  <2>1. CASE Head(recvCh) = Fin
    BY <1>1, <2>1, Zenon DEF ReadChunk, Readable, NothingPending, TookEnd
  <2>2. CASE Head(recvCh) # Fin
    BY <1>1, <2>2, Zenon DEF ReadChunk, Readable, NothingPending, TookChunk
  <2> QED BY <2>1, <2>2
<1>2. CASE ReadPending
  BY <1>2, Zenon DEF ReadPending, Readable, TookRest
<1>3. CASE ReadClosed
  BY <1>3, Zenon DEF ReadClosed, Readable, NothingPending, SenderGone, SawClosed
<1>4. CASE DropRecv
  BY <1>4, Zenon DEF DropRecv, ReceiverDropped
<1>5. CASE CbData
  BY <1>5, Zenon DEF CbData, DataCame
<1>6. CASE CbFin
  BY <1>6, Zenon DEF CbFin, EndCame
<1>7. CASE CbAbort
  BY <1>7, Zenon DEF CbAbort, EndCame
<1>8. CASE CbClose
  BY <1>8, Zenon DEF CbClose, EndCame
<1>9. CASE CbReady
  BY <1>9 DEF CbReady, InLoop, Elsewhere
<1>10. CASE ConnectReturn \/ ConnectTimeout \/ BeginWrite \/ TrySend \/ PollWake
            \/ Repoll \/ PollShutdown \/ DropSend
  BY <1>10 DEF ConnectReturn, ConnectTimeout, BeginWrite, TrySend, PollWake, Repoll,
               PollShutdown, DropSend, Elsewhere
<1>11. CASE ThreadFail \/ LoopFails \/ AfterTerminate \/ AfterClose
  BY <1>11 DEF ThreadFail, LoopFails, AfterTerminate, AfterClose, Exit, Elsewhere
<1>12. CASE ThreadStart \/ TimeCheck \/ TimeCheckPeek \/ NoPacket \/ AfterIdle \/ AfterPeek
            \/ Wake1 \/ Drain \/ Wake2
  BY <1>12 DEF ThreadStart, TimeCheck, TimeCheckPeek, NoPacket, AfterIdle, AfterPeek, Wake1,
               Drain, Wake2, Elsewhere
<1>13. CASE UNCHANGED vars
  BY <1>13 DEF vars, Elsewhere
<1> QED
  BY <1>1, <1>2, <1>3, <1>4, <1>5, <1>6, <1>7, <1>8, <1>9, <1>10, <1>11, <1>12, <1>13
     DEF Next, Task, Loop, Callback

LEMMA TypeAlways == Spec => []TypeInv
BY TypeInit, TypeStep, PTL DEF Spec

\* The first item of a sequence taken off it, and an item put at its end.
LEMMA TailItems ==
    ASSUME NEW S, NEW q \in Seq(S), q # <<>>
    PROVE  /\ Tail(q) \in Seq(S) /\ Len(q) \in Nat /\ Len(q) >= 1
           /\ Len(Tail(q)) = Len(q) - 1 /\ Head(q) = q[1] /\ q[1] \in S
           /\ \A i \in 1..Len(Tail(q)) : Tail(q)[i] = q[i + 1]
<1>1. Tail(q) \in Seq(S) /\ Len(Tail(q)) = Len(q) - 1 /\ Head(q) = q[1] /\ Len(q) \in Nat /\ Len(q) >= 1
  OBVIOUS
<1>2. \A i \in 1..Len(Tail(q)) : Tail(q)[i] = q[i + 1]
  OBVIOUS
<1>3. q[1] \in S
  BY <1>1
<1> QED BY <1>1, <1>2, <1>3

LEMMA AppendItems ==
    ASSUME NEW S, NEW q \in Seq(S), NEW x \in S
    PROVE  /\ Append(q, x) \in Seq(S) /\ Len(q) \in Nat /\ Len(Append(q, x)) = Len(q) + 1
           /\ Append(q, x)[Len(q) + 1] = x
           /\ \A i \in 1..Len(q) : Append(q, x)[i] = q[i]
<1>1. Append(q, x) \in Seq(S) /\ Len(q) \in Nat /\ Len(Append(q, x)) = Len(q) + 1
  OBVIOUS
<1>2. Append(q, x)[Len(q) + 1] = x
  OBVIOUS
<1>3. \A i \in 1..Len(q) : Append(q, x)[i] = q[i]
  OBVIOUS
<1> QED BY <1>1, <1>2, <1>3

-----------------------------------------------------------------------------
(* An end is only reported when there was one: each marker in the channel  *)
(* was put there for a reason that does not go away.                       *)

Ended == finIn \/ aborted \/ disconnected \/ lpc = "exited"

EndKnown == eof \/ (\E i \in 1..Len(recvCh) : recvCh[i] = Fin) => Ended

LEMMA EndKnownStep == TypeInv /\ EndKnown /\ [Next]_vars => EndKnown'
<1> SUFFICES ASSUME TypeInv, EndKnown, [Next]_vars PROVE EndKnown' OBVIOUS
<1>1. ReceiveEffect BY ReceiveStep
<1>2. recvCh \in Seq(Nat) /\ arrived \in Nat
  BY ConstantsAssumption DEF TypeInv, TypeOK, ControlOK, ReceiveDataOK, Item
<1>3. CASE TookEnd
  <2>1. Ended BY <1>2, <1>3, TailItems DEF TookEnd, EndKnown
  <2> QED BY <1>3, <2>1 DEF TookEnd, InputKept, EndKnown, Ended
<1>4. CASE TookChunk
  <2>1. ASSUME NEW i \in 1..Len(recvCh'), recvCh'[i] = Fin PROVE Ended
    <3>1. /\ recvCh' = Tail(recvCh) /\ Len(recvCh) \in Nat /\ Len(Tail(recvCh)) = Len(recvCh) - 1
          /\ \A j \in 1..Len(Tail(recvCh)) : Tail(recvCh)[j] = recvCh[j + 1]
      BY <1>2, <1>4, TailItems DEF TookChunk
    <3>2. i + 1 \in 1..Len(recvCh) /\ recvCh[i + 1] = Fin BY <2>1, <3>1
    <3> QED BY <3>2 DEF EndKnown
  <2> QED BY <1>4, <2>1 DEF TookChunk, InputKept, EndKnown, Ended
<1>5. CASE TookRest
  BY <1>5 DEF TookRest, InputKept, EndKnown, Ended
<1>6. CASE SawClosed
  BY <1>6 DEF SawClosed, InputKept, EndKnown, Ended
<1>7. CASE ReceiverDropped
  BY <1>7 DEF ReceiverDropped, EndKnown, Ended
<1>8. CASE DataCame
  <2>1. recvCh' = recvCh \/ recvCh' = Append(recvCh, arrived + 1)
    BY <1>8 DEF DataCame, Push
  <2>2. ASSUME NEW i \in 1..Len(recvCh'), recvCh'[i] = Fin PROVE i \in 1..Len(recvCh) /\ recvCh[i] = Fin
    <3>1. CASE recvCh' = recvCh BY <2>2, <3>1
    <3>2. CASE recvCh' = Append(recvCh, arrived + 1)
      <4>1. arrived + 1 \in Nat /\ arrived + 1 # Fin BY <1>2 DEF Fin
      <4>2. /\ Len(recvCh) \in Nat /\ Len(recvCh') = Len(recvCh) + 1 /\ recvCh'[Len(recvCh) + 1] = arrived + 1
            /\ \A j \in 1..Len(recvCh) : recvCh'[j] = recvCh[j]
        BY <1>2, <3>2, <4>1, AppendItems
      <4> QED BY <2>2, <4>1, <4>2
    <3> QED BY <2>1, <3>1, <3>2
  <2> QED BY <1>8, <2>2 DEF DataCame, EndKnown, Ended
<1>9. CASE EndCame
  BY <1>9 DEF EndCame, EndKnown, Ended
<1>10. CASE Elsewhere
  BY <1>10 DEF Elsewhere, EndKnown, Ended
<1> QED BY <1>1, <1>3, <1>4, <1>5, <1>6, <1>7, <1>8, <1>9, <1>10 DEF ReceiveEffect

\* The caller is told the end only after the peer ended or reset the stream, the
\* connection was closed, or the thread is gone (poll_read, stream_callback).
THEOREM EofIsTruthful == Spec => []EofTruthful
<1>1. Init => EndKnown
  BY DEF Init, EndKnown
<1>2. EndKnown => EofTruthful
  BY DEF EndKnown, Ended, EofTruthful
<1> QED BY <1>1, <1>2, EndKnownStep, TypeAlways, PTL DEF Spec
-----------------------------------------------------------------------------
(* The order in which the caller reads: what it has read, the chunk in its *)
(* hand and what the channel holds form one increasing sequence.  End      *)
(* markers and the empty hand, both 0, stand after everything.             *)

Ahead(x, y) == x < y \/ y = Nothing

\* r was read, p is in hand, q waits, and nothing is later than the last arrival.
Ordered(r, p, q, last) ==
    /\ \A i, j \in 1..Len(r) : i < j => r[i] < r[j]
    /\ \A i \in 1..Len(r) : r[i] <= last /\ Ahead(r[i], p)
    /\ \A i \in 1..Len(r), j \in 1..Len(q) : Ahead(r[i], q[j])
    /\ \A i, j \in 1..Len(q) : i < j => Ahead(q[i], q[j])
    /\ \A j \in 1..Len(q) : q[j] <= last /\ Ahead(p, q[j])
    /\ p <= last

ReceiveTypes ==
    /\ recvCh \in Seq(Nat) /\ read \in Seq(Nat) /\ pending \in Nat /\ arrived \in Nat

LEMMA ReceiveTyped == TypeInv => ReceiveTypes
<1>1. \A q : q \in Seq(Chunk) => q \in Seq(Nat)
  <2> SUFFICES ASSUME NEW q \in Seq(Chunk) PROVE q \in Seq(Nat) OBVIOUS
  <2>1. \A i \in 1..Len(q) : q[i] \in Nat BY DEF Chunk
  <2> QED BY <2>1
<1> QED BY <1>1, ConstantsAssumption DEF TypeInv, TypeOK, ControlOK, ReceiveDataOK, Item, ReceiveTypes

\* The item at the head of the channel leaves it.
LEMMA OrderedTake ==
    ASSUME NEW r \in Seq(Nat), NEW q \in Seq(Nat), NEW last \in Nat,
           q # <<>>, Ordered(r, Nothing, q, last)
    PROVE  Ordered(r, Nothing, Tail(q), last) /\ (Head(q) # Fin => Ordered(r, Head(q), Tail(q), last))
<1> PICK t : t = Tail(q) OBVIOUS
<1> PICK h : h = Head(q) OBVIOUS
<1>1. /\ t \in Seq(Nat) /\ Len(q) \in Nat /\ Len(q) >= 1 /\ Len(t) = Len(q) - 1
      /\ h = q[1] /\ h \in Nat /\ \A i \in 1..Len(t) : t[i] = q[i + 1]
  BY TailItems
<1>2. \A i \in 1..Len(t) : i + 1 \in 1..Len(q) /\ t[i] = q[i + 1] /\ 1 < i + 1
  BY <1>1
<1>3. 1 \in 1..Len(q) BY <1>1
<1>4. \A i \in 1..Len(r) : r[i] <= last /\ Ahead(r[i], Nothing)
  BY DEF Ordered
<1>5. \A i \in 1..Len(r), j \in 1..Len(t) : Ahead(r[i], t[j])
  BY <1>2, Zenon DEF Ordered
<1>6. \A i, j \in 1..Len(t) : i < j => Ahead(t[i], t[j])
  <2> SUFFICES ASSUME NEW i \in 1..Len(t), NEW j \in 1..Len(t), i < j PROVE Ahead(t[i], t[j])
    OBVIOUS
  <2>1. i + 1 < j + 1 BY <1>1
  <2> QED BY <1>2, <2>1, Zenon DEF Ordered
<1>7. \A j \in 1..Len(t) : t[j] <= last /\ Ahead(Nothing, t[j]) /\ Ahead(h, t[j])
  BY <1>1, <1>2, <1>3, Zenon DEF Ordered
<1>8. h <= last /\ \A i \in 1..Len(r) : Ahead(r[i], h)
  BY <1>1, <1>3, Zenon DEF Ordered
<1>9. Nothing <= last BY DEF Nothing
<1> HIDE DEF Ahead
<1>10. Ordered(r, Nothing, t, last)
  BY <1>4, <1>5, <1>6, <1>7, <1>9, Zenon DEF Ordered
<1>11. Ordered(r, h, t, last)
  BY <1>4, <1>5, <1>6, <1>7, <1>8, Zenon DEF Ordered
<1> QED BY <1>10, <1>11

\* The chunk in hand is read.
LEMMA OrderedRead ==
    ASSUME NEW r \in Seq(Nat), NEW q \in Seq(Nat), NEW p \in Nat, NEW last \in Nat,
           p # Nothing, Ordered(r, p, q, last)
    PROVE  Ordered(Append(r, p), Nothing, q, last)
<1> PICK a : a = Append(r, p) OBVIOUS
<1>1. /\ Len(r) \in Nat /\ Len(a) = Len(r) + 1 /\ a[Len(r) + 1] = p
      /\ \A i \in 1..Len(r) : a[i] = r[i]
  BY AppendItems
<1>2. \A i \in 1..Len(a) : i \in 1..Len(r) \/ i = Len(r) + 1
  BY <1>1
<1>3. \A i \in 1..Len(r) : r[i] < p
  BY DEF Ordered, Ahead
<1>4. \A i, j \in 1..Len(a) : i < j => a[i] < a[j]
  <2> SUFFICES ASSUME NEW i \in 1..Len(a), NEW j \in 1..Len(a), i < j PROVE a[i] < a[j]
    OBVIOUS
  <2>1. i \in 1..Len(r) BY <1>1
  <2>2. CASE j \in 1..Len(r) BY <1>1, <2>1, <2>2, Zenon DEF Ordered
  <2>3. CASE j = Len(r) + 1 BY <1>1, <1>3, <2>1, <2>3
  <2> QED BY <1>2, <2>2, <2>3
<1>5. \A i \in 1..Len(a) : a[i] <= last
  BY <1>1, <1>2 DEF Ordered
<1>6. \A i \in 1..Len(a) : Ahead(a[i], Nothing)
  BY DEF Ahead
<1>7. \A i \in 1..Len(a), j \in 1..Len(q) : Ahead(a[i], q[j])
  BY <1>1, <1>2, Zenon DEF Ordered
<1>8. \A j \in 1..Len(q) : Ahead(Nothing, q[j])
  <2> SUFFICES ASSUME NEW j \in 1..Len(q) PROVE Ahead(Nothing, q[j]) OBVIOUS
  <2>1. q[j] \in Nat OBVIOUS
  <2> QED BY <2>1 DEF Ahead, Nothing
<1>9. Nothing <= last BY DEF Nothing
<1> QED BY <1>4, <1>5, <1>6, <1>7, <1>8, <1>9, Zenon DEF Ordered

\* An item later than all others, or an end marker, is put into the channel.
LEMMA OrderedPush ==
    ASSUME NEW r \in Seq(Nat), NEW q \in Seq(Nat), NEW p \in Nat, NEW last \in Nat,
           NEW next \in Nat, NEW x \in Nat,
           Ordered(r, p, q, last), last <= next, x <= next, x = Fin \/ last < x
    PROVE  Ordered(r, p, Append(q, x), next) /\ Ordered(r, p, q, next)
<1> PICK a : a = Append(q, x) OBVIOUS
<1>1. /\ Len(q) \in Nat /\ Len(a) = Len(q) + 1 /\ a[Len(q) + 1] = x
      /\ \A i \in 1..Len(q) : a[i] = q[i]
  BY AppendItems
<1>2. \A i \in 1..Len(a) : i \in 1..Len(q) \/ i = Len(q) + 1
  BY <1>1
<1>3. /\ \A i \in 1..Len(r) : r[i] <= next
      /\ \A j \in 1..Len(q) : q[j] <= next
      /\ p <= next
  BY DEF Ordered
<1>4. \A y \in Nat : y <= last => Ahead(y, x)
  BY DEF Ahead, Fin, Nothing
<1>5. \A i, j \in 1..Len(a) : i < j => Ahead(a[i], a[j])
  <2> SUFFICES ASSUME NEW i \in 1..Len(a), NEW j \in 1..Len(a), i < j PROVE Ahead(a[i], a[j])
    OBVIOUS
  <2>1. i \in 1..Len(q) BY <1>1
  <2>2. CASE j \in 1..Len(q) BY <1>1, <2>1, <2>2, Zenon DEF Ordered
  <2>3. CASE j = Len(q) + 1
    <3>1. q[i] \in Nat /\ q[i] <= last BY <2>1 DEF Ordered
    <3> QED BY <1>1, <1>4, <2>1, <2>3, <3>1
  <2> QED BY <1>2, <2>2, <2>3
<1>6. \A i \in 1..Len(r), j \in 1..Len(a) : Ahead(r[i], a[j])
  <2> SUFFICES ASSUME NEW i \in 1..Len(r), NEW j \in 1..Len(a) PROVE Ahead(r[i], a[j])
    OBVIOUS
  <2>1. r[i] \in Nat /\ r[i] <= last BY DEF Ordered
  <2>2. Ahead(r[i], x) BY <1>4, <2>1
  <2> QED BY <1>1, <1>2, <2>2, Zenon DEF Ordered
<1>7. \A j \in 1..Len(a) : a[j] <= next /\ Ahead(p, a[j])
  <2>1. p <= last BY DEF Ordered
  <2>2. Ahead(p, x) BY <1>4, <2>1
  <2> QED BY <1>1, <1>2, <1>3, <2>2, Zenon DEF Ordered
<1>8. Ordered(r, p, a, next)
  BY <1>3, <1>5, <1>6, <1>7, Zenon DEF Ordered
<1>9. Ordered(r, p, q, next)
  BY <1>3, Zenon DEF Ordered
<1> QED BY <1>8, <1>9

OrderInv == Ordered(read, pending, recvCh, arrived)

LEMMA OrderStep == TypeInv /\ OrderInv /\ [Next]_vars => OrderInv'
<1> SUFFICES ASSUME TypeInv, OrderInv, [Next]_vars PROVE OrderInv' OBVIOUS
<1>1. ReceiveEffect BY ReceiveStep
<1>2. ReceiveTypes BY ReceiveTyped
<1> USE DEF OrderInv
<1> SUFFICES Ordered(read', pending', recvCh', arrived') BY DEF Ordered, Ahead
<1>3. CASE TookEnd
  BY <1>2, <1>3, OrderedTake DEF TookEnd, InputKept, ReceiveTypes
<1>4. CASE TookChunk
  <2>1. /\ recvCh # <<>> /\ Head(recvCh) # Fin /\ pending = Nothing
        /\ recvCh' = Tail(recvCh) /\ arrived' = arrived
    BY <1>4 DEF TookChunk, InputKept
  <2>2. Ordered(read, Head(recvCh), Tail(recvCh), arrived)
    BY <1>2, <2>1, OrderedTake DEF ReceiveTypes
  <2>3. Tail(recvCh) \in Seq(Nat) /\ Head(recvCh) \in Nat
    BY <1>2, <2>1, TailItems DEF ReceiveTypes
  <2>4. Ordered(Append(read, Head(recvCh)), Nothing, Tail(recvCh), arrived)
    BY <1>2, <2>1, <2>2, <2>3, OrderedRead DEF ReceiveTypes, Fin, Nothing
  <2>5. \/ read' = Append(read, Head(recvCh)) /\ pending' = Nothing
        \/ read' = read /\ pending' = Head(recvCh)
    BY <1>4 DEF TookChunk, Deliver
  <2> QED BY <2>1, <2>2, <2>4, <2>5
<1>5. CASE TookRest
  BY <1>2, <1>5, OrderedRead DEF TookRest, InputKept, ReceiveTypes
<1>6. CASE SawClosed
  BY <1>6 DEF SawClosed, InputKept
<1>7. CASE ReceiverDropped
  <2>1. read' = read /\ pending' = Nothing /\ recvCh' = <<>> /\ arrived' = arrived
    BY <1>7 DEF ReceiverDropped
  <2>2. Nothing <= arrived BY <1>2 DEF ReceiveTypes, Nothing
  <2>3. \A i \in 1..Len(read) : Ahead(read[i], Nothing) BY DEF Ahead
  <2>4. Ordered(read, Nothing, <<>>, arrived) BY <2>2, <2>3 DEF Ordered
  <2> QED BY <2>1, <2>4
<1>8. CASE DataCame
  <2>1. /\ read' = read /\ pending' = pending /\ arrived' = arrived + 1
        /\ recvCh' = recvCh \/ recvCh' = Append(recvCh, arrived + 1)
    BY <1>8 DEF DataCame, Push
  <2>2. /\ Ordered(read, pending, Append(recvCh, arrived + 1), arrived + 1)
        /\ Ordered(read, pending, recvCh, arrived + 1)
    <3>1. /\ arrived + 1 \in Nat /\ arrived <= arrived + 1 /\ arrived + 1 <= arrived + 1
          /\ arrived < arrived + 1
      BY <1>2 DEF ReceiveTypes
    <3> QED BY <1>2, <3>1, OrderedPush DEF ReceiveTypes
  <2> QED BY <2>1, <2>2
<1>9. CASE EndCame
  <2>1. /\ read' = read /\ pending' = pending /\ arrived' = arrived
        /\ recvCh' = recvCh \/ recvCh' = Append(recvCh, Fin)
    BY <1>9 DEF EndCame, Push
  <2>2. Fin \in Nat /\ Fin <= arrived /\ arrived <= arrived
    BY <1>2 DEF ReceiveTypes, Fin
  <2>3. Ordered(read, pending, Append(recvCh, Fin), arrived)
    BY <1>2, <2>2, OrderedPush DEF ReceiveTypes
  <2> QED BY <2>1, <2>3
<1>10. CASE Elsewhere
  BY <1>10 DEF Elsewhere
<1> QED BY <1>1, <1>3, <1>4, <1>5, <1>6, <1>7, <1>8, <1>9, <1>10 DEF ReceiveEffect

\* What the caller has read is in the order of its arrival, no chunk twice,
\* whatever was lost between (poll_read, stream_callback).
THEOREM ReadInOrder == Spec => []InboundInOrder
<1>1. Init => OrderInv
  <2> SUFFICES ASSUME Init PROVE OrderInv OBVIOUS
  <2>1. read = <<>> /\ recvCh = <<>> /\ pending = 0 /\ arrived = 0 BY DEF Init, Nothing
  <2> QED BY <2>1 DEF OrderInv, Ordered
<1>2. OrderInv => InboundInOrder
  BY DEF OrderInv, Ordered, InboundInOrder
<1> QED BY <1>1, <1>2, OrderStep, TypeAlways, PTL DEF Spec
-----------------------------------------------------------------------------
(* All that came is read: with nothing lost, the channel holds exactly the *)
(* chunks the caller has not had, end markers only behind the last one,    *)
(* and a marker only once no more data can come.                           *)

\* What the caller has had, the chunk in its hand included.
Had(r, p) == Len(r) + IF p = Nothing THEN 0 ELSE 1

\* After b of n chunks, q holds the others and then end markers.
Rest(b, q, n) ==
    /\ b <= n /\ n <= b + Len(q)
    /\ \A j \in 1..Len(q) : q[j] = IF b + j <= n THEN b + j ELSE Fin

NoMoreData == finIn \/ quic = "closed" \/ lpc = "exited"

Waiting(r, p, q, n, ended) ==
    /\ p # Nothing => p = Len(r) + 1
    /\ Rest(Had(r, p), q, n)
    /\ n < Had(r, p) + Len(q) => ended

Whole ==
    /\ \A i \in 1..Len(read) : read[i] = i
    /\ rxOpen => Waiting(read, pending, recvCh, arrived, NoMoreData)
    /\ eof => NoMoreData /\ Len(read) = arrived /\ pending = Nothing

WholeInv == ~overflow /\ ~aborted => Whole

\* The item at the head of the channel is the next chunk, or the first marker.
LEMMA RestTake ==
    ASSUME NEW b \in Nat, NEW n \in Nat, NEW q \in Seq(Nat), q # <<>>, Rest(b, q, n)
    PROVE  /\ Head(q) = Fin => b = n /\ n < b + Len(q) /\ Rest(b, Tail(q), n)
           /\ Head(q) # Fin => Head(q) = b + 1 /\ Rest(b + 1, Tail(q), n)
           /\ Len(Tail(q)) = Len(q) - 1 /\ Len(q) \in Nat
<1> PICK t : t = Tail(q) OBVIOUS
<1>1. /\ t \in Seq(Nat) /\ Len(q) \in Nat /\ Len(q) >= 1 /\ Len(t) = Len(q) - 1
      /\ Head(q) = q[1] /\ \A i \in 1..Len(t) : t[i] = q[i + 1]
  BY TailItems
<1>2. \A i \in 1..Len(t) : t[i] = IF b + (i + 1) <= n THEN b + (i + 1) ELSE Fin
  BY <1>1 DEF Rest
<1>3. Head(q) = IF b + 1 <= n THEN b + 1 ELSE Fin
  BY <1>1 DEF Rest
<1>4. ASSUME Head(q) = Fin PROVE b = n /\ n < b + Len(q) /\ Rest(b, t, n)
  <2>1. b = n BY <1>3, <1>4 DEF Rest, Fin
  <2>2. \A i \in 1..Len(t) : t[i] = IF b + i <= n THEN b + i ELSE Fin
    BY <1>1, <1>2, <2>1
  <2> QED BY <1>1, <2>1, <2>2 DEF Rest
<1>5. ASSUME Head(q) # Fin PROVE Head(q) = b + 1 /\ Rest(b + 1, t, n)
  <2>1. b + 1 <= n /\ Head(q) = b + 1 BY <1>3, <1>5
  <2>2. \A i \in 1..Len(t) : t[i] = IF (b + 1) + i <= n THEN (b + 1) + i ELSE Fin
    BY <1>1, <1>2
  <2>3. n <= (b + 1) + Len(t) BY <1>1 DEF Rest
  <2> QED BY <2>1, <2>2, <2>3 DEF Rest
<1> QED BY <1>1, <1>4, <1>5

\* The next chunk is put behind the others, before any marker.
LEMMA RestData ==
    ASSUME NEW b \in Nat, NEW n \in Nat, NEW q \in Seq(Nat), Rest(b, q, n), b + Len(q) = n
    PROVE  Rest(b, Append(q, n + 1), n + 1) /\ b + Len(Append(q, n + 1)) = n + 1
<1> PICK a : a = Append(q, n + 1) OBVIOUS
<1>1. /\ Len(q) \in Nat /\ Len(a) = Len(q) + 1 /\ a[Len(q) + 1] = n + 1
      /\ \A i \in 1..Len(q) : a[i] = q[i]
  BY AppendItems
<1>2. \A i \in 1..Len(q) : q[i] = b + i
  BY <1>1 DEF Rest
<1>3. \A i \in 1..Len(a) : a[i] = IF b + i <= n + 1 THEN b + i ELSE Fin
  BY <1>1, <1>2
<1> QED BY <1>1, <1>3 DEF Rest

\* A marker is put behind everything.
LEMMA RestEnd ==
    ASSUME NEW b \in Nat, NEW n \in Nat, NEW q \in Seq(Nat), Rest(b, q, n)
    PROVE  Rest(b, Append(q, Fin), n)
<1> PICK a : a = Append(q, Fin) OBVIOUS
<1>1. /\ Len(q) \in Nat /\ Len(a) = Len(q) + 1 /\ a[Len(q) + 1] = Fin
      /\ \A i \in 1..Len(q) : a[i] = q[i]
  BY AppendItems DEF Fin
<1>2. \A i \in 1..Len(a) : a[i] = IF b + i <= n THEN b + i ELSE Fin
  BY <1>1 DEF Rest
<1> QED BY <1>1, <1>2 DEF Rest

\* Unless the channel overflows, what is pushed is in it, or nobody reads it.
LEMMA PushKeeps ==
    ASSUME ReceiveTypes, NEW x, Push(x), ~overflow'
    PROVE  ~overflow /\ (rxOpen => recvCh' = Append(recvCh, x))
<1>1. Len(recvCh) < RecvCap \/ Len(recvCh) >= RecvCap
  BY ConstantsAssumption DEF ReceiveTypes
<1>2. ~overflow /\ ~(rxOpen /\ Len(recvCh) >= RecvCap)
  BY Zenon DEF Push
<1>3. ASSUME rxOpen PROVE recvCh' = Append(recvCh, x)
  BY <1>1, <1>2, <1>3, Zenon DEF Push
<1> QED BY <1>2, <1>3

LEMMA WholeStep == TypeInv /\ WholeInv /\ [Next]_vars => WholeInv'
<1> SUFFICES ASSUME TypeInv, WholeInv, [Next]_vars, ~overflow', ~aborted' PROVE Whole'
  BY DEF WholeInv
<1>1. ReceiveEffect BY ReceiveStep
<1>2. ReceiveTypes BY ReceiveTyped
<1>3. Had(read, pending) \in Nat /\ Len(read) \in Nat /\ Len(recvCh) \in Nat
  BY <1>2 DEF ReceiveTypes, Had
<1>4. Whole
  <2>1. ~aborted
    BY <1>1, Zenon DEF ReceiveEffect, TookEnd, TookChunk, TookRest, SawClosed, ReceiverDropped,
                       DataCame, EndCame, Elsewhere, InputKept
  <2>2. ~overflow
    <3>1. CASE DataCame BY <1>2, <3>1, PushKeeps, Zenon DEF DataCame
    <3>2. CASE EndCame BY <1>2, <3>2, PushKeeps, Zenon DEF EndCame
    <3>3. CASE ~DataCame /\ ~EndCame
      BY <1>1, <3>3, Zenon DEF ReceiveEffect, TookEnd, TookChunk, TookRest, SawClosed,
                               ReceiverDropped, Elsewhere, InputKept
    <3> QED BY <3>1, <3>2, <3>3
  <2> QED BY <2>1, <2>2 DEF WholeInv
<1>5. NoMoreData => NoMoreData'
  BY <1>1 DEF ReceiveEffect, TookEnd, TookChunk, TookRest, SawClosed, ReceiverDropped,
              DataCame, EndCame, Elsewhere, InputKept, NoMoreData
<1>6. CASE TookEnd
  <2>1. /\ rxOpen /\ rxOpen' /\ pending = Nothing /\ recvCh # <<>> /\ Head(recvCh) = Fin
        /\ recvCh' = Tail(recvCh) /\ read' = read /\ pending' = pending /\ arrived' = arrived
    BY <1>6 DEF TookEnd, InputKept
  <2>2. Waiting(read, pending, recvCh, arrived, NoMoreData)
    BY <1>4, <2>1 DEF Whole
  <2>3. /\ Had(read, pending) = arrived /\ arrived < Had(read, pending) + Len(recvCh)
        /\ Rest(Had(read, pending), recvCh', arrived)
    BY <1>2, <1>3, <2>1, <2>2, RestTake DEF Waiting, ReceiveTypes
  <2>4. NoMoreData BY <2>2, <2>3 DEF Waiting
  <2>5. Len(read) = arrived BY <1>3, <2>1, <2>3 DEF Had
  <2>6. Waiting(read', pending', recvCh', arrived', NoMoreData')
    BY <1>5, <2>1, <2>2, <2>3, <2>4 DEF Waiting
  <2> QED BY <1>4, <1>5, <2>1, <2>4, <2>5, <2>6 DEF Whole
<1>7. CASE TookChunk
  <2>1. /\ rxOpen /\ rxOpen' /\ ~eof /\ ~eof' /\ pending = Nothing /\ recvCh # <<>>
        /\ Head(recvCh) # Fin /\ recvCh' = Tail(recvCh) /\ arrived' = arrived
        /\ \/ read' = Append(read, Head(recvCh)) /\ pending' = Nothing
           \/ read' = read /\ pending' = Head(recvCh)
    BY <1>7 DEF TookChunk, InputKept, Deliver
  <2>2. Waiting(read, pending, recvCh, arrived, NoMoreData) /\ \A i \in 1..Len(read) : read[i] = i
    BY <1>4, <2>1 DEF Whole
  <2>3. Had(read, pending) = Len(read) BY <2>1, <1>3 DEF Had
  <2>4. /\ Head(recvCh) = Len(read) + 1 /\ Rest(Len(read) + 1, recvCh', arrived)
        /\ Len(recvCh') = Len(recvCh) - 1
    BY <1>2, <1>3, <2>1, <2>2, <2>3, RestTake DEF Waiting, ReceiveTypes
  <2>5. Had(read', pending') = Len(read) + 1 /\ (pending' # Nothing => pending' = Len(read') + 1)
    BY <1>2, <1>3, <2>1, <2>4, AppendItems DEF Had, ReceiveTypes, Nothing
  <2>6. \A i \in 1..Len(read') : read'[i] = i
    <3>1. CASE read' = read BY <2>2, <3>1
    <3>2. CASE read' = Append(read, Len(read) + 1)
      <4>1. /\ Len(read') = Len(read) + 1 /\ read'[Len(read) + 1] = Len(read) + 1
            /\ \A i \in 1..Len(read) : read'[i] = read[i]
        BY <1>2, <1>3, <3>2, AppendItems DEF ReceiveTypes
      <4> QED BY <1>3, <2>2, <4>1
    <3> QED BY <2>1, <2>4, <3>1, <3>2
  <2>7. arrived < (Len(read) + 1) + Len(recvCh') => arrived < Len(read) + Len(recvCh)
    BY <1>2, <1>3, <2>4 DEF ReceiveTypes
  <2>8. arrived < (Len(read) + 1) + Len(recvCh') => NoMoreData'
    BY <1>5, <2>2, <2>3, <2>7 DEF Waiting
  <2>9. Waiting(read', pending', recvCh', arrived', NoMoreData')
    BY <2>1, <2>4, <2>5, <2>8 DEF Waiting
  <2> QED BY <2>1, <2>6, <2>9 DEF Whole
<1>8. CASE TookRest
  <2>1. /\ rxOpen /\ rxOpen' /\ pending # Nothing /\ pending' = Nothing /\ eof' = eof
        /\ read' = Append(read, pending) /\ recvCh' = recvCh /\ arrived' = arrived
    BY <1>8 DEF TookRest, InputKept
  <2>2. /\ Waiting(read, pending, recvCh, arrived, NoMoreData) /\ ~eof
        /\ \A i \in 1..Len(read) : read[i] = i
    BY <1>4, <2>1 DEF Whole
  <2>3. pending = Len(read) + 1 /\ Had(read, pending) = Len(read) + 1
    BY <2>1, <2>2 DEF Waiting, Had
  <2>4. /\ Len(read') = Len(read) + 1 /\ read'[Len(read) + 1] = Len(read) + 1
        /\ \A i \in 1..Len(read) : read'[i] = read[i]
    BY <1>2, <1>3, <2>1, <2>3, AppendItems DEF ReceiveTypes
  <2>5. \A i \in 1..Len(read') : read'[i] = i BY <1>3, <2>2, <2>4
  <2>6. Had(read', pending') = Had(read, pending) BY <1>3, <2>1, <2>3, <2>4 DEF Had
  <2>7. Waiting(read', pending', recvCh', arrived', NoMoreData')
    BY <1>5, <2>1, <2>2, <2>6 DEF Waiting
  <2> QED BY <2>1, <2>2, <2>5, <2>7 DEF Whole
<1>9. CASE SawClosed
  <2>1. /\ rxOpen /\ rxOpen' /\ pending = Nothing /\ recvCh = <<>> /\ lpc = "exited"
        /\ read' = read /\ pending' = pending /\ recvCh' = recvCh /\ arrived' = arrived
    BY <1>9 DEF SawClosed, InputKept
  <2>2. /\ Waiting(read, pending, recvCh, arrived, NoMoreData)
        /\ \A i \in 1..Len(read) : read[i] = i
    BY <1>4, <2>1 DEF Whole
  <2>3. Len(read) = arrived
    BY <1>2, <1>3, <2>1, <2>2 DEF Waiting, Rest, Had, ReceiveTypes
  <2>4. Waiting(read', pending', recvCh', arrived', NoMoreData')
    BY <1>5, <2>1, <2>2 DEF Waiting
  <2>5. NoMoreData' BY <1>5, <2>1 DEF NoMoreData
  <2> QED BY <2>1, <2>2, <2>3, <2>4, <2>5 DEF Whole
<1>10. CASE ReceiverDropped
  BY <1>4, <1>5, <1>10 DEF ReceiverDropped, Whole
<1>11. CASE DataCame
  <2>1. /\ read' = read /\ pending' = pending /\ rxOpen' = rxOpen /\ eof' = eof
        /\ arrived' = arrived + 1 /\ ~NoMoreData
        /\ rxOpen => recvCh' = Append(recvCh, arrived + 1)
    <3>1. rxOpen => recvCh' = Append(recvCh, arrived + 1)
      BY <1>2, <1>11, PushKeeps, Zenon DEF DataCame
    <3>2. ~NoMoreData BY <1>11 DEF DataCame, NoMoreData, InLoop
    <3> QED BY <1>11, <3>1, <3>2, Zenon DEF DataCame
  <2>2. ~eof /\ \A i \in 1..Len(read) : read[i] = i
    BY <1>4, <2>1 DEF Whole
  <2>3. ASSUME rxOpen PROVE Waiting(read', pending', recvCh', arrived', NoMoreData')
    <3>1. Waiting(read, pending, recvCh, arrived, NoMoreData) BY <1>4, <2>3 DEF Whole
    <3>2. Had(read, pending) + Len(recvCh) = arrived /\ Rest(Had(read, pending), recvCh, arrived)
      <4>1. ~(arrived < Had(read, pending) + Len(recvCh))
        BY <2>1, <3>1, Zenon DEF Waiting
      <4>2. Rest(Had(read, pending), recvCh, arrived)
        BY <3>1 DEF Waiting
      <4>3. arrived <= Had(read, pending) + Len(recvCh)
        BY <4>2 DEF Rest
      <4> QED BY <1>2, <1>3, <4>1, <4>2, <4>3 DEF ReceiveTypes
    <3>3. /\ Rest(Had(read, pending), recvCh', arrived')
          /\ Had(read, pending) + Len(recvCh') = arrived'
      <4>1. /\ Rest(Had(read, pending), Append(recvCh, arrived + 1), arrived + 1)
            /\ Had(read, pending) + Len(Append(recvCh, arrived + 1)) = arrived + 1
        BY <1>2, <1>3, <3>2, RestData DEF ReceiveTypes
      <4> QED BY <2>1, <2>3, <4>1, Zenon
    <3>4. ~(arrived' < Had(read, pending) + Len(recvCh'))
      BY <1>2, <2>1, <3>3 DEF ReceiveTypes
    <3> QED BY <2>1, <3>1, <3>3, <3>4 DEF Waiting
  <2> QED BY <2>1, <2>2, <2>3 DEF Whole
<1>12. CASE EndCame
  <2>1. /\ read' = read /\ pending' = pending /\ rxOpen' = rxOpen /\ eof' = eof
        /\ arrived' = arrived /\ NoMoreData'
        /\ rxOpen => recvCh' = Append(recvCh, Fin)
    <3>1. rxOpen => recvCh' = Append(recvCh, Fin)
      BY <1>2, <1>12, PushKeeps, Zenon DEF EndCame
    <3>2. NoMoreData' BY <1>12 DEF EndCame, NoMoreData
    <3> QED BY <1>12, <3>1, <3>2, Zenon DEF EndCame
  <2>2. ASSUME rxOpen PROVE Waiting(read', pending', recvCh', arrived', NoMoreData')
    <3>1. Waiting(read, pending, recvCh, arrived, NoMoreData) BY <1>4, <2>2 DEF Whole
    <3>2. Rest(Had(read, pending), recvCh', arrived')
      BY <1>2, <1>3, <2>1, <2>2, <3>1, RestEnd DEF Waiting, ReceiveTypes
    <3> QED BY <2>1, <3>1, <3>2 DEF Waiting
  <2> QED BY <1>4, <2>1, <2>2 DEF Whole
<1>13. CASE Elsewhere
  BY <1>4, <1>5, <1>13 DEF Elsewhere, Whole, Waiting
<1> QED
  BY <1>1, <1>6, <1>7, <1>8, <1>9, <1>10, <1>11, <1>12, <1>13 DEF ReceiveEffect

\* A caller that reads to the end, with no overflow and no reset, has read all
\* that came as data (poll_read, stream_callback).
THEOREM TailIsComplete == Spec => []TailComplete
<1>1. Init => WholeInv
  <2> SUFFICES ASSUME Init PROVE Whole BY DEF WholeInv
  <2>1. read = <<>> /\ recvCh = <<>> /\ pending = 0 /\ arrived = 0 /\ ~eof
    BY DEF Init, Nothing
  <2>2. Waiting(<<>>, 0, <<>>, 0, NoMoreData)
    BY DEF Waiting, Rest, Had, Nothing
  <2> QED BY <2>1, <2>2 DEF Whole
<1>2. TypeInv /\ WholeInv => TailComplete
  <2> SUFFICES ASSUME TypeInv, WholeInv, eof, ~overflow, ~aborted
               PROVE  read = [i \in 1..arrived |-> i]
    BY DEF TailComplete
  <2>1. ReceiveTypes BY ReceiveTyped
  <2>2. Len(read) = arrived /\ \A i \in 1..Len(read) : read[i] = i
    BY DEF WholeInv, Whole
  <2>3. read = [i \in 1..Len(read) |-> read[i]]
    BY <2>1 DEF ReceiveTypes
  <2> QED BY <2>2, <2>3
<1> QED BY <1>1, <1>2, WholeStep, TypeAlways, PTL DEF Spec

-----------------------------------------------------------------------------
(* The receive path implements Tunnel.                                     *)

\* After b chunks, q holds the next ones; those behind an end marker do not count,
\* they are never read.
Run(b, q, n) ==
    /\ \A j \in 1..Len(q) : (\A i \in 1..j : q[i] # Fin) => q[j] = b + j
    /\ (\A i \in 1..Len(q) : q[i] # Fin) => b + Len(q) = n

Gapless ==
    /\ \A i \in 1..Len(read) : read[i] = i
    /\ rxOpen /\ pending # Nothing => pending = Len(read) + 1
    /\ rxOpen /\ ~eof => Run(Had(read, pending), recvCh, arrived)

RunInv == (eof => pending = Nothing) /\ (~overflow => Gapless)

LEMMA RunTake ==
    ASSUME NEW b \in Nat, NEW n \in Nat, NEW q \in Seq(Nat), q # <<>>, Head(q) # Fin, Run(b, q, n)
    PROVE  Head(q) = b + 1 /\ Run(b + 1, Tail(q), n)
<1> PICK t : t = Tail(q) OBVIOUS
<1>1. /\ t \in Seq(Nat) /\ Len(q) \in Nat /\ Len(q) >= 1 /\ Len(t) = Len(q) - 1
      /\ Head(q) = q[1] /\ \A i \in 1..Len(t) : t[i] = q[i + 1]
  BY TailItems
<1>2. q[1] = b + 1
  <2>1. 1 \in 1..Len(q) /\ \A i \in 1..1 : q[i] # Fin BY <1>1
  <2> QED BY <2>1 DEF Run
<1>3. ASSUME NEW j \in 1..Len(t), \A i \in 1..j : t[i] # Fin PROVE t[j] = (b + 1) + j
  <2>1. j + 1 \in 1..Len(q) /\ t[j] = q[j + 1] BY <1>1
  <2>2. ASSUME NEW i \in 1..(j + 1) PROVE q[i] # Fin
    <3>1. CASE i = 1 BY <1>1, <3>1
    <3>2. CASE i # 1
      <4>1. i - 1 \in 1..j /\ i - 1 \in 1..Len(t) /\ (i - 1) + 1 = i BY <1>1, <3>2
      <4> QED BY <1>1, <1>3, <4>1
    <3> QED BY <3>1, <3>2
  <2>3. q[j + 1] = b + (j + 1) BY <2>1, <2>2 DEF Run
  <2> QED BY <2>1, <2>3
<1>4. ASSUME \A i \in 1..Len(t) : t[i] # Fin PROVE (b + 1) + Len(t) = n
  <2>1. ASSUME NEW i \in 1..Len(q) PROVE q[i] # Fin
    <3>1. CASE i = 1 BY <1>1, <3>1
    <3>2. CASE i # 1
      <4>1. i - 1 \in 1..Len(t) /\ (i - 1) + 1 = i BY <1>1, <3>2
      <4> QED BY <1>1, <1>4, <4>1
    <3> QED BY <3>1, <3>2
  <2>2. b + Len(q) = n BY <2>1 DEF Run
  <2> QED BY <1>1, <2>2
<1> QED BY <1>1, <1>2, <1>3, <1>4 DEF Run

LEMMA RunPush ==
    ASSUME NEW b \in Nat, NEW n \in Nat, NEW q \in Seq(Nat), Run(b, q, n)
    PROVE  Run(b, Append(q, n + 1), n + 1) /\ Run(b, Append(q, Fin), n)
<1>1. ASSUME NEW x \in Nat, NEW m \in Nat, (x = n + 1 /\ m = n + 1) \/ x = Fin
      PROVE  Run(b, Append(q, x), m)
  <2> PICK a : a = Append(q, x) OBVIOUS
  <2>1. /\ Len(q) \in Nat /\ Len(a) = Len(q) + 1 /\ a[Len(q) + 1] = x
        /\ \A i \in 1..Len(q) : a[i] = q[i]
    BY AppendItems
  <2>2. ASSUME \A i \in 1..Len(a) : a[i] # Fin PROVE b + Len(a) = m /\ x = b + Len(a)
    <3>1. \A i \in 1..Len(q) : i \in 1..Len(a) /\ q[i] # Fin BY <2>1, <2>2
    <3>2. b + Len(q) = n BY <3>1 DEF Run
    <3>3. Len(q) + 1 \in 1..Len(a) BY <2>1
    <3>4. x # Fin BY <2>1, <2>2, <3>3
    <3> QED BY <1>1, <2>1, <3>2, <3>4
  <2>3. ASSUME NEW j \in 1..Len(a), \A i \in 1..j : a[i] # Fin PROVE a[j] = b + j
    <3>1. CASE j \in 1..Len(q)
      <4>1. \A i \in 1..j : i \in 1..Len(q) /\ q[i] # Fin BY <2>1, <2>3, <3>1
      <4>2. q[j] = b + j BY <3>1, <4>1 DEF Run
      <4> QED BY <2>1, <3>1, <4>2
    <3>2. CASE j \notin 1..Len(q)
      <4>1. j = Len(a) /\ j = Len(q) + 1 BY <2>1, <3>2
      <4>2. x = b + Len(a) BY <2>2, <2>3, <4>1
      <4> QED BY <2>1, <4>1, <4>2
    <3> QED BY <3>1, <3>2
  <2> QED BY <2>2, <2>3 DEF Run
<1>2. n + 1 \in Nat /\ Fin \in Nat BY DEF Fin
<1> QED BY <1>1, <1>2

\* With nothing lost, what is read next is the next chunk.
LEMMA NextRead ==
    ASSUME ReceiveTypes, ~overflow, RunInv, rxOpen
    PROVE  /\ pending # Nothing => pending = Len(read) + 1
           /\ ~eof /\ pending = Nothing /\ recvCh # <<>> /\ Head(recvCh) # Fin =>
                  /\ Head(recvCh) = Len(read) + 1
                  /\ Run(Len(read) + 1, Tail(recvCh), arrived)
<1>1. Gapless BY DEF RunInv
<1>2. ASSUME ~eof, pending = Nothing, recvCh # <<>>, Head(recvCh) # Fin
      PROVE  Head(recvCh) = Len(read) + 1 /\ Run(Len(read) + 1, Tail(recvCh), arrived)
  <2>1. Len(read) \in Nat BY DEF ReceiveTypes
  <2>2. Had(read, pending) = Len(read) BY <1>2, <2>1 DEF Had
  <2>3. Run(Len(read), recvCh, arrived) BY <1>1, <1>2, <2>2 DEF Gapless
  <2> QED BY <1>2, <2>1, <2>3, RunTake DEF ReceiveTypes
<1> QED BY <1>1, <1>2 DEF Gapless

\* A sequence of the first chunks, continued by the next one.
LEMMA NextChunkRead ==
    ASSUME NEW r \in Seq(Nat), \A i \in 1..Len(r) : r[i] = i, NEW x \in Nat, x = Len(r) + 1
    PROVE  /\ \A i \in 1..Len(Append(r, x)) : Append(r, x)[i] = i
           /\ Len(Append(r, x)) = Len(r) + 1 /\ Len(r) \in Nat
<1> PICK a : a = Append(r, x) OBVIOUS
<1>1. /\ Len(r) \in Nat /\ Len(a) = Len(r) + 1 /\ a[Len(r) + 1] = x
      /\ \A i \in 1..Len(r) : a[i] = r[i]
  BY AppendItems
<1>2. \A i \in 1..Len(a) : i \in 1..Len(r) \/ i = Len(r) + 1 BY <1>1
<1> QED BY <1>1, <1>2

LEMMA OverflowStays == ASSUME ReceiveTypes, ReceiveEffect, overflow PROVE overflow'
<1>1. DataCame \/ EndCame => overflow' BY Zenon, PushKeeps DEF DataCame, EndCame
<1> QED BY <1>1, Zenon DEF ReceiveEffect, TookEnd, TookChunk, TookRest, SawClosed,
                           ReceiverDropped, Elsewhere, InputKept

LEMMA RunStep == TypeInv /\ RunInv /\ [Next]_vars => RunInv'
<1> SUFFICES ASSUME TypeInv, RunInv, [Next]_vars PROVE RunInv' OBVIOUS
<1>1. ReceiveEffect BY ReceiveStep
<1>2. ReceiveTypes BY ReceiveTyped
<1>3. eof' => pending' = Nothing
  BY <1>1, Zenon DEF ReceiveEffect, TookEnd, TookChunk, TookRest, SawClosed, ReceiverDropped,
                     DataCame, EndCame, Elsewhere, InputKept, RunInv
<1> SUFFICES ASSUME ~overflow' PROVE Gapless' BY <1>3 DEF RunInv
<1>4. ~overflow /\ Gapless BY <1>1, <1>2, OverflowStays DEF RunInv
<1>5. /\ Len(read) \in Nat /\ Nothing \in Nat /\ Had(read, pending) \in Nat
      /\ Fin \in Nat /\ Fin = Nothing
  BY <1>2 DEF ReceiveTypes, Nothing, Fin, Had
<1>6. CASE TookEnd BY <1>4, <1>6 DEF TookEnd, InputKept, Gapless
<1>7. CASE TookChunk
  <2>1. /\ rxOpen /\ ~eof /\ pending = Nothing /\ recvCh # <<>> /\ Head(recvCh) # Fin
        /\ recvCh' = Tail(recvCh) /\ arrived' = arrived
        /\ \/ read' = Append(read, Head(recvCh)) /\ pending' = Nothing
           \/ read' = read /\ pending' = Head(recvCh)
    BY <1>7 DEF TookChunk, InputKept, Deliver
  <2>2. Head(recvCh) = Len(read) + 1 /\ Run(Len(read) + 1, recvCh', arrived')
    BY <1>2, <1>4, <2>1, NextRead
  <2>3. CASE read' = read /\ pending' = Head(recvCh)
    <3>1. Had(read', pending') = Len(read) + 1 BY <1>5, <2>1, <2>3 DEF Had
    <3> QED BY <1>4, <2>2, <2>3, <3>1 DEF Gapless
  <2>4. CASE read' = Append(read, Head(recvCh)) /\ pending' = Nothing
    <3>1. /\ \A i \in 1..Len(read') : read'[i] = i
          /\ Len(read') = Len(read) + 1
      BY <1>2, <1>4, <1>5, <2>2, <2>4, NextChunkRead DEF ReceiveTypes, Gapless
    <3>2. Had(read', pending') = Len(read) + 1 BY <1>5, <2>4, <3>1 DEF Had
    <3> QED BY <2>2, <2>4, <3>1, <3>2 DEF Gapless
  <2> QED BY <2>1, <2>3, <2>4
<1>8. CASE TookRest
  <2>1. /\ rxOpen /\ pending # Nothing /\ pending' = Nothing /\ read' = Append(read, pending)
        /\ eof' = eof /\ recvCh' = recvCh /\ arrived' = arrived /\ rxOpen' = rxOpen
    BY <1>8 DEF TookRest, InputKept
  <2>2. pending = Len(read) + 1 /\ Had(read, pending) = Len(read) + 1
    BY <1>2, <1>4, <2>1, NextRead DEF Had
  <2>3. /\ \A i \in 1..Len(read') : read'[i] = i
        /\ Len(read') = Len(read) + 1
    BY <1>2, <1>4, <2>1, <2>2, NextChunkRead DEF ReceiveTypes, Gapless
  <2>4. Had(read', pending') = Len(read) + 1 BY <1>5, <2>1, <2>3 DEF Had
  <2>5. rxOpen' /\ ~eof' => Run(Had(read', pending'), recvCh', arrived')
    BY <1>4, <2>1, <2>2, <2>4 DEF Gapless
  <2> QED BY <2>1, <2>3, <2>5 DEF Gapless
<1>9. CASE SawClosed BY <1>4, <1>9 DEF SawClosed, InputKept, Gapless
<1>10. CASE ReceiverDropped BY <1>4, <1>10 DEF ReceiverDropped, Gapless
<1>11. CASE DataCame
  <2>1. /\ UNCHANGED <<read, pending, eof, rxOpen>> /\ arrived' = arrived + 1 /\ Push(arrived + 1)
    BY <1>11 DEF DataCame
  <2>2. ASSUME rxOpen, ~eof PROVE Run(Had(read, pending), recvCh', arrived')
    <3>1. Run(Had(read, pending), recvCh, arrived) BY <1>4, <2>2 DEF Gapless
    <3>2. recvCh' = Append(recvCh, arrived + 1) BY <1>2, <2>1, <2>2, PushKeeps, Zenon
    <3>3. Run(Had(read, pending), Append(recvCh, arrived + 1), arrived + 1)
      BY <1>2, <1>5, <3>1, RunPush DEF ReceiveTypes
    <3> QED BY <2>1, <3>2, <3>3
  <2> QED BY <1>4, <2>1, <2>2 DEF Gapless
<1>12. CASE EndCame
  <2>1. UNCHANGED <<read, pending, eof, rxOpen, arrived>> /\ Push(Fin)
    BY <1>12 DEF EndCame
  <2>2. ASSUME rxOpen, ~eof PROVE Run(Had(read, pending), recvCh', arrived')
    <3>1. Run(Had(read, pending), recvCh, arrived) BY <1>4, <2>2 DEF Gapless
    <3>2. recvCh' = Append(recvCh, Fin) BY <1>2, <2>1, <2>2, PushKeeps, Zenon
    <3>3. Run(Had(read, pending), Append(recvCh, Fin), arrived)
      BY <1>2, <1>5, <3>1, RunPush DEF ReceiveTypes
    <3> QED BY <2>1, <3>2, <3>3
  <2> QED BY <1>4, <2>1, <2>2 DEF Gapless
<1>13. CASE Elsewhere BY <1>4, <1>13 DEF Elsewhere, Gapless
<1> QED
  BY <1>1, <1>6, <1>7, <1>8, <1>9, <1>10, <1>11, <1>12, <1>13 DEF ReceiveEffect

InboundInv == TypeInv /\ OrderInv /\ EndKnown /\ WholeInv /\ RunInv

LEMMA InboundInit == Init => InboundInv
<1> SUFFICES ASSUME Init PROVE InboundInv OBVIOUS
<1>1. /\ read = <<>> /\ recvCh = <<>> /\ pending = 0 /\ arrived = 0 /\ ~eof
  BY DEF Init, Nothing
<1>2. OrderInv /\ EndKnown BY <1>1 DEF OrderInv, Ordered, EndKnown
<1>3. Had(<<>>, 0) = 0 /\ Nothing = 0 BY DEF Had, Nothing
<1>4. WholeInv BY <1>1, <1>3 DEF WholeInv, Whole, Waiting, Rest
<1>5. RunInv BY <1>1, <1>3 DEF RunInv, Gapless, Run
<1> QED BY <1>2, <1>4, <1>5, TypeInit DEF InboundInv

LEMMA InboundStep == InboundInv /\ [Next]_vars => InboundInv'
BY TypeStep, OrderStep, EndKnownStep, WholeStep, RunStep DEF InboundInv

\* A chunk that is read next came, and is later than all that were read before.
LEMMA ReadsNew ==
    ASSUME ReceiveTypes, OrderInv, NEW n,
           n = pending \/ (recvCh # <<>> /\ n = Head(recvCh)), n # Nothing
    PROVE  n \in 1..arrived /\ \A i \in 1..Len(read) : read[i] < n
<1>1. CASE n = pending
  <2>1. n <= arrived /\ \A i \in 1..Len(read) : Ahead(read[i], n)
    BY <1>1 DEF OrderInv, Ordered
  <2> QED BY <1>1, <2>1 DEF Ahead, Nothing, ReceiveTypes
<1>2. CASE recvCh # <<>> /\ n = Head(recvCh)
  <2>1. 1 \in 1..Len(recvCh) /\ n = recvCh[1] /\ n \in Nat
    BY <1>2, TailItems DEF ReceiveTypes
  <2>2. n <= arrived /\ \A i \in 1..Len(read) : Ahead(read[i], n)
    BY <2>1, Zenon DEF OrderInv, Ordered
  <2> QED BY <2>1, <2>2 DEF Ahead, Nothing, ReceiveTypes
<1> QED BY <1>1, <1>2

InboundEnd == IF eof THEN "fin" ELSE "open"
InboundCut == overflow \/ aborted \/ disconnected \/ lpc = "exited"

\* The end is told when the connection is cut or everything was read.
EndIsDue == eof => InboundCut \/ (finIn /\ Len(read) = arrived)

LEMMA EndsRight == InboundInv => EndIsDue
<1> SUFFICES ASSUME InboundInv, eof PROVE InboundCut \/ (finIn /\ Len(read) = arrived)
  BY DEF EndIsDue
<1>1. Ended BY DEF InboundInv, EndKnown
<1>2. ~overflow /\ ~aborted => Len(read) = arrived BY DEF InboundInv, WholeInv, Whole
<1> QED BY <1>1, <1>2 DEF Ended, InboundCut

\* The kinds of steps that Tunnel knows.
Sent == ~finIn /\ arrived' = arrived + 1 /\ UNCHANGED <<finIn, read, InboundEnd>>
SentAll == ~finIn /\ finIn' = TRUE /\ UNCHANGED <<arrived, read, InboundEnd>>
Given(n) ==
    /\ InboundEnd = "open" /\ \A i \in 1..Len(read) : read[i] < n
    /\ ~overflow => n = Len(read) + 1
    /\ read' = Append(read, n) /\ UNCHANGED <<arrived, finIn, InboundEnd>>
Told ==
    /\ InboundEnd = "open" /\ InboundEnd' = "fin" /\ UNCHANGED <<arrived, finIn, read>>
    /\ InboundCut' \/ (finIn /\ Len(read) = arrived)
Unseen == UNCHANGED <<arrived, finIn, read, InboundEnd>>

InboundMoves == Sent \/ SentAll \/ (\E n \in 1..arrived : Given(n)) \/ Told \/ Unseen

LEMMA InboundMove ==
    ASSUME InboundInv, [Next]_vars
    PROVE  /\ InboundMoves
           /\ overflow => overflow'
           /\ InboundCut => InboundCut'
<1>1. ReceiveEffect BY ReceiveStep DEF InboundInv
<1>2. ReceiveTypes BY ReceiveTyped DEF InboundInv
<1>3. overflow => overflow' BY <1>1, <1>2, OverflowStays
<1>4. InboundCut => InboundCut'
  BY <1>1, <1>3, Zenon DEF ReceiveEffect, TookEnd, TookChunk, TookRest, SawClosed, ReceiverDropped,
                           DataCame, EndCame, Elsewhere, InputKept, InboundCut
<1>5. OrderInv /\ RunInv BY DEF InboundInv
<1>6. CASE TookEnd \/ SawClosed
  <2>1. ~eof /\ eof' /\ UNCHANGED <<arrived, finIn, read>>
    BY <1>6 DEF TookEnd, SawClosed, InputKept
  <2>2. InboundInv' BY InboundStep
  <2>3. EndIsDue' BY <2>2, EndsRight, PTL
  <2>4. InboundCut' \/ (finIn' /\ Len(read') = arrived') BY <2>1, <2>3 DEF EndIsDue
  <2> QED BY <1>3, <1>4, <2>1, <2>4 DEF InboundMoves, Told, InboundEnd
<1>7. ASSUME NEW n, n = pending \/ (recvCh # <<>> /\ n = Head(recvCh)), n # Nothing, ~eof, rxOpen,
             n = Head(recvCh) => pending = Nothing \/ n = pending,
             read' = Append(read, n), UNCHANGED <<arrived, finIn, eof>>
      PROVE  InboundMoves
  <2>1. n \in 1..arrived /\ \A i \in 1..Len(read) : read[i] < n
    BY <1>2, <1>5, <1>7, ReadsNew
  <2>2. ~overflow => n = Len(read) + 1
    BY <1>2, <1>5, <1>7, NextRead DEF Nothing, Fin
  <2> QED BY <1>7, <2>1, <2>2, Zenon DEF InboundMoves, Given, InboundEnd
<1>8. CASE TookChunk
  <2>1. /\ rxOpen /\ ~eof /\ pending = Nothing /\ recvCh # <<>> /\ Head(recvCh) # Nothing
        /\ read' = Append(read, Head(recvCh)) \/ read' = read
        /\ UNCHANGED <<arrived, finIn, eof>>
    BY <1>8 DEF TookChunk, InputKept, Deliver, Fin, Nothing
  <2>2. ASSUME read' = read PROVE InboundMoves BY <2>1, <2>2, Zenon DEF InboundMoves, Unseen, InboundEnd
  <2>3. ASSUME read' = Append(read, Head(recvCh)) PROVE InboundMoves BY <1>7, <2>1, <2>3
  <2> QED BY <1>3, <1>4, <2>1, <2>2, <2>3
<1>9. CASE TookRest
  <2>1. /\ rxOpen /\ pending # Nothing /\ read' = Append(read, pending)
        /\ UNCHANGED <<arrived, finIn, eof>>
    BY <1>9 DEF TookRest, InputKept
  <2>2. ~eof BY <1>5, <2>1 DEF RunInv
  <2> QED BY <1>3, <1>4, <1>7, <2>1, <2>2
<1>10. CASE ReceiverDropped \/ Elsewhere
  <2>1. UNCHANGED <<arrived, finIn, read, eof>> BY <1>10 DEF ReceiverDropped, Elsewhere
  <2> QED BY <1>3, <1>4, <2>1, Zenon DEF InboundMoves, Unseen, InboundEnd
<1>11. CASE DataCame
  <2>1. ~finIn /\ arrived' = arrived + 1 /\ UNCHANGED <<finIn, read, eof>> BY <1>11 DEF DataCame
  <2> QED BY <1>3, <1>4, <2>1, Zenon DEF InboundMoves, Sent, InboundEnd
<1>12. CASE EndCame
  <2>1. UNCHANGED <<arrived, read, eof>> /\ (finIn' = finIn \/ (~finIn /\ finIn' = TRUE))
    BY <1>12 DEF EndCame
  <2> QED BY <1>3, <1>4, <2>1, Zenon DEF InboundMoves, SentAll, Unseen, InboundEnd
<1> QED BY <1>1, <1>6, <1>8, <1>9, <1>10, <1>11, <1>12 DEF ReceiveEffect

\* The receive path is the Tunnel (stream_callback, poll_read): a read gives the chunk
\* that came next, nothing is read after the end, and an end that came in order is
\* told only when everything was read, unless the channel overflowed.
THEOREM ReceivePathCorrect == Spec => ReceivePathIsTunnel
<1>1. Init => Inbound!Init
  BY DEF Init, Inbound!Init
<1>2. InboundInv /\ [Next]_vars => [Inbound!Next]_(Inbound!tunnelVars)
  <2> SUFFICES ASSUME InboundInv, [Next]_vars PROVE [Inbound!Next]_(Inbound!tunnelVars) OBVIOUS
  <2>1. InboundMoves /\ (overflow => overflow') /\ (InboundCut => InboundCut')
    BY InboundMove
  <2> USE DEF InboundEnd, InboundCut
  <2>2. CASE Sent
    <3>1. Inbound!Send BY <2>2 DEF Sent, Inbound!Send
    <3> QED BY <2>1, <3>1 DEF Inbound!Next
  <2>3. CASE SentAll
    <3>1. Inbound!OriginEnds BY <2>3 DEF SentAll, Inbound!OriginEnds
    <3> QED BY <2>1, <3>1 DEF Inbound!Next
  <2>4. ASSUME NEW n \in 1..arrived, Given(n) PROVE [Inbound!Next]_(Inbound!tunnelVars)
    <3>1. Inbound!Deliver(n) BY <2>4 DEF Given, Inbound!Deliver
    <3> QED BY <2>1, <3>1 DEF Inbound!Next
  <2>5. CASE Told
    <3>1. Inbound!End("fin") BY <2>5 DEF Told, Inbound!End
    <3> QED BY <2>1, <3>1 DEF Inbound!Next
  <2>6. CASE Unseen
    BY <2>1, <2>6 DEF Unseen, Inbound!Next
  <2> HIDE DEF InboundEnd, InboundCut
  <2> QED BY <2>1, <2>2, <2>3, <2>4, <2>5, <2>6, Zenon DEF InboundMoves
<1> QED
  BY <1>1, <1>2, InboundInit, InboundStep, PTL DEF Spec, ReceivePathIsTunnel, Inbound!Spec
=============================================================================
