------------------------------ MODULE SendFifo ------------------------------
(***************************************************************************)
(* What the write half of a slipstream stream promises to its caller: the  *)
(* items it accepted (chunks of poll_write, the end marker of              *)
(* poll_shutdown) are handed to QUIC one by one, in the order they were    *)
(* accepted, and at most Cap of them wait.  Once closed, nothing moves.    *)
(***************************************************************************)
EXTENDS Naturals, Sequences

CONSTANTS Item, Cap

VARIABLES
    written,   \* every item the caller was told is accepted
    out,       \* every item QUIC was given
    closed     \* the worker behind the stream is gone

fifoVars == <<written, out, closed>>

Init ==
    /\ written = <<>>
    /\ out = <<>>
    /\ closed = FALSE

Accept(x) ==
    /\ ~closed
    /\ Len(written) < Len(out) + Cap
    /\ written' = Append(written, x)
    /\ UNCHANGED <<out, closed>>

Transmit ==
    /\ ~closed
    /\ Len(out) < Len(written)
    /\ out' = Append(out, written[Len(out) + 1])
    /\ UNCHANGED <<written, closed>>

Close ==
    /\ ~closed
    /\ closed' = TRUE
    /\ UNCHANGED <<written, out>>

Next == (\E x \in Item : Accept(x)) \/ Transmit \/ Close

Spec == Init /\ [][Next]_fifoVars
=============================================================================
