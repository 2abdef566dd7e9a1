------------------------ MODULE MCSlipstreamClient ------------------------
(***************************************************************************)
(* SlipstreamClient for TLC, with the claims of the repository's comments  *)
(* that the code does not keep.  Each claim is the property of one run     *)
(* that TLC refutes; the other runs check SlipstreamClient's properties.   *)
(***************************************************************************)
EXTENDS SlipstreamClient

\* The peer ended its stream in order; the connection and the loop are alive.
CleanEnd == finIn /\ ~aborted /\ ~disconnected /\ lpc # "exited"

\* "drain this first in after_send": what peek_buf holds goes before the rest, so
\* QUIC is given a prefix of what was accepted, even when it refuses an item.
OutIsPrefix ==
    Len(out) <= Len(written) /\ out = SubSeq(written, 1, Len(out))

\* "the other direction continues until done": a relay that saw the peer's end,
\* wrote all it had, shut the stream down and only then dropped it has not lost
\* a chunk when the connection is closed.
CleanCloseDelivers ==
    CleanEnd /\ eof /\ shut /\ closeSent =>
        \A i \in 1..Len(written) : written[i] # Fin => i <= Len(out)

\* "On EOF from one side, the writer is shut down and the other direction continues
\* until done": to the relay the end of the peer means that this direction is done, so
\* a reader that sees a clean end was given everything that came.
NothingReadIsLost ==
    CleanEnd /\ eof => ~tail /\ read = [i \in 1..arrived |-> i]
=============================================================================
