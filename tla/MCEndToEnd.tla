---------------------------- MODULE MCEndToEnd ----------------------------
(***************************************************************************)
(* EndToEnd for TLC, with the promise of relay_bidirectional that quinn's  *)
(* implicit close does not keep.                                           *)
(***************************************************************************)
EXTENDS EndToEnd

\* "the other direction continues until done": when both origins ended, whoever
\* sees a clean end has everything the other side sent.
OrderlyEndDelivers ==
    over["up"] /\ over["down"] =>
        \A d \in Dir : end[d] = "fin" => Len(got[d]) = sent[d]
=============================================================================
