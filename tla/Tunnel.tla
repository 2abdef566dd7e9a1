------------------------------- MODULE Tunnel -------------------------------
(***************************************************************************)
(* What a proxied connection promises in one direction, and what the       *)
(* receive path of a bridge has to keep for it.  What the sending origin   *)
(* sent is given to the receiving one in order, none of it twice, and      *)
(* without a hole unless a buffer overflowed.  The receiver sees one end,  *)
(* after it nothing comes, and unless the connection was cut short it is a *)
(* clean end that comes when the origin ended and all was delivered.       *)
(***************************************************************************)
EXTENDS Naturals, Sequences

VARIABLES
    sent, over,   \* chunks the origin sent, numbered from 1; it ended
    got, end,     \* chunks the receiver was given; the end it saw
    holed,        \* a chunk may be left out
    cut           \* an end may come early: a fault, or the receiver ended too

tunnelVars == <<sent, over, got, end, holed, cut>>

Init ==
    /\ sent = 0 /\ over = FALSE
    /\ got = <<>> /\ end = "open"
    /\ holed = FALSE /\ cut = FALSE

Send ==
    /\ ~over
    /\ sent' = sent + 1
    /\ UNCHANGED <<over, got, end>>

OriginEnds ==
    /\ ~over
    /\ over' = TRUE
    /\ UNCHANGED <<sent, got, end>>

Deliver(n) ==
    /\ end = "open"
    /\ n \in 1..sent /\ \A i \in 1..Len(got) : got[i] < n
    /\ ~holed => n = Len(got) + 1
    /\ got' = Append(got, n)
    /\ UNCHANGED <<sent, over, end>>

End(e) ==
    /\ end = "open"
    /\ cut' \/ (e = "fin" /\ over /\ Len(got) = sent)
    /\ end' = e
    /\ UNCHANGED <<sent, over, got>>

\* Faults come with any step, or alone, and are not undone.
Next ==
    /\ holed => holed'
    /\ cut => cut'
    /\ \/ Send \/ OriginEnds
       \/ \E n \in 1..sent : Deliver(n)
       \/ \E e \in {"fin", "rst"} : End(e)
       \/ UNCHANGED <<sent, over, got, end>>

Spec == Init /\ [][Next]_tunnelVars
=============================================================================
