------------------------ MODULE EndToEndTunnel_proofs ------------------------
(***************************************************************************)
(* EndToEnd implements Tunnel in both directions, for any capacities and   *)
(* any number of chunks: every step is a step or a stutter of each way.    *)
(***************************************************************************)
EXTENDS EndToEndDelivery_proofs

-----------------------------------------------------------------------------
(* A receiver sees one end: its writer is shut down by the hop that is     *)
(* then done, or closed by the task that then ended.                       *)

OpenInv == \A d \in Dir : task[Dst(d)] # "ended" /\ ~done[Dst(d)][d] => end[d] = "open"

LEMMA OpenInit == Init => OpenInv
BY DEF Init, OpenInv

LEMMA TaskEndsIs ==
    ASSUME Types, NEW s \in Side, TaskEnds(s)
    PROVE  /\ task[s] # "ended" /\ task'[s] = "ended" /\ UNCHANGED <<sent, over, got>>
           /\ \A d \in Dir : \/ end'[d] = end[d]
                             \/ Dst(d) = s /\ end[d] = "open" /\ end'[d] \in {"fin", "rst"}
<1>1. PICK why : EndReason(s, why) /\ EndTask(s, why) BY DEF TaskEnds
<1>2. /\ task' = [task EXCEPT ![s] = "ended"] /\ UNCHANGED <<sent, over, got>>
      /\ UNCHANGED end \/ CloseTcp(s)
  BY <1>1 DEF EndTask
<1>3. task'[s] = "ended" BY <1>2, TypeFacts
<1>4. task[s] # "ended" BY <1>1 DEF EndReason
<1>5. ASSUME NEW d \in Dir, CloseTcp(s), end'[d] # end[d]
      PROVE  Dst(d) = s /\ end[d] = "open" /\ end'[d] \in {"fin", "rst"}
  <2>1. end \in [Dir -> {"open", "fin", "rst"}] BY TypeFacts
  <2>2. end' = [end EXCEPT ![To(s)] = IF @ # "open" THEN @
                                     ELSE IF taken[From(s)] < sent[From(s)] THEN "rst" ELSE "fin"]
    BY <1>5 DEF CloseTcp
  <2>3. d = To(s) BY <1>5, <2>1, <2>2
  <2>4. Dst(d) = s BY <2>3 DEF Dst, To, Side
  <2> QED BY <1>5, <2>1, <2>2, <2>3, <2>4
<1> QED BY <1>2, <1>3, <1>4, <1>5

LEMMA OpenStep == Types /\ OpenInv /\ [Next]_vars => OpenInv'
<1> SUFFICES ASSUME Types, OpenInv, [Next]_vars, NEW d \in Dir,
                    task'[Dst(d)] # "ended", ~done'[Dst(d)][d]
             PROVE  end'[d] = "open"
  BY Ends DEF OpenInv
<1> USE Ends
<1>1. end[d] = "open" BY Monotone DEF OpenInv
<1>2. ASSUME ShutTcp(d) PROVE FALSE
  <2>1. done' = [done EXCEPT ![Dst(d)][d] = TRUE] BY <1>2 DEF ShutTcp
  <2>2. done'[Dst(d)][d] BY <2>1, TypeFacts, Zenon
  <2> QED BY <2>2
<1>3. ASSUME NEW s \in Side, TaskEnds(s) PROVE end'[d] = end[d] BY <1>3, TaskEndsIs
<1> QED BY <1>1, <1>2, <1>3, EndKind

-----------------------------------------------------------------------------
(* What each kind of step does to the two origins and the two receivers.   *)

Ended(d) ==
    /\ end[d] = "open" /\ end'[d] \in {"fin", "rst"} /\ UNCHANGED <<sent, over, got>>
    /\ ShutTcp(d) \/ \E s \in Side : TaskEnds(s)

LEMMA WayKind ==
    ASSUME Types, OpenInv, [Next]_vars
    PROVE  \/ UNCHANGED <<sent, over, got, end>>
           \/ \E e \in Dir : Send(e) \/ OriginEnds(e) \/ TcpWrite(e)
           \/ /\ UNCHANGED <<sent, over, got>>
              /\ \A d \in Dir : end'[d] = end[d] \/ Ended(d)
<1> USE Ends
<1>1. UNCHANGED vars => UNCHANGED <<sent, over, got, end>> BY DEF vars, tcpVars
<1>2. Stops => UNCHANGED <<sent, over, got, end>> BY DEF Stops, ThreadStops, tcpVars
<1>3. ASSUME NEW e \in Dir, TcpRead(e) \/ Write(e) \/ ShutTransport(e) \/ Read(e) \/ Transmit(e) \/ Deliver(e)
      PROVE  UNCHANGED <<sent, over, got, end>>
  BY <1>3 DEF TcpRead, Write, ShutTransport, Read, Transmit, Deliver, tcpVars
<1>4. ASSUME NEW s \in Side, Starts(s) \/ Learns(s) PROVE UNCHANGED <<sent, over, got, end>>
  BY <1>4 DEF Starts, SetTask, Learns, Learn, tcpVars
<1>5. ASSUME NEW e \in Dir, ShutTcp(e), NEW d \in Dir, end'[d] # end[d] PROVE Ended(d)
  <2>1. /\ end' = [end EXCEPT ![e] = "fin"] /\ UNCHANGED <<sent, over, got>>
        /\ task[Dst(e)] = "relay" /\ ~done[Dst(e)][e]
    BY <1>5 DEF ShutTcp, Shutdown, Idle
  <2>2. d = e /\ end'[d] = "fin" BY <1>5, <2>1, TypeFacts
  <2>3. end[d] = "open" BY <2>1, <2>2 DEF OpenInv
  <2> QED BY <1>5, <2>1, <2>2, <2>3 DEF Ended
<1>6. ASSUME NEW e \in Dir, ShutTcp(e) PROVE UNCHANGED <<sent, over, got>>
  BY <1>6 DEF ShutTcp
<1>7. ASSUME NEW s \in Side, TaskEnds(s), NEW d \in Dir, end'[d] # end[d] PROVE Ended(d)
  BY <1>7, TaskEndsIs DEF Ended
<1>8. ASSUME NEW s \in Side, TaskEnds(s) PROVE UNCHANGED <<sent, over, got>>
  BY <1>8, TaskEndsIs
<1> QED BY <1>1, <1>2, <1>3, <1>4, <1>5, <1>6, <1>7, <1>8, StepKind DEF Hop

-----------------------------------------------------------------------------
(* Each kind of step, seen from one way.                                   *)

TunnelInv == CloseInv /\ OpenInv

\* The flags of a way are not taken back, and its origin stays the same.
LEMMA WayFlags ==
    ASSUME Types, [Next]_vars, NEW d \in Dir
    PROVE  /\ Origin(d) \in Dir /\ Origin(d)' = Origin(d)
           /\ Overflown(Origin(d)) => Overflown(Origin(d))'
           /\ over[Back(d)] \/ Excused(d, Flaws) => over'[Back(d)] \/ Excused(d, Flaws)'
<1>1. Origin(d) \in Dir /\ Origin(d)' = Origin(d) /\ Back(d) \in Dir BY Line, BlockedStays, Backs
<1>2. PICK o \in Dir : o = Origin(d) BY <1>1
<1>3. Overflown(o) => Overflown(o)' BY BlockedStays
<1>4. over[Back(d)] => over'[Back(d)] BY <1>1, OverStays
<1>5. Excused(d, Flaws) => Excused(d, Flaws)' BY OverStays
<1> QED BY <1>1, <1>2, <1>3, <1>4, <1>5

\* A chunk that is given to a receiver was sent, is new to it, and is the next one
\* unless a buffer overflowed.
LEMMA WayGives ==
    ASSUME TunnelInv, [Next]_vars, NEW d \in Dir, TcpWrite(d),
           NEW n, n = held[Dst(d)][d]
    PROVE  /\ end[d] = "open"
           /\ n \in 1..sent[Origin(d)] /\ \A i \in 1..Len(got[d]) : got[d][i] < n
           /\ ~Overflown(Origin(d)) => n = Len(got[d]) + 1
           /\ got' = [got EXCEPT ![d] = Append(@, n)]
           /\ UNCHANGED <<sent, over, end>>
<1> USE Ends
<1>1. Types /\ ShapeInv /\ OrderInv /\ HoleInv /\ GotInv /\ OpenInv
  BY DEF TunnelInv, CloseInv, DeliveryInv
<1>2. /\ task[Dst(d)] = "relay" /\ n # 0 /\ (d = "up" => ~echo)
      /\ got' = [got EXCEPT ![d] = Append(@, n)] /\ UNCHANGED <<sent, over, end>>
  BY DEF TcpWrite
<1>3. end[d] = "open"
  <2>1. ~done[Dst(d)][d] BY <1>1, <1>2 DEF ShapeInv, DoneShape
  <2> QED BY <1>1, <1>2, <2>1 DEF OpenInv
<1>4. Cargo[<<d, 1>>] = Chunks(got[d]) /\ n \in Cargo[<<d, 2>>]
  BY <1>2, CargoIs, InHandIs DEF Fin
<1>5. <<d, 1>> \in Place /\ <<d, 2>> \in Place /\ <<d, 2>>[1] = d BY Places
<1>6. n \in 1..sent[Origin(d)]
  <2>1. n \in 1..taken[Origin(d)] BY <1>1, <1>4, <1>5, Zenon DEF OrderInv, Ordered
  <2>2. PICK o \in Dir : o = Origin(d) BY Line
  <2>3. taken[o] <= sent[o] BY <1>1 DEF ShapeInv, DoneShape
  <2>4. taken[o] \in Nat /\ sent[o] \in Nat BY <1>1, TypeFacts
  <2> QED BY <2>1, <2>2, <2>3, <2>4
<1>7. \A i \in 1..Len(got[d]) : got[d][i] < n
  <2>1. Ahead(<<d, 1>>, <<d, 2>>) BY NeighboursAre DEF Adjoins
  <2>2. \A y \in Chunks(got[d]) : y < n BY <1>1, <1>4, <1>5, <2>1 DEF OrderInv, Ordered
  <2>3. got[d] \in Seq(Item \ {Fin}) BY <1>1, QueueFacts
  <2>4. \A i \in 1..Len(got[d]) : got[d][i] \in Chunks(got[d]) BY <2>3 DEF Chunks
  <2> QED BY <2>2, <2>4
<1>8. ~Overflown(Origin(d)) => n = Len(got[d]) + 1 BY <1>1, <1>2, NextChunk
<1> QED BY <1>2, <1>3, <1>6, <1>7, <1>8

\* An end that no flaw excuses and that the receiver did not ask for is a clean one,
\* when the origin ended and everything was delivered.
LEMMA WayEnds ==
    ASSUME TunnelInv, [Next]_vars, NEW d \in Dir, Ended(d)
    PROVE  \/ over'[Back(d)] \/ Excused(d, Flaws)'
           \/ end'[d] = "fin" /\ over[Origin(d)] /\ Len(got[d]) = sent[Origin(d)]
<1> USE Ends
<1>1. /\ Types /\ ShapeInv /\ FinInv /\ OrderInv /\ HoleInv /\ GotInv /\ QuietInv /\ IntactInv
      /\ Types' /\ ShapeInv' /\ QuietInv'
  <2>1. CloseInv' BY CloseStep DEF TunnelInv
  <2> QED BY <2>1 DEF TunnelInv, CloseInv, DeliveryInv
<1> SUFFICES ASSUME ~over'[Back(d)], ~Excused(d, Flaws)'
             PROVE  end'[d] = "fin" /\ over[Origin(d)] /\ Len(got[d]) = sent[Origin(d)]
  OBVIOUS
<1>b. Back(d) \in Dir /\ Back(Back(d)) = d BY Backs
<1>2. ~over[Back(d)] /\ ~Excused(d, Flaws) BY <1>1, <1>b, OverStays
<1>3. ASSUME NEW s \in Side, TaskEnds(s), end'[d] # end[d] PROVE FALSE
  <2>1. task'[s] = "ended" BY <1>1, <1>3, TaskEndsIs
  <2>2. echo' => Back(d) = "up"
    <3>1. echo' => end'["up"] = "open" BY <1>1 DEF ShapeInv, EchoShape
    <3>2. end'[d] # "open" BY DEF Ended
    <3> QED BY <3>1, <3>2 DEF Back, Dir
  <2>3. ~Excused(Back(Back(d)), Failures)' BY <1>b, FlawFactsNext DEF Flawless
  <2>4. Quiet(Back(d))' BY <1>1, <1>b, <2>2, <2>3 DEF QuietInv
  <2> QED BY <2>1, <2>4 DEF Quiet
<1>4. ShutTcp(d) /\ end'[d] \in {"fin", "rst"}
  <2>1. end'[d] # end[d] BY DEF Ended
  <2> QED BY <1>3, <2>1 DEF Ended
<1>5. ~echo /\ over[d] /\ Len(got[d]) = sent[d] BY <1>1, <1>2, <1>4, ShutsComplete
<1>6. end'[d] = "fin"
  <2>1. end' = [end EXCEPT ![d] = "fin"] BY <1>4 DEF ShutTcp, Shutdown
  <2> QED BY <1>1, <2>1, TypeFacts
<1> QED BY <1>5, <1>6 DEF Origin

-----------------------------------------------------------------------------
(* The refinement.                                                         *)

\* What the origin and the receiver of a way see of a step.
WayMoves(d) ==
    LET o == Origin(d) IN
    \/ ~over[o] /\ sent'[o] = sent[o] + 1 /\ over'[o] = over[o] /\ got'[d] = got[d] /\ end'[d] = end[d]
    \/ ~over[o] /\ over'[o] = TRUE /\ sent'[o] = sent[o] /\ got'[d] = got[d] /\ end'[d] = end[d]
    \/ /\ end[d] = "open"
       /\ \E n \in 1..sent[o] : /\ \A i \in 1..Len(got[d]) : got[d][i] < n
                                /\ ~Overflown(o) => n = Len(got[d]) + 1
                                /\ got'[d] = Append(got[d], n)
       /\ sent'[o] = sent[o] /\ over'[o] = over[o] /\ end'[d] = end[d]
    \/ /\ end[d] = "open" /\ end'[d] \in {"fin", "rst"}
       /\ \/ over'[Back(d)] \/ Excused(d, Flaws)'
          \/ end'[d] = "fin" /\ over[o] /\ Len(got[d]) = sent[o]
       /\ sent'[o] = sent[o] /\ over'[o] = over[o] /\ got'[d] = got[d]
    \/ sent'[o] = sent[o] /\ over'[o] = over[o] /\ got'[d] = got[d] /\ end'[d] = end[d]

LEMMA WayStep ==
    ASSUME TunnelInv, [Next]_vars, NEW d \in Dir
    PROVE  WayMoves(d)
<1> USE Ends
<1>1. Types /\ OpenInv BY DEF TunnelInv, CloseInv, DeliveryInv
<1>2. PICK o \in Dir : o = Origin(d) BY Line
<1>3. ASSUME NEW e \in Dir, Send(e) PROVE WayMoves(d)
  <2>1. ~over[e] /\ sent' = [sent EXCEPT ![e] = @ + 1] /\ UNCHANGED <<over, got, end>>
    BY <1>3 DEF Send
  <2>2. IF e = o THEN sent'[o] = sent[o] + 1 ELSE sent'[o] = sent[o] BY <1>1, <2>1, TypeFacts
  <2> QED BY <1>2, <2>1, <2>2, Zenon DEF WayMoves
<1>4. ASSUME NEW e \in Dir, OriginEnds(e) PROVE WayMoves(d)
  <2>1. ~over[e] /\ over' = [over EXCEPT ![e] = TRUE] /\ UNCHANGED <<sent, got, end>>
    BY <1>4 DEF OriginEnds
  <2>2. IF e = o THEN over'[o] = TRUE ELSE over'[o] = over[o] BY <1>1, <2>1, TypeFacts, Zenon
  <2> QED BY <1>2, <2>1, <2>2, Zenon DEF WayMoves
<1>5. ASSUME NEW e \in Dir, TcpWrite(e) PROVE WayMoves(d)
  <2>1. PICK n : n = held[Dst(e)][e] OBVIOUS
  <2>2. /\ end[e] = "open"
        /\ n \in 1..sent[Origin(e)] /\ \A i \in 1..Len(got[e]) : got[e][i] < n
        /\ ~Overflown(Origin(e)) => n = Len(got[e]) + 1
        /\ got' = [got EXCEPT ![e] = Append(@, n)]
        /\ UNCHANGED <<sent, over, end>>
    BY <1>5, <2>1, WayGives
  <2>3. CASE e = d
    <3>1. got'[d] = Append(got[d], n) BY <1>1, <2>2, <2>3, TypeFacts
    <3> QED BY <2>2, <2>3, <3>1, Zenon DEF WayMoves
  <2>4. CASE e # d
    <3>1. got'[d] = got[d] BY <1>1, <2>2, <2>4, TypeFacts
    <3> QED BY <2>2, <3>1, Zenon DEF WayMoves
  <2> QED BY <2>3, <2>4
<1>6. ASSUME UNCHANGED <<sent, over, got>>, end'[d] = end[d] PROVE WayMoves(d)
  BY <1>6, Zenon DEF WayMoves
<1>7. ASSUME Ended(d) PROVE WayMoves(d)
  <2>1. \/ over'[Back(d)] \/ Excused(d, Flaws)'
        \/ end'[d] = "fin" /\ over[Origin(d)] /\ Len(got[d]) = sent[Origin(d)]
    BY <1>7, WayEnds
  <2>2. end[d] = "open" /\ end'[d] \in {"fin", "rst"} /\ UNCHANGED <<sent, over, got>>
    BY <1>7 DEF Ended
  <2> QED BY <2>1, <2>2, Zenon DEF WayMoves
<1>8. UNCHANGED <<sent, over, got, end>> => UNCHANGED <<sent, over, got>> /\ end'[d] = end[d]
  OBVIOUS
<1> QED BY <1>1, <1>3, <1>4, <1>5, <1>6, <1>7, <1>8, WayKind

LEMMA WayImplements ==
    ASSUME TunnelInv, [Next]_vars, NEW d \in Dir
    PROVE  [Way(d)!Next]_(Way(d)!tunnelVars)
<1>1. Types BY DEF TunnelInv, CloseInv, DeliveryInv
<1>2. PICK o \in Dir : o = Origin(d) BY Line
<1>3. Origin(d)' = o /\ WayMoves(d) BY <1>1, <1>2, WayFlags, WayStep
<1>4. /\ Overflown(Origin(d)) => Overflown(Origin(d))'
      /\ over[Back(d)] \/ Excused(d, Flaws) => over'[Back(d)] \/ Excused(d, Flaws)'
  BY <1>1, WayFlags
<1>5. /\ sent[Origin(d)]' = sent'[o] /\ over[Origin(d)]' = over'[o]
  BY <1>3
<1>6. (over[Back(d)])' = over'[Back(d)] BY DEF Back
<1> QED BY <1>2, <1>3, <1>4, <1>5, <1>6
        DEF WayMoves, Way!Next, Way!Send, Way!OriginEnds, Way!Deliver, Way!End, Way!tunnelVars

LEMMA TunnelInit == Init => TunnelInv /\ \A d \in Dir : Way(d)!Init
<1> SUFFICES ASSUME Init PROVE TunnelInv /\ \A d \in Dir : Way(d)!Init OBVIOUS
<1>1. TunnelInv BY CloseInit, OpenInit DEF TunnelInv
<1>2. ASSUME NEW d \in Dir PROVE Way(d)!Init
  <2>1. Origin(d) \in Dir /\ Back(d) \in Dir BY Line, Backs
  <2>2. ~Overflown(Origin(d)) /\ ~Excused(d, Flaws) BY DEF Init, Overflown, Excused
  <2> QED BY <2>1, <2>2 DEF Init, Way!Init
<1> QED BY <1>1, <1>2

LEMMA TunnelStep == TunnelInv /\ [Next]_vars => TunnelInv'
BY CloseStep, OpenStep DEF TunnelInv, CloseInv, DeliveryInv

\* Over both transports, forwarded or echoed, with whatever faults: each direction of
\* a connection is the tunnel that was promised.  Every step of it gives the receiver
\* the next chunk, or shows it its one end, or changes nothing it sees; and the end
\* is clean and last unless a flaw or the receiver's own end cut the way short.
THEOREM WaysCorrect == Spec => WaysAreTunnels
<1>1. TunnelInv /\ [Next]_vars => [\A d \in Dir : [Way(d)!Next]_(Way(d)!tunnelVars)]_vars
  BY WayImplements
<1>2. Init => \A d \in Dir : Way(d)!Init BY TunnelInit
<1>3. Init => TunnelInv BY TunnelInit
<1> QED BY <1>1, <1>2, <1>3, TunnelStep, PTL DEF Spec, WaysAreTunnels
=============================================================================
