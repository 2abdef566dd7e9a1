----------------------- MODULE EndToEndDelivery_proofs -----------------------
(***************************************************************************)
(* What EndToEnd delivers without a hole: a chunk that was lost closes the *)
(* way to everything behind it, unless a receive channel overflowed.  And  *)
(* what an end says: while a receiver has not ended its own direction and  *)
(* nothing failed, nothing is lost on the way to it, and the end is last.  *)
(***************************************************************************)
EXTENDS EndToEndOrder_proofs

-----------------------------------------------------------------------------
(* What is never undone.                                                   *)

LEMMA Monotone ==
    ASSUME Types, [Next]_vars
    PROVE  /\ \A s \in Side : task[s] = "ended" => task'[s] = "ended"
           /\ \A s \in Side : dead[s] => dead'[s]
           /\ \A s \in Side, d \in Dir : done[s][d] => done'[s][d]
           /\ excuse \subseteq excuse'
           /\ mode' = mode /\ kind' = kind
<1> DEFINE Kept ==
        /\ \A s \in Side : task[s] = "ended" => task'[s] = "ended"
        /\ \A s \in Side : dead[s] => dead'[s]
        /\ \A s \in Side, d \in Dir : done[s][d] => done'[s][d]
        /\ excuse \subseteq excuse'
<1> USE Ends
<1>t. /\ task \in [Side -> {"none", "connecting", "starting", "relay", "ended"}]
      /\ done \in [Side -> [Dir -> BOOLEAN]] /\ dead \in [Side -> BOOLEAN]
      /\ Fin \in Item
  BY TypeFacts
<1>1. ASSUME UNCHANGED <<task, dead, done, excuse>> PROVE Kept BY <1>1
<1>2. ASSUME UNCHANGED <<task, dead, excuse>>, NEW s \in Side, NEW d \in Dir,
             done' = [done EXCEPT ![s][d] = TRUE]
      PROVE  Kept
  <2>1. \A t \in Side, e \in Dir : done[t][e] => done'[t][e] BY <1>t, <1>2, Zenon
  <2> QED BY <1>2, <2>1
<1>3. ASSUME NEW d \in Dir, NEW x \in Item, NEW why, Arrive(d, x, why), UNCHANGED <<done>>,
             \A s \in Side : dead[s] => dead'[s]
      PROVE  Kept
  <2>1. /\ task' = task \/ (task[Dst(d)] = "none" /\ task' = [task EXCEPT ![Dst(d)] = "starting"])
        /\ excuse \subseteq excuse'
    BY <1>3, ArriveKind
  <2>2. \A s \in Side : task[s] = "ended" => task'[s] = "ended" BY <1>t, <2>1
  <2> QED BY <1>3, <2>1, <2>2
<1>4. ASSUME UNCHANGED vars PROVE Kept BY <1>1, <1>4 DEF vars
<1>5. ASSUME Stops PROVE Kept
  <2>1. PICK why : ThreadStops(why) BY <1>5 DEF Stops
  <2>2. /\ UNCHANGED <<task, done>> /\ excuse' = excuse \cup why
        /\ dead' = [dead EXCEPT !["client"] = TRUE]
    BY <2>1 DEF ThreadStops
  <2>3. \A s \in Side : dead[s] => dead'[s] BY <1>t, <2>2, Zenon
  <2> QED BY <2>2, <2>3
<1>6. ASSUME NEW d \in Dir, Send(d) \/ OriginEnds(d) \/ TcpRead(d) \/ Write(d) \/ Read(d) \/ TcpWrite(d) \/ Transmit(d)
      PROVE  Kept
  BY <1>1, <1>6 DEF Send, OriginEnds, TcpRead, Write, Read, TcpWrite, Transmit
<1>7. ASSUME NEW d \in Dir, ShutTransport(d) PROVE Kept
  <2>1. /\ done' = [done EXCEPT ![Src(d)][d] = TRUE] /\ UNCHANGED <<task, dead>>
        /\ excuse \subseteq excuse'
    BY <1>7, Zenon DEF ShutTransport
  <2>2. \A t \in Side, e \in Dir : done[t][e] => done'[t][e] BY <1>t, <2>1, Zenon
  <2> QED BY <2>1, <2>2
<1>8. ASSUME NEW d \in Dir, ShutTcp(d) PROVE Kept BY <1>2, <1>8 DEF ShutTcp
<1>9. ASSUME NEW d \in Dir, Deliver(d) PROVE Kept
  <2>1. UNCHANGED <<done, dead>> BY <1>9 DEF Deliver
  <2>2. PICK x \in Item : \E why : Arrive(d, x, why)
    <3>1. net[d] # <<>> BY <1>9 DEF Deliver
    <3>2. Head(net[d]) \in Item BY <3>1, QueueFacts
    <3> QED BY <1>9, <1>t, <3>2, Zenon DEF Deliver
  <2> QED BY <1>3, <2>1, <2>2
<1>10. ASSUME NEW s \in Side, Starts(s) PROVE Kept
  <2>1. /\ task[s] \in {"connecting", "starting"} /\ task' = [task EXCEPT ![s] = "relay"]
        /\ UNCHANGED <<dead, done, excuse>>
    BY <1>10 DEF Starts, SetTask
  <2>2. \A t \in Side : task[t] = "ended" => task'[t] = "ended" BY <1>t, <2>1
  <2> QED BY <2>1, <2>2
<1>11. ASSUME NEW s \in Side, TaskEnds(s) PROVE Kept
  <2>1. PICK why : EndTask(s, why) BY <1>11 DEF TaskEnds
  <2>2. /\ task' = [task EXCEPT ![s] = "ended"] /\ dead' = [dead EXCEPT ![s] = @ \/ ClosesNow(s)]
        /\ done' = done /\ excuse \subseteq excuse'
    BY <2>1 DEF EndTask
  <2>3. \A t \in Side : task[t] = "ended" => task'[t] = "ended" BY <1>t, <2>2
  <2>4. \A t \in Side : dead[t] => dead'[t] BY <1>t, <2>2, Zenon
  <2> QED BY <2>2, <2>3, <2>4
<1>12. ASSUME NEW s \in Side, Learns(s) PROVE Kept
  <2>1. PICK why : Learn(s, why) BY <1>12 DEF Learns
  <2>2. dead' = [dead EXCEPT ![s] = TRUE] /\ done' = done BY <2>1 DEF Learn
  <2>3. \A t \in Side : dead[t] => dead'[t] BY <1>t, <2>2, Zenon
  <2>4. CASE Arrive("down", Fin, why) BY <1>3, <1>t, <2>2, <2>3, <2>4 DEF Dir
  <2>5. CASE excuse' = excuse \cup why /\ UNCHANGED <<task, recvQ>> BY <2>2, <2>3, <2>5
  <2> QED BY <2>1, <2>4, <2>5, Zenon DEF Learn
<1>13. Kept
  BY <1>4, <1>5, <1>6, <1>7, <1>8, <1>9, <1>10, <1>11, <1>12, StepKind DEF Hop
<1> QED BY <1>13, Setting

LEMMA BlockedStays ==
    ASSUME Types, [Next]_vars
    PROVE  /\ echo' = echo /\ \A d \in Dir : Origin(d)' = Origin(d)
           /\ \A p \in Place : Blocked(p) => Blocked(p)'
           /\ \A o \in Dir : Sealed(o) => Sealed(o)'
           /\ \A o \in Dir : Overflown(o) => Overflown(o)'
<1> USE Ends
<1>1. echo' = echo BY Monotone DEF echo
<1>2. \A d \in Dir : Origin(d)' = Origin(d) BY <1>1 DEF Origin
<1>3. \A s \in Side : (Cut(s) => Cut(s)') /\ (dead[s] => dead'[s]) BY Monotone DEF Cut
<1>4. \A p \in Place : Blocked(p) => Blocked(p)' BY <1>1, <1>3, BlockedSame
<1>5. ASSUME NEW o \in Dir PROVE Sealed(o) => Sealed(o)'
  <2>1. Blocked(<<o, 6>>) => Blocked(<<o, 6>>)' BY <1>4, Places
  <2>2. /\ task[Src(o)] = "ended" => task'[Src(o)] = "ended"
        /\ done[Src(o)][o] => done'[Src(o)][o]
    BY Monotone
  <2> QED BY <2>1, <2>2 DEF Sealed
<1>6. \A o \in Dir : Overflown(o) => Overflown(o)' BY <1>2, Monotone DEF Overflown
<1> QED BY <1>1, <1>2, <1>4, <1>5, <1>6

-----------------------------------------------------------------------------
(* Behind a hole nothing gets through.                                     *)

HoleInv ==
    \A o \in Dir : ~Overflown(o) => \A x \in 1..taken[o] : Missing(o, x) => Closed(o, x)

LEMMA HoleInit == Init => HoleInv
<1> SUFFICES ASSUME Init PROVE HoleInv OBVIOUS
<1>1. \A o \in Dir : taken[o] = 0 BY DEF Init
<1> QED BY <1>1 DEF HoleInv

\* What was lost before stays closed in where nothing but a blocked place gets a chunk.
LEMMA HoleStays ==
    ASSUME Types, [Next]_vars, NEW o \in Dir, NEW x, Closed(o, x),
           \A q \in Place : Origin(q[1]) = o =>
               \A y \in Cargo'[q] : x < y =>
                   \/ y \in Cargo[q]
                   \/ Sealed(o) => Blocked(q)'
                   \/ \E p \in Place : Origin(p[1]) = o /\ y \in Cargo[p] /\ (Blocked(p) => Blocked(q)')
    PROVE  Closed(o, x)'
<1>1. Sealed(o)' BY BlockedStays DEF Closed
<1>2. ASSUME NEW q \in Place, Origin(q[1])' = o, NEW y \in Cargo'[q], x < y PROVE Blocked(q)'
  <2>1. Origin(q[1]) = o BY <1>2, Places, BlockedStays
  <2>2. \/ y \in Cargo[q]
        \/ Sealed(o) => Blocked(q)'
        \/ \E p \in Place : Origin(p[1]) = o /\ y \in Cargo[p] /\ (Blocked(p) => Blocked(q)')
    BY <1>2, <2>1
  <2>3. CASE y \in Cargo[q]
    <3>1. Blocked(q) BY <1>2, <2>1, <2>3 DEF Closed
    <3> QED BY <3>1, BlockedStays
  <2>4. CASE Sealed(o) => Blocked(q)' BY <2>4 DEF Closed
  <2>5. ASSUME NEW p \in Place, Origin(p[1]) = o, y \in Cargo[p], Blocked(p) => Blocked(q)'
        PROVE  Blocked(q)'
    BY <1>2, <2>5 DEF Closed
  <2> QED BY <2>2, <2>3, <2>4, <2>5
<1> QED BY <1>1, <1>2 DEF Closed

LEMMA HoleStep == Types /\ ShapeInv /\ FinInv /\ OrderInv /\ HoleInv /\ [Next]_vars => HoleInv'
<1> SUFFICES ASSUME Types, ShapeInv, FinInv, OrderInv, HoleInv, [Next]_vars,
                    NEW o \in Dir, ~Overflown(o)', NEW x \in 1..taken'[o], Missing(o, x)'
             PROVE  Closed(o, x)'
  BY Zenon DEF HoleInv
<1> USE Ends
<1>1. Takes \/ (taken' = taken /\ (Moves \/ Loses)) BY CargoStep DEF OrderInv
<1>2. ~Overflown(o) BY BlockedStays
<1>3. \A p \in Place : Origin(p[1]) = o => x \notin Cargo'[p]
  <2> SUFFICES ASSUME NEW p \in Place, Origin(p[1]) = o PROVE x \notin Cargo'[p] OBVIOUS
  <2>1. Origin(p[1])' = o BY BlockedStays, Places
  <2> QED BY <2>1 DEF Missing
<1>4. ASSUME x \in 1..taken[o], Missing(o, x) PROVE Closed(o, x) BY <1>2, <1>4 DEF HoleInv
<1>5. CASE Takes
  <2>1. PICK d \in Dir :
            /\ Origin(d) = d /\ task[Src(d)] = "relay" /\ ~done[Src(d)][d]
            /\ Cargo[<<d, 6>>] = {} /\ Cargo'[<<d, 6>>] = {taken[d] + 1}
            /\ \A r \in Place : r # <<d, 6>> => Cargo'[r] = Cargo[r]
            /\ taken' = [taken EXCEPT ![d] = @ + 1]
    BY <1>5 DEF Takes
  <2>2. taken[o] \in Nat /\ taken[d] \in Nat BY TypeFacts
  <2>3. taken \in [Dir -> Item] BY TypeFacts
  <2>4. <<d, 6>> \in Place /\ <<d, 6>>[1] = d BY Places
  <2>5. x \in 1..taken[o]
    <3>1. CASE o = d
      <4>1. taken'[o] = taken[o] + 1 BY <2>1, <2>3, <3>1
      <4>2. x # taken[o] + 1 BY <1>3, <2>1, <2>4, <3>1
      <4> QED BY ONLY <2>2, <4>1, <4>2, x \in 1..taken'[o]
    <3>2. CASE o # d BY <2>1, <2>3, <3>2
    <3> QED BY <3>1, <3>2
  <2>6. Missing(o, x)
    <3> SUFFICES ASSUME NEW p \in Place, Origin(p[1]) = o PROVE x \notin Cargo[p] BY DEF Missing
    <3>1. CASE p = <<d, 6>> BY <2>1, <3>1
    <3>2. CASE p # <<d, 6>> BY <1>3, <2>1, <3>2
    <3> QED BY <3>1, <3>2
  <2>7. Closed(o, x) BY <1>4, <2>5, <2>6
  <2>8. ASSUME NEW q \in Place, Origin(q[1]) = o, NEW y \in Cargo'[q], y \notin Cargo[q], Sealed(o)
        PROVE  Blocked(q)'
    <3>1. q = <<d, 6>> /\ o = d BY <2>1, <2>4, <2>8
    <3>2. Blocked(<<o, 6>>) BY <2>1, <2>8, <3>1 DEF Sealed
    <3> QED BY <2>8, <3>1, <3>2, BlockedStays
  <2> QED BY <2>7, <2>8, HoleStays
<1>6. CASE taken' = taken /\ Moves
  <2>0. PICK p, q \in Place :
            \E z : Carried(Cargo, Cargo', p, q, z) /\ (Blocked(p) => Blocked(q)')
    BY <1>6 DEF Moves
  <2>1. PICK z : Carried(Cargo, Cargo', p, q, z) /\ (Blocked(p) => Blocked(q)')
    BY <2>0
  <2>2. /\ Cargo[p] = Cargo'[p] \cup {z} /\ Cargo'[q] = Cargo[q] \cup {z}
        /\ \A r \in Place : r # p /\ r # q => Cargo'[r] = Cargo[r]
        /\ Origin(p[1]) = Origin(q[1]) /\ p # q
    BY <2>1, Line DEF Carried
  <2>3. Missing(o, x)
    <3> SUFFICES ASSUME NEW r \in Place, Origin(r[1]) = o PROVE x \notin Cargo[r] BY DEF Missing
    <3>1. CASE r = p
      <4>1. x \notin Cargo'[p] /\ x \notin Cargo'[q] BY <1>3, <2>2, <3>1
      <4> QED BY <2>2, <3>1, <4>1
    <3>2. CASE r # p BY <1>3, <2>2, <3>2
    <3> QED BY <3>1, <3>2
  <2>4. Closed(o, x) BY <1>4, <1>6, <2>3
  <2>5. ASSUME NEW r \in Place, Origin(r[1]) = o, NEW y \in Cargo'[r], y \notin Cargo[r]
        PROVE  Origin(p[1]) = o /\ y \in Cargo[p] /\ (Blocked(p) => Blocked(r)')
    <3>1. r = q \/ r = p BY <2>2, <2>5
    <3>2. r # p BY <2>2, <2>5
    <3>3. y = z BY <2>2, <2>5, <3>1, <3>2
    <3> QED BY <2>1, <2>2, <2>5, <3>1, <3>2, <3>3
  <2> QED BY <2>4, <2>5, HoleStays
<1>7. CASE taken' = taken /\ Loses
  <2>1. Shed(Cargo, Cargo') BY <1>7 DEF Loses
  <2>2. CASE Missing(o, x)
    <3>1. Closed(o, x) BY <1>4, <1>7, <2>2
    <3>2. \A q \in Place : \A y \in Cargo'[q] : y \in Cargo[q] BY <2>1 DEF Shed
    <3> QED BY <3>1, <3>2, HoleStays
  <2>3. CASE ~Missing(o, x)
    <3>1. PICK p \in Place : Origin(p[1]) = o /\ x \in Cargo[p] BY <2>3 DEF Missing
    <3>2. x \notin Cargo'[p] BY <1>3, <3>1
    <3>3. Overflown(Origin(p[1]))' \/ Enclosed(p, x)' BY <1>7, <3>1, <3>2 DEF Loses
    <3>4. Origin(p[1])' = o BY <3>1, Places, BlockedStays
    <3>5. ~Overflown(Origin(p[1]))' BY <3>4
    <3>6. Closed(Origin(p[1]), x)'
      <4>1. Enclosed(p, x)' BY <3>3, <3>5
      <4>2. echo' = echo /\ Ordered(Cargo, taken) BY BlockedStays DEF OrderInv
      <4> QED BY <2>1, <3>1, <4>1, <4>2, LossCloses
    <3> QED BY <3>4, <3>6
  <2> QED BY <2>2, <2>3
<1> QED BY <1>1, <1>5, <1>6, <1>7

-----------------------------------------------------------------------------
(* What was written to TCP has no hole.                                    *)

GotInv ==
    \A d \in Dir : ~Overflown(Origin(d)) => \A i \in 1..Len(got[d]) : got[d][i] = i

LEMMA GotInit == Init => GotInv
<1> SUFFICES ASSUME Init PROVE GotInv OBVIOUS
<1>1. \A d \in Dir : got[d] = <<>> BY DEF Init
<1> QED BY <1>1 DEF GotInv

LEMMA GotKind ==
    ASSUME [Next]_vars
    PROVE  got' = got \/ \E d \in Dir : TcpWrite(d)
<1>1. UNCHANGED vars => got' = got BY DEF vars, tcpVars
<1>2. Stops => got' = got BY DEF Stops, ThreadStops, tcpVars
<1>3. ASSUME NEW d \in Dir, Send(d) \/ OriginEnds(d) \/ Hop(d) \/ Transmit(d) \/ Deliver(d)
      PROVE  got' = got \/ TcpWrite(d)
  BY <1>3 DEF Send, OriginEnds, Hop, TcpRead, Write, ShutTransport, Read, ShutTcp, Transmit, Deliver, tcpVars
<1>4. ASSUME NEW s \in Side, Starts(s) \/ TaskEnds(s) \/ Learns(s) PROVE got' = got
  BY <1>4 DEF Starts, SetTask, TaskEnds, EndTask, Learns, Learn, tcpVars
<1> QED BY <1>1, <1>2, <1>3, <1>4, StepKind

\* The next chunk to be written is the one after the last that was.
LEMMA NextChunk ==
    ASSUME Types, ShapeInv, OrderInv, HoleInv, GotInv, NEW d \in Dir, d = "up" => ~echo,
           held[Dst(d)][d] # 0, ~Overflown(Origin(d))
    PROVE  held[Dst(d)][d] = Len(got[d]) + 1
<1> USE Ends
<1>1. PICK n, x, o : n = Len(got[d]) /\ x = held[Dst(d)][d] /\ o = Origin(d) OBVIOUS
<1>2. o \in Dir BY <1>1, Line
<1>3. n \in Nat
  <2>1. got[d] \in Seq(Item) BY QueueFacts
  <2> QED BY <1>1, <2>1
<1>4. \A i \in 1..n : got[d][i] = i BY <1>1 DEF GotInv
<1>5. /\ Cargo[<<d, 1>>] = Chunks(got[d]) /\ Cargo[<<d, 2>>] = {x}
  BY <1>1, CargoIs, InHandIs DEF Fin
<1>6. \A z : z \in Cargo[<<d, 1>>] <=> z \in 1..n
  <2>1. \A z : z \in Chunks(got[d]) <=> z # 0 /\ \E i \in 1..n : z = got[d][i] BY <1>1 DEF Chunks, Fin
  <2>2. \A z : z \in Chunks(got[d]) <=> z # 0 /\ \E i \in 1..n : z = i BY <1>4, <2>1
  <2>3. \A i \in 1..n : i # 0 BY <1>3
  <2> QED BY <1>5, <2>2, <2>3
<1>7. /\ <<d, 1>> \in Place /\ <<d, 1>>[1] = d /\ <<d, 1>>[2] = 1
      /\ <<d, 2>> \in Place /\ <<d, 2>>[1] = d /\ <<d, 2>>[2] = 2
  BY Places
<1>8. \A p, q \in Place : Ahead(p, q) => \A y \in Cargo[p], z \in Cargo[q] : y < z
  BY DEF OrderInv, Ordered
<1>9. x \in 1..taken[o]
  <2>1. Cargo[<<d, 2>>] \subseteq 1..taken[o] BY <1>1, <1>7, Zenon DEF OrderInv, Ordered
  <2> QED BY <1>5, <2>1
<1>10. taken[o] \in Nat BY <1>2, TypeFacts
<1>11. \A z \in 1..n : z < x
  <2>1. Ahead(<<d, 1>>, <<d, 2>>) BY NeighboursAre DEF Adjoins
  <2> QED BY <1>5, <1>6, <1>7, <1>8, <2>1
<1>12. x >= n + 1
  <2>1. x \in Nat /\ x > 0 BY <1>9, <1>10
  <2>2. n > 0 => n \in 1..n BY <1>3
  <2> QED BY ONLY <1>3, <1>11, <2>1, <2>2
<1>13. ASSUME x # n + 1 PROVE FALSE
  <2>1. PICK z : z = n + 1 OBVIOUS
  <2>2. z \in 1..taken[o] /\ z < x BY ONLY <1>3, <1>9, <1>10, <1>12, <1>13, <2>1
  <2>3. ASSUME NEW p \in Place, Origin(p[1]) = o, z \in Cargo[p] PROVE FALSE
    <3>1. p = <<d, 2>> \/ Ahead(p, <<d, 2>>) \/ Ahead(<<d, 2>>, p) BY <1>1, <1>7, <2>3, Line
    <3>2. CASE p = <<d, 2>>
      <4>1. z = x BY <1>5, <2>3, <3>2
      <4> QED BY <1>3, <1>13, <2>1, <4>1
    <3>3. CASE Ahead(<<d, 2>>, p)
      <4>1. x < z BY <1>5, <1>7, <1>8, <2>3, <3>3
      <4>2. x \in Nat /\ z \in Nat BY <1>3, <1>9, <2>1
      <4> QED BY ONLY <2>2, <4>1, <4>2
    <3>4. CASE Ahead(p, <<d, 2>>)
      <4>1. p[1] \in Dir /\ p[2] \in 1..6 /\ p = <<p[1], p[2]>> BY Places
      <4>2. p[1] = d /\ p[2] = 1 BY <1>7, <3>4, <4>1 DEF Ahead, Pos, Origin, Dir
      <4>3. z \in 1..n BY <1>6, <2>3, <4>1, <4>2
      <4> QED BY ONLY <1>3, <2>1, <4>3
    <3> QED BY <3>1, <3>2, <3>3, <3>4
  <2>4. Closed(o, z) BY <1>1, <1>2, <2>2, <2>3 DEF HoleInv, Missing
  <2>5. Blocked(<<d, 2>>) BY <1>1, <1>5, <1>7, <2>2, <2>4 DEF Closed
  <2> QED BY <1>7, <2>5 DEF Blocked, BlockedIn
<1> QED BY <1>1, <1>13

LEMMA GotStep == Types /\ ShapeInv /\ OrderInv /\ HoleInv /\ GotInv /\ [Next]_vars => GotInv'
<1> SUFFICES ASSUME Types, ShapeInv, OrderInv, HoleInv, GotInv, [Next]_vars,
                    NEW e \in Dir, ~Overflown(Origin(e))', NEW i \in 1..Len(got'[e])
             PROVE  got'[e][i] = i
  BY Zenon DEF GotInv
<1>1. ~Overflown(Origin(e))
  <2>1. Origin(e) \in Dir /\ Origin(e)' = Origin(e) BY Line, BlockedStays
  <2> QED BY <2>1, BlockedStays
<1>2. \A j \in 1..Len(got[e]) : got[e][j] = j BY <1>1 DEF GotInv
<1>3. CASE got'[e] = got[e] BY <1>2, <1>3
<1>4. ASSUME NEW d \in Dir, TcpWrite(d), got'[e] # got[e] PROVE got'[e][i] = i
  <2>1. PICK x : x = held[Dst(d)][d] OBVIOUS
  <2>2. x # 0 /\ (d = "up" => ~echo) /\ got' = [got EXCEPT ![d] = Append(@, x)]
    BY <1>4, <2>1 DEF TcpWrite
  <2>3. e = d /\ got'[e] = Append(got[e], x)
    <3>1. got \in [Dir -> Seq(Item \ {Fin})] BY TypeFacts
    <3> QED BY <1>4, <2>2, <3>1
  <2>4. x = Len(got[e]) + 1 BY <1>1, <2>1, <2>2, <2>3, NextChunk
  <2>5. got[e] \in Seq(Item) /\ x \in Item
    <3>1. held \in [Side -> [Dir -> Item]] BY TypeFacts
    <3> QED BY <2>1, <3>1, Ends, QueueFacts
  <2>6. /\ Len(Append(got[e], x)) = Len(got[e]) + 1 /\ Len(got[e]) \in Nat
        /\ \A j \in 1..Len(got[e]) : Append(got[e], x)[j] = got[e][j]
        /\ Append(got[e], x)[Len(got[e]) + 1] = x
    BY <2>5
  <2>7. i \in 1..Len(got[e]) \/ i = Len(got[e]) + 1 BY <2>3, <2>6
  <2> QED BY <1>2, <2>3, <2>4, <2>6, <2>7
<1> QED BY <1>3, <1>4, GotKind

-----------------------------------------------------------------------------

DeliveryInv == Types /\ ShapeInv /\ FinInv /\ OrderInv /\ HoleInv /\ GotInv

LEMMA DeliveryInit == Init => DeliveryInv
BY TypesInit, ShapeInit, FinInit, OrderInit, HoleInit, GotInit DEF DeliveryInv

LEMMA DeliveryStep == DeliveryInv /\ [Next]_vars => DeliveryInv'
BY TypesStep, ShapeStep, FinStep, OrderStep, HoleStep, GotStep DEF DeliveryInv

LEMMA DeliveryInductive == Spec => []DeliveryInv
BY DeliveryInit, DeliveryStep, PTL DEF Spec

\* Whatever fails, what is written to a TCP socket is in the order in which the
\* other one's peer sent it, no chunk twice; and nothing is left out unless a
\* receive channel of the slipstream bridge overflowed.
THEOREM InOrder == Spec => []DeliveredInOrder
<1>1. DeliveryInv => DeliveredInOrder
  <2> SUFFICES ASSUME DeliveryInv, NEW d \in Dir, NEW i \in 1..Len(got[d])
               PROVE  /\ \A j \in 1..(i - 1) : got[d][j] < got[d][i]
                      /\ (\A e \in Dir : <<"overflow", e>> \notin excuse) => got[d][i] = i
    BY Zenon DEF DeliveredInOrder
  <2>1. Sorted(got[d]) BY DEF DeliveryInv, OrderInv, SortedInv
  <2>2. Len(got[d]) \in Nat /\ \A j \in 1..Len(got[d]) : got[d][j] # Fin
    <3>1. got[d] \in Seq(Item \ {Fin}) BY QueueFacts DEF DeliveryInv
    <3> QED BY <3>1
  <2>3. ASSUME NEW j \in 1..(i - 1) PROVE got[d][j] < got[d][i]
    <3>1. j \in 1..Len(got[d]) /\ j < i BY <2>2
    <3> QED BY <2>1, <2>2, <3>1, Zenon DEF Sorted
  <2>4. ASSUME \A e \in Dir : <<"overflow", e>> \notin excuse PROVE got[d][i] = i
    <3>1. ~Overflown(Origin(d)) BY <2>4 DEF Overflown
    <3> QED BY <3>1 DEF DeliveryInv, GotInv
  <2> QED BY <2>3, <2>4
<1> QED BY <1>1, DeliveryInductive, PTL

-----------------------------------------------------------------------------
(* While one origin goes on, nothing is closed.                            *)

Failures == {"fault", "refused"}

\* Both tasks, the thread and the connection live, and no end is on the way e.
Quiet(e) ==
    /\ \A s \in Side : task[s] # "ended" /\ ~dead[s] /\ ~done[s][e]
    /\ ~gone
    /\ ~HasFin(sendQ[e]) /\ ~HasFin(net[e]) /\ ~HasFin(recvQ[e])

\* Faults are recorded for both directions, so that the other one tells.
QuietInv ==
    \A e \in Dir : ~over[e] /\ (echo => e = "up") /\ ~Excused(Back(e), Failures) => Quiet(e)

LEMMA Backs == \A d \in Dir : Back(d) \in Dir /\ Back(d) # d /\ Back(Back(d)) = d
BY DEF Back, Dir

LEMMA QuietInit == Init => QuietInv
<1> SUFFICES ASSUME Init, NEW e \in Dir PROVE Quiet(e)
  BY DEF QuietInv
<1>1. \A s \in Side : task[s] # "ended" /\ ~dead[s] /\ ~done[s][e] BY DEF Init, Side
<1>2. ~gone /\ sendQ[e] = <<>> /\ net[e] = <<>> /\ recvQ[e] = <<>> BY DEF Init
<1> QED BY <1>1, <1>2, FinEmpty DEF Quiet

LEMMA OverStays ==
    ASSUME Types, [Next]_vars
    PROVE  /\ \A d \in Dir : over[d] => over'[d]
           /\ \A causes : \A d \in Dir : ~Excused(d, causes)' => ~Excused(d, causes)
<1>1. over' = over \/ \E d \in Dir : OriginEnds(d)
  <2>1. UNCHANGED vars => over' = over BY DEF vars, tcpVars
  <2>2. Stops => over' = over BY DEF Stops, ThreadStops, tcpVars
  <2>3. ASSUME NEW d \in Dir, Send(d) \/ Hop(d) \/ Transmit(d) \/ Deliver(d) PROVE over' = over
    BY <2>3 DEF Send, Hop, TcpRead, Write, ShutTransport, Read, TcpWrite, ShutTcp, Transmit, Deliver, tcpVars
  <2>4. ASSUME NEW s \in Side, Starts(s) \/ TaskEnds(s) \/ Learns(s) PROVE over' = over
    BY <2>4 DEF Starts, SetTask, TaskEnds, EndTask, Learns, Learn, tcpVars
  <2> QED BY <2>1, <2>2, <2>3, <2>4, StepKind
<1>2. over \in [Dir -> BOOLEAN] BY TypeFacts
<1>3. ASSUME NEW e \in Dir, OriginEnds(e) PROVE \A d \in Dir : over[d] => over'[d]
  <2>1. over' = [over EXCEPT ![e] = TRUE] BY <1>3 DEF OriginEnds
  <2> QED BY <1>2, <2>1, Zenon
<1>4. excuse \subseteq excuse' BY Monotone
<1>5. \A causes : \A d \in Dir : ~Excused(d, causes)' => ~Excused(d, causes) BY <1>4 DEF Excused
<1> QED BY <1>1, <1>3, <1>5

LEMMA NoFinStays ==
    ASSUME NEW f \in [Dir -> Seq(Item)], NEW g, NEW e \in Dir, ~HasFin(f[e]),
           \/ g = f
           \/ \E d \in Dir : g = [f EXCEPT ![d] = <<>>]
           \/ \E d \in Dir : f[d] # <<>> /\ g = [f EXCEPT ![d] = Tail(@)]
           \/ \E d \in Dir, x \in Item : (d = e => x # Fin) /\ g = [f EXCEPT ![d] = Append(@, x)]
    PROVE  ~HasFin(g[e])
<1>1. f[e] \in Seq(Item) OBVIOUS
<1>2. \/ g[e] = f[e] \/ g[e] = <<>>
      \/ f[e] # <<>> /\ g[e] = Tail(f[e])
      \/ \E x \in Item : x # Fin /\ g[e] = Append(f[e], x)
  OBVIOUS
<1>3. CASE g[e] = f[e] BY <1>3
<1>4. CASE g[e] = <<>> BY <1>4, FinEmpty
<1>5. CASE f[e] # <<>> /\ g[e] = Tail(f[e]) BY <1>1, <1>5, FinTail
<1>6. ASSUME NEW x \in Item, x # Fin, g[e] = Append(f[e], x) PROVE ~HasFin(g[e])
  BY <1>1, <1>6, FinAppend
<1> QED BY <1>2, <1>3, <1>4, <1>5, <1>6

LEMMA NoFinTail ==
    ASSUME NEW f \in [Dir -> Seq(Item)], NEW e \in Dir, ~HasFin(f[e]), NEW d \in Dir, f[d] # <<>>,
           NEW g, g = [f EXCEPT ![d] = Tail(@)]
    PROVE  ~HasFin(g[e])
<1>1. \E c \in Dir : f[c] # <<>> /\ g = [f EXCEPT ![c] = Tail(@)] OBVIOUS
<1> QED BY <1>1, NoFinStays

\* A quiet way is not at its end.
LEMMA NotAtEnd ==
    ASSUME Types, NEW e \in Dir, Quiet(e)
    PROVE  ~AtEnd(e) /\ \A s \in Side : ~Broken(s)
<1>1. \A s \in Side : ~Broken(s) BY DEF Quiet, Broken
<1>2. ~(recvQ[e] # <<>> /\ Head(recvQ[e]) = Fin) BY QueueFacts, FinTail DEF Quiet
<1> QED BY <1>1, <1>2, Ends DEF AtEnd

LEMMA QuietStep == Types /\ QuietInv /\ [Next]_vars => QuietInv'
<1> SUFFICES ASSUME Types, QuietInv, [Next]_vars, NEW e \in Dir,
                    ~over'[e], echo' => e = "up", ~Excused(Back(e), Failures)'
             PROVE  Quiet(e)'
  BY Zenon DEF QuietInv
<1> USE Ends
<1>t. /\ task \in [Side -> {"none", "connecting", "starting", "relay", "ended"}]
      /\ done \in [Side -> [Dir -> BOOLEAN]] /\ Fin \in Item
      /\ sendQ \in [Dir -> Seq(Item)] /\ net \in [Dir -> Seq(Item)] /\ recvQ \in [Dir -> Seq(Item)]
  BY TypeFacts
<1>b. Back(e) \in Dir BY Backs
<1>c. echo' = echo /\ ~over[e] /\ ~Excused(Back(e), Failures)
  BY <1>b, OverStays, Monotone DEF echo
<1>q. Quiet(e) BY <1>c DEF QuietInv
<1>f. <<"fault", Back(e)>> \notin excuse' /\ <<"refused", Back(e)>> \notin excuse'
  BY DEF Excused, Failures
<1>r. <<"fault", Back(e)>> \in Faults /\ <<"refused", Back(e)>> \in {"refused"} \X Dir
  BY <1>b DEF Faults
<1>l. /\ \A s \in Side : task[s] # "ended" /\ ~dead[s] /\ ~done[s][e]
      /\ ~gone /\ ~HasFin(sendQ[e]) /\ ~HasFin(net[e]) /\ ~HasFin(recvQ[e])
  BY <1>q DEF Quiet
\* Where no task ends, only the queues can change.
<1>1. ASSUME \A s \in Side : task'[s] # "ended", dead' = dead, gone' = gone,
             \A s \in Side : done'[s][e] = done[s][e],
             ~HasFin(sendQ'[e]), ~HasFin(net'[e]), ~HasFin(recvQ'[e])
      PROVE  Quiet(e)'
  BY <1>1, <1>l DEF Quiet
<1>2. CASE UNCHANGED vars
  <2>1. UNCHANGED <<task, done, dead, gone, sendQ, net, recvQ>> BY <1>2 DEF vars, queues
  <2> QED BY <1>1, <1>l, <2>1
<1>3. CASE Stops
  <2>1. PICK why : StopReason(why) /\ ThreadStops(why) BY <1>3 DEF Stops
  <2>2. why \subseteq excuse' BY <2>1 DEF ThreadStops
  <2>3. "client" \in Side BY DEF Side
  <2> QED BY <1>f, <1>l, <1>r, <2>1, <2>2, <2>3 DEF StopReason
<1>4. ASSUME NEW d \in Dir, Send(d) \/ OriginEnds(d) \/ TcpRead(d) \/ TcpWrite(d) PROVE Quiet(e)'
  <2>1. UNCHANGED <<task, done, dead, gone, sendQ, net, recvQ>>
    BY <1>4 DEF Send, OriginEnds, TcpRead, TcpWrite, queues
  <2> QED BY <1>1, <1>l, <2>1
<1>5. ASSUME NEW d \in Dir, Write(d) PROVE Quiet(e)'
  <2>1. PICK x : x = held[Src(d)][HopTo(d)] OBVIOUS
  <2>2. x # Fin /\ Put(d, x) /\ UNCHANGED <<task, done, dead, gone, recvQ>> BY <1>5, <2>1 DEF Write, Fin
  <2>3. x \in Item BY <2>1, TypeFacts
  <2>4. \/ sendQ' = [sendQ EXCEPT ![d] = Append(@, x)] /\ net' = net
        \/ net' = [net EXCEPT ![d] = Append(@, x)] /\ sendQ' = sendQ
    BY <2>2, Zenon DEF Put
  <2>5. ~HasFin(sendQ'[e]) BY <1>l, <1>t, <2>2, <2>3, <2>4, NoFinStays
  <2>6. ~HasFin(net'[e]) BY <1>l, <1>t, <2>2, <2>3, <2>4, NoFinStays
  <2> QED BY <1>1, <1>l, <2>2, <2>5, <2>6
<1>6. ASSUME NEW d \in Dir, ShutTransport(d) PROVE Quiet(e)'
  <2>1. /\ over[d] /\ done' = [done EXCEPT ![Src(d)][d] = TRUE]
        /\ UNCHANGED <<task, dead, gone, recvQ>>
    BY <1>6 DEF ShutTransport
  <2>2. d # e BY <1>c, <2>1
  <2>3. \A s \in Side : done'[s][e] = done[s][e] BY <1>t, <2>1, <2>2
  <2>4. Put(d, Fin) \/ UNCHANGED <<sendQ, net>> BY <1>6, Zenon DEF ShutTransport
  <2>5. \/ sendQ' = [sendQ EXCEPT ![d] = Append(@, Fin)] /\ net' = net
        \/ net' = [net EXCEPT ![d] = Append(@, Fin)] /\ sendQ' = sendQ
        \/ sendQ' = sendQ /\ net' = net
    BY <2>4, Zenon DEF Put
  <2>6. ~HasFin(sendQ'[e]) BY <1>l, <1>t, <2>2, <2>5, NoFinStays
  <2>7. ~HasFin(net'[e]) BY <1>l, <1>t, <2>2, <2>5, NoFinStays
  <2> QED BY <1>1, <1>l, <2>1, <2>3, <2>6, <2>7
<1>7. ASSUME NEW d \in Dir, Read(d) PROVE Quiet(e)'
  <2>1. /\ recvQ[d] # <<>> /\ recvQ' = [recvQ EXCEPT ![d] = Tail(@)]
        /\ UNCHANGED <<task, done, dead, gone, sendQ, net>>
    BY <1>7 DEF Read
  <2>2. ~HasFin(recvQ'[e]) BY <1>l, <1>t, <2>1, NoFinTail
  <2> QED BY <1>1, <1>l, <2>1, <2>2
<1>8. ASSUME NEW d \in Dir, ShutTcp(d) PROVE Quiet(e)'
  <2>1. /\ AtEnd(d) /\ done' = [done EXCEPT ![Dst(d)][d] = TRUE]
        /\ UNCHANGED <<task, dead, gone, sendQ, net, recvQ>>
    BY <1>8 DEF ShutTcp, queues
  <2>2. d # e BY <1>q, <2>1, NotAtEnd
  <2>3. \A s \in Side : done'[s][e] = done[s][e] BY <1>t, <2>1, <2>2
  <2> QED BY <1>1, <1>l, <2>1, <2>3
<1>9. ASSUME NEW d \in Dir, Transmit(d) PROVE Quiet(e)'
  <2>1. PICK x : x = Head(sendQ[d]) OBVIOUS
  <2>2. /\ sendQ[d] # <<>> /\ sendQ' = [sendQ EXCEPT ![d] = Tail(@)]
        /\ UNCHANGED <<task, done, dead, gone, recvQ>>
        /\ net' = net \/ net' = [net EXCEPT ![d] = Append(@, x)]
    BY <1>9, <2>1 DEF Transmit
  <2>3. x \in Item /\ (d = e => x # Fin)
    <3>1. sendQ[d] \in Seq(Item) BY QueueFacts
    <3>2. x \in Item BY <2>1, <2>2, <3>1
    <3>3. x = Fin => HasFin(sendQ[d]) BY <2>1, <2>2, <3>1, FinTail
    <3> QED BY <1>l, <3>2, <3>3
  <2>4. ~HasFin(sendQ'[e]) BY <1>l, <1>t, <2>2, NoFinTail
  <2>5. ~HasFin(net'[e]) BY <1>l, <1>t, <2>2, <2>3, NoFinStays
  <2> QED BY <1>1, <1>l, <2>2, <2>4, <2>5
<1>10. ASSUME NEW d \in Dir, Deliver(d) PROVE Quiet(e)'
  <2>1. net[d] # <<>> /\ UNCHANGED <<done, dead, gone, sendQ>> BY <1>10 DEF Deliver
  <2>2. net[d] \in Seq(Item) BY QueueFacts
  <2>3. PICK x \in Item : /\ \E why : Arrive(d, x, why)
                          /\ x = Fin => HasFin(net[d])
                          /\ net' = [net EXCEPT ![d] = Tail(@)] \/ net' = [net EXCEPT ![d] = <<>>]
    <3>1. Head(net[d]) \in Item /\ (Head(net[d]) = Fin => HasFin(net[d])) BY <2>1, <2>2, FinTail
    <3>2. Len(net[d]) > 1 /\ net[d][2] = Fin => HasFin(net[d]) BY <2>2, FinSecond
    <3> QED BY <1>10, <1>t, <3>1, <3>2, Zenon DEF Deliver
  <2>4. /\ task' = task \/ (task[Dst(d)] = "none" /\ task' = [task EXCEPT ![Dst(d)] = "starting"])
        /\ Queued(d, x) \/ Dropped(d, x)
    BY <2>3, ArriveKind, Zenon
  <2>5. \A s \in Side : task'[s] # "ended" BY <1>l, <1>t, <2>4
  <2>6. recvQ' = recvQ \/ recvQ' = [recvQ EXCEPT ![d] = Append(@, x)] BY <2>4 DEF Queued, Dropped
  <2>7. d = e => x # Fin BY <1>l, <2>3
  <2>8. ~HasFin(recvQ'[e]) BY <1>l, <1>t, <2>6, <2>7, NoFinStays
  <2>9. ~HasFin(net'[e]) BY <1>l, <1>t, <2>1, <2>3, NoFinStays
  <2> QED BY <1>1, <1>l, <2>1, <2>5, <2>8, <2>9
<1>11. ASSUME NEW s \in Side, Starts(s) PROVE Quiet(e)'
  <2>1. /\ task' = [task EXCEPT ![s] = "relay"]
        /\ UNCHANGED <<done, dead, gone, sendQ, net, recvQ>>
    BY <1>11 DEF Starts, SetTask, queues
  <2>2. \A t \in Side : task'[t] # "ended" BY <1>l, <1>t, <2>1
  <2> QED BY <1>1, <1>l, <2>1, <2>2
<1>12. ASSUME NEW s \in Side, TaskEnds(s) PROVE FALSE
  <2>1. PICK why : EndReason(s, why) /\ EndTask(s, why) BY <1>12 DEF TaskEnds
  <2>2. why \subseteq excuse' BY <2>1 DEF EndTask
  <2>3. why # Faults /\ why # {"refused"} \X Dir BY <1>f, <1>r, <2>2
  <2>4. BothDone(s) \/ Broken(s) \/ dead[s] \/ (echo /\ AtEnd("up")) BY <2>1, <2>3 DEF EndReason
  <2>5. ~BothDone(s) BY <1>l DEF BothDone, Dir
  <2>6. ~Broken(s) /\ ~AtEnd(e) BY <1>q, NotAtEnd
  <2> QED BY <1>c, <1>l, <2>4, <2>5, <2>6
<1>13. ASSUME NEW s \in Side, Learns(s) PROVE FALSE
  <2>1. PICK why : LearnReason(s, why) /\ Learn(s, why) BY <1>13 DEF Learns
  <2>2. why \subseteq excuse'
    <3>1. CASE Arrive("down", Fin, why) BY <1>t, <3>1, ArriveKind DEF Dir
    <3>2. CASE excuse' = excuse \cup why BY <3>2
    <3> QED BY <2>1, <3>1, <3>2, Zenon DEF Learn
  <2>3. Other(s) \in Side BY DEF Other, Side
  <2> QED BY <1>f, <1>l, <1>r, <2>1, <2>2, <2>3 DEF LearnReason
<1> QED BY <1>2, <1>3, <1>4, <1>5, <1>6, <1>7, <1>8, <1>9, <1>10, <1>11, <1>12, <1>13, StepKind DEF Hop

-----------------------------------------------------------------------------
(* And nothing is lost on the way to the one that goes on.                 *)

IntactInv ==
    \A d \in Dir : ~echo /\ ~over[Back(d)] /\ ~Excused(d, Flaws) =>
        \A x \in 1..taken[d] : ~Missing(d, x)

\* What a way without flaws can count on.
Flawless(d) ==
    /\ ~Excused(d, Failures)
    /\ <<"overflow", d>> \notin excuse /\ <<"tail", d>> \notin excuse
    /\ ~echo => Origin(d) = d /\ ~Overflown(d)

LEMMA FlawFacts == ASSUME NEW d \in Dir, ~Excused(d, Flaws) PROVE Flawless(d)
<1>1. \A c \in Flaws : <<c, d>> \notin excuse BY DEF Excused
<1>2. /\ "fault" \in Flaws /\ "refused" \in Flaws /\ "overflow" \in Flaws /\ "tail" \in Flaws
      /\ Failures \subseteq Flaws
  BY DEF Flaws, Failures
<1>3. ~echo => Origin(d) = d /\ ~Overflown(d) BY <1>1, <1>2 DEF Origin, Overflown
<1> QED BY <1>1, <1>2, <1>3 DEF Excused, Flawless

LEMMA FlawFactsNext == ASSUME NEW d \in Dir, ~Excused(d, Flaws)' PROVE Flawless(d)'
BY FlawFacts, PTL

LEMMA IntactInit == Init => IntactInv
<1> SUFFICES ASSUME Init PROVE IntactInv OBVIOUS
<1>1. \A d \in Dir : taken[d] = 0 BY DEF Init
<1> QED BY <1>1 DEF IntactInv

LEMMA IntactStep ==
    Types /\ ShapeInv /\ FinInv /\ OrderInv /\ QuietInv /\ IntactInv /\ [Next]_vars => IntactInv'
<1> SUFFICES ASSUME Types, ShapeInv, FinInv, OrderInv, QuietInv, IntactInv, [Next]_vars,
                    NEW d \in Dir, ~echo', ~over'[Back(d)], ~Excused(d, Flaws)',
                    NEW x \in 1..taken'[d]
             PROVE  ~Missing(d, x)'
  BY Zenon DEF IntactInv
<1> USE Ends
<1>b. Back(d) \in Dir /\ Back(Back(d)) = d BY Backs
<1>c. ~echo /\ ~over[Back(d)] /\ ~Excused(d, Flaws) BY <1>b, OverStays, Monotone DEF echo
<1>k. \A e \in Dir : Origin(e)' = Origin(e) /\ Origin(e) = e BY <1>c, BlockedStays DEF Origin
<1>1. Takes \/ (taken' = taken /\ (Moves \/ Loses)) BY CargoStep DEF OrderInv
\* Whatever is not missing is still somewhere.
<1>2. ASSUME x \in 1..taken[d]
      PROVE  \E r \in Place : Origin(r[1]) = d /\ x \in Cargo[r]
  <2>1. ~Missing(d, x) BY <1>2, <1>c DEF IntactInv
  <2> QED BY <2>1 DEF Missing
<1>3. ASSUME NEW r \in Place, Origin(r[1]) = d, x \in Cargo'[r] PROVE ~Missing(d, x)'
  <2>1. Origin(r[1])' = d BY <1>3, <1>k, Places
  <2> QED BY <1>3, <2>1 DEF Missing
<1>4. CASE Takes
  <2>1. PICK e \in Dir :
            /\ Cargo[<<e, 6>>] = {} /\ Cargo'[<<e, 6>>] = {taken[e] + 1}
            /\ \A r \in Place : r # <<e, 6>> => Cargo'[r] = Cargo[r]
            /\ taken' = [taken EXCEPT ![e] = @ + 1]
    BY <1>4 DEF Takes
  <2>2. CASE x \in 1..taken[d]
    <3>1. PICK r \in Place : Origin(r[1]) = d /\ x \in Cargo[r] BY <1>2, <2>2
    <3>2. x \in Cargo'[r] BY <2>1, <3>1
    <3> QED BY <1>3, <3>1, <3>2
  <2>3. CASE x \notin 1..taken[d]
    <3>1. taken \in [Dir -> Item] /\ taken[d] \in Nat BY TypeFacts
    <3>2. taken'[d] = IF d = e THEN taken[d] + 1 ELSE taken[d] BY <2>1, <3>1
    <3>3. d = e /\ x = taken[d] + 1 BY <2>3, <3>1, <3>2
    <3>4. <<d, 6>> \in Place /\ <<d, 6>>[1] = d BY Places
    <3>5. x \in Cargo'[<<d, 6>>] BY <2>1, <3>3
    <3> QED BY <1>3, <1>k, <3>4, <3>5
  <2> QED BY <2>2, <2>3
<1>5. CASE taken' = taken /\ Moves
  <2>0. PICK p, q \in Place : \E z : Carried(Cargo, Cargo', p, q, z) BY <1>5 DEF Moves
  <2>1. PICK z : Carried(Cargo, Cargo', p, q, z) BY <2>0
  <2>2. /\ Cargo[p] = Cargo'[p] \cup {z} /\ Cargo'[q] = Cargo[q] \cup {z}
        /\ \A r \in Place : r # p /\ r # q => Cargo'[r] = Cargo[r]
        /\ Origin(p[1]) = Origin(q[1])
    BY <2>1, Line DEF Carried
  <2>3. PICK r \in Place : Origin(r[1]) = d /\ x \in Cargo[r] BY <1>2, <1>5
  <2>4. x \in Cargo'[r] \/ (r = p /\ x \in Cargo'[q]) BY <2>2, <2>3
  <2> QED BY <1>3, <2>2, <2>3, <2>4
<1>6. CASE taken' = taken /\ Loses
  <2>1. PICK r \in Place : Origin(r[1]) = d /\ x \in Cargo[r] BY <1>2, <1>6
  <2>2. r[1] = d BY <1>k, <2>1, Places
  <2>3. ~Overflown(Origin(r[1]))'
    <3>1. ~Overflown(d)' BY FlawFactsNext DEF Flawless
    <3> QED BY <1>k, <2>1, <2>2, <3>1
  <2>4. ~Enclosed(r, x)'
    <3>1. ~Excused(Back(Back(d)), Failures)' BY <1>b, FlawFactsNext DEF Flawless
    <3>2. Quiet(Back(d))'
      <4>1. QuietInv' BY QuietStep
      <4> QED BY <1>b, <3>1, <4>1 DEF QuietInv
    <3>3. \A s \in Side : ~Cut(s)' BY <3>2 DEF Quiet, Cut
    <3>4. <<"tail", d>> \notin excuse' BY FlawFactsNext DEF Flawless
    <3> QED BY <2>2, <3>3, <3>4 DEF Enclosed, Known
  <2>5. x \in Cargo'[r] BY <1>6, <2>1, <2>3, <2>4 DEF Loses
  <2> QED BY <1>3, <2>1, <2>5
<1> QED BY <1>1, <1>4, <1>5, <1>6

-----------------------------------------------------------------------------
(* Half-close.                                                             *)

LEMMA EndKind ==
    ASSUME Types, [Next]_vars, NEW d \in Dir, end'[d] # end[d]
    PROVE  ShutTcp(d) \/ \E s \in Side : TaskEnds(s)
<1>1. UNCHANGED vars => end' = end BY DEF vars, tcpVars
<1>2. Stops => end' = end BY DEF Stops, ThreadStops, tcpVars
<1>3. ASSUME NEW e \in Dir, Send(e) \/ OriginEnds(e) \/ TcpRead(e) \/ Write(e) \/ ShutTransport(e)
                            \/ Read(e) \/ TcpWrite(e) \/ Transmit(e) \/ Deliver(e)
      PROVE  end' = end
  BY <1>3 DEF Send, OriginEnds, TcpRead, Write, ShutTransport, Read, TcpWrite, Transmit, Deliver, tcpVars
<1>4. ASSUME NEW e \in Dir, ShutTcp(e) PROVE e = d
  <2>1. end' = [end EXCEPT ![e] = "fin"] BY <1>4 DEF ShutTcp, Shutdown
  <2>2. end \in [Dir -> {"open", "fin", "rst"}] BY TypeFacts
  <2> QED BY <2>1, <2>2
<1>5. ASSUME NEW s \in Side, Starts(s) \/ Learns(s) PROVE end' = end
  BY <1>5 DEF Starts, SetTask, Learns, Learn, tcpVars
<1> QED BY <1>1, <1>2, <1>3, <1>4, <1>5, StepKind DEF Hop

\* Once a way is used up and everything was written, it stays so.
LEMMA CompleteStays ==
    ASSUME Types, ShapeInv, OrderInv, HoleInv, GotInv, [Next]_vars,
           NEW d \in Dir, ~echo, ~Overflown(d), over[d], Len(got[d]) = sent[d]
    PROVE  Len(got'[d]) = sent'[d]
<1> USE Ends
<1>1. Origin(d) = d BY DEF Origin
<1>2. sent'[d] = sent[d]
  <2>1. UNCHANGED vars => sent' = sent BY DEF vars, tcpVars
  <2>2. Stops => sent' = sent BY DEF Stops, ThreadStops, tcpVars
  <2>3. ASSUME NEW e \in Dir, OriginEnds(e) \/ Hop(e) \/ Transmit(e) \/ Deliver(e) PROVE sent' = sent
    BY <2>3 DEF OriginEnds, Hop, TcpRead, Write, ShutTransport, Read, TcpWrite, ShutTcp, Transmit, Deliver, tcpVars
  <2>4. ASSUME NEW s \in Side, Starts(s) \/ TaskEnds(s) \/ Learns(s) PROVE sent' = sent
    BY <2>4 DEF Starts, SetTask, TaskEnds, EndTask, Learns, Learn, tcpVars
  <2>5. ASSUME NEW e \in Dir, Send(e) PROVE sent'[d] = sent[d]
    <3>1. ~over[e] /\ sent' = [sent EXCEPT ![e] = @ + 1] BY <2>5 DEF Send
    <3>2. sent \in [Dir -> Item] BY TypeFacts
    <3> QED BY <3>1, <3>2
  <2> QED BY <2>1, <2>2, <2>3, <2>4, <2>5, StepKind
<1>3. got'[d] = got[d]
  <2> SUFFICES ASSUME NEW e \in Dir, TcpWrite(e), e = d PROVE FALSE
    <3>1. got \in [Dir -> Seq(Item \ {Fin})] BY TypeFacts
    <3>2. ASSUME NEW e \in Dir, TcpWrite(e), e # d PROVE got'[d] = got[d]
      BY <3>1, <3>2 DEF TcpWrite
    <3> QED BY <3>2, GotKind
  <2>1. PICK x : x = held[Dst(d)][d] OBVIOUS
  <2>2. x # 0 BY <2>1 DEF TcpWrite
  <2>3. x = Len(got[d]) + 1 BY <1>1, <2>1, <2>2, NextChunk
  <2>4. x \in 1..taken[d]
    <3>1. x \in Cargo[<<d, 2>>] BY <2>1, <2>2, CargoIs, InHandIs DEF Fin
    <3>2. Cargo[<<d, 2>>] \subseteq 1..taken[d]
      <4>1. <<d, 2>> \in Place /\ <<d, 2>>[1] = d BY Places
      <4> QED BY <1>1, <4>1, Zenon DEF OrderInv, Ordered
    <3> QED BY <3>1, <3>2
  <2>5. taken[d] <= sent[d] BY DEF ShapeInv, DoneShape
  <2>6. taken[d] \in Nat /\ sent[d] \in Nat BY TypeFacts
  <2> QED BY <2>3, <2>4, <2>5, <2>6
<1> QED BY <1>2, <1>3

\* A receiver that goes on shuts down what it got only when it got everything.
LEMMA ShutsComplete ==
    ASSUME Types, ShapeInv, FinInv, OrderInv, GotInv, QuietInv, IntactInv,
           NEW d \in Dir, ShutTcp(d), ~over[Back(d)], ~Excused(d, Flaws)
    PROVE  ~echo /\ over[d] /\ Len(got[d]) = sent[d]
<1> USE Ends
<1>b. Back(d) \in Dir /\ Back(Back(d)) = d BY Backs
<1>1. /\ held[Dst(d)][d] = 0 /\ AtEnd(d) /\ (d = "up" => ~echo)
  BY DEF ShutTcp, Idle
<1>2. Quiet(Back(d))
  <2>1. ~Excused(Back(Back(d)), Failures) BY <1>b, FlawFacts DEF Flawless
  <2>2. echo => Back(d) = "up" BY <1>1 DEF Back, Dir
  <2> QED BY <1>b, <2>1, <2>2 DEF QuietInv
<1>3. /\ ~dead[Dst(d)] /\ recvQ[d] # <<>> /\ Head(recvQ[d]) = Fin
  <2>1. ~Broken(Dst(d)) BY <1>b, <1>2, NotAtEnd
  <2> QED BY <1>1, <1>2, <2>1 DEF AtEnd, Quiet
<1>4. recvQ[d] \in Seq(Item) BY QueueFacts
<1>5. HasFin(recvQ[d]) BY <1>3, <1>4, FinTail
<1>6. done[Src(d)][d] /\ FinLast(recvQ[d]) /\ sendQ[d] = <<>> /\ net[d] = <<>>
  BY <1>3, <1>5, Zenon DEF FinInv, RecvFin
<1>7. ~echo
  <2>1. echo => d = "down" BY <1>1 DEF Dir
  <2>2. echo => ~done[Src("down")]["down"] BY DEF ShapeInv, EchoShape
  <2> QED BY <1>6, <2>1, <2>2
<1>8. over[d] /\ taken[d] = sent[d] /\ held[Src(d)][d] = 0
  BY <1>6 DEF ShapeInv, DoneShape
<1>9. /\ Cargo[<<d, 2>>] = {} /\ Cargo[<<d, 3>>] = {} /\ Cargo[<<d, 4>>] = {}
      /\ Cargo[<<d, 5>>] = {} /\ Cargo[<<d, 6>>] = {}
  <2>1. Chunks(recvQ[d]) = {}
    <3>1. Tail(recvQ[d]) = <<>> BY <1>3, <1>4, <1>6, FinTail
    <3> QED BY <1>3, <1>4, <3>1, ChunksTail, ChunksEmpty, InHandIs
  <2>2. Chunks(sendQ[d]) = {} /\ Chunks(net[d]) = {} BY ONLY <1>6, ChunksEmpty
  <2>3. InHand(held[Dst(d)][d]) = {} /\ InHand(held[Src(d)][d]) = {}
    BY ONLY <1>1, <1>8, InHandIs DEF Fin
  <2> QED BY ONLY <2>1, <2>2, <2>3, CargoIs, d \in Dir
<1>10. \A x \in 1..taken[d] : x \in Cargo[<<d, 1>>]
  <2> SUFFICES ASSUME NEW x \in 1..taken[d] PROVE x \in Cargo[<<d, 1>>] OBVIOUS
  <2>1. ~Missing(d, x) BY <1>7 DEF IntactInv
  <2>2. PICK r \in Place : Origin(r[1]) = d /\ x \in Cargo[r] BY <2>1 DEF Missing
  <2>3. r[1] = d BY <1>7, <2>2 DEF Origin
  <2>4. PICK k \in 1..6 : r = <<d, k>> BY <2>3, Places
  <2>5. k = 1 \/ k = 2 \/ k = 3 \/ k = 4 \/ k = 5 \/ k = 6 OBVIOUS
  <2> QED BY <1>9, <2>2, <2>4, <2>5
<1>11. Cargo[<<d, 1>>] = {got[d][i] : i \in 1..Len(got[d])} \ {Fin} BY CargoIs DEF Chunks
<1>12. \A i \in 1..Len(got[d]) : got[d][i] = i
  <2>1. ~Overflown(Origin(d)) BY <1>7, FlawFacts DEF Flawless
  <2> QED BY <2>1 DEF GotInv
<1>13. Cargo[<<d, 1>>] \subseteq 1..taken[d]
  <2>1. <<d, 1>> \in Place /\ <<d, 1>>[1] = d /\ Origin(d) = d BY <1>7, Places DEF Origin
  <2> QED BY <2>1, Zenon DEF OrderInv, Ordered
<1>14. Len(got[d]) \in Nat /\ taken[d] \in Nat
  <2>1. got[d] \in Seq(Item) BY QueueFacts
  <2> QED BY <2>1, TypeFacts
<1>15. PICK n, t : n = Len(got[d]) /\ t = taken[d] OBVIOUS
<1>16. \A i \in 1..t : i \in 1..n BY <1>10, <1>11, <1>12, <1>15
<1>17. \A i \in 1..n : i \in 1..t
  <2> SUFFICES ASSUME NEW i \in 1..n PROVE i \in 1..t OBVIOUS
  <2>1. got[d][i] = i /\ i # Fin BY <1>12, <1>14, <1>15 DEF Fin
  <2>2. i \in Cargo[<<d, 1>>] BY <1>11, <1>15, <2>1
  <2> QED BY <1>13, <1>15, <2>2
<1>18. n = t
  <2>1. n \in Nat /\ t \in Nat BY <1>14, <1>15
  <2>2. t > 0 => t \in 1..n BY <1>16, <2>1
  <2>3. n > 0 => n \in 1..t BY <1>17, <2>1
  <2> QED BY ONLY <2>1, <2>2, <2>3
<1> QED BY <1>7, <1>8, <1>15, <1>18

CloseInv == DeliveryInv /\ QuietInv /\ IntactInv /\ HalfCloseIsComplete

LEMMA CloseInit == Init => CloseInv
<1>1. Init => HalfCloseIsComplete
  <2>1. Init => \A d \in Dir : end[d] = "open" BY DEF Init
  <2> QED BY <2>1 DEF HalfCloseIsComplete
<1> QED BY <1>1, DeliveryInit, QuietInit, IntactInit DEF CloseInv

LEMMA CloseStep == CloseInv /\ [Next]_vars => CloseInv'
<1> SUFFICES ASSUME CloseInv, [Next]_vars PROVE CloseInv' OBVIOUS
<1> USE Ends
<1>1. Types /\ ShapeInv /\ FinInv /\ OrderInv /\ HoleInv /\ GotInv /\ QuietInv /\ IntactInv
  BY DEF CloseInv, DeliveryInv
<1>2. DeliveryInv' /\ QuietInv' /\ IntactInv'
  BY <1>1, DeliveryStep, QuietStep, IntactStep DEF CloseInv
<1>3. HalfCloseIsComplete'
  <2> SUFFICES ASSUME NEW d \in Dir, end'[d] = "fin", ~over'[Back(d)], ~Excused(d, Flaws)'
               PROVE  over'[d] /\ Len(got'[d]) = sent'[d]
    BY Zenon DEF HalfCloseIsComplete, Flaws
  <2>b. Back(d) \in Dir /\ Back(Back(d)) = d BY Backs
  <2>1. ~over[Back(d)] /\ ~Excused(d, Flaws) BY <1>1, <2>b, OverStays
  <2>2. ~echo /\ over[d] /\ Len(got[d]) = sent[d]
    <3>1. CASE end[d] = "fin"
      <4>1. over[d] /\ Len(got[d]) = sent[d]
        BY <2>1, <3>1, Zenon DEF CloseInv, HalfCloseIsComplete, Flaws
      <4>2. echo => d = "down" /\ ~over["down"]
        BY <1>1, <3>1 DEF ShapeInv, EchoShape, Dir
      <4> QED BY <4>1, <4>2
    <3>2. CASE end[d] # "fin"
      <4>1. ShutTcp(d) \/ \E s \in Side : TaskEnds(s) BY <1>1, <3>2, EndKind
      <4>2. ASSUME NEW s \in Side, TaskEnds(s) PROVE FALSE
        <5>1. task'[s] = "ended"
          <6>1. PICK why : EndTask(s, why) BY <4>2 DEF TaskEnds
          <6>2. task' = [task EXCEPT ![s] = "ended"] BY <6>1 DEF EndTask
          <6> QED BY <1>1, <6>2, TypeFacts
        <5>2. echo' => Back(d) = "up"
          <6>1. echo' => end'["up"] = "open" BY <1>2 DEF DeliveryInv, ShapeInv, EchoShape
          <6> QED BY <6>1 DEF Back, Dir
        <5>3. ~Excused(Back(Back(d)), Failures)' BY <2>b, FlawFactsNext DEF Flawless
        <5>4. Quiet(Back(d))' BY <1>2, <2>b, <5>2, <5>3 DEF QuietInv
        <5> QED BY <5>1, <5>4 DEF Quiet
      <4> QED BY <1>1, <2>1, <4>1, <4>2, ShutsComplete
    <3> QED BY <3>1, <3>2
  <2>3. ~Overflown(d) BY <2>1, <2>2, FlawFacts DEF Flawless
  <2>4. over'[d] BY <1>1, <2>2, OverStays
  <2> QED BY <1>1, <2>2, <2>3, <2>4, CompleteStays
<1> QED BY <1>2, <1>3 DEF CloseInv

\* Half-close loses nothing: a receiver that has not ended its own direction sees a
\* clean end only when the origin ended, and then everything was written to it;
\* except after a fault, a refusal or one of slipstream's two known losses.
THEOREM HalfClose == Spec => []HalfCloseIsComplete
<1>1. CloseInv => HalfCloseIsComplete BY DEF CloseInv
<1> QED BY <1>1, CloseInit, CloseStep, PTL DEF Spec
=============================================================================
