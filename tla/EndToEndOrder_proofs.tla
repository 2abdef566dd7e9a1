------------------------ MODULE EndToEndOrder_proofs ------------------------
(***************************************************************************)
(* What EndToEnd delivers, and in which order: every chunk is in at most   *)
(* one of six places per direction, and the places keep the order of the   *)
(* chunks whatever is moved or lost.                                       *)
(***************************************************************************)
EXTENDS EndToEnd_proofs

-----------------------------------------------------------------------------
(* The places of a chunk on its way, from the far end back to its origin.  *)

Place == Dir \X (1..6)

Chunks(q) == {q[i] : i \in 1..Len(q)} \ {Fin}
InHand(x) == {x} \ {Fin}

Along(d) ==
    << Chunks(got[d]), InHand(held[Dst(d)][d]), Chunks(recvQ[d]),
       Chunks(net[d]), Chunks(sendQ[d]), InHand(held[Src(d)][d]) >>

Cargo == [p \in Place |-> Along(p[1])[p[2]]]

Pos(p) == IF echo /\ p[1] = "up" THEN p[2] + 6 ELSE p[2]
Ahead(p, q) == Origin(p[1]) = Origin(q[1]) /\ Pos(p) < Pos(q)

LEMMA Places ==
    /\ \A p \in Place : p[1] \in Dir /\ p[2] \in 1..6 /\ p = <<p[1], p[2]>>
    /\ \A d \in Dir, k \in 1..6 : <<d, k>> \in Place /\ <<d, k>>[1] = d /\ <<d, k>>[2] = k
    /\ \A d \in Dir : /\ <<d, 1>> \in Place /\ <<d, 2>> \in Place /\ <<d, 3>> \in Place
                     /\ <<d, 4>> \in Place /\ <<d, 5>> \in Place /\ <<d, 6>> \in Place
BY DEF Place

LEMMA CargoIs ==
    ASSUME NEW d \in Dir
    PROVE  /\ Cargo[<<d, 1>>] = Chunks(got[d])
           /\ Cargo[<<d, 2>>] = InHand(held[Dst(d)][d])
           /\ Cargo[<<d, 3>>] = Chunks(recvQ[d])
           /\ Cargo[<<d, 4>>] = Chunks(net[d])
           /\ Cargo[<<d, 5>>] = Chunks(sendQ[d])
           /\ Cargo[<<d, 6>>] = InHand(held[Src(d)][d])
<1>1. \A k \in 1..6 : Cargo[<<d, k>>] = Along(d)[k]
  BY Places DEF Cargo
<1> QED BY <1>1 DEF Along

LEMMA CargoIsNext ==
    ASSUME NEW d \in Dir
    PROVE  /\ Cargo'[<<d, 1>>] = Chunks(got'[d])
           /\ Cargo'[<<d, 2>>] = InHand(held'[Dst(d)][d])
           /\ Cargo'[<<d, 3>>] = Chunks(recvQ'[d])
           /\ Cargo'[<<d, 4>>] = Chunks(net'[d])
           /\ Cargo'[<<d, 5>>] = Chunks(sendQ'[d])
           /\ Cargo'[<<d, 6>>] = InHand(held'[Src(d)][d])
<1>1. \A k \in 1..6 : Cargo'[<<d, k>>] = Along(d)'[k]
  BY Places DEF Cargo
<1> QED BY <1>1 DEF Along

LEMMA Line ==
    /\ \A d \in Dir : Origin(d) \in Dir
    /\ \A p, q \in Place : Origin(p[1]) = Origin(q[1]) => p = q \/ Ahead(p, q) \/ Ahead(q, p)
    /\ \A p, q, r \in Place : Ahead(p, q) /\ Ahead(q, r) => Ahead(p, r)
    /\ \A p, q \in Place : Ahead(p, q) => Origin(p[1]) = Origin(q[1]) /\ p # q /\ ~Ahead(q, p)
<1>1. \A d \in Dir : Origin(d) \in Dir BY DEF Origin, Dir
<1>2. \A p \in Place : Pos(p) \in Nat BY Places DEF Pos
<1>3. ASSUME NEW p \in Place, NEW q \in Place, Origin(p[1]) = Origin(q[1]), Pos(p) = Pos(q) PROVE p = q
  <2>1. p[1] = q[1] /\ p[2] = q[2] BY <1>3, Places DEF Pos, Origin, Dir
  <2> QED BY <2>1, Places
<1>4. \A p, q \in Place : Origin(p[1]) = Origin(q[1]) => p = q \/ Ahead(p, q) \/ Ahead(q, p)
  BY ONLY <1>2, <1>3 DEF Ahead
<1>5. \A p, q, r \in Place : Ahead(p, q) /\ Ahead(q, r) => Ahead(p, r)
  BY ONLY <1>2 DEF Ahead
<1>6. \A p, q \in Place : Ahead(p, q) => Origin(p[1]) = Origin(q[1]) /\ p # q /\ ~Ahead(q, p)
  BY ONLY <1>2 DEF Ahead
<1> QED BY <1>1, <1>4, <1>5, <1>6

\* An order that no loss, no step forward and no new chunk breaks.
Ordered(C, t) ==
    /\ \A p, q \in Place : Ahead(p, q) => \A x \in C[p], y \in C[q] : x < y
    /\ \A p \in Place : C[p] \subseteq 1..t[Origin(p[1])]

Shed(C, D) == \A p \in Place : D[p] \subseteq C[p]

Carried(C, D, p, q, x) ==
    /\ Ahead(q, p) /\ \A r \in Place : Ahead(q, r) /\ Ahead(r, p) => C[r] = {}
    /\ x \in C[p] /\ C[p] = D[p] \cup {x} /\ \A y \in D[p] : x < y
    /\ D[q] = C[q] \cup {x}
    /\ \A r \in Place : r # p /\ r # q => D[r] = C[r]

LEMMA SheddingKeepsOrder ==
    ASSUME NEW C, NEW D, NEW t, Ordered(C, t), Shed(C, D)
    PROVE  Ordered(D, t)
BY DEF Ordered, Shed

LEMMA CarryingKeepsOrder ==
    ASSUME NEW C, NEW D, NEW t, Ordered(C, t), NEW p \in Place, NEW q \in Place, NEW x, Carried(C, D, p, q, x)
    PROVE  Ordered(D, t)
<1>1. p # q /\ Origin(p[1]) = Origin(q[1]) BY Line DEF Carried
<1>2. \A r \in Place : r # q => D[r] \subseteq C[r]
  BY <1>1 DEF Carried
<1>3. D[q] = C[q] \cup {x} /\ x \in C[p] BY DEF Carried
<1>4. \A r \in Place : D[r] \subseteq 1..t[Origin(r[1])]
  BY <1>1, <1>2, <1>3 DEF Ordered
<1>5. ASSUME NEW r \in Place, Ahead(r, q), NEW y \in D[r] PROVE y < x
  <2>1. Ahead(r, p) /\ r # q BY <1>5, Line DEF Carried
  <2> QED BY <1>2, <1>3, <1>5, <2>1 DEF Ordered
<1>6. ASSUME NEW r \in Place, Ahead(q, r), NEW y \in D[r] PROVE x < y
  <2>1. r = p \/ Ahead(r, p) \/ Ahead(p, r) BY <1>1, <1>6, Line
  <2>2. r # q BY <1>6, Line
  <2>3. CASE r = p BY <1>6, <2>3 DEF Carried
  <2>4. CASE Ahead(r, p)
    <3>1. C[r] = {} BY <1>6, <2>4 DEF Carried
    <3> QED BY <1>2, <1>6, <2>2, <3>1
  <2>5. CASE Ahead(p, r) BY <1>2, <1>3, <1>6, <2>2, <2>5 DEF Ordered
  <2> QED BY <2>1, <2>3, <2>4, <2>5
<1>7. ASSUME NEW r \in Place, NEW s \in Place, Ahead(r, s), NEW y \in D[r], NEW z \in D[s] PROVE y < z
  <2>1. CASE r # q /\ s # q BY <1>2, <1>7, <2>1 DEF Ordered
  <2>2. CASE r = q
    <3>1. s # q BY <1>7, <2>2, Line
    <3>2. z \in C[s] BY <1>2, <3>1
    <3>3. CASE y = x BY <1>6, <1>7, <2>2, <3>3
    <3>4. CASE y \in C[q] BY <1>7, <2>2, <3>2, <3>4 DEF Ordered
    <3> QED BY <1>3, <2>2, <3>3, <3>4
  <2>3. CASE s = q
    <3>1. r # q BY <1>7, <2>3, Line
    <3>2. y \in C[r] BY <1>2, <3>1
    <3>3. CASE z = x BY <1>5, <1>7, <2>3, <3>3
    <3>4. CASE z \in C[q] BY <1>7, <2>3, <3>2, <3>4 DEF Ordered
    <3> QED BY <1>3, <2>3, <3>3, <3>4
  <2> QED BY <2>1, <2>2, <2>3
<1> QED BY <1>4, <1>7 DEF Ordered

\* A chunk is new behind everything else of its origin.
LEMMA TakingKeepsOrder ==
    ASSUME NEW C, NEW D, NEW t \in [Dir -> Nat], Ordered(C, t), NEW d \in Dir, Origin(d) = d,
           \A r \in Place : ~Ahead(<<d, 6>>, r),
           D[<<d, 6>>] = {t[d] + 1}, \A r \in Place : r # <<d, 6>> => D[r] = C[r],
           NEW u, u = [t EXCEPT ![d] = @ + 1]
    PROVE  Ordered(D, u)
<1> DEFINE p == <<d, 6>>
<1>0. 6 \in 1..6 OBVIOUS
<1>1. p \in Place /\ p[1] = d BY <1>0, Places, Zenon
<1>2. \A e \in Dir : u[e] = IF e = d THEN t[e] + 1 ELSE t[e] OBVIOUS
<1>3. \A e \in Dir : t[e] \in Nat OBVIOUS
<1>4. ASSUME NEW r \in Place PROVE D[r] \subseteq 1..u[Origin(r[1])]
  <2>1. Origin(r[1]) \in Dir BY Line, Places
  <2>2. C[r] \subseteq 1..t[Origin(r[1])] BY DEF Ordered
  <2>3. 1..t[Origin(r[1])] \subseteq 1..u[Origin(r[1])] BY ONLY <1>2, <1>3, <2>1
  <2>4. CASE r # p BY <2>2, <2>3, <2>4
  <2>5. CASE r = p
    <3>1. Origin(r[1]) = d /\ D[r] = {t[d] + 1} BY <1>1, <2>5
    <3>2. u[d] = t[d] + 1 /\ t[d] \in Nat BY <1>2, <1>3
    <3> QED BY ONLY <3>1, <3>2
  <2> QED BY <2>4, <2>5
<1>5. ASSUME NEW r \in Place, NEW s \in Place, Ahead(r, s), NEW y \in D[r], NEW z \in D[s] PROVE y < z
  <2>1. r # p BY <1>5
  <2>2. y \in C[r] BY <1>5, <2>1
  <2>3. CASE s # p
    <3>1. z \in C[s] BY <1>5, <2>3
    <3> QED BY <1>5, <2>2, <3>1 DEF Ordered
  <2>4. CASE s = p
    <3>1. Origin(r[1]) = d BY <1>1, <1>5, <2>4, Line
    <3>2. y \in 1..t[d] BY <2>2, <3>1 DEF Ordered
    <3>3. z = t[d] + 1 /\ t[d] \in Nat BY <1>3, <1>5, <2>4
    <3> QED BY ONLY <3>2, <3>3
  <2> QED BY <2>3, <2>4
<1> QED BY <1>4, <1>5 DEF Ordered

-----------------------------------------------------------------------------
(* The queues: in order, but for the ends in them.                         *)

Sorted(q) == \A i, j \in 1..Len(q) : i < j => q[i] = Fin \/ q[j] = Fin \/ q[i] < q[j]

LEMMA ChunksEmpty == Chunks(<<>>) = {} /\ Sorted(<<>>)
BY DEF Chunks, Sorted

LEMMA InHandIs == \A x : InHand(x) = IF x = Fin THEN {} ELSE {x}
BY DEF InHand

LEMMA ChunksAppend ==
    ASSUME NEW q \in Seq(Item), NEW x \in Item
    PROVE  /\ Chunks(Append(q, x)) = Chunks(q) \cup InHand(x)
           /\ Sorted(q) /\ (x = Fin \/ \A y \in Chunks(q) : y < x) => Sorted(Append(q, x))
<1>1. /\ Len(Append(q, x)) = Len(q) + 1 /\ Len(q) \in Nat
      /\ \A i \in 1..Len(q) : Append(q, x)[i] = q[i]
      /\ Append(q, x)[Len(q) + 1] = x
  OBVIOUS
<1>2. \A i \in 1..(Len(q) + 1) : i \in 1..Len(q) \/ i = Len(q) + 1 BY <1>1
<1>3. \A i \in 1..Len(q) : i \in 1..(Len(q) + 1) BY <1>1
<1>4. Len(q) + 1 \in 1..(Len(q) + 1) BY <1>1
<1>5. Chunks(Append(q, x)) = Chunks(q) \cup InHand(x)
  BY ONLY <1>1, <1>2, <1>3, <1>4 DEF Chunks, InHand
<1>6. ASSUME Sorted(q), x = Fin \/ \A y \in Chunks(q) : y < x PROVE Sorted(Append(q, x))
  <2> SUFFICES ASSUME NEW i \in 1..(Len(q) + 1), NEW j \in 1..(Len(q) + 1), i < j,
                      Append(q, x)[i] # Fin, Append(q, x)[j] # Fin
               PROVE  Append(q, x)[i] < Append(q, x)[j]
    BY <1>1 DEF Sorted
  <2>1. i \in 1..Len(q) /\ Append(q, x)[i] = q[i] BY <1>1, <1>2
  <2>2. CASE j \in 1..Len(q)
    <3>1. Append(q, x)[j] = q[j] BY <1>1, <2>2
    <3> QED BY <1>6, <2>1, <2>2, <3>1, Zenon DEF Sorted
  <2>3. CASE j = Len(q) + 1
    <3>1. Append(q, x)[j] = x BY <1>1, <2>3
    <3>2. q[i] \in Chunks(q) BY <2>1, Zenon DEF Chunks
    <3> QED BY <1>6, <2>1, <3>1, <3>2, Zenon
  <2> QED BY <1>2, <2>2, <2>3
<1> QED BY <1>5, <1>6

LEMMA ChunksTail ==
    ASSUME NEW q \in Seq(Item), q # <<>>
    PROVE  /\ Chunks(q) = Chunks(Tail(q)) \cup InHand(Head(q))
           /\ Sorted(q) => Sorted(Tail(q))
           /\ Sorted(q) /\ Head(q) # Fin => \A y \in Chunks(Tail(q)) : Head(q) < y
<1>1. /\ Len(Tail(q)) = Len(q) - 1 /\ Len(q) \in Nat /\ Len(q) > 0
      /\ \A i \in 1..(Len(q) - 1) : Tail(q)[i] = q[i + 1]
      /\ Head(q) = q[1]
  OBVIOUS
<1>2. \A i \in 1..(Len(q) - 1) : i + 1 \in 1..Len(q) /\ 1 < i + 1 BY <1>1
<1>3. \A i \in 1..Len(q) : i = 1 \/ (i - 1 \in 1..(Len(q) - 1) /\ (i - 1) + 1 = i) BY <1>1
<1>4. 1 \in 1..Len(q) BY <1>1
<1>5. Chunks(q) = Chunks(Tail(q)) \cup InHand(Head(q))
  <2>1. \A y \in Chunks(q) : y \in Chunks(Tail(q)) \cup InHand(Head(q))
    <3> SUFFICES ASSUME NEW i \in 1..Len(q), q[i] # Fin
                 PROVE  q[i] \in Chunks(Tail(q)) \cup InHand(Head(q))
      BY DEF Chunks
    <3>1. CASE i = 1 BY <1>1, <3>1 DEF InHand
    <3>2. CASE i - 1 \in 1..(Len(q) - 1) /\ (i - 1) + 1 = i
      <4>1. Tail(q)[i - 1] = q[i] BY <1>1, <3>2
      <4>2. i - 1 \in 1..Len(Tail(q)) BY <1>1, <3>2
      <4> QED BY <4>1, <4>2 DEF Chunks
    <3> QED BY <1>3, <3>1, <3>2
  <2>2. \A y \in Chunks(Tail(q)) : y \in Chunks(q)
    <3> SUFFICES ASSUME NEW i \in 1..Len(Tail(q)), Tail(q)[i] # Fin PROVE Tail(q)[i] \in Chunks(q)
      BY DEF Chunks
    <3>1. i \in 1..(Len(q) - 1) BY <1>1
    <3> QED BY <1>1, <1>2, <3>1 DEF Chunks
  <2>3. \A y \in InHand(Head(q)) : y \in Chunks(q) BY <1>1, <1>4 DEF Chunks, InHand
  <2> QED BY <2>1, <2>2, <2>3
<1>6. ASSUME Sorted(q) PROVE Sorted(Tail(q))
  <2> SUFFICES ASSUME NEW i \in 1..Len(Tail(q)), NEW j \in 1..Len(Tail(q)), i < j,
                      Tail(q)[i] # Fin, Tail(q)[j] # Fin
               PROVE  Tail(q)[i] < Tail(q)[j]
    BY DEF Sorted
  <2>1. i \in 1..(Len(q) - 1) /\ j \in 1..(Len(q) - 1) BY <1>1
  <2>2. Tail(q)[i] = q[i + 1] /\ Tail(q)[j] = q[j + 1] /\ i + 1 \in 1..Len(q) /\ j + 1 \in 1..Len(q)
    BY <1>1, <1>2, <2>1
  <2>3. i + 1 < j + 1 BY <2>1
  <2> QED BY <1>6, <2>2, <2>3, Zenon DEF Sorted
<1>7. ASSUME Sorted(q), Head(q) # Fin PROVE \A y \in Chunks(Tail(q)) : Head(q) < y
  <2> SUFFICES ASSUME NEW i \in 1..Len(Tail(q)), Tail(q)[i] # Fin PROVE Head(q) < Tail(q)[i]
    BY DEF Chunks
  <2>1. i \in 1..(Len(q) - 1) BY <1>1
  <2>2. Tail(q)[i] = q[i + 1] /\ i + 1 \in 1..Len(q) /\ 1 < i + 1 BY <1>1, <1>2, <2>1
  <2>3. q[1] # Fin /\ Head(q) = q[1] BY <1>1, <1>7
  <2> QED BY <1>4, <1>7, <2>2, <2>3, Zenon DEF Sorted
<1> QED BY <1>5, <1>6, <1>7

-----------------------------------------------------------------------------
(* Where nothing passes any more, and which steps lose what.               *)

Cut(s) == task[s] = "ended" \/ dead[s]

\* What is at <<d, k>> does not reach the far end.
BlockedIn(d, k) == (k >= 4 /\ Cut(Dst(d))) \/ (k >= 5 /\ dead[Src(d)])
Blocked(p) == BlockedIn(p[1], p[2]) \/ (echo /\ p[1] = "up" /\ BlockedIn("down", 5))

\* Nothing new gets through from the origin.
Sealed(o) == Blocked(<<o, 6>>) \/ task[Src(o)] = "ended" \/ done[Src(o)][o]

Missing(o, x) == \A p \in Place : Origin(p[1]) = o => x \notin Cargo[p]

\* Nothing behind x can reach the far end without it.
Closed(o, x) ==
    /\ \A p \in Place : Origin(p[1]) = o => \A y \in Cargo[p] : x < y => Blocked(p)
    /\ Sealed(o)

\* Why something is lost on the way d, apart from an overflow.
Known(d) == (\E s \in Side : Cut(s)) \/ <<"tail", d>> \in excuse

\* The same as Closed, seen from the place where x was lost.
Enclosed(p, x) ==
    /\ Known(p[1])
    /\ \A k \in p[2]..6 : \A y \in Cargo[<<p[1], k>>] : x < y => BlockedIn(p[1], k)
    /\ echo /\ p[1] = "down" => BlockedIn("down", 5)
    /\ Sealed(Origin(p[1]))

\* The three things a step does to the chunks on their way.
Moves ==
    \E p, q \in Place : \E x : Carried(Cargo, Cargo', p, q, x) /\ (Blocked(p) => Blocked(q)')

Takes ==
    \E d \in Dir :
        /\ Origin(d) = d /\ \A r \in Place : ~Ahead(<<d, 6>>, r)
        /\ task[Src(d)] = "relay" /\ ~done[Src(d)][d]
        /\ Cargo[<<d, 6>>] = {} /\ Cargo'[<<d, 6>>] = {taken[d] + 1}
        /\ \A r \in Place : r # <<d, 6>> => Cargo'[r] = Cargo[r]
        /\ taken' = [taken EXCEPT ![d] = @ + 1]

Loses ==
    /\ Shed(Cargo, Cargo')
    /\ \A p \in Place : \A x \in Cargo[p] : x \in Cargo'[p] \/ Overflown(Origin(p[1]))' \/ Enclosed(p, x)'

LEMMA CargoFrame ==
    ASSUME NEW r \in Place,
           r[2] = 1 => got'[r[1]] = got[r[1]],
           r[2] = 2 => held'[Dst(r[1])][r[1]] = held[Dst(r[1])][r[1]],
           r[2] = 3 => recvQ'[r[1]] = recvQ[r[1]],
           r[2] = 4 => net'[r[1]] = net[r[1]],
           r[2] = 5 => sendQ'[r[1]] = sendQ[r[1]],
           r[2] = 6 => held'[Src(r[1])][r[1]] = held[Src(r[1])][r[1]]
    PROVE  Cargo'[r] = Cargo[r]
<1>1. r[1] \in Dir /\ r[2] \in 1..6 /\ r = <<r[1], r[2]>> BY Places
<1>2. PICK d \in Dir, k \in 1..6 : d = r[1] /\ k = r[2] BY <1>1
<1>3. r = <<d, k>> BY <1>1, <1>2
<1>4. k = 1 \/ k = 2 \/ k = 3 \/ k = 4 \/ k = 5 \/ k = 6 OBVIOUS
<1>5. CASE k = 1
  <2>1. got'[d] = got[d] BY <1>2, <1>5
  <2>2. Cargo'[<<d, 1>>] = Chunks(got'[d]) /\ Cargo[<<d, 1>>] = Chunks(got[d])
    BY CargoIs, CargoIsNext
  <2> QED BY ONLY <1>3, <1>5, <2>1, <2>2
<1>6. CASE k = 2
  <2>1. held'[Dst(d)][d] = held[Dst(d)][d] BY <1>2, <1>6
  <2>2. Cargo'[<<d, 2>>] = InHand(held'[Dst(d)][d]) /\ Cargo[<<d, 2>>] = InHand(held[Dst(d)][d])
    BY CargoIs, CargoIsNext
  <2> QED BY ONLY <1>3, <1>6, <2>1, <2>2
<1>7. CASE k = 3
  <2>1. recvQ'[d] = recvQ[d] BY <1>2, <1>7
  <2>2. Cargo'[<<d, 3>>] = Chunks(recvQ'[d]) /\ Cargo[<<d, 3>>] = Chunks(recvQ[d])
    BY CargoIs, CargoIsNext
  <2> QED BY ONLY <1>3, <1>7, <2>1, <2>2
<1>8. CASE k = 4
  <2>1. net'[d] = net[d] BY <1>2, <1>8
  <2>2. Cargo'[<<d, 4>>] = Chunks(net'[d]) /\ Cargo[<<d, 4>>] = Chunks(net[d])
    BY CargoIs, CargoIsNext
  <2> QED BY ONLY <1>3, <1>8, <2>1, <2>2
<1>9. CASE k = 5
  <2>1. sendQ'[d] = sendQ[d] BY <1>2, <1>9
  <2>2. Cargo'[<<d, 5>>] = Chunks(sendQ'[d]) /\ Cargo[<<d, 5>>] = Chunks(sendQ[d])
    BY CargoIs, CargoIsNext
  <2> QED BY ONLY <1>3, <1>9, <2>1, <2>2
<1>10. CASE k = 6
  <2>1. held'[Src(d)][d] = held[Src(d)][d] BY <1>2, <1>10
  <2>2. Cargo'[<<d, 6>>] = InHand(held'[Src(d)][d]) /\ Cargo[<<d, 6>>] = InHand(held[Src(d)][d])
    BY CargoIs, CargoIsNext
  <2> QED BY ONLY <1>3, <1>10, <2>1, <2>2
<1> QED BY <1>4, <1>5, <1>6, <1>7, <1>8, <1>9, <1>10

LEMMA SameLoses ==
    ASSUME \A r \in Place : Cargo'[r] = Cargo[r]
    PROVE  Loses
BY DEF Loses, Shed

\* Nothing lies between neighbours.
Adjoins(q, p) == Ahead(q, p) /\ \A r \in Place : ~(Ahead(q, r) /\ Ahead(r, p))

LEMMA Neighbours ==
    ASSUME NEW d \in Dir, NEW k \in 1..5
    PROVE  Adjoins(<<d, k>>, <<d, k + 1>>)
<1>1. /\ <<d, k>>[1] = d /\ <<d, k>>[2] = k
      /\ <<d, k + 1>>[1] = d /\ <<d, k + 1>>[2] = k + 1
  OBVIOUS
<1>2. Ahead(<<d, k>>, <<d, k + 1>>) BY <1>1 DEF Ahead, Pos
<1>3. ASSUME NEW r \in Place, Ahead(<<d, k>>, r), Ahead(r, <<d, k + 1>>) PROVE FALSE
  <2>1. r[1] \in Dir /\ r[2] \in 1..6 BY Places
  <2> QED BY <1>1, <1>3, <2>1 DEF Ahead, Pos, Origin, Dir
<1> QED BY <1>2, <1>3 DEF Adjoins

LEMMA NeighboursAre ==
    ASSUME NEW d \in Dir
    PROVE  /\ Adjoins(<<d, 1>>, <<d, 2>>) /\ Adjoins(<<d, 2>>, <<d, 3>>) /\ Adjoins(<<d, 3>>, <<d, 4>>)
           /\ Adjoins(<<d, 4>>, <<d, 5>>) /\ Adjoins(<<d, 5>>, <<d, 6>>)
<1>1. \A k, l : k \in 1..5 /\ l = k + 1 => Adjoins(<<d, k>>, <<d, l>>) BY Neighbours
<1>2. /\ 1 \in 1..5 /\ 2 \in 1..5 /\ 3 \in 1..5 /\ 4 \in 1..5 /\ 5 \in 1..5
      /\ 2 = 1 + 1 /\ 3 = 2 + 1 /\ 4 = 3 + 1 /\ 5 = 4 + 1 /\ 6 = 5 + 1
  OBVIOUS
<1>3. Adjoins(<<d, 1>>, <<d, 2>>) BY ONLY <1>1, <1>2
<1>4. Adjoins(<<d, 2>>, <<d, 3>>) BY ONLY <1>1, <1>2
<1>5. Adjoins(<<d, 3>>, <<d, 4>>) BY ONLY <1>1, <1>2
<1>6. Adjoins(<<d, 4>>, <<d, 5>>) BY ONLY <1>1, <1>2
<1>7. Adjoins(<<d, 5>>, <<d, 6>>) BY ONLY <1>1, <1>2
<1> QED BY <1>3, <1>4, <1>5, <1>6, <1>7

LEMMA NothingBehind ==
    ASSUME NEW d \in Dir, Origin(d) = d
    PROVE  \A r \in Place : ~Ahead(<<d, 6>>, r)
<1> SUFFICES ASSUME NEW r \in Place, Ahead(<<d, 6>>, r) PROVE FALSE OBVIOUS
<1>1. r[1] \in Dir /\ r[2] \in 1..6 BY Places
<1>2. <<d, 6>>[1] = d /\ <<d, 6>>[2] = 6 OBVIOUS
<1> QED BY <1>1, <1>2 DEF Ahead, Pos, Origin, Dir

LEMMA BehindIs ==
    ASSUME NEW p \in Place, NEW q \in Place, q = p \/ Ahead(p, q)
    PROVE  (q[1] = p[1] /\ q[2] \in p[2]..6) \/ (echo /\ p[1] = "down" /\ q[1] = "up")
<1>1. p[1] \in Dir /\ p[2] \in 1..6 /\ q[1] \in Dir /\ q[2] \in 1..6 BY Places
<1> QED BY <1>1 DEF Ahead, Pos, Origin, Dir

LEMMA FarSealed ==
    ASSUME NEW d \in Dir, BlockedIn(d, 5)
    PROVE  Sealed(Origin(d))
<1>1. BlockedIn(d, 6) BY DEF BlockedIn
<1>2. CASE echo /\ d = "down" BY <1>2 DEF Origin, Sealed, Blocked
<1>3. CASE ~(echo /\ d = "down")
  <2>1. Origin(d) = d BY <1>3 DEF Origin, Dir
  <2>2. <<d, 6>>[1] = d /\ <<d, 6>>[2] = 6 OBVIOUS
  <2> QED BY <1>1, <2>1, <2>2 DEF Sealed, Blocked
<1> QED BY <1>2, <1>3

LEMMA FarSealedNext ==
    ASSUME NEW d \in Dir, BlockedIn(d, 5)'
    PROVE  Sealed(Origin(d))'
BY FarSealed, PTL

\* A chunk that is lost in an enclosed place leaves no hole behind.
LEMMA LossCloses ==
    ASSUME Ordered(Cargo, taken), Shed(Cargo, Cargo'), echo' = echo,
           NEW p \in Place, NEW x \in Cargo[p], Enclosed(p, x)'
    PROVE  Closed(Origin(p[1]), x)'
<1>0. \A d \in Dir : Origin(d)' = Origin(d) BY DEF Origin
<1>1. p[1] \in Dir /\ p[2] \in 1..6 /\ p = <<p[1], p[2]>> BY Places
<1>2. Sealed(Origin(p[1]))' BY DEF Enclosed
<1>3. ASSUME NEW q \in Place, Origin(q[1]) = Origin(p[1]), NEW y \in Cargo'[q], x < y PROVE Blocked(q)'
  <2>1. y \in Cargo[q] BY <1>3 DEF Shed
  <2>2. ~Ahead(q, p)
    <3>1. Ahead(q, p) => y < x BY <2>1 DEF Ordered
    <3>2. x \in Nat /\ y \in Nat BY <2>1 DEF Ordered
    <3> QED BY <1>3, <3>1, <3>2
  <2>3. q = p \/ Ahead(p, q) BY <1>3, <2>2, Line
  <2>4. q = <<q[1], q[2]>> BY Places
  <2>5. CASE q[1] = p[1] /\ q[2] \in p[2]..6
    <3>1. q = <<p[1], q[2]>> BY <2>4, <2>5
    <3>2. BlockedIn(p[1], q[2])' BY <1>3, <2>5, <3>1 DEF Enclosed
    <3> QED BY <2>5, <3>2 DEF Blocked
  <2>6. CASE echo /\ p[1] = "down" /\ q[1] = "up"
    <3>1. BlockedIn("down", 5)' BY <2>6 DEF Enclosed
    <3> QED BY <2>6, <3>1 DEF Blocked
  <2> QED BY <2>3, <2>5, <2>6, BehindIs
<1> QED BY <1>0, <1>1, <1>2, <1>3, Places DEF Closed

-----------------------------------------------------------------------------
(* Each action moves one chunk, takes a new one, or loses some.            *)

SortedInv ==
    \A d \in Dir : Sorted(got[d]) /\ Sorted(recvQ[d]) /\ Sorted(net[d]) /\ Sorted(sendQ[d])

LEMMA QueueFacts ==
    ASSUME Types, NEW d \in Dir
    PROVE  /\ sendQ[d] \in Seq(Item) /\ recvQ[d] \in Seq(Item) /\ net[d] \in Seq(Item)
           /\ got[d] \in Seq(Item \ {Fin}) /\ got[d] \in Seq(Item)
<1>1. got[d] \in Seq(Item \ {Fin}) BY TypeFacts
<1>2. got[d] \in Seq(Item) BY <1>1
<1> QED BY <1>1, <1>2, TypeFacts

LEMMA QueueSet ==
    ASSUME NEW f \in [Dir -> Seq(Item)], NEW d \in Dir, NEW q, NEW g, g = [f EXCEPT ![d] = q]
    PROVE  g[d] = q /\ \A e \in Dir : e # d => g[e] = f[e]
OBVIOUS

LEMMA BlockedSame ==
    ASSUME Types, echo' = echo, NEW p \in Place, \A s \in Side : Cut(s) => Cut(s)', \A s \in Side : dead[s] => dead'[s]
    PROVE  Blocked(p) => Blocked(p)'
<1>1. \A d \in Dir, k \in 1..6 : BlockedIn(d, k) => BlockedIn(d, k)'
  BY Ends DEF BlockedIn
<1> QED BY <1>1, Places DEF Blocked, Dir

LEMMA TcpReadTakes ==
    ASSUME Types, ShapeInv, NEW d \in Dir, TcpRead(d)
    PROVE  Takes
<1> USE Ends
<1>1. /\ task[Src(d)] = "relay" /\ ~done[Src(d)][d] /\ taken[d] < sent[d]
      /\ taken' = [taken EXCEPT ![d] = @ + 1] /\ held' = [held EXCEPT ![Src(d)][d] = taken[d] + 1]
      /\ UNCHANGED <<got, queues>>
  BY DEF TcpRead, Idle
<1>2. taken[d] \in Nat BY TypeFacts
<1>3. Origin(d) = d BY <1>1 DEF Origin, Dir, ShapeInv, EchoShape
<1>4. /\ held'[Src(d)][d] = taken[d] + 1
      /\ \A t \in Side, e \in Dir : ~(t = Src(d) /\ e = d) => held'[t][e] = held[t][e]
  BY <1>1, TypeFacts
<1>5. Cargo'[<<d, 6>>] = {taken[d] + 1}
  <2>1. taken[d] + 1 # Fin BY <1>2 DEF Fin
  <2>2. Cargo'[<<d, 6>>] = InHand(taken[d] + 1) BY <1>4, CargoIsNext, Zenon
  <2> QED BY <2>1, <2>2, InHandIs, Zenon
<1>6. ASSUME NEW r \in Place, r # <<d, 6>> PROVE Cargo'[r] = Cargo[r]
  <2>1. r[1] \in Dir /\ r[2] \in 1..6 /\ r = <<r[1], r[2]>> BY Places
  <2>2. held'[Dst(r[1])][r[1]] = held[Dst(r[1])][r[1]] BY <1>4, <2>1
  <2>3. r[2] = 6 => held'[Src(r[1])][r[1]] = held[Src(r[1])][r[1]] BY <1>4, <1>6, <2>1
  <2>4. got' = got /\ sendQ' = sendQ /\ net' = net /\ recvQ' = recvQ BY <1>1 DEF queues
  <2> QED BY <2>2, <2>3, <2>4, CargoFrame
<1>7. Cargo[<<d, 6>>] = {}
  <2>1. held[Src(d)][d] = 0 BY DEF TcpRead, Idle
  <2> QED BY <2>1, CargoIs, InHandIs DEF Fin
<1> QED BY <1>1, <1>3, <1>5, <1>6, <1>7, NothingBehind DEF Takes

LEMMA ReadMoves ==
    ASSUME Types, ShapeInv, SortedInv, echo' = echo, NEW d \in Dir, Read(d)
    PROVE  Moves
<1> USE Ends
<1> DEFINE p == <<d, 3>>
           q == <<d, 2>>
<1>1. /\ held[Dst(d)][d] = 0 /\ recvQ[d] # <<>> /\ Head(recvQ[d]) # Fin
      /\ held' = [held EXCEPT ![Dst(d)][d] = Head(recvQ[d])] /\ recvQ' = [recvQ EXCEPT ![d] = Tail(@)]
      /\ UNCHANGED <<task, got, sendQ, net, dead>>
  BY DEF Read, Idle, tcpVars
<1>2. /\ held'[Dst(d)][d] = Head(recvQ[d])
      /\ \A t \in Side, e \in Dir : ~(t = Dst(d) /\ e = d) => held'[t][e] = held[t][e]
  BY <1>1, TypeFacts
<1>3. recvQ'[d] = Tail(recvQ[d]) /\ \A e \in Dir : e # d => recvQ'[e] = recvQ[e]
  BY <1>1, TypeFacts, QueueSet
<1>4. PICK x : x = Head(recvQ[d]) OBVIOUS
<1>5. /\ Cargo[p] = Chunks(recvQ[d]) /\ Cargo'[p] = Chunks(Tail(recvQ[d]))
      /\ Cargo[q] = {} /\ Cargo'[q] = {x}
  <2>1. Cargo[p] = Chunks(recvQ[d]) /\ Cargo'[p] = Chunks(Tail(recvQ[d]))
    BY <1>3, CargoIs, CargoIsNext
  <2>2. Cargo[q] = InHand(0) /\ Cargo'[q] = InHand(x)
    BY <1>1, <1>2, <1>4, CargoIs, CargoIsNext
  <2> QED BY <1>1, <1>4, <2>1, <2>2, InHandIs DEF Fin
<1>6. Sorted(recvQ[d]) BY DEF SortedInv
<1>7. Cargo[p] = Cargo'[p] \cup {x} /\ \A y \in Cargo'[p] : x < y
  BY <1>1, <1>4, <1>5, <1>6, ChunksTail, QueueFacts, InHandIs
<1>8. ASSUME NEW r \in Place, r # p, r # q PROVE Cargo'[r] = Cargo[r]
  <2>1. r[1] \in Dir /\ r[2] \in 1..6 /\ r = <<r[1], r[2]>> BY Places
  <2>2. held'[Src(r[1])][r[1]] = held[Src(r[1])][r[1]] BY <1>2, <2>1
  <2>3. r[2] = 2 => held'[Dst(r[1])][r[1]] = held[Dst(r[1])][r[1]] BY <1>2, <1>8, <2>1
  <2>4. r[2] = 3 => recvQ'[r[1]] = recvQ[r[1]] BY <1>3, <1>8, <2>1
  <2>5. got' = got /\ sendQ' = sendQ /\ net' = net BY <1>1
  <2> QED BY <2>2, <2>3, <2>4, <2>5, CargoFrame
<1>9. p \in Place /\ q \in Place BY Places
<1>10. Ahead(q, p) /\ \A r \in Place : ~(Ahead(q, r) /\ Ahead(r, p))
  BY NeighboursAre DEF Adjoins
<1>11. Carried(Cargo, Cargo', p, q, x)
  BY <1>5, <1>7, <1>8, <1>10 DEF Carried
<1>12. Blocked(p) => Blocked(q)'
  <2>1. task' = task /\ dead' = dead BY <1>1
  <2> QED BY <2>1 DEF Blocked, BlockedIn, Cut
<1> QED BY <1>9, <1>11, <1>12 DEF Moves

LEMMA TcpWriteMoves ==
    ASSUME Types, ShapeInv, SortedInv, echo' = echo, NEW d \in Dir, TcpWrite(d)
    PROVE  Moves
<1> USE Ends
<1> DEFINE p == <<d, 2>>
           q == <<d, 1>>
<1>1. PICK x : x = held[Dst(d)][d] OBVIOUS
<1>2. /\ x # 0 /\ got' = [got EXCEPT ![d] = Append(@, x)] /\ held' = [held EXCEPT ![Dst(d)][d] = 0]
      /\ UNCHANGED <<task, queues, dead>>
  BY <1>1 DEF TcpWrite
<1>3. /\ held'[Dst(d)][d] = 0
      /\ \A t \in Side, e \in Dir : ~(t = Dst(d) /\ e = d) => held'[t][e] = held[t][e]
  BY <1>2, TypeFacts
<1>4. got'[d] = Append(got[d], x) /\ \A e \in Dir : e # d => got'[e] = got[e]
  BY <1>2, TypeFacts
<1>5. x \in Item /\ got[d] \in Seq(Item) BY <1>1, QueueFacts, TypeFacts
<1>6. Chunks(Append(got[d], x)) = Chunks(got[d]) \cup {x}
  BY <1>2, <1>5, ChunksAppend, InHandIs DEF Fin
<1>7. Cargo[p] = {x} /\ Cargo'[p] = {} /\ Cargo'[q] = Cargo[q] \cup {x}
  BY <1>1, <1>2, <1>3, <1>4, <1>6, CargoIs, CargoIsNext, InHandIs DEF Fin
<1>8. ASSUME NEW r \in Place, r # p, r # q PROVE Cargo'[r] = Cargo[r]
  <2>1. r[1] \in Dir /\ r[2] \in 1..6 /\ r = <<r[1], r[2]>> BY Places
  <2>2. held'[Src(r[1])][r[1]] = held[Src(r[1])][r[1]] BY <1>3, <2>1
  <2>3. r[2] = 2 => held'[Dst(r[1])][r[1]] = held[Dst(r[1])][r[1]] BY <1>3, <1>8, <2>1
  <2>4. r[2] = 1 => got'[r[1]] = got[r[1]] BY <1>4, <1>8, <2>1
  <2>5. recvQ' = recvQ /\ sendQ' = sendQ /\ net' = net BY <1>2 DEF queues
  <2> QED BY <2>2, <2>3, <2>4, <2>5, CargoFrame
<1>9. p \in Place /\ q \in Place BY Places
<1>10. Ahead(q, p) /\ \A r \in Place : ~(Ahead(q, r) /\ Ahead(r, p))
  BY NeighboursAre DEF Adjoins
<1>11. Carried(Cargo, Cargo', p, q, x)
  BY <1>7, <1>8, <1>10 DEF Carried
<1>12. Blocked(p) => Blocked(q)'
  <2>1. task' = task /\ dead' = dead BY <1>2
  <2> QED BY <2>1 DEF Blocked, BlockedIn, Cut
<1> QED BY <1>9, <1>11, <1>12 DEF Moves

\* Between the hand that writes and the queue it writes to nothing waits.
LEMMA WriteGap ==
    ASSUME Types, ShapeInv, NEW d \in Dir, NEW p \in Place, NEW q \in Place,
           p = IF echo /\ d = "down" THEN <<"up", 2>> ELSE <<d, 6>>,
           q = IF slipstream THEN <<d, 5>> ELSE <<d, 4>>
    PROVE  Ahead(q, p) /\ \A r \in Place : Ahead(q, r) /\ Ahead(r, p) => Cargo[r] = {}
<1>1. Ahead(q, p) BY DEF Ahead, Pos, Origin, Dir
<1>2. ASSUME NEW r \in Place, Ahead(q, r), Ahead(r, p)
      PROVE  \/ ~slipstream /\ r = <<d, 5>>
             \/ echo /\ (r = <<"down", 6>> \/ r = <<"up", 1>>)
  <2>1. r[1] \in Dir /\ r[2] \in 1..6 /\ r = <<r[1], r[2]>> BY Places
  <2>2. CASE ~(echo /\ d = "down")
    <3>1. r[1] = d /\ r[2] < 6 /\ r[2] > IF slipstream THEN 5 ELSE 4
      BY <1>2, <2>1, <2>2 DEF Ahead, Pos, Origin, Dir
    <3>2. ~slipstream /\ r[2] = 5 BY <2>1, <3>1
    <3> QED BY <2>1, <3>1, <3>2
  <2>3. CASE echo /\ d = "down"
    <3>1. Pos(r) < 8 /\ Pos(r) > IF slipstream THEN 5 ELSE 4
      BY <1>2, <2>3 DEF Ahead, Pos
    <3>2. CASE r[1] = "up"
      <4>1. r[2] = 1 BY <2>1, <2>3, <3>1, <3>2 DEF Pos
      <4> QED BY <2>1, <2>3, <3>2, <4>1
    <3>3. CASE r[1] = "down"
      <4>1. r[2] = 6 \/ (r[2] = 5 /\ ~slipstream) BY <2>1, <2>3, <3>1, <3>3 DEF Pos
      <4> QED BY <2>1, <2>3, <3>3, <4>1
    <3> QED BY <2>1, <3>2, <3>3 DEF Dir
  <2> QED BY <2>2, <2>3
<1>3. ~slipstream => Cargo[<<d, 5>>] = {}
  <2>1. ~slipstream => sendQ[d] = <<>> BY Zenon DEF ShapeInv, TransportShape
  <2> QED BY <2>1, CargoIs, ChunksEmpty
<1>4. echo => Cargo[<<"down", 6>>] = {} /\ Cargo[<<"up", 1>>] = {}
  <2>1. "down" \in Dir /\ "up" \in Dir /\ Src("down") = "server" BY DEF Dir, Src
  <2>2. echo => held["server"]["down"] = Fin /\ got["up"] = <<>> BY DEF ShapeInv, EchoShape, Fin
  <2> QED BY <2>1, <2>2, CargoIs, ChunksEmpty, InHandIs
<1> QED BY <1>1, <1>2, <1>3, <1>4

\* What Put appends.
LEMMA PutIs ==
    ASSUME Types, ShapeInv, NEW d \in Dir, NEW x \in Item, Put(d, x),
           NEW q, q = IF slipstream THEN <<d, 5>> ELSE <<d, 4>>
    PROVE  /\ q \in Place /\ Cargo'[q] = Cargo[q] \cup InHand(x)
           /\ \A e \in Dir : /\ q # <<e, 5>> => sendQ'[e] = sendQ[e]
                             /\ q # <<e, 4>> => net'[e] = net[e]
<1>1. q \in Place BY Places
<1>2. sendQ \in [Dir -> Seq(Item)] /\ net \in [Dir -> Seq(Item)] BY TypeFacts
<1>3. CASE slipstream
  <2>1. sendQ' = [sendQ EXCEPT ![d] = Append(@, x)] /\ net' = net BY <1>3, Zenon DEF Put
  <2>2. sendQ'[d] = Append(sendQ[d], x) /\ \A e \in Dir : e # d => sendQ'[e] = sendQ[e] BY <1>2, <2>1
  <2>3. Chunks(sendQ'[d]) = Chunks(sendQ[d]) \cup InHand(x) BY <2>2, ChunksAppend, QueueFacts
  <2>4. Cargo'[<<d, 5>>] = Cargo[<<d, 5>>] \cup InHand(x) BY <2>3, CargoIs, CargoIsNext, Zenon
  <2> QED BY <1>1, <1>3, <2>1, <2>2, <2>4
<1>4. CASE ~slipstream
  <2>1. net' = [net EXCEPT ![d] = Append(@, x)] /\ sendQ' = sendQ BY <1>4, Zenon DEF Put
  <2>2. net'[d] = Append(net[d], x) /\ \A e \in Dir : e # d => net'[e] = net[e] BY <1>2, <2>1
  <2>3. Chunks(net'[d]) = Chunks(net[d]) \cup InHand(x) BY <2>2, ChunksAppend, QueueFacts
  <2>4. Cargo'[<<d, 4>>] = Cargo[<<d, 4>>] \cup InHand(x) BY <2>3, CargoIs, CargoIsNext, Zenon
  <2> QED BY <1>1, <1>4, <2>1, <2>2, <2>4
<1> QED BY <1>3, <1>4

LEMMA WriteMoves ==
    ASSUME Types, ShapeInv, SortedInv, echo' = echo, NEW d \in Dir, Write(d)
    PROVE  Moves
<1> USE Ends
<1>1. PICK x : x = held[Src(d)][HopTo(d)] OBVIOUS
<1>2. /\ x # 0 /\ ~Broken(Src(d)) /\ Put(d, x) /\ held' = [held EXCEPT ![Src(d)][HopTo(d)] = 0]
      /\ UNCHANGED <<task, got, recvQ, dead>>
  BY <1>1 DEF Write, tcpVars
<1>3. x \in Item BY <1>1, TypeFacts
<1>4. PICK q : q = IF slipstream THEN <<d, 5>> ELSE <<d, 4>> OBVIOUS
<1>5. PICK p : p = IF echo /\ d = "down" THEN <<"up", 2>> ELSE <<d, 6>> OBVIOUS
<1>6. /\ q \in Place /\ Cargo'[q] = Cargo[q] \cup InHand(x)
      /\ \A e \in Dir : /\ q # <<e, 5>> => sendQ'[e] = sendQ[e]
                        /\ q # <<e, 4>> => net'[e] = net[e]
  BY <1>2, <1>3, <1>4, PutIs
<1>7. p \in Place
  <2>1. "up" \in Dir BY DEF Dir
  <2> QED BY <1>5, <2>1, Places
<1>8. /\ held'[Src(d)][HopTo(d)] = 0
      /\ \A t \in Side, e \in Dir : ~(t = Src(d) /\ e = HopTo(d)) => held'[t][e] = held[t][e]
  BY <1>2, TypeFacts
<1>9. Cargo[p] = InHand(x) /\ Cargo'[p] = InHand(0)
  <2>1. CASE echo /\ d = "down"
    <3>1. p = <<"up", 2>> /\ HopTo(d) = "up" /\ Src(d) = Dst("up") /\ "up" \in Dir
      BY <1>5, <2>1 DEF HopTo, Dir, Src, Dst
    <3> QED BY <1>1, <1>8, <3>1, CargoIs, CargoIsNext
  <2>2. CASE ~(echo /\ d = "down")
    <3>1. p = <<d, 6>> /\ HopTo(d) = d BY <1>5, <2>2 DEF HopTo
    <3> QED BY <1>1, <1>8, <3>1, CargoIs, CargoIsNext
  <2> QED BY <2>1, <2>2
<1>10. Cargo[p] = {x} /\ Cargo'[p] = {} /\ Cargo'[q] = Cargo[q] \cup {x}
  BY <1>2, <1>6, <1>9, InHandIs DEF Fin
<1>11. ASSUME NEW r \in Place, r # p, r # q PROVE Cargo'[r] = Cargo[r]
  <2>1. r[1] \in Dir /\ r[2] \in 1..6 /\ r = <<r[1], r[2]>> BY Places
  <2>2. r[2] = 6 => held'[Src(r[1])][r[1]] = held[Src(r[1])][r[1]]
    <3>1. ASSUME r[2] = 6, Src(r[1]) = Src(d), r[1] = HopTo(d) PROVE FALSE
      <4>1. r[1] = d /\ r = <<d, 6>> BY <2>1, <3>1 DEF Src, Dir
      <4>2. ~(echo /\ d = "down") BY <3>1, <4>1 DEF HopTo
      <4> QED BY <1>5, <1>11, <4>1, <4>2
    <3> QED BY <1>8, <2>1, <3>1
  <2>3. r[2] = 2 => held'[Dst(r[1])][r[1]] = held[Dst(r[1])][r[1]]
    <3>1. ASSUME r[2] = 2, Dst(r[1]) = Src(d), r[1] = HopTo(d) PROVE FALSE
      <4>1. r[1] # d BY <2>1, <3>1
      <4>2. echo /\ d = "down" /\ r[1] = "up" BY <3>1, <4>1 DEF HopTo
      <4> QED BY <1>5, <1>11, <2>1, <3>1, <4>2
    <3> QED BY <1>8, <2>1, <3>1
  <2>4. r[2] = 4 => net'[r[1]] = net[r[1]] BY <1>6, <1>11, <2>1
  <2>5. r[2] = 5 => sendQ'[r[1]] = sendQ[r[1]] BY <1>6, <1>11, <2>1
  <2>6. got' = got /\ recvQ' = recvQ BY <1>2
  <2> QED BY <2>2, <2>3, <2>4, <2>5, <2>6, CargoFrame
<1>12. Ahead(q, p) /\ \A r \in Place : Ahead(q, r) /\ Ahead(r, p) => Cargo[r] = {}
  BY <1>4, <1>5, <1>6, <1>7, WriteGap
<1>13. Carried(Cargo, Cargo', p, q, x)
  BY <1>10, <1>11, <1>12 DEF Carried
<1>14. Blocked(p) => Blocked(q)'
  <2>1. task' = task /\ dead' = dead /\ Origin(d) \in Dir BY <1>2, Line
  <2>2. dead[Src(d)] => slipstream BY <1>2 DEF Broken
  <2>3. CASE echo /\ d = "down"
    <3>1. ~dead[Src(d)]
      <4>1. Src(d) = "server" BY <2>3 DEF Src
      <4> QED BY <1>2, <4>1 DEF Broken
    <3>2. Blocked(p) => Cut(Dst(d)) BY <1>5, <2>3, <3>1 DEF Blocked, BlockedIn
    <3> QED BY <1>4, <2>1, <3>2 DEF Blocked, BlockedIn, Cut
  <2>4. CASE ~(echo /\ d = "down")
    <3>1. p = <<d, 6>> BY <1>5, <2>4
    <3>2. BlockedIn(d, 6) => BlockedIn(d, q[2]) BY <1>4, <2>2 DEF BlockedIn
    <3>3. p[1] = d /\ p[2] = 6 /\ q[1] = d BY <1>4, <3>1
    <3> QED BY <2>1, <3>2, <3>3 DEF Blocked, BlockedIn, Cut
  <2> QED BY <2>3, <2>4
<1> QED BY <1>6, <1>7, <1>13, <1>14 DEF Moves

LEMMA TransmitStep ==
    ASSUME Types, ShapeInv, SortedInv, echo' = echo, NEW d \in Dir, Transmit(d)
    PROVE  Moves \/ Loses
<1> USE Ends
<1> DEFINE p == <<d, 5>>
           q == <<d, 4>>
<1>1. /\ sendQ[d] # <<>> /\ sendQ' = [sendQ EXCEPT ![d] = Tail(@)]
      /\ UNCHANGED <<task, held, got, recvQ, dead, done>>
  BY DEF Transmit, tcpVars
<1>2. PICK x : x = Head(sendQ[d]) OBVIOUS
<1>3. /\ dead[Src(d)] => net' = net
      /\ ~dead[Src(d)] => net' = [net EXCEPT ![d] = Append(@, x)]
  BY <1>2 DEF Transmit
<1>4. sendQ'[d] = Tail(sendQ[d]) /\ \A e \in Dir : e # d => sendQ'[e] = sendQ[e]
  BY <1>1, TypeFacts
<1>5. x \in Item /\ net[d] \in Seq(Item) /\ Sorted(sendQ[d]) BY <1>1, <1>2, QueueFacts DEF SortedInv
<1>6. /\ Cargo[p] = Cargo'[p] \cup InHand(x) /\ (x # Fin => \A y \in Cargo'[p] : x < y)
  <2>1. /\ Chunks(sendQ[d]) = Chunks(sendQ'[d]) \cup InHand(x)
        /\ x # Fin => \A y \in Chunks(sendQ'[d]) : x < y
    BY <1>1, <1>2, <1>4, <1>5, ChunksTail, QueueFacts
  <2>2. Cargo[p] = Chunks(sendQ[d]) /\ Cargo'[p] = Chunks(sendQ'[d]) BY CargoIs, CargoIsNext, Zenon
  <2> QED BY ONLY <2>1, <2>2, Zenon
<1>7. ASSUME NEW r \in Place, r # p, r # q \/ net' = net PROVE Cargo'[r] = Cargo[r]
  <2>1. r[1] \in Dir /\ r[2] \in 1..6 /\ r = <<r[1], r[2]>> BY Places
  <2>2. r[2] = 5 => sendQ'[r[1]] = sendQ[r[1]] BY <1>4, <1>7, <2>1
  <2>3. r[2] = 4 => net'[r[1]] = net[r[1]]
    <3>1. \A e \in Dir : e # d => net'[e] = net[e] BY <1>3, TypeFacts
    <3> QED BY <1>7, <2>1, <3>1
  <2>4. got' = got /\ recvQ' = recvQ /\ held' = held BY <1>1
  <2> QED BY <2>2, <2>3, <2>4, CargoFrame
<1>8. p \in Place /\ q \in Place BY Places
<1>9. CASE dead[Src(d)]
  <2>1. net' = net /\ dead'[Src(d)] BY <1>1, <1>3, <1>9
  <2>2. \A k \in 5..6 : BlockedIn(d, k)' BY <2>1 DEF BlockedIn
  <2>3. \A y : Enclosed(p, y)'
    <3>1. p[1] = d /\ p[2] = 5 OBVIOUS
    <3>2. BlockedIn(d, 5)' BY <2>2
    <3>3. Sealed(Origin(d))' BY <3>2, FarSealedNext
    <3>4. Known(d)' BY <2>1 DEF Known, Cut
    <3> QED BY <2>2, <3>1, <3>2, <3>3, <3>4 DEF Enclosed
  <2>4. Shed(Cargo, Cargo') BY <1>6, <1>7, <2>1 DEF Shed
  <2>5. Loses BY <1>7, <2>1, <2>3, <2>4 DEF Loses
  <2> QED BY <2>5
<1>10. CASE ~dead[Src(d)]
  <2>1. net'[d] = Append(net[d], x) BY <1>3, <1>10, TypeFacts
  <2>2. Cargo'[q] = Cargo[q] \cup InHand(x)
    <3>1. Chunks(net'[d]) = Chunks(net[d]) \cup InHand(x) BY <1>5, <2>1, ChunksAppend
    <3> QED BY <3>1, CargoIs, CargoIsNext, Zenon
  <2>3. CASE x = Fin
    <3>1. \A r \in Place : Cargo'[r] = Cargo[r] BY <1>6, <1>7, <2>2, <2>3, InHandIs
    <3> QED BY <3>1, SameLoses
  <2>4. CASE x # Fin
    <3>1. Carried(Cargo, Cargo', p, q, x)
      BY <1>6, <1>7, <2>2, <2>4, InHandIs, NeighboursAre DEF Carried, Adjoins
    <3>2. Blocked(p) => Blocked(q)'
      <4>1. task' = task /\ dead' = dead BY <1>1
      <4> QED BY <1>10, <4>1 DEF Blocked, BlockedIn, Cut
    <3> QED BY <1>8, <3>1, <3>2 DEF Moves
  <2> QED BY <2>3, <2>4
<1> QED BY <1>9, <1>10

\* An end in the receive channel is no chunk.
LEMMA ArriveCargo ==
    ASSUME Types, NEW d \in Dir, NEW x \in Item, Queued(d, x) \/ Dropped(d, x)
    PROVE  /\ \A e \in Dir : e # d => recvQ'[e] = recvQ[e]
           /\ Queued(d, x) => Cargo'[<<d, 3>>] = Cargo[<<d, 3>>] \cup InHand(x)
           /\ x = Fin \/ ~Queued(d, x) => Cargo'[<<d, 3>>] = Cargo[<<d, 3>>]
<1>1. recvQ \in [Dir -> Seq(Item)] BY TypeFacts
<1>2. CASE Queued(d, x)
  <2>1. recvQ' = [recvQ EXCEPT ![d] = Append(@, x)] BY <1>2 DEF Queued
  <2>2. recvQ'[d] = Append(recvQ[d], x) /\ \A e \in Dir : e # d => recvQ'[e] = recvQ[e] BY <1>1, <2>1
  <2>3. Chunks(recvQ'[d]) = Chunks(recvQ[d]) \cup InHand(x) BY <2>2, ChunksAppend, QueueFacts
  <2>4. Cargo'[<<d, 3>>] = Cargo[<<d, 3>>] \cup InHand(x) BY <2>3, CargoIs, CargoIsNext, Zenon
  <2>5. x = Fin => Cargo'[<<d, 3>>] = Cargo[<<d, 3>>] BY <2>4, InHandIs
  <2> QED BY <1>2, <2>2, <2>4, <2>5
<1>3. CASE ~Queued(d, x)
  <2>1. recvQ' = recvQ BY <1>3 DEF Dropped
  <2> QED BY <1>3, <2>1, CargoIs, CargoIsNext
<1> QED BY <1>2, <1>3

LEMMA DeliverStep ==
    ASSUME Types, ShapeInv, FinInv, SortedInv, echo' = echo, NEW d \in Dir, Deliver(d)
    PROVE  Moves \/ Loses
<1> USE Ends
<1> DEFINE p == <<d, 4>>
           q == <<d, 3>>
<1>1. /\ net[d] # <<>> /\ ~dead[Dst(d)]
      /\ UNCHANGED <<done, held, got, sendQ, dead>>
  BY DEF Deliver, tcpVars
<1>2. net[d] \in Seq(Item) /\ Head(net[d]) \in Item /\ Fin \in Item /\ Sorted(net[d])
  <2>1. Sorted(net[d]) BY DEF SortedInv
  <2>2. net[d] \in Seq(Item) /\ Fin \in Item BY QueueFacts, TypeFacts, Zenon
  <2> QED BY <1>1, <2>1, <2>2
<1>3. p \in Place /\ q \in Place BY Places
\* What an arrival of x leaves as it was.
<1>4. ASSUME NEW x \in Item, NEW why, Arrive(d, x, why), \A e \in Dir : e # d => net'[e] = net[e]
      PROVE  /\ Queued(d, x) \/ Dropped(d, x)
             /\ \A s \in Side : task[s] = "ended" => task'[s] = "ended"
             /\ \A r \in Place : r # p /\ r # q => Cargo'[r] = Cargo[r]
             /\ Queued(d, x) => Cargo'[q] = Cargo[q] \cup InHand(x)
             /\ x = Fin \/ ~Queued(d, x) => Cargo'[q] = Cargo[q]
  <2>1. /\ Queued(d, x) \/ Dropped(d, x)
        /\ task' = task \/ (task[Dst(d)] = "none" /\ task' = [task EXCEPT ![Dst(d)] = "starting"])
    BY <1>4, ArriveKind, Zenon
  <2>2. \A s \in Side : task[s] = "ended" => task'[s] = "ended" BY <2>1, TypeFacts
  <2>3. /\ \A e \in Dir : e # d => recvQ'[e] = recvQ[e]
        /\ Queued(d, x) => Cargo'[q] = Cargo[q] \cup InHand(x)
        /\ x = Fin \/ ~Queued(d, x) => Cargo'[q] = Cargo[q]
    BY <2>1, ArriveCargo
  <2>4. ASSUME NEW r \in Place, r # p, r # q PROVE Cargo'[r] = Cargo[r]
    <3>1. r[1] \in Dir /\ r[2] \in 1..6 /\ r = <<r[1], r[2]>> BY Places
    <3>2. r[2] = 3 => recvQ'[r[1]] = recvQ[r[1]] BY <2>3, <2>4, <3>1
    <3>3. r[2] = 4 => net'[r[1]] = net[r[1]] BY <1>4, <2>4, <3>1
    <3>4. got' = got /\ sendQ' = sendQ /\ held' = held BY <1>1
    <3> QED BY <3>2, <3>3, <3>4, CargoFrame
  <2> QED BY <2>1, <2>2, <2>3, <2>4
<1>5. CASE net' = [net EXCEPT ![d] = Tail(@)] /\ Arrive(d, Head(net[d]), {})
  <2>1. PICK x : x = Head(net[d]) OBVIOUS
  <2>2. net'[d] = Tail(net[d]) /\ \A e \in Dir : e # d => net'[e] = net[e] BY <1>5, TypeFacts
  <2>3. x \in Item /\ Arrive(d, x, {}) BY <1>2, <1>5, <2>1, Zenon
  <2>4. /\ Cargo[p] = Cargo'[p] \cup InHand(x) /\ (x # Fin => \A y \in Cargo'[p] : x < y)
    <3>1. /\ Chunks(net[d]) = Chunks(net'[d]) \cup InHand(x)
          /\ x # Fin => \A y \in Chunks(net'[d]) : x < y
      BY <1>1, <1>2, <2>1, <2>2, ChunksTail
    <3>2. Cargo[p] = Chunks(net[d]) /\ Cargo'[p] = Chunks(net'[d]) BY CargoIs, CargoIsNext, Zenon
    <3> QED BY ONLY <3>1, <3>2, Zenon
  <2>5. /\ Queued(d, x) \/ Dropped(d, x)
        /\ \A s \in Side : task[s] = "ended" => task'[s] = "ended"
        /\ \A r \in Place : r # p /\ r # q => Cargo'[r] = Cargo[r]
        /\ Queued(d, x) => Cargo'[q] = Cargo[q] \cup InHand(x)
        /\ x = Fin \/ ~Queued(d, x) => Cargo'[q] = Cargo[q]
    BY <1>4, <2>2, <2>3, Zenon
  <2>6. CASE x = Fin
    <3>1. \A r \in Place : Cargo'[r] = Cargo[r] BY <2>4, <2>5, <2>6, InHandIs
    <3> QED BY <3>1, SameLoses
  <2>7. CASE x # Fin /\ Queued(d, x)
    <3>1. Carried(Cargo, Cargo', p, q, x)
      BY <2>4, <2>5, <2>7, InHandIs, NeighboursAre DEF Carried, Adjoins
    <3>2. Blocked(p) => Blocked(q)'
      <4>1. ~BlockedIn(d, 4)
        <5>1. task[Dst(d)] # "ended" BY <2>7 DEF Queued
        <5> QED BY <1>1, <5>1 DEF BlockedIn, Cut
      <4>2. BlockedIn("down", 5) => BlockedIn("down", 5)'
        <5>1. "down" \in Dir /\ dead' = dead BY <1>1 DEF Dir
        <5> QED BY <2>5, <5>1 DEF BlockedIn, Cut
      <4> QED BY <4>1, <4>2 DEF Blocked
    <3> QED BY <1>3, <3>1, <3>2 DEF Moves
  <2>8. CASE x # Fin /\ ~Queued(d, x)
    <3>1. Shed(Cargo, Cargo')
      BY <2>4, <2>5, <2>8 DEF Shed
    <3>2. Overflown(Origin(d))' \/ \A y : Enclosed(p, y)'
      <4>1. CASE task[Dst(d)] = "ended"
        <5>1. task'[Dst(d)] = "ended" BY <2>5, <4>1
        <5>2. \A k \in 4..6 : BlockedIn(d, k)' BY <5>1 DEF BlockedIn, Cut
        <5>3. BlockedIn(d, 5)' BY <5>2
        <5>4. Sealed(Origin(d))' BY <5>3, FarSealedNext
        <5>5. p[1] = d /\ p[2] = 4 OBVIOUS
        <5>6. Known(d)' BY <5>1 DEF Known, Cut
        <5> QED BY <5>2, <5>3, <5>4, <5>5, <5>6 DEF Enclosed
      <4>2. CASE <<"overflow", d>> \in excuse'
        BY <4>2 DEF Overflown, Origin
      <4> QED BY <2>5, <2>8, <4>1, <4>2 DEF Dropped
    <3>3. p[1] = d OBVIOUS
    <3>4. Origin(d)' = Origin(d) BY DEF Origin
    <3>5. Loses BY <2>5, <2>8, <3>1, <3>2, <3>3, <3>4 DEF Loses
    <3> QED BY <3>5
  <2> QED BY <2>6, <2>7, <2>8
<1>6. CASE Len(net[d]) > 1 /\ net[d][2] = Fin /\ net' = [net EXCEPT ![d] = <<>>] /\ Arrive(d, Fin, {<<"tail", d>>})
  <2>1. net'[d] = <<>> /\ \A e \in Dir : e # d => net'[e] = net[e] BY <1>6, TypeFacts
  <2>2. /\ \A r \in Place : r # p /\ r # q => Cargo'[r] = Cargo[r]
        /\ Cargo'[q] = Cargo[q]
    BY <1>2, <1>4, <1>6, <2>1
  <2>3. Cargo'[p] = {} BY <2>1, CargoIsNext, ChunksEmpty
  <2>4. Shed(Cargo, Cargo') BY <2>2, <2>3 DEF Shed
  <2>5. HasFin(net[d]) BY <1>2, <1>6, FinSecond
  <2>6. done[Src(d)][d] /\ sendQ[d] = <<>> BY <2>5, Zenon DEF FinInv, NetFin
  <2>7. held[Src(d)][d] = Fin BY <2>6 DEF ShapeInv, DoneShape, Fin
  <2>8. ~(echo /\ d = "down")
    <3>1. Src("down") = "server" BY DEF Src
    <3> QED BY <2>6, <3>1, Zenon DEF ShapeInv, EchoShape
  <2>9. Cargo'[<<d, 5>>] = {} /\ Cargo'[<<d, 6>>] = {}
    <3>1. sendQ'[d] = <<>> /\ held'[Src(d)][d] = Fin BY <1>1, <2>6, <2>7
    <3> QED BY <3>1, CargoIsNext, ChunksEmpty, InHandIs
  <2>10. \A y : Enclosed(p, y)'
    <3>1. p[1] = d /\ p[2] = 4 OBVIOUS
    <3>2. Origin(d)' = d BY <2>8 DEF Origin, Dir
    <3>3. done'[Src(d)][d] BY <1>1, <2>6
    <3>4. Sealed(d)' BY <3>3 DEF Sealed
    <3>5. \A k \in 4..6 : Cargo'[<<d, k>>] = {}
      <4>1. \A k \in 4..6 : k = 4 \/ k = 5 \/ k = 6 OBVIOUS
      <4> QED BY <2>3, <2>9, <4>1
    <3>6. Known(d)'
      <4>1. <<"tail", d>> \in excuse' BY <1>2, <1>6, ArriveKind
      <4> QED BY <4>1 DEF Known
    <3> QED BY <2>8, <3>1, <3>2, <3>4, <3>5, <3>6 DEF Enclosed
  <2>11. Loses BY <2>2, <2>4, <2>10 DEF Loses
  <2> QED BY <2>11
<1> QED BY <1>5, <1>6, Zenon DEF Deliver

LEMMA StopsLoses ==
    ASSUME Types, echo' = echo, Stops
    PROVE  Loses
<1> USE Ends
<1> DEFINE p == <<"up", 5>>
<1>1. PICK why : StopReason(why) /\ ThreadStops(why) BY DEF Stops
<1>2. /\ dead' = [dead EXCEPT !["client"] = TRUE] /\ sendQ' = [sendQ EXCEPT !["up"] = <<>>]
      /\ UNCHANGED <<held, got, recvQ, net>>
  BY <1>1 DEF ThreadStops, tcpVars
<1>3. "up" \in Dir /\ Src("up") = "client" /\ p \in Place BY Places DEF Dir, Src
<1>4. sendQ'["up"] = <<>> /\ \A e \in Dir : e # "up" => sendQ'[e] = sendQ[e] BY <1>2, <1>3, TypeFacts
<1>5. ASSUME NEW r \in Place, r # p PROVE Cargo'[r] = Cargo[r]
  <2>1. r[1] \in Dir /\ r[2] \in 1..6 /\ r = <<r[1], r[2]>> BY Places
  <2>2. r[2] = 5 => sendQ'[r[1]] = sendQ[r[1]] BY <1>4, <1>5, <2>1
  <2>3. got' = got /\ recvQ' = recvQ /\ held' = held /\ net' = net BY <1>2
  <2> QED BY <2>2, <2>3, CargoFrame
<1>6. Cargo'[p] = {} BY <1>3, <1>4, CargoIsNext, ChunksEmpty
<1>7. \A y : Enclosed(p, y)'
  <2>1. dead'["client"] BY <1>2, TypeFacts, Zenon DEF Side
  <2>2. \A k \in 5..6 : BlockedIn("up", k)' BY <1>3, <2>1 DEF BlockedIn
  <2>3. BlockedIn("up", 5)' BY <2>2
  <2>4. Sealed(Origin("up"))' BY <1>3, <2>3, FarSealedNext
  <2>5. p[1] = "up" /\ p[2] = 5 OBVIOUS
  <2>6. Known("up")' BY <1>3, <2>1 DEF Known, Cut
  <2> QED BY <2>2, <2>4, <2>5, <2>6 DEF Enclosed
<1>8. Shed(Cargo, Cargo') BY <1>5, <1>6 DEF Shed
<1> QED BY <1>5, <1>7, <1>8 DEF Loses

LEMMA LearnsLoses ==
    ASSUME Types, echo' = echo, NEW s \in Side, Learns(s)
    PROVE  Loses
<1> USE Ends
<1> DEFINE p == <<"down", 5>>
<1>1. PICK why : LearnReason(s, why) /\ Learn(s, why) BY DEF Learns
<1>2. /\ dead' = [dead EXCEPT ![s] = TRUE]
      /\ sendQ' = IF s = "server" THEN [sendQ EXCEPT !["down"] = <<>>] ELSE sendQ
      /\ UNCHANGED <<held, got, net>>
  BY <1>1 DEF Learn, tcpVars
<1>3. "down" \in Dir /\ Src("down") = "server" /\ p \in Place /\ Fin \in Item
  BY Places, TypeFacts DEF Dir, Src
<1>4. \A e \in Dir : Cargo'[<<e, 3>>] = Cargo[<<e, 3>>]
  <2>1. CASE Arrive("down", Fin, why)
    <3>1. Queued("down", Fin) \/ Dropped("down", Fin) BY <1>3, <2>1, ArriveKind, Zenon
    <3>2. Cargo'[<<"down", 3>>] = Cargo[<<"down", 3>>] /\ \A e \in Dir : e # "down" => recvQ'[e] = recvQ[e]
      BY <1>3, <3>1, ArriveCargo
    <3>3. ASSUME NEW e \in Dir, e # "down" PROVE Cargo'[<<e, 3>>] = Cargo[<<e, 3>>]
      <4>1. recvQ'[e] = recvQ[e] BY <3>2, <3>3
      <4>2. Cargo'[<<e, 3>>] = Chunks(recvQ'[e]) /\ Cargo[<<e, 3>>] = Chunks(recvQ[e])
        BY CargoIs, CargoIsNext
      <4> QED BY ONLY <4>1, <4>2, Zenon
    <3> QED BY <3>2, <3>3
  <2>2. CASE UNCHANGED recvQ BY <2>2, CargoIs, CargoIsNext
  <2> QED BY <1>1, <2>1, <2>2, Zenon DEF Learn
<1>5. ASSUME NEW r \in Place, r # p \/ s # "server" PROVE Cargo'[r] = Cargo[r]
  <2>1. r[1] \in Dir /\ r[2] \in 1..6 /\ r = <<r[1], r[2]>> BY Places
  <2>2. r[2] = 5 => sendQ'[r[1]] = sendQ[r[1]] BY <1>2, <1>5, <2>1, TypeFacts
  <2>3. got' = got /\ held' = held /\ net' = net BY <1>2
  <2>4. CASE r[2] = 3 BY <1>4, <2>1, <2>4
  <2>5. CASE r[2] # 3 BY <2>2, <2>3, <2>5, CargoFrame
  <2> QED BY <2>4, <2>5
<1>6. CASE s = "server"
  <2>1. Cargo'[p] = {}
    <3>1. sendQ'["down"] = <<>> BY <1>2, <1>3, <1>6, TypeFacts
    <3> QED BY <1>3, <3>1, CargoIsNext, ChunksEmpty
  <2>2. \A y : Enclosed(p, y)'
    <3>1. dead'["server"] BY <1>2, <1>6, TypeFacts, Zenon DEF Side
    <3>2. \A k \in 5..6 : BlockedIn("down", k)' BY <1>3, <3>1 DEF BlockedIn
    <3>3. BlockedIn("down", 5)' BY <3>2
    <3>4. Sealed(Origin("down"))' BY <1>3, <3>3, FarSealedNext
    <3>5. p[1] = "down" /\ p[2] = 5 OBVIOUS
    <3>6. Known("down")' BY <1>3, <3>1 DEF Known, Cut
    <3> QED BY <3>2, <3>3, <3>4, <3>5, <3>6 DEF Enclosed
  <2>3. Shed(Cargo, Cargo') BY <1>5, <2>1 DEF Shed
  <2> QED BY <1>5, <2>2, <2>3 DEF Loses
<1>7. CASE s # "server"
  BY <1>5, <1>7, SameLoses
<1> QED BY <1>6, <1>7

LEMMA TaskEndsLoses ==
    ASSUME Types, ShapeInv, echo' = echo, NEW s \in Side, TaskEnds(s)
    PROVE  Loses
<1> USE Ends
<1>1. PICK why : EndReason(s, why) /\ EndTask(s, why) BY DEF TaskEnds
<1>2. /\ task' = [task EXCEPT ![s] = "ended"] /\ held' = [held EXCEPT ![s] = [d \in Dir |-> 0]]
      /\ recvQ' = [recvQ EXCEPT ![To(s)] = <<>>]
      /\ UNCHANGED <<got, sendQ, net>>
  BY <1>1 DEF EndTask
<1>3. To(s) \in Dir /\ \A d \in Dir : Dst(d) = s <=> d = To(s) BY DEF To, Dir, Side, Dst
<1>4. \A t \in Side, e \in Dir : held'[t][e] = IF t = s THEN 0 ELSE held[t][e] BY <1>2, TypeFacts
<1>5. recvQ'[To(s)] = <<>> /\ \A e \in Dir : e # To(s) => recvQ'[e] = recvQ[e] BY <1>2, <1>3, TypeFacts
<1>6. task'[s] = "ended" BY <1>2, TypeFacts
<1>7. ASSUME NEW r \in Place, Cargo'[r] # Cargo[r]
      PROVE  /\ Cargo'[r] = {}
             /\ \/ r = <<To(s), 2>> \/ r = <<To(s), 3>>
                \/ Src(r[1]) = s /\ r = <<r[1], 6>> /\ Cargo[r] = InHand(held[s][r[1]])
  <2>1. r[1] \in Dir /\ r[2] \in 1..6 /\ r = <<r[1], r[2]>> BY Places
  <2>2. got' = got /\ sendQ' = sendQ /\ net' = net BY <1>2
  <2>3. \/ r[2] = 2 /\ held'[Dst(r[1])][r[1]] # held[Dst(r[1])][r[1]]
        \/ r[2] = 3 /\ recvQ'[r[1]] # recvQ[r[1]]
        \/ r[2] = 6 /\ held'[Src(r[1])][r[1]] # held[Src(r[1])][r[1]]
    BY <1>7, <2>2, CargoFrame
  <2>4. CASE r[2] = 2 /\ held'[Dst(r[1])][r[1]] # held[Dst(r[1])][r[1]]
    <3>1. r[1] = To(s) /\ held'[Dst(r[1])][r[1]] = Fin BY <1>3, <1>4, <2>1, <2>4 DEF Fin
    <3>2. Cargo'[<<r[1], 2>>] = {} BY <2>1, <3>1, CargoIsNext, InHandIs
    <3> QED BY <2>1, <2>4, <3>1, <3>2
  <2>5. CASE r[2] = 3 /\ recvQ'[r[1]] # recvQ[r[1]]
    <3>1. r[1] = To(s) /\ recvQ'[r[1]] = <<>> BY <1>5, <2>1, <2>5
    <3>2. Cargo'[<<r[1], 3>>] = {} BY <2>1, <3>1, CargoIsNext, ChunksEmpty
    <3> QED BY <2>1, <2>5, <3>1, <3>2
  <2>6. CASE r[2] = 6 /\ held'[Src(r[1])][r[1]] # held[Src(r[1])][r[1]]
    <3>1. Src(r[1]) = s /\ held'[s][r[1]] = Fin BY <1>4, <2>1, <2>6 DEF Fin
    <3>2. Cargo'[<<r[1], 6>>] = {} /\ Cargo[<<r[1], 6>>] = InHand(held[s][r[1]])
      BY <2>1, <3>1, CargoIs, CargoIsNext, InHandIs
    <3> QED BY <2>1, <2>6, <3>1, <3>2
  <2> QED BY <2>3, <2>4, <2>5, <2>6
<1>8. Shed(Cargo, Cargo') BY <1>7 DEF Shed
\* Of the direction it received, the task loses what is closest to it.
<1>9. ASSUME NEW k \in 2..3, NEW x PROVE Enclosed(<<To(s), k>>, x)'
  <2>1. Dst(To(s)) = s BY <1>3
  <2>2. \A l \in 4..6 : BlockedIn(To(s), l)' BY <1>6, <2>1 DEF BlockedIn, Cut
  <2>3. BlockedIn(To(s), 5)' BY <2>2
  <2>4. Sealed(Origin(To(s)))' BY <1>3, <2>3, FarSealedNext
  <2>5. Cargo'[<<To(s), 2>>] = {} /\ Cargo'[<<To(s), 3>>] = {}
    <3>1. held'[s][To(s)] = Fin BY <1>3, <1>4 DEF Fin
    <3> QED BY <1>3, <1>5, <2>1, <3>1, CargoIsNext, ChunksEmpty, InHandIs
  <2>6. <<To(s), k>>[1] = To(s) /\ <<To(s), k>>[2] = k OBVIOUS
  <2>7. \A l \in k..6 : l = 2 \/ l = 3 \/ l \in 4..6 OBVIOUS
  <2>8. \A l \in k..6 : \A y \in Cargo'[<<To(s), l>>] : BlockedIn(To(s), l)' BY <2>2, <2>5, <2>7
  <2>9. To(s) = "down" => BlockedIn("down", 5)' BY <2>3
  <2>10. Known(To(s))' BY <1>6 DEF Known, Cut
  <2> QED BY <2>4, <2>6, <2>8, <2>9, <2>10 DEF Enclosed
\* Of the direction it sent, only what it had in hand.
<1>10. ASSUME NEW d \in Dir, Src(d) = s, NEW x \in InHand(held[s][d]), Cargo'[<<d, 6>>] = {}
       PROVE  Enclosed(<<d, 6>>, x)'
  <2>1. ~(echo /\ d = "down")
    <3>1. held[s][d] # 0 BY <1>10 DEF InHand, Fin
    <3> QED BY <1>10, <3>1 DEF ShapeInv, EchoShape
  <2>2. Origin(d)' = d BY <2>1 DEF Origin, Dir
  <2>3. Sealed(d)' BY <1>6, <1>10 DEF Sealed
  <2>4. <<d, 6>>[1] = d /\ <<d, 6>>[2] = 6 /\ \A l \in 6..6 : l = 6 OBVIOUS
  <2>5. Known(d)' BY <1>6 DEF Known, Cut
  <2> QED BY <1>10, <2>1, <2>2, <2>3, <2>4, <2>5 DEF Enclosed
<1>11. ASSUME NEW r \in Place, NEW x \in Cargo[r], x \notin Cargo'[r] PROVE Enclosed(r, x)'
  <2>1. r[1] \in Dir BY Places
  <2>2. Cargo'[r] # Cargo[r] BY <1>11
  <2>3. CASE r = <<To(s), 2>> \/ r = <<To(s), 3>>
    <3>1. 2 \in 2..3 /\ 3 \in 2..3 OBVIOUS
    <3> QED BY <1>9, <2>3, <3>1
  <2>4. CASE Src(r[1]) = s /\ r = <<r[1], 6>> /\ Cargo[r] = InHand(held[s][r[1]])
    <3>1. Cargo'[<<r[1], 6>>] = {} BY <1>7, <2>2, <2>4
    <3>2. Enclosed(<<r[1], 6>>, x)' BY <1>10, <1>11, <2>1, <2>4, <3>1
    <3>3. PICK z : z = <<r[1], 6>> /\ z = r BY <2>4
    <3> QED BY <3>2, <3>3
  <2> QED BY <1>7, <2>2, <2>3, <2>4
<1> QED BY <1>8, <1>11 DEF Loses

LEMMA CargoStep ==
    ASSUME Types, ShapeInv, FinInv, SortedInv, [Next]_vars
    PROVE  Takes \/ (taken' = taken /\ (Moves \/ Loses))
<1> USE Ends
<1>0. echo' = echo BY Setting DEF echo
<1>1. ASSUME UNCHANGED <<taken, got, held, queues>> PROVE taken' = taken /\ Loses
  <2>1. \A r \in Place : Cargo'[r] = Cargo[r] BY <1>1, CargoFrame DEF queues
  <2> QED BY <1>1, <2>1, SameLoses
<1>2. CASE UNCHANGED vars BY <1>1, <1>2 DEF vars, tcpVars
<1>3. CASE Stops
  <2>1. taken' = taken BY <1>3 DEF Stops, ThreadStops, tcpVars
  <2> QED BY <1>0, <1>3, <2>1, StopsLoses
<1>4. ASSUME NEW d \in Dir, Send(d) \/ OriginEnds(d) \/ ShutTcp(d) PROVE taken' = taken /\ Loses
  BY <1>1, <1>4 DEF Send, OriginEnds, ShutTcp
<1>5. ASSUME NEW d \in Dir, TcpRead(d) PROVE Takes BY <1>5, TcpReadTakes
<1>6. ASSUME NEW d \in Dir, Write(d) PROVE taken' = taken /\ Moves
  <2>1. taken' = taken BY <1>6 DEF Write, tcpVars
  <2> QED BY <1>0, <1>6, <2>1, WriteMoves
<1>7. ASSUME NEW d \in Dir, ShutTransport(d) PROVE taken' = taken /\ Loses
  <2>1. UNCHANGED <<taken, got, held, recvQ>> BY <1>7 DEF ShutTransport, tcpVars
  <2>2. CASE Put(d, Fin)
    <3>1. PICK q : q = IF slipstream THEN <<d, 5>> ELSE <<d, 4>> OBVIOUS
    <3>2. PICK x : x = Fin OBVIOUS
    <3>3. /\ Cargo'[q] = Cargo[q]
          /\ \A e \in Dir : (q # <<e, 5>> => sendQ'[e] = sendQ[e]) /\ (q # <<e, 4>> => net'[e] = net[e])
      <4>1. x \in Item /\ Put(d, x) BY <2>2, <3>2, TypeFacts
      <4>2. /\ q \in Place /\ Cargo'[q] = Cargo[q] \cup InHand(x)
            /\ \A e \in Dir : /\ q # <<e, 5>> => sendQ'[e] = sendQ[e]
                              /\ q # <<e, 4>> => net'[e] = net[e]
        BY <3>1, <4>1, PutIs
      <4>3. InHand(x) = {} BY <3>2, InHandIs
      <4> QED BY <4>2, <4>3
    <3>4. ASSUME NEW r \in Place, r # q PROVE Cargo'[r] = Cargo[r]
      <4>1. r[1] \in Dir /\ r[2] \in 1..6 /\ r = <<r[1], r[2]>> BY Places
      <4>2. r[2] = 4 => net'[r[1]] = net[r[1]] BY <3>3, <3>4, <4>1
      <4>3. r[2] = 5 => sendQ'[r[1]] = sendQ[r[1]] BY <3>3, <3>4, <4>1
      <4>4. got' = got /\ held' = held /\ recvQ' = recvQ BY <2>1
      <4> QED BY <4>2, <4>3, <4>4, CargoFrame
    <3>5. \A r \in Place : Cargo'[r] = Cargo[r] BY <3>3, <3>4
    <3> QED BY <2>1, <3>5, SameLoses
  <2>3. CASE UNCHANGED <<sendQ, net>> BY <1>1, <2>1, <2>3 DEF queues
  <2> QED BY <1>7, <2>2, <2>3, Zenon DEF ShutTransport
<1>8. ASSUME NEW d \in Dir, Read(d) PROVE taken' = taken /\ Moves
  <2>1. taken' = taken BY <1>8 DEF Read, tcpVars
  <2> QED BY <1>0, <1>8, <2>1, ReadMoves
<1>9. ASSUME NEW d \in Dir, TcpWrite(d) PROVE taken' = taken /\ Moves
  <2>1. taken' = taken BY <1>9 DEF TcpWrite
  <2> QED BY <1>0, <1>9, <2>1, TcpWriteMoves
<1>10. ASSUME NEW d \in Dir, Transmit(d) PROVE taken' = taken /\ (Moves \/ Loses)
  <2>1. taken' = taken BY <1>10 DEF Transmit, tcpVars
  <2> QED BY <1>0, <1>10, <2>1, TransmitStep
<1>11. ASSUME NEW d \in Dir, Deliver(d) PROVE taken' = taken /\ (Moves \/ Loses)
  <2>1. taken' = taken BY <1>11 DEF Deliver, tcpVars
  <2> QED BY <1>0, <1>11, <2>1, DeliverStep
<1>12. ASSUME NEW s \in Side, Starts(s) PROVE taken' = taken /\ Loses
  BY <1>1, <1>12 DEF Starts, SetTask, tcpVars
<1>13. ASSUME NEW s \in Side, TaskEnds(s) PROVE taken' = taken /\ Loses
  <2>1. taken' = taken BY <1>13 DEF TaskEnds, EndTask
  <2> QED BY <1>0, <1>13, <2>1, TaskEndsLoses
<1>14. ASSUME NEW s \in Side, Learns(s) PROVE taken' = taken /\ Loses
  <2>1. taken' = taken BY <1>14 DEF Learns, Learn, tcpVars
  <2> QED BY <1>0, <1>14, <2>1, LearnsLoses
<1> QED BY <1>2, <1>3, <1>4, <1>5, <1>6, <1>7, <1>8, <1>9, <1>10, <1>11, <1>12, <1>13, <1>14,
           StepKind DEF Hop

-----------------------------------------------------------------------------
(* The order, along the way and within each queue.                         *)

OrderInv == SortedInv /\ Ordered(Cargo, taken)

LEMMA SortedQueue ==
    ASSUME NEW q \in Seq(Item), Sorted(q), NEW r,
           \/ r = q \/ r = <<>>
           \/ q # <<>> /\ r = Tail(q)
           \/ \E x \in Item : r = Append(q, x) /\ (x = Fin \/ \A y \in Chunks(q) : y < x)
    PROVE  Sorted(r)
<1>1. q # <<>> => Sorted(Tail(q)) BY ChunksTail
<1>2. \A x \in Item : (x = Fin \/ \A y \in Chunks(q) : y < x) => Sorted(Append(q, x)) BY ChunksAppend
<1> QED BY <1>1, <1>2, ChunksEmpty, Zenon

\* Where a chunk is put, all that is there precedes it.
LEMMA PutSorted ==
    ASSUME Types, ShapeInv, OrderInv, NEW d \in Dir, NEW x \in Item, Put(d, x),
           x = Fin \/ \A k \in 4..5 : (k = IF slipstream THEN 5 ELSE 4) => \A y \in Cargo[<<d, k>>] : y < x
    PROVE  \A e \in Dir : Sorted(sendQ'[e]) /\ Sorted(net'[e])
<1>1. \A e \in Dir : Sorted(sendQ[e]) /\ Sorted(net[e]) BY Zenon DEF OrderInv, SortedInv
<1>2. \A e \in Dir : sendQ[e] \in Seq(Item) /\ net[e] \in Seq(Item) BY QueueFacts
<1>3. sendQ \in [Dir -> Seq(Item)] /\ net \in [Dir -> Seq(Item)] BY TypeFacts
<1>4. 4 \in 4..5 /\ 5 \in 4..5 OBVIOUS
<1>5. CASE slipstream
  <2>1. sendQ' = [sendQ EXCEPT ![d] = Append(@, x)] /\ net' = net BY <1>5, Zenon DEF Put
  <2>2. sendQ'[d] = Append(sendQ[d], x) /\ \A e \in Dir : e # d => sendQ'[e] = sendQ[e] BY <1>3, <2>1
  <2>3. x = Fin \/ \A y \in Chunks(sendQ[d]) : y < x
    <3>1. Cargo[<<d, 5>>] = Chunks(sendQ[d]) BY CargoIs
    <3> QED BY <1>4, <1>5, <3>1
  <2>4. Sorted(sendQ'[d]) BY <1>1, <1>2, <2>2, <2>3, SortedQueue
  <2> QED BY <1>1, <2>1, <2>2, <2>4
<1>6. CASE ~slipstream
  <2>1. net' = [net EXCEPT ![d] = Append(@, x)] /\ sendQ' = sendQ BY <1>6, Zenon DEF Put
  <2>2. net'[d] = Append(net[d], x) /\ \A e \in Dir : e # d => net'[e] = net[e] BY <1>3, <2>1
  <2>3. x = Fin \/ \A y \in Chunks(net[d]) : y < x
    <3>1. Cargo[<<d, 4>>] = Chunks(net[d]) BY CargoIs
    <3> QED BY <1>4, <1>6, <3>1
  <2>4. Sorted(net'[d]) BY <1>1, <1>2, <2>2, <2>3, SortedQueue
  <2> QED BY <1>1, <2>1, <2>2, <2>4
<1> QED BY <1>5, <1>6

LEMMA ArriveSorted ==
    ASSUME Types, OrderInv, NEW d \in Dir, NEW x \in Item, Queued(d, x) \/ Dropped(d, x),
           x = Fin \/ \A y \in Cargo[<<d, 3>>] : y < x
    PROVE  \A e \in Dir : Sorted(recvQ'[e])
<1>1. \A e \in Dir : Sorted(recvQ[e]) BY Zenon DEF OrderInv, SortedInv
<1>2. CASE Queued(d, x)
  <2>1. recvQ' = [recvQ EXCEPT ![d] = Append(@, x)] BY <1>2 DEF Queued
  <2>2. recvQ'[d] = Append(recvQ[d], x) /\ \A e \in Dir : e # d => recvQ'[e] = recvQ[e] BY <2>1, TypeFacts
  <2>3. x = Fin \/ \A y \in Chunks(recvQ[d]) : y < x
    <3>1. Cargo[<<d, 3>>] = Chunks(recvQ[d]) BY CargoIs
    <3> QED BY <3>1
  <2>4. recvQ[d] \in Seq(Item) BY QueueFacts
  <2>5. Sorted(recvQ'[d]) BY <1>1, <2>2, <2>3, <2>4, SortedQueue
  <2> QED BY <1>1, <2>2, <2>5
<1>3. CASE Dropped(d, x) BY <1>1, <1>3 DEF Dropped
<1> QED BY <1>2, <1>3

LEMMA SortedStep ==
    ASSUME Types, ShapeInv, OrderInv, [Next]_vars
    PROVE  SortedInv'
<1> USE Ends
<1>1. \A e \in Dir : Sorted(got[e]) /\ Sorted(recvQ[e]) /\ Sorted(net[e]) /\ Sorted(sendQ[e])
  BY Zenon DEF OrderInv, SortedInv
<1>2. \A e \in Dir : /\ got[e] \in Seq(Item) /\ recvQ[e] \in Seq(Item)
                    /\ net[e] \in Seq(Item) /\ sendQ[e] \in Seq(Item)
  BY QueueFacts
<1>t. /\ sendQ \in [Dir -> Seq(Item)] /\ recvQ \in [Dir -> Seq(Item)] /\ net \in [Dir -> Seq(Item)]
      /\ Fin \in Item
  BY TypeFacts
<1>o. \A p, q \in Place : Ahead(p, q) => \A x \in Cargo[p], y \in Cargo[q] : x < y
  BY DEF OrderInv, Ordered
\* A queue that a step does not fill stays in order.
<1>3. ASSUME NEW f, NEW g, f \in [Dir -> Seq(Item)], \A e \in Dir : Sorted(f[e]),
             \/ g = f
             \/ \E d \in Dir : g = [f EXCEPT ![d] = <<>>]
             \/ \E d \in Dir : f[d] # <<>> /\ g = [f EXCEPT ![d] = Tail(@)]
      PROVE  \A e \in Dir : Sorted(g[e])
  <2> SUFFICES ASSUME NEW e \in Dir PROVE Sorted(g[e]) OBVIOUS
  <2>1. f[e] \in Seq(Item) /\ Sorted(f[e]) BY <1>3
  <2>2. g[e] = f[e] \/ g[e] = <<>> \/ (f[e] # <<>> /\ g[e] = Tail(f[e])) BY <1>3
  <2> QED BY <2>1, <2>2, SortedQueue, Zenon
<1>4. ASSUME UNCHANGED <<got, queues>> PROVE SortedInv'
  <2>1. got' = got /\ recvQ' = recvQ /\ net' = net /\ sendQ' = sendQ BY <1>4 DEF queues
  <2> QED BY <1>1, <2>1, Zenon DEF SortedInv
<1>5. CASE UNCHANGED vars BY <1>4, <1>5 DEF vars, tcpVars
<1>6. CASE Stops
  <2>1. PICK why : ThreadStops(why) BY <1>6 DEF Stops
  <2>2. sendQ' = [sendQ EXCEPT !["up"] = <<>>] /\ got' = got /\ recvQ' = recvQ /\ net' = net
    BY <2>1 DEF ThreadStops, tcpVars
  <2>3. \A e \in Dir : Sorted(sendQ'[e]) BY <1>1, <1>3, <1>t, <2>2 DEF Dir
  <2> QED BY <1>1, <2>2, <2>3 DEF SortedInv
<1>7. ASSUME NEW d \in Dir, Send(d) \/ OriginEnds(d) \/ TcpRead(d) \/ ShutTcp(d) PROVE SortedInv'
  BY <1>4, <1>7 DEF Send, OriginEnds, TcpRead, ShutTcp
<1>8. ASSUME NEW d \in Dir, Write(d) PROVE SortedInv'
  <2>1. PICK x : x = held[Src(d)][HopTo(d)] OBVIOUS
  <2>2. x # 0 /\ Put(d, x) /\ got' = got /\ recvQ' = recvQ BY <1>8, <2>1 DEF Write, tcpVars
  <2>3. x \in Item BY <2>1, TypeFacts
  <2>4. PICK p : p = IF echo /\ d = "down" THEN <<"up", 2>> ELSE <<d, 6>> OBVIOUS
  <2>5. PICK q : q = IF slipstream THEN <<d, 5>> ELSE <<d, 4>> OBVIOUS
  <2>6. p \in Place /\ q \in Place
    <3>1. "up" \in Dir BY DEF Dir
    <3> QED BY <2>4, <2>5, <3>1, Places
  <2>7. x \in Cargo[p]
    <3>1. CASE echo /\ d = "down"
      <4>1. p = <<"up", 2>> /\ HopTo(d) = "up" /\ Src(d) = Dst("up") /\ "up" \in Dir
        BY <2>4, <3>1 DEF HopTo, Dir, Src, Dst
      <4> QED BY <2>1, <2>2, <4>1, CargoIs DEF InHand, Fin
    <3>2. CASE ~(echo /\ d = "down")
      <4>1. p = <<d, 6>> /\ HopTo(d) = d BY <2>4, <3>2 DEF HopTo
      <4> QED BY <2>1, <2>2, <4>1, CargoIs DEF InHand, Fin
    <3> QED BY <3>1, <3>2
  <2>8. \A y \in Cargo[q] : y < x
    <3>1. Ahead(q, p) BY <2>4, <2>5, <2>6, WriteGap
    <3> QED BY <1>o, <2>6, <2>7, <3>1
  <2>9. \A e \in Dir : Sorted(sendQ'[e]) /\ Sorted(net'[e])
    <3>1. \A k \in 4..5 : (k = IF slipstream THEN 5 ELSE 4) => \A y \in Cargo[<<d, k>>] : y < x
      BY <2>5, <2>8
    <3> QED BY <2>2, <2>3, <3>1, PutSorted
  <2> QED BY <1>1, <2>2, <2>9 DEF SortedInv
<1>9. ASSUME NEW d \in Dir, ShutTransport(d) PROVE SortedInv'
  <2>1. got' = got /\ recvQ' = recvQ BY <1>9 DEF ShutTransport, tcpVars
  <2>2. CASE Put(d, Fin)
    <3>1. \A e \in Dir : Sorted(sendQ'[e]) /\ Sorted(net'[e]) BY <1>t, <2>2, PutSorted
    <3> QED BY <1>1, <2>1, <3>1 DEF SortedInv
  <2>3. CASE UNCHANGED <<sendQ, net>> BY <1>4, <2>1, <2>3 DEF queues
  <2> QED BY <1>9, <2>2, <2>3, Zenon DEF ShutTransport
<1>10. ASSUME NEW d \in Dir, Read(d) PROVE SortedInv'
  <2>1. recvQ[d] # <<>> /\ recvQ' = [recvQ EXCEPT ![d] = Tail(@)] /\ got' = got /\ sendQ' = sendQ /\ net' = net
    BY <1>10 DEF Read, tcpVars
  <2>2. \A e \in Dir : Sorted(recvQ'[e]) BY <1>1, <1>3, <1>t, <2>1
  <2> QED BY <1>1, <2>1, <2>2 DEF SortedInv
<1>11. ASSUME NEW d \in Dir, TcpWrite(d) PROVE SortedInv'
  <2>1. PICK x : x = held[Dst(d)][d] OBVIOUS
  <2>2. x # 0 /\ got' = [got EXCEPT ![d] = Append(@, x)] /\ UNCHANGED queues BY <1>11, <2>1 DEF TcpWrite
  <2>3. x \in Item /\ got \in [Dir -> Seq(Item \ {Fin})] BY <2>1, TypeFacts
  <2>4. got'[d] = Append(got[d], x) /\ \A e \in Dir : e # d => got'[e] = got[e] BY <2>2, <2>3
  <2>5. \A y \in Chunks(got[d]) : y < x
    <3>1. Cargo[<<d, 1>>] = Chunks(got[d]) /\ x \in Cargo[<<d, 2>>] BY <2>1, <2>2, CargoIs DEF InHand, Fin
    <3>2. Ahead(<<d, 1>>, <<d, 2>>) BY NeighboursAre DEF Adjoins
    <3>3. <<d, 1>> \in Place /\ <<d, 2>> \in Place BY Places
    <3> QED BY <1>o, <3>1, <3>2, <3>3
  <2>6. Sorted(got'[d]) BY <1>1, <1>2, <2>3, <2>4, <2>5, SortedQueue
  <2>7. recvQ' = recvQ /\ net' = net /\ sendQ' = sendQ BY <2>2 DEF queues
  <2> QED BY <1>1, <2>4, <2>6, <2>7 DEF SortedInv
<1>12. ASSUME NEW d \in Dir, Transmit(d) PROVE SortedInv'
  <2>1. PICK x : x = Head(sendQ[d]) OBVIOUS
  <2>2. sendQ[d] # <<>> /\ sendQ' = [sendQ EXCEPT ![d] = Tail(@)] /\ got' = got /\ recvQ' = recvQ
    BY <1>12 DEF Transmit, tcpVars
  <2>3. net' = net \/ net' = [net EXCEPT ![d] = Append(@, x)] BY <1>12, <2>1 DEF Transmit
  <2>4. \A e \in Dir : Sorted(sendQ'[e]) BY <1>1, <1>3, <1>t, <2>2
  <2>5. x \in Item BY <1>2, <2>1, <2>2
  <2>6. x = Fin \/ \A y \in Chunks(net[d]) : y < x
    <3>1. /\ Cargo[<<d, 4>>] = Chunks(net[d]) /\ Cargo[<<d, 5>>] = Chunks(sendQ[d]) BY CargoIs
    <3>2. x # Fin => x \in Chunks(sendQ[d]) BY <1>2, <2>1, <2>2, ChunksTail, InHandIs
    <3>3. Ahead(<<d, 4>>, <<d, 5>>) BY NeighboursAre DEF Adjoins
    <3>4. <<d, 4>> \in Place /\ <<d, 5>> \in Place BY Places
    <3> QED BY <1>o, <3>1, <3>2, <3>3, <3>4
  <2>7. \A e \in Dir : Sorted(net'[e])
    <3>1. CASE net' = net BY <1>1, <3>1
    <3>2. CASE net' = [net EXCEPT ![d] = Append(@, x)]
      <4>1. net'[d] = Append(net[d], x) /\ \A e \in Dir : e # d => net'[e] = net[e] BY <1>t, <3>2
      <4>2. Sorted(net'[d]) BY <1>1, <1>2, <2>5, <2>6, <4>1, SortedQueue
      <4> QED BY <1>1, <4>1, <4>2
    <3> QED BY <2>3, <3>1, <3>2
  <2> QED BY <1>1, <2>2, <2>4, <2>7 DEF SortedInv
<1>13. ASSUME NEW d \in Dir, Deliver(d) PROVE SortedInv'
  <2>1. net[d] # <<>> /\ got' = got /\ sendQ' = sendQ BY <1>13 DEF Deliver, tcpVars
  <2>2. PICK x \in Item : /\ \E why : Arrive(d, x, why)
                          /\ x = Fin \/ x = Head(net[d])
                          /\ net' = [net EXCEPT ![d] = Tail(@)] \/ net' = [net EXCEPT ![d] = <<>>]
    <3>1. Head(net[d]) \in Item BY <1>2, <2>1
    <3> QED BY <1>13, <1>t, <3>1, Zenon DEF Deliver
  <2>3. \A e \in Dir : Sorted(net'[e]) BY <1>1, <1>3, <1>t, <2>1, <2>2
  <2>4. Queued(d, x) \/ Dropped(d, x) BY <2>2, ArriveKind, Zenon
  <2>5. x = Fin \/ \A y \in Cargo[<<d, 3>>] : y < x
    <3>1. Cargo[<<d, 4>>] = Chunks(net[d]) BY CargoIs
    <3>2. x # Fin => x \in Chunks(net[d]) BY <1>2, <2>1, <2>2, ChunksTail, InHandIs
    <3>3. Ahead(<<d, 3>>, <<d, 4>>) BY NeighboursAre DEF Adjoins
    <3>4. <<d, 3>> \in Place /\ <<d, 4>> \in Place BY Places
    <3> QED BY <1>o, <3>1, <3>2, <3>3, <3>4
  <2>6. \A e \in Dir : Sorted(recvQ'[e]) BY <2>4, <2>5, ArriveSorted
  <2> QED BY <1>1, <2>1, <2>3, <2>6 DEF SortedInv
<1>14. ASSUME NEW s \in Side, Starts(s) PROVE SortedInv'
  BY <1>4, <1>14 DEF Starts, SetTask, tcpVars
<1>15. ASSUME NEW s \in Side, TaskEnds(s) PROVE SortedInv'
  <2>1. PICK why : EndTask(s, why) BY <1>15 DEF TaskEnds
  <2>2. recvQ' = [recvQ EXCEPT ![To(s)] = <<>>] /\ got' = got /\ sendQ' = sendQ /\ net' = net
    BY <2>1 DEF EndTask
  <2>3. To(s) \in Dir BY DEF To, Dir
  <2>4. \A e \in Dir : Sorted(recvQ'[e]) BY <1>1, <1>3, <1>t, <2>2, <2>3
  <2> QED BY <1>1, <2>2, <2>4 DEF SortedInv
<1>16. ASSUME NEW s \in Side, Learns(s) PROVE SortedInv'
  <2>1. PICK why : Learn(s, why) BY <1>16 DEF Learns
  <2>2. got' = got /\ net' = net /\ (sendQ' = sendQ \/ sendQ' = [sendQ EXCEPT !["down"] = <<>>])
    BY <2>1 DEF Learn, tcpVars
  <2>3. "down" \in Dir BY DEF Dir
  <2>4. \A e \in Dir : Sorted(sendQ'[e]) BY <1>1, <1>3, <1>t, <2>2, <2>3
  <2>5. \A e \in Dir : Sorted(recvQ'[e])
    <3>1. CASE Arrive("down", Fin, why)
      <4>1. Queued("down", Fin) \/ Dropped("down", Fin) BY <1>t, <2>3, <3>1, ArriveKind, Zenon
      <4> QED BY <1>t, <2>3, <4>1, ArriveSorted
    <3>2. CASE UNCHANGED recvQ BY <1>1, <3>2
    <3> QED BY <2>1, <3>1, <3>2, Zenon DEF Learn
  <2> QED BY <1>1, <2>2, <2>4, <2>5 DEF SortedInv
<1> QED BY <1>5, <1>6, <1>7, <1>8, <1>9, <1>10, <1>11, <1>12, <1>13, <1>14, <1>15, <1>16, StepKind DEF Hop

LEMMA OrderInit == Init => OrderInv
<1> SUFFICES ASSUME Init PROVE OrderInv OBVIOUS
<1>1. \A d \in Dir : /\ got[d] = <<>> /\ recvQ[d] = <<>> /\ net[d] = <<>> /\ sendQ[d] = <<>>
                    /\ held[Src(d)][d] = 0 /\ held[Dst(d)][d] = 0
  BY Ends DEF Init
<1>2. SortedInv BY <1>1, ChunksEmpty DEF SortedInv
<1>3. ASSUME NEW p \in Place PROVE Cargo[p] = {}
  <2>1. p[1] \in Dir /\ p[2] \in 1..6 /\ p = <<p[1], p[2]>> BY Places
  <2>2. PICK d \in Dir, k \in 1..6 : p = <<d, k>> BY <2>1
  <2>3. /\ Cargo[<<d, 1>>] = {} /\ Cargo[<<d, 2>>] = {} /\ Cargo[<<d, 3>>] = {}
        /\ Cargo[<<d, 4>>] = {} /\ Cargo[<<d, 5>>] = {} /\ Cargo[<<d, 6>>] = {}
    BY <1>1, CargoIs, ChunksEmpty DEF InHand, Fin
  <2>4. k = 1 \/ k = 2 \/ k = 3 \/ k = 4 \/ k = 5 \/ k = 6 OBVIOUS
  <2> QED BY ONLY <2>2, <2>3, <2>4
<1> QED BY <1>2, <1>3 DEF OrderInv, Ordered

LEMMA OrderStep == Types /\ ShapeInv /\ FinInv /\ OrderInv /\ [Next]_vars => OrderInv'
<1> SUFFICES ASSUME Types, ShapeInv, FinInv, OrderInv, [Next]_vars PROVE OrderInv' OBVIOUS
<1>1. SortedInv' BY SortedStep
<1>2. Takes \/ (taken' = taken /\ (Moves \/ Loses)) BY CargoStep DEF OrderInv
<1>3. PICK C, D, t, u : C = Cargo /\ D = Cargo' /\ t = taken /\ u = taken' OBVIOUS
<1>4. Ordered(C, t) BY <1>3 DEF OrderInv
<1>5. t \in [Dir -> Nat] BY <1>3, TypeFacts
<1>6. Ordered(D, u)
  <2>1. CASE Takes
    <3>1. PICK d \in Dir :
              /\ Origin(d) = d /\ \A r \in Place : ~Ahead(<<d, 6>>, r)
              /\ D[<<d, 6>>] = {t[d] + 1} /\ \A r \in Place : r # <<d, 6>> => D[r] = C[r]
              /\ u = [t EXCEPT ![d] = @ + 1]
      BY <1>3, <2>1 DEF Takes
    <3> QED BY <1>4, <1>5, <3>1, TakingKeepsOrder
  <2>2. CASE taken' = taken /\ Moves
    <3>1. PICK p, q \in Place : \E x : Carried(C, D, p, q, x) BY <1>3, <2>2 DEF Moves
    <3>2. PICK x : Carried(C, D, p, q, x) BY <3>1
    <3> QED BY <1>3, <1>4, <2>2, <3>2, CarryingKeepsOrder
  <2>3. CASE taken' = taken /\ Loses
    <3>1. Shed(C, D) BY <1>3, <2>3 DEF Loses
    <3> QED BY <1>3, <1>4, <2>3, <3>1, SheddingKeepsOrder
  <2> QED BY <1>2, <2>1, <2>2, <2>3
<1>7. Ordered(Cargo, taken)'
  <2>1. mode' = mode BY Setting
  <2> QED BY <1>3, <1>6, <2>1 DEF Ordered, Ahead, Pos, Origin, echo
<1> QED BY <1>1, <1>7 DEF OrderInv
=============================================================================
