-------------------------- MODULE RedisRepliesProofs --------------------------
(***************************************************************************)
(* Proofs about RedisReplies, for any reply objects and any number of      *)
(* commands and of elements.                                               *)
(***************************************************************************)
EXTENDS Integers, RedisReplies, SequenceTheorems, WellFoundedInduction, TLAPS

-----------------------------------------------------------------------------
(* The list.                                                               *)

In(l) == {l[i] : i \in 1 .. Len(l)}
Single(l) == \A i, j \in 1 .. Len(l) : l[i] = l[j] => i = j

\* e stands before f in l.
Precedes(l, e, f) == \E i, j \in 1 .. Len(l) : i < j /\ l[i] = e /\ l[j] = f

LEMMA Least == ASSUME NEW T \in SUBSET Nat, T # {} PROVE \E x \in T : \A y \in T : x <= y
<1>1. IsWellFoundedOn(OpToRel(<, Nat), Nat)
  BY NatLessThanWellFounded
<1>2. \A x, y \in Nat : <<x, y>> \in OpToRel(<, Nat) <=> x < y
  BY DEF OpToRel
<1>3. PICK R : IsWellFoundedOn(R, Nat) /\ \A x, y \in Nat : <<x, y>> \in R <=> x < y
  BY <1>1, <1>2
<1>4. PICK x \in T : \A y \in T : ~ (<<y, x>> \in R)
  <2>1. T \subseteq Nat
    OBVIOUS
  <2>2. IsWellFoundedOn(R, Nat)
    BY <1>3
  <2> QED
    BY <2>1, <2>2, WFMin
<1>5. \A y \in T : ~ (y < x)
  BY <1>3, <1>4
<1> QED
  BY <1>5

LEMMA MinIs == ASSUME NEW T \in SUBSET Nat, T # {} PROVE Min(T) \in T /\ \A y \in T : Min(T) <= y
  BY Least DEF Min

\* The list without the first, and only, o.
LEMMA Unlinked ==
    ASSUME NEW S, NEW l \in Seq(S), Single(l), NEW o
    PROVE  /\ RemoveFirst(l, o) \in Seq(S) /\ Single(RemoveFirst(l, o))
           /\ In(RemoveFirst(l, o)) = In(l) \ {o}
           /\ \A e, f : Precedes(RemoveFirst(l, o), e, f) => Precedes(l, e, f)
<1> DEFINE m == RemoveFirst(l, o)
<1>0. Len(l) \in Nat
  BY LenProperties
<1>1. CASE ~ \E i \in 1 .. Len(l) : l[i] = o
  <2>1. m = l
    BY <1>1 DEF RemoveFirst
  <2>2. o \notin In(l)
    BY <1>1 DEF In
  <2> QED
    BY <2>1, <2>2
<1>2. CASE \E i \in 1 .. Len(l) : l[i] = o
  <2>1. PICK k \in 1 .. Len(l) : l[k] = o /\ m = RemoveAt(l, k)
    <3> DEFINE T == {i \in 1 .. Len(l) : l[i] = o}
    <3>1. m = RemoveAt(l, Min(T))
      BY <1>2 DEF RemoveFirst, SelectInSeq
    <3>2. T \in SUBSET Nat /\ T # {}
      BY <1>2
    <3>3. Min(T) \in T
      BY <3>2, MinIs
    <3> QED
      BY <3>1, <3>3
  <2>2. /\ SubSeq(l, 1, k - 1) \in Seq(S) /\ Len(SubSeq(l, 1, k - 1)) = k - 1
        /\ \A i \in 1 .. k - 1 : SubSeq(l, 1, k - 1)[i] = l[i]
    BY <1>0, ElementOfSeq, SubSeqProperties
  <2>3. /\ SubSeq(l, k + 1, Len(l)) \in Seq(S) /\ Len(SubSeq(l, k + 1, Len(l))) = Len(l) - k
        /\ \A i \in 1 .. Len(l) - k : SubSeq(l, k + 1, Len(l))[i] = l[k + i]
    BY <1>0, ElementOfSeq, SubSeqProperties
  <2>4. /\ m \in Seq(S) /\ Len(m) = Len(l) - 1
        /\ \A i \in 1 .. Len(m) : m[i] = IF i < k THEN l[i] ELSE l[i + 1]
    <3> DEFINE u == SubSeq(l, 1, k - 1)
               v == SubSeq(l, k + 1, Len(l))
    <3>1. m = u \o v
      BY <2>1 DEF RemoveAt
    <3>2. /\ u \in Seq(S) /\ Len(u) = k - 1 /\ \A i \in 1 .. k - 1 : u[i] = l[i]
          /\ v \in Seq(S) /\ Len(v) = Len(l) - k /\ \A i \in 1 .. Len(l) - k : v[i] = l[k + i]
      BY <2>2, <2>3
    <3> HIDE DEF u, v, m
    <3>3. /\ u \o v \in Seq(S) /\ Len(u \o v) = Len(u) + Len(v)
          /\ \A i \in 1 .. Len(u) + Len(v) : (u \o v)[i] = IF i <= Len(u) THEN u[i] ELSE v[i - Len(u)]
      BY <3>2, ConcatProperties
    <3>4. Len(m) = Len(l) - 1 /\ m \in Seq(S)
      BY <1>0, <3>1, <3>2, <3>3
    <3>5. ASSUME NEW i \in 1 .. Len(m) PROVE m[i] = IF i < k THEN l[i] ELSE l[i + 1]
      <4>1. m[i] = IF i <= k - 1 THEN u[i] ELSE v[i - (k - 1)]
        BY <1>0, <3>1, <3>2, <3>3, <3>4, <3>5
      <4>2. CASE i < k
        BY <1>0, <3>2, <4>1, <4>2
      <4>3. CASE i >= k
        <5>1. i - (k - 1) \in 1 .. Len(l) - k /\ k + (i - (k - 1)) = i + 1
          BY <1>0, <3>4, <3>5, <4>3
        <5> QED
          BY <1>0, <3>2, <4>1, <4>3, <5>1
      <4> QED
        BY <1>0, <4>2, <4>3
    <3> QED
      BY <3>4, <3>5
  <2> HIDE DEF m
  <2>5. Single(m)
    BY <1>0, <2>4 DEF Single
  <2>6. In(m) = In(l) \ {o}
    <3>1. ASSUME NEW i \in 1 .. Len(m) PROVE m[i] \in In(l) \ {o}
      BY <1>0, <2>1, <2>4 DEF Single, In
    <3>2. ASSUME NEW i \in 1 .. Len(l), l[i] # o PROVE l[i] \in In(m)
      <4>1. CASE i < k
        <5>1. i \in 1 .. Len(m) /\ m[i] = l[i]
          BY <1>0, <2>1, <2>4, <4>1
        <5> QED
          BY <5>1 DEF In
      <4>2. CASE i > k
        <5>1. i - 1 \in 1 .. Len(m) /\ m[i - 1] = l[i]
          BY <1>0, <2>1, <2>4, <4>2
        <5> QED
          BY <5>1 DEF In
      <4> QED
        BY <2>1, <3>2, <4>1, <4>2
    <3> QED
      BY <3>1, <3>2 DEF In
  <2>7. ASSUME NEW e, NEW f, Precedes(m, e, f) PROVE Precedes(l, e, f)
    <3>1. PICK i, j \in 1 .. Len(m) : i < j /\ m[i] = e /\ m[j] = f
      BY <2>7 DEF Precedes
    <3> DEFINE a == IF i < k THEN i ELSE i + 1
               b == IF j < k THEN j ELSE j + 1
    <3>2. a \in 1 .. Len(l) /\ b \in 1 .. Len(l) /\ a < b /\ l[a] = e /\ l[b] = f
      BY <1>0, <2>1, <2>4, <3>1
    <3> QED
      BY <3>2 DEF Precedes
  <2> QED
    BY <2>4, <2>5, <2>6, <2>7 DEF m
<1> QED
  BY <1>1, <1>2

\* The list with p at the place of o.
LEMMA Replaced ==
    ASSUME NEW S, NEW l \in Seq(S), Single(l), NEW o, NEW p \in S, p \notin In(l)
    PROVE  LET m == ReplaceAll(l, o, p)
           IN  /\ m \in Seq(S) /\ Single(m)
               /\ In(m) = IF o \in In(l) THEN (In(l) \ {o}) \cup {p} ELSE In(l)
               /\ \A e, f : Precedes(m, e, f) =>
                     Precedes(l, IF e = p THEN o ELSE e, IF f = p THEN o ELSE f)
<1> DEFINE m == ReplaceAll(l, o, p)
<1>1. Len(l) \in Nat /\ \A i \in 1 .. Len(l) : l[i] \in S
  BY LenProperties, ElementOfSeq
<1>2. m \in Seq(S) /\ Len(m) = Len(l) /\ \A i \in 1 .. Len(l) : m[i] = IF l[i] = o THEN p ELSE l[i]
  BY <1>1 DEF ReplaceAll
<1>3. \A i \in 1 .. Len(l) : l[i] # p
  BY DEF In
<1> HIDE DEF m
<1>4. Single(m)
  BY <1>2, <1>3 DEF Single
<1>5. In(m) = IF o \in In(l) THEN (In(l) \ {o}) \cup {p} ELSE In(l)
  BY <1>2, <1>3 DEF In
<1>6. ASSUME NEW e, NEW f, Precedes(m, e, f)
      PROVE  Precedes(l, IF e = p THEN o ELSE e, IF f = p THEN o ELSE f)
  <2>1. PICK i, j \in 1 .. Len(l) : i < j /\ m[i] = e /\ m[j] = f
    BY <1>2, <1>6 DEF Precedes
  <2>2. l[i] = (IF e = p THEN o ELSE e) /\ l[j] = (IF f = p THEN o ELSE f)
    BY <1>2, <1>3, <2>1
  <2> QED
    BY <2>1, <2>2 DEF Precedes
<1> QED
  BY <1>2, <1>4, <1>5, <1>6 DEF m

LEMMA Linked ==
    ASSUME NEW S, NEW l \in Seq(S), Single(l), NEW o \in S, o \notin In(l)
    PROVE  LET m == Append(l, o)
           IN  /\ m \in Seq(S) /\ Single(m) /\ In(m) = In(l) \cup {o}
               /\ \A e, f : Precedes(m, e, f) => Precedes(l, e, f) \/ (f = o /\ e \in In(l))
<1> DEFINE m == Append(l, o)
<1>1. /\ Len(l) \in Nat /\ m \in Seq(S) /\ Len(m) = Len(l) + 1
      /\ \A i \in 1 .. Len(l) : m[i] = l[i]
      /\ m[Len(l) + 1] = o
  BY LenProperties, AppendProperties
<1>2. \A i \in 1 .. Len(l) : l[i] # o
  BY DEF In
<1> HIDE DEF m
<1>3. 1 .. Len(m) = (1 .. Len(l)) \cup {Len(l) + 1}
  BY <1>1
<1>4. Single(m)
  BY <1>1, <1>2, <1>3 DEF Single
<1>5. In(m) = In(l) \cup {o}
  BY <1>1, <1>3 DEF In
<1>6. ASSUME NEW e, NEW f, Precedes(m, e, f) PROVE Precedes(l, e, f) \/ (f = o /\ e \in In(l))
  <2>1. PICK i, j \in 1 .. Len(m) : i < j /\ m[i] = e /\ m[j] = f
    BY <1>6 DEF Precedes
  <2>2. i \in 1 .. Len(l) /\ l[i] = e
    BY <1>1, <2>1
  <2>3. CASE j \in 1 .. Len(l)
    BY <1>1, <2>1, <2>2, <2>3 DEF Precedes
  <2>4. CASE j = Len(l) + 1
    BY <1>1, <2>1, <2>2, <2>4 DEF In
  <2> QED
    BY <1>3, <2>1, <2>3, <2>4
<1> QED
  BY <1>1, <1>4, <1>5, <1>6 DEF m

-----------------------------------------------------------------------------
(* The stream.                                                             *)

\* An answer comes in one piece, and answers come in the order of the commands.
InPieces(q) ==
    /\ \A i, j \in 1 .. Len(q) : i < j /\ q[i].command # 0 /\ q[j].command # 0 =>
          \/ q[i].command < q[j].command
          \/ q[i].command = q[j].command /\ q[i].more = q[j].more + (j - i)
    /\ \A i \in 1 .. Len(q) : \A k \in i .. i + q[i].more :
          k <= Len(q) /\ q[k].command = q[i].command
    /\ \A i \in 1 .. Len(q) : q[i].says # "value" => q[i].more = 0

\* What has to be read: the answer to a command, and how many items of it there
\* are, 0 if that is not known yet.
DutySet == [command : Nat, left : Nat]

\* The items of q are those of the duties D.
Serves(q, D) ==
    /\ InPieces(q)
    /\ \A d, e \in D : d.command = e.command => d = e
    /\ \A i \in 1 .. Len(q) : q[i].command # 0 => \E d \in D : d.command = q[i].command
    /\ \A d \in D :
          /\ d.command # 0
          /\ \E i \in 1 .. Len(q) : q[i].command = d.command /\ (d.left > 0 => q[i].more = d.left - 1)
          /\ \A i \in 1 .. Len(q) : q[i].command = d.command /\ d.left > 0 => q[i].more < d.left

StatusLast(q) == \A i, j \in 1 .. Len(q) : i <= j /\ q[i].command = 0 => q[j].command = 0

LEMMA ItemFields ==
    ASSUME NEW q \in Seq(Item)
    PROVE  /\ Len(q) \in Nat
           /\ \A i \in 1 .. Len(q) : q[i] \in Item /\ q[i].command \in Nat /\ q[i].more \in Nat
<1>1. Len(q) \in Nat
  BY LenProperties
<1>2. ASSUME NEW i \in 1 .. Len(q) PROVE q[i] \in Item /\ q[i].command \in Nat /\ q[i].more \in Nat
  <2>1. q[i] \in Item
    BY ElementOfSeq
  <2> QED
    BY <2>1, RedisAssumption DEF Item
<1> QED
  BY <1>1, <1>2

\* The least of the duties is served first.
LEMMA LeastFirst ==
    ASSUME NEW q \in Seq(Item), NEW D \in SUBSET DutySet, Serves(q, D), StatusLast(q),
           NEW d \in D, \A f \in D : d.command <= f.command
    PROVE  /\ Len(q) > 0 /\ q[1].command = d.command
           /\ d.left > 0 => q[1].more = d.left - 1
<1>1. /\ Len(q) \in Nat
      /\ \A i \in 1 .. Len(q) : q[i].command \in Nat /\ q[i].more \in Nat
  BY ItemFields
<1>2. \A e \in D : e.command \in Nat /\ e.left \in Nat
  BY DEF DutySet
<1>3. PICK k \in 1 .. Len(q) : q[k].command = d.command /\ (d.left > 0 => q[k].more = d.left - 1)
  BY DEF Serves
<1>4. d.command # 0
  BY DEF Serves
<1>5. 1 \in 1 .. Len(q)
  BY <1>1, <1>3
<1>6. q[1].command # 0
  BY <1>1, <1>3, <1>4, <1>5 DEF StatusLast
<1>7. PICK e \in D : e.command = q[1].command
  BY <1>5, <1>6 DEF Serves
<1>8. CASE k = 1
  BY <1>1, <1>2, <1>3, <1>8
<1>9. CASE k # 1
  <2>1. q[1].command < q[k].command \/ (q[1].command = q[k].command /\ q[1].more = q[k].more + (k - 1))
    BY <1>1, <1>3, <1>4, <1>5, <1>6, <1>9 DEF Serves, InPieces
  <2>2. q[1].command = q[k].command /\ q[1].more = q[k].more + (k - 1)
    BY <1>1, <1>2, <1>3, <1>5, <1>7, <2>1
  <2>3. ASSUME d.left > 0 PROVE FALSE
    <3>1. q[1].more < d.left
      BY <1>3, <1>5, <2>2, <2>3 DEF Serves
    <3> QED
      BY <1>1, <1>2, <1>3, <1>9, <2>2, <2>3, <3>1
  <2> QED
    BY <1>1, <1>2, <1>3, <1>5, <2>2, <2>3
<1> QED
  BY <1>8, <1>9

LEMMA DropIs ==
    ASSUME NEW q \in Seq(Item), NEW n \in 0 .. Len(q)
    PROVE  /\ Drop(q, n) \in Seq(Item) /\ Len(Drop(q, n)) = Len(q) - n
           /\ \A i \in 1 .. Len(q) - n : Drop(q, n)[i] = q[i + n]
<1>1. Len(q) \in Nat /\ \A i \in 1 .. Len(q) : q[i] \in Item
  BY ItemFields
<1>2. \A i \in n + 1 .. Len(q) : q[i] \in Item
  BY <1>1
<1>3. /\ SubSeq(q, n + 1, Len(q)) \in Seq(Item)
      /\ Len(SubSeq(q, n + 1, Len(q))) = IF n + 1 <= Len(q) THEN Len(q) - (n + 1) + 1 ELSE 0
      /\ \A i \in 1 .. Len(q) - (n + 1) + 1 : SubSeq(q, n + 1, Len(q))[i] = q[n + 1 + i - 1]
  <2>1. n + 1 \in Int /\ Len(q) \in Int
    BY <1>1
  <2> HIDE <1>1
  <2> QED
    BY <1>2, <2>1, SubSeqProperties
<1> DEFINE u == SubSeq(q, n + 1, Len(q))
<1>4. Drop(q, n) = u
  BY DEF Drop
<1>5. /\ u \in Seq(Item) /\ Len(u) = IF n + 1 <= Len(q) THEN Len(q) - (n + 1) + 1 ELSE 0
      /\ \A i \in 1 .. Len(q) - (n + 1) + 1 : u[i] = q[n + 1 + i - 1]
  BY <1>3
<1> HIDE DEF u
<1>6. Len(u) = Len(q) - n
  BY <1>1, <1>5
<1>7. ASSUME NEW i \in 1 .. Len(q) - n PROVE u[i] = q[i + n]
  <2>1. i \in 1 .. Len(q) - (n + 1) + 1 /\ n + 1 + i - 1 = i + n
    BY <1>1, <1>7
  <2> QED
    BY <1>5, <2>1
<1> QED
  BY <1>4, <1>5, <1>6, <1>7

\* What is left keeps its order.
LEMMA DropPieces ==
    ASSUME NEW q \in Seq(Item), NEW n \in 0 .. Len(q), InPieces(q)
    PROVE  InPieces(Drop(q, n)) /\ (StatusLast(q) => StatusLast(Drop(q, n)))
<1> DEFINE r == Drop(q, n)
<1>1. /\ Len(q) \in Nat
      /\ \A i \in 1 .. Len(q) : q[i].command \in Nat /\ q[i].more \in Nat
  BY ItemFields
<1>2. Len(r) = Len(q) - n /\ \A i \in 1 .. Len(q) - n : r[i] = q[i + n]
  BY DropIs
<1> HIDE DEF r
<1>3. \A i \in 1 .. Len(r) : i + n \in 1 .. Len(q) /\ r[i] = q[i + n]
  BY <1>1, <1>2
<1>4. ASSUME NEW i \in 1 .. Len(r), NEW j \in 1 .. Len(r), i < j, r[i].command # 0, r[j].command # 0
      PROVE  \/ r[i].command < r[j].command
             \/ r[i].command = r[j].command /\ r[i].more = r[j].more + (j - i)
  <2>1. i + n < j + n /\ (j + n) - (i + n) = j - i
    BY <1>1, <1>4
  <2>2. /\ i + n \in 1 .. Len(q) /\ j + n \in 1 .. Len(q)
        /\ r[i] = q[i + n] /\ r[j] = q[j + n]
    BY <1>3
  <2>3. \/ q[i + n].command < q[j + n].command
        \/ /\ q[i + n].command = q[j + n].command
           /\ q[i + n].more = q[j + n].more + ((j + n) - (i + n))
    BY <1>4, <2>1, <2>2 DEF InPieces
  <2> QED
    BY <2>1, <2>2, <2>3
<1>5. ASSUME NEW i \in 1 .. Len(r), NEW k \in i .. i + r[i].more
      PROVE  k <= Len(r) /\ r[k].command = r[i].command
  <2>1. k + n \in (i + n) .. (i + n) + q[i + n].more
    BY <1>1, <1>3, <1>5
  <2>2. k + n <= Len(q) /\ q[k + n].command = q[i + n].command
    BY <1>3, <2>1 DEF InPieces
  <2>3. k \in 1 .. Len(r)
    BY <1>1, <1>2, <1>3, <1>5, <2>2
  <2> QED
    BY <1>1, <1>3, <2>2, <2>3
<1>6. \A i \in 1 .. Len(r) : r[i].says # "value" => r[i].more = 0
  BY <1>3 DEF InPieces
<1>7. StatusLast(q) => StatusLast(r)
  BY <1>1, <1>3 DEF StatusLast
<1> QED
  BY <1>4, <1>5, <1>6, <1>7 DEF InPieces, r

\* A whole answer is read.
LEMMA DropAnswer ==
    ASSUME NEW q \in Seq(Item), NEW D \in SUBSET DutySet, Serves(q, D),
           NEW d \in D, Len(q) > 0, q[1].command = d.command
    PROVE  LET n == q[1].more + 1
           IN  /\ n \in 1 .. Len(q)
               /\ \A i \in 1 .. n : q[i].command = d.command
               /\ Serves(Drop(q, n), D \ {d})
<1> DEFINE n == q[1].more + 1
           r == Drop(q, n)
<1>1. /\ Len(q) \in Nat
      /\ \A i \in 1 .. Len(q) : q[i].command \in Nat /\ q[i].more \in Nat
  BY ItemFields
<1>2. 1 \in 1 .. Len(q) /\ d.command # 0 /\ InPieces(q)
  BY <1>1 DEF Serves
<1>3. \A k \in 1 .. 1 + q[1].more : k <= Len(q) /\ q[k].command = q[1].command
  BY <1>2 DEF InPieces
<1>4. n \in 1 .. Len(q) /\ \A i \in 1 .. n : q[i].command = d.command
  BY <1>1, <1>2, <1>3
<1>5. \A k \in 1 .. Len(q) : q[k].command = d.command => k <= n
  <2> SUFFICES ASSUME NEW k \in 1 .. Len(q), q[k].command = d.command, k > 1 PROVE k <= n
    BY <1>1, <1>2
  <2>1. q[1].more = q[k].more + (k - 1)
    BY <1>1, <1>2 DEF InPieces
  <2> QED
    BY <1>1, <1>2, <2>1
<1>6. Len(r) = Len(q) - n /\ (\A i \in 1 .. Len(q) - n : r[i] = q[i + n]) /\ InPieces(r)
  <2>1. n \in 0 .. Len(q)
    BY <1>1, <1>4
  <2> HIDE DEF n
  <2> QED
    BY <1>2, <2>1, DropIs, DropPieces
<1> HIDE DEF n, r
<1>7. \A i \in 1 .. Len(r) : i + n \in 1 .. Len(q) /\ r[i] = q[i + n] /\ i + n > n
  BY <1>1, <1>4, <1>6
<1>8. ASSUME NEW i \in 1 .. Len(r), r[i].command # 0
      PROVE  \E e \in D \ {d} : e.command = r[i].command
  <2>1. PICK e \in D : e.command = q[i + n].command
    BY <1>7, <1>8 DEF Serves
  <2>2. e # d
    BY <1>1, <1>4, <1>5, <1>7, <2>1
  <2> QED
    BY <1>7, <2>1, <2>2
<1>9. ASSUME NEW e \in D \ {d}
      PROVE  /\ e.command # 0
             /\ \E i \in 1 .. Len(r) : r[i].command = e.command /\ (e.left > 0 => r[i].more = e.left - 1)
             /\ \A i \in 1 .. Len(r) : r[i].command = e.command /\ e.left > 0 => r[i].more < e.left
  <2>1. PICK k \in 1 .. Len(q) : q[k].command = e.command /\ (e.left > 0 => q[k].more = e.left - 1)
    BY DEF Serves
  <2>2. e.command # d.command /\ e.command # 0
    BY DEF Serves
  <2>3. k > n
    BY <1>1, <1>4, <2>1, <2>2
  <2>4. k - n \in 1 .. Len(r) /\ r[k - n] = q[k]
    <3>1. k - n \in 1 .. Len(q) - n /\ (k - n) + n = k
      BY <1>1, <1>4, <2>1, <2>3
    <3> QED
      BY <1>6, <3>1
  <2>5. ASSUME NEW i \in 1 .. Len(r), r[i].command = e.command, e.left > 0 PROVE r[i].more < e.left
    <3>1. i + n \in 1 .. Len(q) /\ r[i] = q[i + n]
      BY <1>7
    <3> QED
      BY <2>5, <3>1 DEF Serves
  <2> QED
    BY <2>1, <2>2, <2>4, <2>5
<1>10. \A e, f \in D \ {d} : e.command = f.command => e = f
  BY DEF Serves
<1>11. Serves(r, D \ {d})
  BY <1>6, <1>8, <1>9, <1>10 DEF Serves
<1> QED
  BY <1>4, <1>11 DEF n, r

\* One item of an answer is read; what is left of it is known then.
LEMMA DropItem ==
    ASSUME NEW q \in Seq(Item), NEW D \in SUBSET DutySet, Serves(q, D),
           NEW d \in D, Len(q) > 0, q[1].command = d.command, q[1].more > 0,
           NEW e, e = [command |-> d.command, left |-> q[1].more]
    PROVE  Serves(Drop(q, 1), (D \ {d}) \cup {e})
<1> DEFINE r == Drop(q, 1)
<1>1. /\ Len(q) \in Nat
      /\ \A i \in 1 .. Len(q) : q[i].command \in Nat /\ q[i].more \in Nat
  BY ItemFields
<1>2. /\ 1 \in 1 .. Len(q) /\ 1 \in 0 .. Len(q) /\ d.command # 0 /\ InPieces(q)
      /\ e.command = d.command /\ e.left = q[1].more
  BY <1>1 DEF Serves
<1>3. Len(r) = Len(q) - 1 /\ (\A i \in 1 .. Len(q) - 1 : r[i] = q[i + 1]) /\ InPieces(r)
  BY <1>2, DropIs, DropPieces
<1> HIDE DEF r
<1>4. \A i \in 1 .. Len(r) : i + 1 \in 1 .. Len(q) /\ r[i] = q[i + 1] /\ i + 1 > 1
  BY <1>1, <1>3
<1>5. ASSUME NEW i \in 1 .. Len(r), r[i].command # 0
      PROVE  \E f \in (D \ {d}) \cup {e} : f.command = r[i].command
  <2>1. PICK f \in D : f.command = q[i + 1].command
    BY <1>4, <1>5 DEF Serves
  <2> QED
    BY <1>2, <1>4, <2>1
<1>6. ASSUME NEW f \in D \ {d}
      PROVE  /\ f.command # 0
             /\ \E i \in 1 .. Len(r) : r[i].command = f.command /\ (f.left > 0 => r[i].more = f.left - 1)
             /\ \A i \in 1 .. Len(r) : r[i].command = f.command /\ f.left > 0 => r[i].more < f.left
  <2>1. PICK k \in 1 .. Len(q) : q[k].command = f.command /\ (f.left > 0 => q[k].more = f.left - 1)
    BY DEF Serves
  <2>2. f.command # d.command /\ f.command # 0
    BY DEF Serves
  <2>3. k - 1 \in 1 .. Len(r) /\ r[k - 1] = q[k]
    <3>1. k # 1
      BY <2>1, <2>2
    <3>2. k - 1 \in 1 .. Len(q) - 1 /\ (k - 1) + 1 = k
      BY <1>1, <3>1
    <3> QED
      BY <1>3, <3>2
  <2>4. ASSUME NEW i \in 1 .. Len(r), r[i].command = f.command, f.left > 0 PROVE r[i].more < f.left
    <3>1. i + 1 \in 1 .. Len(q) /\ r[i] = q[i + 1]
      BY <1>4
    <3> QED
      BY <2>4, <3>1 DEF Serves
  <2> QED
    BY <2>1, <2>2, <2>3, <2>4
<1>7. /\ e.command # 0
      /\ \E i \in 1 .. Len(r) : r[i].command = e.command /\ (e.left > 0 => r[i].more = e.left - 1)
      /\ \A i \in 1 .. Len(r) : r[i].command = e.command /\ e.left > 0 => r[i].more < e.left
  <2>1. ASSUME NEW i \in 2 .. Len(q), q[i].command = d.command PROVE q[1].more = q[i].more + (i - 1)
    <3>1. i \in 1 .. Len(q) /\ 1 < i /\ q[1].command # 0 /\ q[i].command # 0 /\ q[1].command = q[i].command
      BY <1>1, <1>2, <2>1
    <3>2. \/ q[1].command < q[i].command
          \/ q[1].command = q[i].command /\ q[1].more = q[i].more + (i - 1)
      BY <1>2, <3>1 DEF InPieces
    <3> QED
      BY <1>1, <1>2, <3>1, <3>2
  <2>2. 2 \in 2 .. Len(q) /\ q[2].command = d.command
    <3>1. 2 \in 1 .. 1 + q[1].more
      BY <1>1, <1>2
    <3> QED
      BY <1>1, <1>2, <3>1 DEF InPieces
  <2>3. 1 \in 1 .. Len(r) /\ r[1] = q[2]
    BY <1>1, <1>3, <2>2
  <2>4. r[1].more = e.left - 1
    BY <1>1, <1>2, <2>1, <2>2, <2>3
  <2>5. ASSUME NEW i \in 1 .. Len(r), r[i].command = e.command PROVE r[i].more < e.left
    <3>1. i + 1 \in 2 .. Len(q) /\ i + 1 \in 1 .. Len(q) /\ r[i] = q[i + 1]
      BY <1>1, <1>4
    <3>2. q[1].more = q[i + 1].more + ((i + 1) - 1)
      BY <1>2, <2>1, <2>5, <3>1
    <3> QED
      BY <1>1, <1>2, <3>1, <3>2
  <2> QED
    BY <1>2, <2>2, <2>3, <2>4, <2>5
<1>8. \A f, g \in (D \ {d}) \cup {e} : f.command = g.command => f = g
  BY <1>2 DEF Serves
<1>9. Serves(r, (D \ {d}) \cup {e})
  BY <1>3, <1>5, <1>6, <1>7, <1>8 DEF Serves
<1> QED
  BY <1>9 DEF r

\* What the server says to a command.
LEMMA AnswerIs ==
    ASSUME NEW n \in 1 .. MaxCommands, NEW kind, NEW a \in Answers(n, kind)
    PROVE  /\ a \in Seq(Item) /\ Len(a) \in 1 .. MaxElements + 1
           /\ \A i \in 1 .. Len(a) :
                 /\ a[i].command = n /\ a[i].more = Len(a) - i /\ a[i].more \in 0 .. MaxElements
                 /\ a[i].says # "value" => a[i].more = 0
           /\ kind # "multi" => Len(a) = 1
<1>0. MaxElements \in Nat /\ MaxCommands \in Nat
  BY RedisAssumption
<1>1. ASSUME NEW s \in {"value", "nil", "error"},
             a = <<[command |-> n, more |-> 0, says |-> s]>>
      PROVE  /\ a \in Seq(Item) /\ Len(a) = 1 /\ a[1].command = n /\ a[1].more = 0
  <2>1. [command |-> n, more |-> 0, says |-> s] \in Item
    BY <1>0 DEF Item
  <2> QED
    BY <1>1, <2>1
<1>2. ASSUME NEW e \in 0 .. MaxElements, kind = "multi",
             a = [i \in 1 .. e + 1 |-> [command |-> n, more |-> e + 1 - i, says |-> "value"]]
      PROVE  /\ a \in Seq(Item) /\ Len(a) = e + 1
             /\ \A i \in 1 .. e + 1 : a[i].command = n /\ a[i].more = e + 1 - i /\ a[i].says = "value"
  <2>1. \A i \in 1 .. e + 1 : [command |-> n, more |-> e + 1 - i, says |-> "value"] \in Item
    BY <1>0 DEF Item
  <2> DEFINE m == e + 1
             item(i) == [command |-> n, more |-> m - i, says |-> "value"]
  <2>2. m \in Nat /\ a = [i \in 1 .. m |-> item(i)] /\ \A i \in 1 .. m : item(i) \in Item
    <3>1. m \in Nat
      OBVIOUS
    <3>2. \A i \in 1 .. m : item(i) \in Item
      BY <2>1
    <3>3. a = [i \in 1 .. m |-> item(i)]
      BY <1>2
    <3> QED
      BY <3>1, <3>2, <3>3
  <2>3. \A i \in 1 .. m : item(i).command = n /\ item(i).more = m - i /\ item(i).says = "value"
    OBVIOUS
  <2> HIDE DEF m, item
  <2>4. a \in Seq(Item) /\ Len(a) = m /\ \A i \in 1 .. m : a[i] = item(i)
    BY <2>2
  <2>5. \A i \in 1 .. m : a[i].command = n /\ a[i].more = m - i /\ a[i].says = "value"
    BY <2>3, <2>4
  <2> QED
    BY <2>4, <2>5 DEF m
<1>3. \/ \E s \in {"value", "nil", "error"} : a = <<[command |-> n, more |-> 0, says |-> s]>>
      \/ /\ kind = "multi"
         /\ \E e \in 0 .. MaxElements :
               a = [i \in 1 .. e + 1 |-> [command |-> n, more |-> e + 1 - i, says |-> "value"]]
  BY DEF Answers
<1>4. CASE \E s \in {"value", "nil", "error"} : a = <<[command |-> n, more |-> 0, says |-> s]>>
  BY <1>0, <1>1, <1>4
<1>5. CASE kind = "multi" /\ \E e \in 0 .. MaxElements :
               a = [i \in 1 .. e + 1 |-> [command |-> n, more |-> e + 1 - i, says |-> "value"]]
  <2>1. PICK e \in 0 .. MaxElements :
            a = [i \in 1 .. e + 1 |-> [command |-> n, more |-> e + 1 - i, says |-> "value"]]
    BY <1>5
  <2>2. /\ a \in Seq(Item) /\ Len(a) = e + 1
        /\ \A i \in 1 .. e + 1 : a[i].command = n /\ a[i].more = e + 1 - i /\ a[i].says = "value"
    BY <1>2, <1>5, <2>1
  <2>3. Len(a) \in 1 .. MaxElements + 1
    BY <1>0, <2>2
  <2>4. ASSUME NEW i \in 1 .. Len(a)
        PROVE  /\ a[i].command = n /\ a[i].more = Len(a) - i /\ a[i].more \in 0 .. MaxElements
               /\ a[i].says # "value" => a[i].more = 0
    <3>1. i \in 1 .. e + 1 /\ e + 1 - i \in 0 .. MaxElements
      BY <1>0, <2>2, <2>4
    <3> QED
      BY <2>2, <3>1
  <2> QED
    BY <1>5, <2>2, <2>3, <2>4
<1> QED
  BY <1>3, <1>4, <1>5

LEMMA ConcatIs ==
    ASSUME NEW q \in Seq(Item), NEW a \in Seq(Item)
    PROVE  /\ q \o a \in Seq(Item) /\ Len(q \o a) = Len(q) + Len(a)
           /\ \A i \in 1 .. Len(q) : (q \o a)[i] = q[i]
           /\ \A i \in 1 .. Len(a) : (q \o a)[Len(q) + i] = a[i]
<1>1. Len(q) \in Nat /\ Len(a) \in Nat
  BY LenProperties
<1>2. /\ q \o a \in Seq(Item) /\ Len(q \o a) = Len(q) + Len(a)
      /\ \A i \in 1 .. Len(q) + Len(a) : (q \o a)[i] = IF i <= Len(q) THEN q[i] ELSE a[i - Len(q)]
  BY ConcatProperties
<1>3. ASSUME NEW i \in 1 .. Len(a) PROVE (q \o a)[Len(q) + i] = a[i]
  <2>1. Len(q) + i \in 1 .. Len(q) + Len(a) /\ ~ (Len(q) + i <= Len(q)) /\ Len(q) + i - Len(q) = i
    BY <1>1
  <2> QED
    BY <1>2, <2>1
<1>4. ASSUME NEW i \in 1 .. Len(q) PROVE (q \o a)[i] = q[i]
  <2>1. i \in 1 .. Len(q) + Len(a) /\ i <= Len(q)
    BY <1>1
  <2> QED
    BY <1>2, <2>1
<1> QED
  BY <1>2, <1>3, <1>4

\* The answer to a new command comes behind the others.
LEMMA AppendAnswer ==
    ASSUME NEW q \in Seq(Item), NEW D \in SUBSET DutySet, Serves(q, D),
           NEW n \in 1 .. MaxCommands, \A d \in D : d.command < n,
           NEW kind, NEW a \in Answers(n, kind),
           NEW e, e = [command |-> n, left |-> IF kind # "multi" THEN 1 ELSE 0]
    PROVE  Serves(q \o a, D \cup {e})
<1> DEFINE r == q \o a
           l == Len(q)
<1>1. /\ l \in Nat
      /\ \A i \in 1 .. l : q[i].command \in Nat /\ q[i].more \in Nat
  BY ItemFields
<1>2. /\ a \in Seq(Item) /\ Len(a) \in Nat /\ Len(a) >= 1
      /\ \A i \in 1 .. Len(a) :
            /\ a[i].command = n /\ a[i].more = Len(a) - i
            /\ a[i].says # "value" => a[i].more = 0
      /\ kind # "multi" => Len(a) = 1
  BY RedisAssumption, AnswerIs
<1>3. /\ Len(r) = l + Len(a)
      /\ \A i \in 1 .. l : r[i] = q[i]
      /\ \A i \in 1 .. Len(a) : r[l + i] = a[i]
  BY <1>2, ConcatIs
<1> HIDE DEF r, l
<1>4. \A i \in l + 1 .. Len(r) :
         /\ r[i].command = n /\ r[i].more = Len(r) - i
         /\ r[i].says # "value" => r[i].more = 0
  <2> SUFFICES ASSUME NEW i \in l + 1 .. Len(r)
               PROVE  /\ r[i].command = n /\ r[i].more = Len(r) - i
                      /\ r[i].says # "value" => r[i].more = 0
    OBVIOUS
  <2>1. i - l \in 1 .. Len(a) /\ l + (i - l) = i /\ Len(a) - (i - l) = Len(r) - i
    BY <1>1, <1>2, <1>3
  <2>2. r[i] = a[i - l]
    BY <1>3, <2>1
  <2> QED
    BY <1>2, <2>1, <2>2
<1>5. 1 .. Len(r) = (1 .. l) \cup (l + 1 .. Len(r)) /\ \A i \in l + 1 .. Len(r) : i > l
  BY <1>1, <1>2, <1>3
<1>6. \A i \in 1 .. l : q[i].command < n
  <2> SUFFICES ASSUME NEW i \in 1 .. l, q[i].command # 0 PROVE q[i].command < n
    BY <1>1
  <2> QED
    BY DEF Serves, l
<1>7. InPieces(r)
  <2>1. ASSUME NEW i \in 1 .. Len(r), NEW j \in 1 .. Len(r), i < j, r[i].command # 0, r[j].command # 0
        PROVE  \/ r[i].command < r[j].command
               \/ r[i].command = r[j].command /\ r[i].more = r[j].more + (j - i)
    <3>1. CASE i \in 1 .. l /\ j \in 1 .. l
      BY <1>3, <2>1, <3>1 DEF Serves, InPieces, l
    <3>2. CASE i \in 1 .. l /\ j \in l + 1 .. Len(r)
      BY <1>3, <1>4, <1>6, <3>2
    <3>3. CASE i \in l + 1 .. Len(r)
      <4>1. j \in l + 1 .. Len(r)
        BY <1>1, <2>1, <3>3
      <4>2. Len(r) - i = (Len(r) - j) + (j - i)
        BY <1>1, <1>2, <1>3, <2>1
      <4> QED
        BY <1>4, <3>3, <4>1, <4>2
    <3> QED
      BY <1>5, <3>1, <3>2, <3>3
  <2>2. ASSUME NEW i \in 1 .. Len(r), NEW k \in i .. i + r[i].more
        PROVE  k <= Len(r) /\ r[k].command = r[i].command
    <3>1. CASE i \in 1 .. l
      <4>1. k <= l /\ q[k].command = q[i].command
        BY <1>3, <2>2, <3>1 DEF Serves, InPieces, l
      <4>2. k \in 1 .. l
        BY <1>1, <1>3, <2>2, <3>1, <4>1
      <4> QED
        BY <1>1, <1>2, <1>3, <3>1, <4>1, <4>2
    <3>2. CASE i \in l + 1 .. Len(r)
      <4>1. r[i].more = Len(r) - i
        BY <1>4, <3>2
      <4>2. k \in l + 1 .. Len(r)
        BY <1>1, <1>2, <1>3, <2>2, <3>2, <4>1
      <4> QED
        BY <1>1, <1>2, <1>3, <1>4, <3>2, <4>2
    <3> QED
      BY <1>5, <3>1, <3>2
  <2>3. ASSUME NEW i \in 1 .. Len(r), r[i].says # "value" PROVE r[i].more = 0
    BY <1>3, <1>4, <1>5, <2>3 DEF Serves, InPieces, l
  <2> QED
    BY <2>1, <2>2, <2>3 DEF InPieces
<1>8. e.command = n /\ e.left = (IF kind # "multi" THEN 1 ELSE 0)
  OBVIOUS
<1>9. \A d, f \in D \cup {e} : d.command = f.command => d = f
  <2>1. \A d \in D : d.command # n
    BY DEF DutySet
  <2> QED
    BY <1>8, <2>1 DEF Serves
<1>10. \A i \in 1 .. Len(r) : r[i].command # 0 => \E d \in D \cup {e} : d.command = r[i].command
  BY <1>3, <1>4, <1>5, <1>8 DEF Serves, l
<1>11. ASSUME NEW d \in D
       PROVE  /\ d.command # 0
              /\ \E i \in 1 .. Len(r) : r[i].command = d.command /\ (d.left > 0 => r[i].more = d.left - 1)
              /\ \A i \in 1 .. Len(r) : r[i].command = d.command /\ d.left > 0 => r[i].more < d.left
  <2>1. PICK k \in 1 .. l : q[k].command = d.command /\ (d.left > 0 => q[k].more = d.left - 1)
    BY DEF Serves, l
  <2>2. d.command # n
    BY DEF DutySet
  <2>3. d.command # 0
    BY DEF Serves
  <2>4. ASSUME NEW i \in 1 .. Len(r), r[i].command = d.command, d.left > 0 PROVE r[i].more < d.left
    <3>1. i \in 1 .. l
      BY <1>4, <1>5, <2>2, <2>4
    <3> QED
      BY <1>3, <2>4, <3>1 DEF Serves, l
  <2> QED
    BY <1>3, <1>5, <2>1, <2>3, <2>4
<1>12. /\ e.command # 0
       /\ \E i \in 1 .. Len(r) : r[i].command = e.command /\ (e.left > 0 => r[i].more = e.left - 1)
       /\ \A i \in 1 .. Len(r) : r[i].command = e.command /\ e.left > 0 => r[i].more < e.left
  <2>1. l + 1 \in l + 1 .. Len(r)
    BY <1>1, <1>2, <1>3
  <2>2. e.left > 0 => Len(r) - (l + 1) = e.left - 1
    BY <1>1, <1>2, <1>3, <1>8
  <2>3. ASSUME NEW i \in 1 .. Len(r), r[i].command = e.command, e.left > 0 PROVE r[i].more < e.left
    <3>1. i \in l + 1 .. Len(r)
      BY <1>3, <1>5, <1>6, <1>8, <2>3
    <3>2. r[i].more = Len(r) - i /\ e.left = 1 /\ Len(r) = l + 1
      BY <1>2, <1>3, <1>4, <1>8, <2>3, <3>1
    <3> QED
      BY <1>1, <3>1, <3>2
  <2> QED
    BY <1>4, <1>5, <1>8, <2>1, <2>2, <2>3
<1>13. Serves(r, D \cup {e})
  BY <1>7, <1>9, <1>10, <1>11, <1>12 DEF Serves
<1> QED
  BY <1>13 DEF r

\* A status is nobody's.
LEMMA StatusIs ==
    ASSUME NEW s \in {"value", "error"}
    PROVE  /\ Status(s) \in Seq(Item) /\ Len(Status(s)) = 1
           /\ Status(s)[1].command = 0 /\ Status(s)[1].more = 0
<1>1. [command |-> 0, more |-> 0, says |-> s] \in Item
  BY RedisAssumption DEF Item
<1> QED
  BY <1>1 DEF Status

LEMMA AppendStatus ==
    ASSUME NEW q \in Seq(Item), NEW D \in SUBSET DutySet, Serves(q, D),
           NEW s \in {"value", "error"}
    PROVE  /\ q \o Status(s) \in Seq(Item) /\ Serves(q \o Status(s), D)
           /\ StatusLast(q) => StatusLast(q \o Status(s))
<1> DEFINE r == q \o Status(s)
           l == Len(q)
<1>1. /\ l \in Nat
      /\ \A i \in 1 .. l : q[i].command \in Nat /\ q[i].more \in Nat
  BY ItemFields
<1>2. /\ Status(s) \in Seq(Item) /\ Len(Status(s)) = 1
      /\ Status(s)[1].command = 0 /\ Status(s)[1].more = 0
  BY StatusIs
<1>3. /\ r \in Seq(Item) /\ Len(r) = l + 1
      /\ \A i \in 1 .. l : r[i] = q[i]
      /\ r[l + 1] = Status(s)[1]
  <2>1. /\ r \in Seq(Item) /\ Len(r) = l + Len(Status(s))
        /\ \A i \in 1 .. l : r[i] = q[i]
        /\ \A i \in 1 .. Len(Status(s)) : r[l + i] = Status(s)[i]
    BY <1>2, ConcatIs
  <2> QED
    BY <1>2, <2>1
<1> HIDE DEF r, l
<1>4. 1 .. Len(r) = (1 .. l) \cup {l + 1} /\ r[l + 1].command = 0 /\ r[l + 1].more = 0
  BY <1>1, <1>2, <1>3
<1>5. InPieces(r)
  <2>1. ASSUME NEW i \in 1 .. Len(r), NEW j \in 1 .. Len(r), i < j, r[i].command # 0, r[j].command # 0
        PROVE  \/ r[i].command < r[j].command
               \/ r[i].command = r[j].command /\ r[i].more = r[j].more + (j - i)
    <3>1. i \in 1 .. l /\ j \in 1 .. l
      BY <1>4, <2>1
    <3> QED
      BY <1>3, <2>1, <3>1 DEF Serves, InPieces, l
  <2>2. ASSUME NEW i \in 1 .. Len(r), NEW k \in i .. i + r[i].more
        PROVE  k <= Len(r) /\ r[k].command = r[i].command
    <3>1. CASE i \in 1 .. l
      <4>1. k <= l /\ q[k].command = q[i].command
        BY <1>3, <2>2, <3>1 DEF Serves, InPieces, l
      <4>2. k \in 1 .. l
        BY <1>1, <1>3, <2>2, <3>1, <4>1
      <4> QED
        BY <1>1, <1>3, <3>1, <4>1, <4>2
    <3>2. CASE i = l + 1
      <4>1. k = i
        BY <1>1, <1>4, <2>2, <3>2
      <4> QED
        BY <1>1, <1>3, <3>2, <4>1
    <3> QED
      BY <1>4, <3>1, <3>2
  <2>3. ASSUME NEW i \in 1 .. Len(r), r[i].says # "value" PROVE r[i].more = 0
    BY <1>3, <1>4, <2>3 DEF Serves, InPieces, l
  <2> QED
    BY <2>1, <2>2, <2>3 DEF InPieces
<1>6. \A i \in 1 .. Len(r) : r[i].command # 0 => \E d \in D : d.command = r[i].command
  BY <1>3, <1>4 DEF Serves, l
<1>7. ASSUME NEW d \in D
      PROVE  /\ d.command # 0
             /\ \E i \in 1 .. Len(r) : r[i].command = d.command /\ (d.left > 0 => r[i].more = d.left - 1)
             /\ \A i \in 1 .. Len(r) : r[i].command = d.command /\ d.left > 0 => r[i].more < d.left
  <2>1. PICK k \in 1 .. l : q[k].command = d.command /\ (d.left > 0 => q[k].more = d.left - 1)
    BY DEF Serves, l
  <2>3. d.command # 0
    BY DEF Serves
  <2>4. ASSUME NEW i \in 1 .. Len(r), r[i].command = d.command, d.left > 0 PROVE r[i].more < d.left
    <3>1. i \in 1 .. l
      BY <1>4, <2>3, <2>4
    <3> QED
      BY <1>3, <2>4, <3>1 DEF Serves, l
  <2> QED
    BY <1>3, <1>4, <2>1, <2>3, <2>4
<1>8. Serves(r, D)
  BY <1>5, <1>6, <1>7 DEF Serves
<1>9. StatusLast(q) => StatusLast(r)
  BY <1>1, <1>3, <1>4 DEF StatusLast, l
<1> QED
  BY <1>3, <1>8, <1>9 DEF r

-----------------------------------------------------------------------------
(* The inductive invariant.                                                *)

Reply == [kind : Kinds \cup {"none"}, command : Nat, conn : BOOLEAN, value : Nat,
          header : BOOLEAN, count : 0 .. MaxElements, pending : Seq(Nat)]

Small(q) == \A i \in 1 .. Len(q) : q[i].more <= MaxElements

Objects ==
    /\ obj \in [Replies -> Reply]
    /\ \A o \in Replies : /\ obj[o].kind = "none" => obj[o] = NoObject
                          /\ obj[o].kind # "none" => obj[o].command \in 1 .. commands
                          /\ obj[o].conn => o \in In(outstanding)
    /\ outstanding \in Seq(Replies) /\ Single(outstanding)
    /\ \A o \in In(outstanding) : obj[o].kind # "none"

Types ==
    /\ Objects
    /\ stream \in Seq(Item) /\ held \in Seq(Item) /\ Small(stream) /\ Small(held)
    /\ commands \in 0 .. MaxCommands /\ multiFrom \in 0 .. commands
    /\ refusals \subseteq 1 .. commands
    /\ wanted \in Replies \cup {NoReply}
    /\ dying \in BOOLEAN /\ inMulti \in BOOLEAN
    /\ broken \in BOOLEAN /\ careless \in BOOLEAN /\ orphaned \in BOOLEAN

\* The answer that is wanted can come, and what a destructor wants is one item.
Wanted ==
    wanted # NoReply =>
        /\ Unread(wanted) /\ (careless \/ ~Queued(wanted))
        /\ dying => obj[wanted].kind # "multi"

\* What is to be read for e.
Duty(e) == [command |-> e.command,
            left |-> IF e.kind # "multi" THEN 1 ELSE IF e.header THEN e.count ELSE 0]

Duties(objs, O) == {Duty(objs[o]) : o \in O}

\* The unread replies stand in the list in the order of their commands.
Ordered ==
    \A e, f \in Replies :
        Precedes(outstanding, e, f) /\ Unread(e) /\ Unread(f) => obj[e].command < obj[f].command

\* An enumerator whose header was read comes before all others.
Begun ==
    \A o \in Replies :
        Unread(o) /\ obj[o].kind = "multi" /\ obj[o].header =>
            /\ ~Queued(o)
            /\ \A p \in Replies : Unread(p) /\ p # o => obj[o].command < obj[p].command

\* Statuses come last, and only in a transaction; what is held is answers.
Statuses ==
    /\ StatusLast(stream)
    /\ ~inMulti => held = << >> /\ \A i \in 1 .. Len(stream) : stream[i].command # 0
    /\ \A i \in 1 .. Len(held) : held[i].command # 0

\* The answers of the stream, and those held for EXEC, are the ones that are to be
\* read.
InStep ==
    /\ Serves(stream, Duties(obj, Before)) /\ Serves(held, Duties(obj, During))
    /\ Statuses /\ Ordered /\ Begun

Sound == ~careless /\ ~orphaned /\ ~broken

IInv == Types /\ OwnAnswer /\ Wanted /\ (Sound => InStep)

-----------------------------------------------------------------------------
(* What the invariant says of a state.                                     *)

LEMMA KindIsKind == \A k \in Kinds : k # "none"
  BY DEF Kinds, KeyCommands, StringCommands, ListCommands, SetCommands, HashCommands, ServerCommands

LEMMA ReplyFields ==
    ASSUME Types, NEW o \in Replies
    PROVE  /\ obj[o] \in Reply
           /\ obj[o].kind \in Kinds \cup {"none"} /\ obj[o].command \in Nat
           /\ obj[o].conn \in BOOLEAN /\ obj[o].value \in Nat /\ obj[o].header \in BOOLEAN
           /\ obj[o].count \in 0 .. MaxElements /\ obj[o].pending \in Seq(Nat)
           /\ obj[o].conn => obj[o].kind # "none"
<1>1. obj[o] \in Reply
  BY DEF Types, Objects
<1>2. obj[o].conn => obj[o].kind # "none"
  BY DEF Types, Objects, NoObject
<1> QED
  BY <1>1, <1>2 DEF Reply

LEMMA NoObjectIs ==
    /\ NoObject \in Reply /\ NoObject.kind = "none" /\ NoObject.conn = FALSE
    /\ NoObject.value = 0 /\ NoObject.pending = << >> /\ NoObject.command = 0
    /\ NoObject.header = FALSE /\ NoObject.count = 0
<1>1. 0 \in 0 .. MaxElements /\ << >> \in Seq(Nat)
  BY RedisAssumption
<1> QED
  BY <1>1 DEF NoObject, Reply

LEMMA UnreadIs ==
    ASSUME Types, NEW o \in Replies, Unread(o)
    PROVE  /\ o \in In(outstanding) /\ obj[o].command \in 1 .. commands
           /\ obj[o].kind # "none" /\ obj[o].conn
           /\ obj[o].kind = "multi" /\ obj[o].header => obj[o].count > 0
  BY ReplyFields DEF Types, Objects, Unread

\* The reply that is read first stands before the others.
LEMMA FirstIs ==
    ASSUME Types, NEW o \in Replies, Unread(o)
    PROVE  /\ First \in Replies /\ Unread(First)
           /\ \A p \in Replies : Unread(p) /\ p # First => Precedes(outstanding, First, p)
<1> DEFINE T == {i \in DOMAIN outstanding : Unread(outstanding[i])}
<1>1. /\ Len(outstanding) \in Nat /\ DOMAIN outstanding = 1 .. Len(outstanding)
      /\ \A i \in 1 .. Len(outstanding) : outstanding[i] \in Replies
  <2>1. outstanding \in Seq(Replies)
    BY DEF Types, Objects
  <2> QED
    BY <2>1, LenProperties, ElementOfSeq
<1>2. \A p \in Replies : Unread(p) => \E i \in T : outstanding[i] = p
  <2> SUFFICES ASSUME NEW p \in Replies, Unread(p) PROVE \E i \in T : outstanding[i] = p
    OBVIOUS
  <2>1. p \in In(outstanding)
    BY UnreadIs
  <2> QED
    BY <1>1, <2>1 DEF In
<1>3. T \in SUBSET Nat /\ T # {}
  BY <1>1, <1>2
<1>4. Min(T) \in T /\ \A i \in T : Min(T) <= i
  BY <1>3, MinIs
<1>5. First = outstanding[Min(T)]
  BY DEF First
<1> HIDE DEF T
<1>6. PICK m \in T : First = outstanding[m] /\ \A i \in T : m <= i
  BY <1>4, <1>5
<1>7. m \in 1 .. Len(outstanding) /\ Unread(outstanding[m])
  BY <1>1 DEF T
<1>8. ASSUME NEW p \in Replies, Unread(p), p # First PROVE Precedes(outstanding, First, p)
  <2>1. PICK i \in T : outstanding[i] = p
    BY <1>2, <1>8
  <2>2. i \in 1 .. Len(outstanding) /\ m < i
    BY <1>1, <1>3, <1>6, <1>8, <2>1 DEF T
  <2> QED
    BY <1>6, <1>7, <2>1, <2>2 DEF Precedes
<1> QED
  BY <1>1, <1>6, <1>7, <1>8

LEMMA FirstLeast ==
    ASSUME Types, Ordered, NEW o \in Replies, Unread(o)
    PROVE  /\ First \in Replies /\ Unread(First)
           /\ \A p \in Replies : Unread(p) /\ p # First => obj[First].command < obj[p].command
  BY FirstIs DEF Ordered

\* No two replies wait for one answer.
LEMMA Apart ==
    ASSUME Types, Ordered, NEW o \in Replies, NEW p \in Replies, Unread(o), Unread(p), o # p
    PROVE  obj[o].command # obj[p].command
<1>1. PICK i, j \in 1 .. Len(outstanding) : outstanding[i] = o /\ outstanding[j] = p
  BY UnreadIs DEF In
<1>2. Len(outstanding) \in Nat
  <2>1. outstanding \in Seq(Replies)
    BY DEF Types, Objects
  <2> QED
    BY <2>1, LenProperties
<1>3. i < j \/ j < i
  BY <1>1, <1>2
<1>4. Precedes(outstanding, o, p) \/ Precedes(outstanding, p, o)
  BY <1>1, <1>3 DEF Precedes
<1>5. obj[o].command < obj[p].command \/ obj[p].command < obj[o].command
  BY <1>4 DEF Ordered
<1>6. obj[o].command \in Nat /\ obj[p].command \in Nat
  BY ReplyFields
<1> QED
  BY <1>5, <1>6

LEMMA DutyIs ==
    ASSUME Types, NEW o \in Replies
    PROVE  /\ Duty(obj[o]) \in DutySet /\ Duty(obj[o]).command = obj[o].command
           /\ obj[o].kind # "multi" => Duty(obj[o]).left = 1
           /\ obj[o].kind = "multi" /\ obj[o].header => Duty(obj[o]).left = obj[o].count
           /\ obj[o].kind = "multi" /\ ~obj[o].header => Duty(obj[o]).left = 0
<1>1. obj[o].command \in Nat /\ obj[o].count \in Nat /\ obj[o].header \in BOOLEAN
  BY ReplyFields, RedisAssumption
<1> QED
  BY <1>1 DEF Duty, DutySet

LEMMA DutiesAre ==
    ASSUME Types, NEW O \in SUBSET Replies
    PROVE  Duties(obj, O) \in SUBSET DutySet
  BY DutyIs DEF Duties

\* The stream begins with the answer to the first reply, if anybody waits for one
\* that can come.
LEMMA StreamHead ==
    ASSUME Types, InStep, NEW o \in Before
    PROVE  /\ First \in Before /\ Len(stream) > 0
           /\ stream[1].command = obj[First].command
           /\ Duty(obj[First]).left > 0 => stream[1].more = Duty(obj[First]).left - 1
<1>0. o \in Replies /\ Unread(o) /\ ~Queued(o) /\ Ordered
  BY DEF Before, InStep
<1>1. /\ First \in Replies /\ Unread(First)
      /\ \A p \in Replies : Unread(p) /\ p # First => obj[First].command < obj[p].command
  BY <1>0, FirstLeast
<1>2. multiFrom \in Nat /\ obj[o].command \in Nat /\ obj[First].command \in Nat
  BY <1>0, <1>1, ReplyFields DEF Types, Objects
<1>3. First \in Before
  BY <1>0, <1>1, <1>2 DEF Before, Queued
<1>4. Before \in SUBSET Replies
  BY DEF Before
<1> DEFINE D == Duties(obj, Before)
           d == Duty(obj[First])
<1>5. D \in SUBSET DutySet /\ d \in D /\ d.command = obj[First].command
  BY <1>1, <1>3, <1>4, DutiesAre, DutyIs DEF Duties
<1>6. \A e \in D : d.command <= e.command
  <2> SUFFICES ASSUME NEW p \in Before PROVE d.command <= Duty(obj[p]).command
    BY DEF Duties
  <2>1. p \in Replies /\ Unread(p) /\ Duty(obj[p]).command = obj[p].command /\ obj[p].command \in Nat
    BY DutyIs, ReplyFields DEF Before
  <2> QED
    BY <1>1, <1>2, <1>5, <2>1
<1>7. Serves(stream, D) /\ StatusLast(stream) /\ stream \in Seq(Item)
  BY DEF InStep, Statuses, Types, Objects
<1> HIDE DEF D, d
<1>8. Len(stream) > 0 /\ stream[1].command = d.command /\ (d.left > 0 => stream[1].more = d.left - 1)
  BY <1>5, <1>6, <1>7, LeastFirst
<1> QED
  BY <1>3, <1>5, <1>8 DEF d

-----------------------------------------------------------------------------
(* What the steps have in common.                                          *)

\* What e was given is its own answer.
Owned(e, lost) ==
    /\ e.value \in {0} \cup Owns(e, lost)
    /\ \A i \in DOMAIN e.pending : e.pending[i] \in Owns(e, lost)

LEMMA OwnCommand ==
    ASSUME NEW e, NEW lost, e.value \in {0, e.command},
           \A i \in DOMAIN e.pending : e.pending[i] = e.command
    PROVE  Owned(e, lost)
  BY DEF Owned, Owns

LEMMA OwnNothing == \A lost : Owned(NoObject, lost)
  BY NoObjectIs, OwnCommand

\* While the connection stands, an answer is the whole one.
LEMMA OwnWhole ==
    ASSUME OwnAnswer, ~broken, NEW o \in Replies
    PROVE  /\ obj[o].value \in {0, obj[o].command}
           /\ \A i \in DOMAIN obj[o].pending : obj[o].pending[i] = obj[o].command
  BY DEF OwnAnswer, Owns

LEMMA OwnSame ==
    ASSUME OwnAnswer, NEW o \in Replies, NEW e, NEW lost, broken => lost,
           e.kind = obj[o].kind, e.command = obj[o].command, e.value = obj[o].value,
           \A i \in DOMAIN e.pending : e.pending[i] \in Owns(obj[o], broken)
    PROVE  Owned(e, lost)
<1>1. Owns(obj[o], broken) \subseteq Owns(e, lost)
  BY DEF Owns
<1>2. obj[o].value \in {0} \cup Owns(obj[o], broken)
  BY DEF OwnAnswer
<1> QED
  BY <1>1, <1>2 DEF Owned

LEMMA OwnKept ==
    ASSUME OwnAnswer, NEW o \in Replies, broken => broken'
    PROVE  Owned(obj[o], broken')
  BY OwnSame DEF OwnAnswer

\* m is the list l without x.
LessOne(l, m, x) ==
    /\ m \in Seq(Replies) /\ Single(m) /\ In(m) = In(l) \ {x}
    /\ \A e, f : Precedes(m, e, f) => Precedes(l, e, f)

LEMMA WithoutIs ==
    ASSUME Types, NEW o
    PROVE  /\ LessOne(outstanding, Without(o), o)
           /\ LessOne(outstanding, RemoveFirst(Without(o), o), o)
<1>1. outstanding \in Seq(Replies) /\ Single(outstanding)
  BY DEF Types, Objects
<1>2. LessOne(outstanding, Without(o), o)
  BY <1>1, Unlinked DEF LessOne, Without
<1>3. Without(o) \in Seq(Replies) /\ Single(Without(o))
  BY <1>2 DEF LessOne
<1>4. LessOne(Without(o), RemoveFirst(Without(o), o), o)
  BY <1>3, Unlinked DEF LessOne
<1> QED
  BY <1>2, <1>4 DEF LessOne

\* The duties, when one reply changes.
LEMMA DutiesChange ==
    ASSUME Types, Ordered, NEW O \in SUBSET Replies, \A o \in O : Unread(o),
           NEW objs, NEW P \in SUBSET Replies, NEW x \in Replies,
           \A o \in Replies \ {x} : objs[o] = obj[o] /\ (o \in P <=> o \in O)
    PROVE  Duties(objs, P) =
              (Duties(obj, O) \ (IF x \in O THEN {Duty(obj[x])} ELSE {}))
              \cup (IF x \in P THEN {Duty(objs[x])} ELSE {})
<1>1. ASSUME NEW o \in O, o # x, x \in O PROVE Duty(obj[o]) # Duty(obj[x])
  BY <1>1, Apart, DutyIs
<1>2. ASSUME NEW d \in Duties(objs, P)
      PROVE  d \in (Duties(obj, O) \ (IF x \in O THEN {Duty(obj[x])} ELSE {}))
                   \cup (IF x \in P THEN {Duty(objs[x])} ELSE {})
  <2>1. PICK o \in P : d = Duty(objs[o])
    BY <1>2 DEF Duties
  <2>2. CASE o = x
    BY <2>1, <2>2
  <2>3. CASE o # x
    <3>1. o \in O /\ d = Duty(obj[o])
      BY <2>1, <2>3
    <3> QED
      BY <1>1, <2>3, <3>1 DEF Duties
  <2> QED
    BY <2>2, <2>3
<1>3. ASSUME NEW d \in Duties(obj, O), d \notin (IF x \in O THEN {Duty(obj[x])} ELSE {})
      PROVE  d \in Duties(objs, P)
  <2>1. PICK o \in O : d = Duty(obj[o])
    BY <1>3 DEF Duties
  <2>2. o # x
    BY <1>3, <2>1
  <2> QED
    BY <2>1, <2>2 DEF Duties
<1>4. x \in P => Duty(objs[x]) \in Duties(objs, P)
  BY DEF Duties
<1> QED
  BY <1>2, <1>3, <1>4

LEMMA BeforeIs ==
    /\ Before \in SUBSET Replies /\ During \in SUBSET Replies
    /\ \A o \in Before : Unread(o) /\ ~Queued(o)
    /\ \A o \in During : Unread(o) /\ Queued(o)
  BY DEF Before, During

\* x changes to e, or its destructor ends.
Becomes(x, e) ==
    /\ obj' = [obj EXCEPT ![x] = e] /\ e \in Reply
    /\ \/ e = NoObject
       \/ e.kind = obj[x].kind /\ e.command = obj[x].command /\ e.kind # "none"
    /\ e.conn => obj[x].conn
    /\ \/ outstanding' = outstanding /\ e # NoObject
       \/ LessOne(outstanding, outstanding', x) /\ ~e.conn

LEMMA BecomesIs ==
    ASSUME Types, NEW x \in Replies, NEW e, Becomes(x, e)
    PROVE  obj' \in [Replies -> Reply] /\ obj'[x] = e /\ \A o \in Replies \ {x} : obj'[o] = obj[o]
<1>1. obj' = [obj EXCEPT ![x] = e] /\ e \in Reply
  BY DEF Becomes
<1> QED
  BY <1>1 DEF Types, Objects

LEMMA BecomesTypes ==
    ASSUME Types, NEW x \in Replies, NEW e, Becomes(x, e), commands' = commands
    PROVE  Objects'
<1>1. obj' \in [Replies -> Reply] /\ obj'[x] = e /\ \A o \in Replies \ {x} : obj'[o] = obj[o]
  BY BecomesIs
<1>2. CASE e = NoObject
  <2>1. LessOne(outstanding, outstanding', x)
    BY <1>2 DEF Becomes
  <2>2. \A o \in Replies :
            /\ obj'[o].kind = "none" => obj'[o] = NoObject
            /\ obj'[o].kind # "none" => obj'[o].command \in 1 .. commands'
            /\ obj'[o].conn => o \in In(outstanding')
    BY <1>1, <1>2, <2>1, NoObjectIs DEF Types, Objects, LessOne
  <2>3. ASSUME NEW o \in In(outstanding') PROVE obj'[o].kind # "none"
    <3>1. o \in In(outstanding) /\ o # x
      BY <2>1, <2>3 DEF LessOne
    <3>2. o \in Replies
      BY <3>1, ElementOfSeq DEF Types, Objects, In
    <3> QED
      BY <1>1, <3>1, <3>2 DEF Types, Objects
  <2> QED
    BY <1>1, <2>1, <2>2, <2>3 DEF Objects, LessOne
<1>3. CASE e # NoObject
  <2>1. /\ e.kind = obj[x].kind /\ e.command = obj[x].command /\ e.kind # "none"
        /\ e.conn => obj[x].conn
    BY <1>3 DEF Becomes
  <2>2. \/ outstanding' = outstanding
        \/ LessOne(outstanding, outstanding', x) /\ ~e.conn
    BY DEF Becomes
  <2>3. /\ outstanding' \in Seq(Replies) /\ Single(outstanding')
        /\ In(outstanding') \subseteq In(outstanding)
        /\ \A o \in In(outstanding) : o # x \/ e.conn => o \in In(outstanding')
    <3>1. CASE outstanding' = outstanding
      BY <3>1 DEF Types, Objects
    <3>2. CASE LessOne(outstanding, outstanding', x) /\ ~e.conn
      BY <3>2 DEF LessOne
    <3> QED
      BY <2>2, <3>1, <3>2
  <2>4. ASSUME NEW o \in Replies
        PROVE  /\ obj'[o].kind = "none" => obj'[o] = NoObject
               /\ obj'[o].kind # "none" => obj'[o].command \in 1 .. commands'
               /\ obj'[o].conn => o \in In(outstanding')
    <3>1. CASE o = x
      BY <1>1, <2>1, <2>3, <3>1 DEF Types, Objects
    <3>2. CASE o # x
      BY <1>1, <2>3, <3>2 DEF Types, Objects
    <3> QED
      BY <3>1, <3>2
  <2>5. ASSUME NEW o \in In(outstanding') PROVE obj'[o].kind # "none"
    <3>1. o \in In(outstanding)
      BY <2>3
    <3>2. o \in Replies
      BY <3>1, ElementOfSeq DEF Types, Objects, In
    <3> QED
      BY <1>1, <2>1, <3>1, <3>2 DEF Types, Objects
  <2> QED
    BY <1>1, <2>3, <2>4, <2>5 DEF Objects
<1> QED
  BY <1>2, <1>3

\* What is unread stands in the order it stood in.
LEMMA BecomesOrdered ==
    ASSUME Types, Ordered, NEW x \in Replies, NEW e, Becomes(x, e), Unread(x)' => Unread(x)
    PROVE  Ordered'
<1>1. /\ obj'[x] = e /\ \A o \in Replies \ {x} : obj'[o] = obj[o]
      /\ e.conn => e.command = obj[x].command
  BY NoObjectIs DEF Types, Objects, Becomes
<1>2. \A o \in Replies : Unread(o)' => Unread(o) /\ obj'[o].command = obj[o].command
  BY <1>1 DEF Unread
<1>3. \A f, g : Precedes(outstanding', f, g) => Precedes(outstanding, f, g)
  BY DEF Becomes, LessOne
<1>4. ASSUME NEW f \in Replies, NEW g \in Replies,
             Precedes(outstanding', f, g), Unread(f)', Unread(g)'
      PROVE  obj'[f].command < obj'[g].command
  BY <1>2, <1>3, <1>4 DEF Ordered
<1> QED
  BY <1>4 DEF Ordered

\* What the changed reply has to do with the stream.
LEMMA BecomesDuties ==
    ASSUME Types, Ordered, NEW x \in Replies, NEW e, Becomes(x, e),
           Unread(x)' => Unread(x), ~Queued(x),
           inMulti' = inMulti, multiFrom' = multiFrom, refusals' = refusals
    PROVE  /\ Duties(obj, During)' = Duties(obj, During)
           /\ Duties(obj, Before)' =
                (Duties(obj, Before) \ (IF Unread(x) THEN {Duty(obj[x])} ELSE {}))
                \cup (IF Unread(x)' THEN {Duty(e)} ELSE {})
<1>1. /\ obj'[x] = e /\ \A o \in Replies \ {x} : obj'[o] = obj[o]
      /\ Unread(x)' => e.command = obj[x].command
  BY NoObjectIs DEF Types, Objects, Becomes, Unread
<1>2. \A o \in Replies \ {x} : (Unread(o)' <=> Unread(o)) /\ (Queued(o)' <=> Queued(o))
  BY <1>1 DEF Unread, Queued
<1>3. Unread(x)' => ~Queued(x)'
  BY <1>1 DEF Queued
<1>4. /\ \A o \in Replies \ {x} : (o \in Before' <=> o \in Before) /\ (o \in During' <=> o \in During)
      /\ x \notin During /\ x \notin During'
      /\ (x \in Before <=> Unread(x)) /\ (x \in Before' <=> Unread(x)')
      /\ Before' \in SUBSET Replies /\ During' \in SUBSET Replies
  BY <1>1, <1>2, <1>3 DEF Before, During
<1>5. Duties(obj', During') = Duties(obj, During)
  <2>1. Duties(obj', During') =
           (Duties(obj, During) \ (IF x \in During THEN {Duty(obj[x])} ELSE {}))
           \cup (IF x \in During' THEN {Duty(obj'[x])} ELSE {})
    BY <1>1, <1>4, BeforeIs, DutiesChange
  <2> QED
    BY <1>4, <2>1
<1>6. Duties(obj', Before') =
         (Duties(obj, Before) \ (IF x \in Before THEN {Duty(obj[x])} ELSE {}))
         \cup (IF x \in Before' THEN {Duty(obj'[x])} ELSE {})
  BY <1>1, <1>4, BeforeIs, DutiesChange
<1> QED
  BY <1>1, <1>4, <1>5, <1>6 DEF Duties

LEMMA DropSmall ==
    ASSUME NEW q \in Seq(Item), Small(q), NEW n \in 0 .. Len(q)
    PROVE  Drop(q, n) \in Seq(Item) /\ Small(Drop(q, n))
<1>1. Len(q) \in Nat
  BY ItemFields
<1>2. /\ Drop(q, n) \in Seq(Item) /\ Len(Drop(q, n)) = Len(q) - n
      /\ \A i \in 1 .. Len(q) - n : Drop(q, n)[i] = q[i + n]
  BY DropIs
<1>3. \A i \in 1 .. Len(q) - n : i + n \in 1 .. Len(q)
  BY <1>1
<1> QED
  BY <1>2, <1>3 DEF Small

LEMMA DropStatuses ==
    ASSUME Types, Statuses, inMulti' = inMulti, held' = held, InPieces(stream),
           NEW n \in 0 .. Len(stream), stream' = Drop(stream, n)
    PROVE  Statuses'
<1>0. stream \in Seq(Item)
  BY DEF Types
<1>1. Len(stream) \in Nat
  BY <1>0, ItemFields
<1>2. /\ Len(stream') = Len(stream) - n
      /\ \A i \in 1 .. Len(stream) - n : stream'[i] = stream[i + n]
  BY <1>0, DropIs
<1>3. StatusLast(stream')
  BY <1>0, DropPieces DEF Statuses
<1>4. \A i \in 1 .. Len(stream') : i + n \in 1 .. Len(stream) /\ stream'[i] = stream[i + n]
  BY <1>1, <1>2
<1>5. ~inMulti' => held' = << >> /\ \A i \in 1 .. Len(stream') : stream'[i].command # 0
  BY <1>4 DEF Statuses
<1>6. \A i \in 1 .. Len(held') : held'[i].command # 0
  BY DEF Statuses
<1> QED
  BY <1>3, <1>5, <1>6 DEF Statuses

\* The first reply is read to its end.
LEMMA WholeInStep ==
    ASSUME Types, InStep, NEW x \in Before, x = First, NEW e, Becomes(x, e), ~Unread(x)',
           stream' = Drop(stream, stream[1].more + 1), UNCHANGED multiVars
    PROVE  /\ stream[1].more + 1 \in 1 .. Len(stream)
           /\ \A i \in 1 .. stream[1].more + 1 : stream[i].command = obj[x].command
           /\ InStep'
<1> DEFINE D == Duties(obj, Before)
           d == Duty(obj[x])
           n == stream[1].more + 1
<1>0. /\ stream \in Seq(Item) /\ Serves(stream, D) /\ Serves(held, Duties(obj, During))
      /\ Ordered /\ Begun /\ Statuses
      /\ held' = held /\ inMulti' = inMulti /\ multiFrom' = multiFrom
      /\ refusals' = refusals
      /\ x \in Replies /\ Unread(x) /\ ~Queued(x)
  BY BeforeIs DEF Types, InStep, multiVars
<1>1. Len(stream) > 0 /\ stream[1].command = obj[x].command
  BY StreamHead
<1>2. D \in SUBSET DutySet /\ d \in D /\ d.command = obj[x].command
  BY <1>0, BeforeIs, DutiesAre, DutyIs DEF Duties
<1>3. /\ n \in 1 .. Len(stream)
      /\ \A i \in 1 .. n : stream[i].command = d.command
      /\ Serves(Drop(stream, n), D \ {d})
  <2> HIDE DEF D, d
  <2> QED
    BY <1>0, <1>1, <1>2, DropAnswer
<1>4. /\ Duties(obj, During)' = Duties(obj, During)
      /\ Duties(obj, Before)' = D \ {d}
  <2>1. /\ Duties(obj, During)' = Duties(obj, During)
        /\ Duties(obj, Before)' =
             (D \ (IF Unread(x) THEN {d} ELSE {})) \cup (IF Unread(x)' THEN {Duty(e)} ELSE {})
    BY <1>0, BecomesDuties
  <2> QED
    BY <1>0, <2>1
<1>5. Ordered'
  BY <1>0, BecomesOrdered
<1>6. Statuses'
  <2>1. n \in 0 .. Len(stream) /\ InPieces(stream)
    BY <1>0, <1>3, ItemFields DEF Serves
  <2> HIDE DEF n
  <2>2. stream' = Drop(stream, n)
    BY DEF n
  <2> QED
    BY <1>0, <2>1, <2>2, DropStatuses
<1>7. Begun'
  <2>1. \A o \in Replies \ {x} : obj'[o] = obj[o]
    BY <1>0, BecomesIs
  <2>2. \A o \in Replies : Unread(o)' => o # x /\ Unread(o) /\ (Queued(o)' <=> Queued(o)) /\ obj'[o] = obj[o]
    BY <1>0, <2>1 DEF Unread, Queued
  <2> QED
    BY <1>0, <2>2 DEF Begun
<1>8. Serves(stream', Duties(obj, Before)') /\ Serves(held', Duties(obj, During)')
  BY <1>0, <1>3, <1>4
<1> QED
  BY <1>2, <1>3, <1>5, <1>6, <1>7, <1>8 DEF InStep

\* One item of the first reply is read, and there are more.
LEMMA PartInStep ==
    ASSUME Types, InStep, NEW x \in Before, x = First, NEW e, Becomes(x, e), Unread(x)',
           e.kind = "multi", e.header, e.command = obj[x].command,
           stream[1].more > 0, e.count = stream[1].more,
           stream' = Drop(stream, 1), UNCHANGED multiVars
    PROVE  InStep'
<1> DEFINE D == Duties(obj, Before)
           d == Duty(obj[x])
<1>0. /\ stream \in Seq(Item) /\ Serves(stream, D) /\ Serves(held, Duties(obj, During))
      /\ Ordered /\ Begun /\ Statuses
      /\ held' = held /\ inMulti' = inMulti /\ multiFrom' = multiFrom
      /\ refusals' = refusals
      /\ x \in Replies /\ Unread(x) /\ ~Queued(x)
  BY BeforeIs DEF Types, InStep, multiVars
<1>1. Len(stream) > 0 /\ stream[1].command = obj[x].command
  BY StreamHead
<1>2. D \in SUBSET DutySet /\ d \in D /\ d.command = obj[x].command
  BY <1>0, BeforeIs, DutiesAre, DutyIs DEF Duties
<1>3. Duty(e) = [command |-> d.command, left |-> stream[1].more]
  BY <1>2 DEF Duty
<1>4. Serves(Drop(stream, 1), (D \ {d}) \cup {Duty(e)})
  <2> HIDE DEF D, d
  <2> QED
    BY <1>0, <1>1, <1>2, <1>3, DropItem
<1>5. /\ Duties(obj, During)' = Duties(obj, During)
      /\ Duties(obj, Before)' = (D \ {d}) \cup {Duty(e)}
  <2>1. /\ Duties(obj, During)' = Duties(obj, During)
        /\ Duties(obj, Before)' =
             (D \ (IF Unread(x) THEN {d} ELSE {})) \cup (IF Unread(x)' THEN {Duty(e)} ELSE {})
    BY <1>0, BecomesDuties
  <2> QED
    BY <1>0, <2>1
<1>6. Ordered'
  BY <1>0, BecomesOrdered
<1>7. Statuses'
  <2>1. 1 \in 0 .. Len(stream) /\ InPieces(stream)
    BY <1>0, <1>1, ItemFields DEF Serves
  <2> QED
    BY <1>0, <2>1, DropStatuses
<1>8. Begun'
  <2>1. obj'[x] = e /\ \A o \in Replies \ {x} : obj'[o] = obj[o]
    BY <1>0, BecomesIs
  <2>2. \A o \in Replies : /\ Unread(o)' => Unread(o)
                           /\ obj'[o].command = obj[o].command
                           /\ Queued(o)' <=> Queued(o)
                           /\ o # x => obj'[o] = obj[o]
    BY <1>0, <2>1 DEF Unread, Queued
  <2>3. \A p \in Replies : Unread(p) /\ p # x => obj[x].command < obj[p].command
    BY <1>0, FirstLeast
  <2>4. ASSUME NEW o \in Replies, Unread(o)', obj'[o].kind = "multi", obj'[o].header
        PROVE  /\ ~Queued(o)'
               /\ \A p \in Replies : Unread(p)' /\ p # o => obj'[o].command < obj'[p].command
    <3>1. CASE o = x
      BY <1>0, <2>2, <2>3, <3>1
    <3>2. CASE o # x
      BY <1>0, <2>2, <2>4, <3>2 DEF Begun
    <3> QED
      BY <3>1, <3>2
  <2> QED
    BY <2>4 DEF Begun
<1>9. Serves(stream', Duties(obj, Before)') /\ Serves(held', Duties(obj, During)')
  BY <1>0, <1>4, <1>5
<1> QED
  BY <1>6, <1>7, <1>8, <1>9 DEF InStep

\* Nothing is read, and what x waits for stays the same.
LEMMA SameInStep ==
    ASSUME Types, InStep, NEW x \in Replies, NEW e, Becomes(x, e), Unread(x)' <=> Unread(x),
           Unread(x) => e.header = obj[x].header /\ Duty(e) = Duty(obj[x]),
           UNCHANGED <<stream, multiVars>>
    PROVE  InStep'
<1>0. /\ stream' = stream /\ held' = held /\ inMulti' = inMulti /\ multiFrom' = multiFrom
      /\ refusals' = refusals
      /\ Serves(stream, Duties(obj, Before)) /\ Serves(held, Duties(obj, During))
      /\ Ordered /\ Begun /\ Statuses
  BY DEF InStep, multiVars
<1>1. /\ obj'[x] = e /\ \A o \in Replies \ {x} : obj'[o] = obj[o]
      /\ e.conn => e.kind = obj[x].kind /\ e.command = obj[x].command
  BY BecomesIs, NoObjectIs DEF Becomes
<1>2. \A o \in Replies : /\ Unread(o)' <=> Unread(o)
                         /\ Unread(o) => /\ Queued(o)' <=> Queued(o)
                                         /\ obj'[o].command = obj[o].command
                                         /\ obj'[o].kind = obj[o].kind
                                         /\ obj'[o].header = obj[o].header
                                         /\ Duty(obj'[o]) = Duty(obj[o])
  <2> SUFFICES ASSUME NEW o \in Replies
               PROVE  /\ Unread(o)' <=> Unread(o)
                      /\ Unread(o) => /\ Queued(o)' <=> Queued(o)
                                      /\ obj'[o].command = obj[o].command
                                      /\ obj'[o].kind = obj[o].kind
                                      /\ obj'[o].header = obj[o].header
                                      /\ Duty(obj'[o]) = Duty(obj[o])
    OBVIOUS
  <2>1. CASE o = x
    <3> SUFFICES ASSUME Unread(x)
                 PROVE  /\ Queued(x)' <=> Queued(x)
                        /\ obj'[x].command = obj[x].command
                        /\ obj'[x].kind = obj[x].kind
                        /\ obj'[x].header = obj[x].header
                        /\ Duty(obj'[x]) = Duty(obj[x])
      BY <2>1
    <3>1. e.conn
      BY <1>1 DEF Unread
    <3> QED
      BY <1>0, <1>1, <3>1 DEF Queued
  <2>2. CASE o # x
    <3>1. obj'[o] = obj[o]
      BY <1>1, <2>2
    <3>2. (Unread(o)' <=> Unread(o)) /\ (Queued(o)' <=> Queued(o))
      BY <1>0, <3>1 DEF Unread, Queued
    <3> QED
      BY <3>1, <3>2
  <2> QED
    BY <2>1, <2>2
<1>3. Before' = Before /\ During' = During
  BY <1>0, <1>2 DEF Before, During
<1>4. Duties(obj, Before)' = Duties(obj, Before) /\ Duties(obj, During)' = Duties(obj, During)
  BY <1>2, <1>3, BeforeIs DEF Duties
<1>5. Ordered'
  BY <1>0, <1>2, BecomesOrdered
<1>6. Begun'
  BY <1>0, <1>2 DEF Begun
<1>7. Statuses'
  BY <1>0 DEF Statuses
<1> QED
  BY <1>0, <1>4, <1>5, <1>6, <1>7 DEF InStep

\* An answer stays with its own command.
LEMMA BecomesOwn ==
    ASSUME Types, OwnAnswer, NEW x \in Replies, NEW e, Becomes(x, e), broken => broken',
           Owned(e, broken')
    PROVE  OwnAnswer'
<1>1. obj'[x] = e /\ \A o \in Replies \ {x} : obj'[o] = obj[o]
  BY BecomesIs
<1>2. ASSUME NEW o \in Replies PROVE Owned(obj'[o], broken')
  <2>1. CASE o = x
    BY <1>1, <2>1
  <2>2. CASE o # x
    BY <1>1, <2>2, OwnKept
  <2> QED
    BY <2>1, <2>2
<1> QED
  BY <1>2 DEF OwnAnswer, Owned

LEMMA DropTypes ==
    ASSUME NEW q \in Seq(Item), Small(q), NEW n \in Nat
    PROVE  Drop(q, n) \in Seq(Item) /\ Small(Drop(q, n)) /\ Drop(q, 0) = q
<1>0. Drop(q, 0) = q
  BY SubSeqFull DEF Drop
<1>1. Len(q) \in Nat
  BY ItemFields
<1>2. CASE n \in 0 .. Len(q)
  BY <1>0, <1>2, DropSmall
<1>3. CASE n > Len(q)
  <2>1. Drop(q, n) = << >>
    BY <1>1, <1>3, SubSeqEmpty DEF Drop
  <2> QED
    BY <1>0, <2>1, EmptySeq DEF Small
<1> QED
  BY <1>0, <1>1, <1>2, <1>3

LEMMA TailIs ==
    ASSUME NEW q \in Seq(Item), q # << >>
    PROVE  Tail(q) = Drop(q, 1) /\ Head(q) = q[1] /\ 1 \in 1 .. Len(q)
<1>1. Len(q) \in Nat /\ Len(q) # 0
  BY EmptySeq
<1> QED
  BY <1>1, TailIsSubSeq DEF Drop

LEMMA NothingServed ==
    << >> \in Seq(Item) /\ Small(<< >>) /\ InPieces(<< >>) /\ Serves(<< >>, {}) /\ StatusLast(<< >>)
<1>1. << >> \in Seq(Item) /\ 1 .. Len(<< >>) = {}
  BY EmptySeq
<1> QED
  BY <1>1 DEF Small, InPieces, Serves, StatusLast

-----------------------------------------------------------------------------
(* Reading.                                                                *)

\* While somebody wants an answer, the next one is there and is the first reply's.
LEMMA FirstComes ==
    ASSUME IInv, Sound, wanted # NoReply
    PROVE  /\ First \in Before /\ First \in Replies /\ Unread(First) /\ InStep
           /\ stream \in Seq(Item) /\ Len(stream) > 0
           /\ Tail(stream) = Drop(stream, 1) /\ Head(stream) = stream[1] /\ 1 \in 1 .. Len(stream)
           /\ stream[1].command = obj[First].command /\ stream[1].more \in 0 .. MaxElements
           /\ Duty(obj[First]).left > 0 => stream[1].more = Duty(obj[First]).left - 1
<1>1. Types /\ InStep /\ wanted \in Before
  BY DEF IInv, Wanted, Types, Before, Sound
<1>2. /\ First \in Before /\ Len(stream) > 0
      /\ stream[1].command = obj[First].command
      /\ Duty(obj[First]).left > 0 => stream[1].more = Duty(obj[First]).left - 1
  BY <1>1, StreamHead
<1>3. stream \in Seq(Item) /\ stream # << >>
  BY <1>1, <1>2, EmptySeq DEF Types
<1>4. Tail(stream) = Drop(stream, 1) /\ Head(stream) = stream[1] /\ 1 \in 1 .. Len(stream)
  BY <1>3, TailIs
<1>5. stream[1].more \in 0 .. MaxElements
  BY <1>1, <1>3, <1>4, ItemFields, RedisAssumption DEF Types, Small
<1> QED
  BY <1>1, <1>2, <1>3, <1>4, <1>5, BeforeIs

\* One reply has changed.
LEMMA ChangeKeeps ==
    ASSUME IInv, NEW x \in Replies, NEW e, Becomes(x, e),
           Owned(e, broken'), broken => broken',
           stream' \in Seq(Item), Small(stream'), UNCHANGED <<commands, multiVars>>,
           wanted' \in Replies \cup {NoReply}, dying' \in BOOLEAN,
           broken' \in BOOLEAN, careless' \in BOOLEAN, orphaned' \in BOOLEAN,
           Wanted', Sound' => InStep'
    PROVE  IInv'
<1>1. Types /\ OwnAnswer
  BY DEF IInv
<1>2. Objects'
  BY <1>1, BecomesTypes
<1>3. OwnAnswer'
  BY <1>1, BecomesOwn
<1>4. held' = held /\ inMulti' = inMulti /\ multiFrom' = multiFrom /\ commands' = commands
      /\ refusals' = refusals
  BY DEF multiVars
<1>5. Types'
  BY <1>1, <1>2, <1>4 DEF Types
<1> QED
  BY <1>3, <1>5 DEF IInv

LEMMA NoneWanted == wanted' = NoReply => Wanted'
  BY DEF Wanted

\* Nobody else's reply has changed.
LEMMA StillWanted ==
    ASSUME IInv, NEW x \in Replies, NEW e, Becomes(x, e), x # wanted,
           UNCHANGED <<readVars, multiVars>>, careless' = careless
    PROVE  Wanted'
<1>1. Types /\ Wanted
  BY DEF IInv
<1>2. wanted' = wanted /\ dying' = dying /\ inMulti' = inMulti /\ multiFrom' = multiFrom
  BY DEF readVars, multiVars
<1>3. ASSUME wanted # NoReply PROVE obj'[wanted] = obj[wanted]
  BY <1>1, <1>3, BecomesIs DEF Types
<1> QED
  BY <1>1, <1>2, <1>3 DEF Wanted, Unread, Queued

\* The reply of one item that is read ends with it.
LEMMA OneItem ==
    ASSUME IInv, Sound, wanted # NoReply, NEW x, x = First, NEW e, Becomes(x, e), ~Unread(x)',
           stream' = Tail(stream), UNCHANGED multiVars, stream[1].more = 0
    PROVE  InStep' /\ stream' \in Seq(Item) /\ Small(stream')
<1>1. /\ x \in Before /\ InStep /\ stream \in Seq(Item) /\ Tail(stream) = Drop(stream, 1)
  BY FirstComes
<1>2. Types /\ Small(stream)
  BY DEF IInv, Types
<1>3. stream' = Drop(stream, stream[1].more + 1) /\ stream' = Drop(stream, 1)
  BY <1>1
<1>4. InStep'
  BY <1>1, <1>2, <1>3, WholeInStep
<1> QED
  BY <1>1, <1>2, <1>3, <1>4, DropTypes

\* What a read makes of a reply.
LEMMA ReadIs ==
    ASSUME Types, NEW x \in Replies, Unread(x), NEW v \in Nat
    PROVE  LET e == [obj[x] EXCEPT !.conn = FALSE, !.value = v]
           IN  /\ e \in Reply /\ e # NoObject /\ e.kind = obj[x].kind /\ e.kind # "none"
               /\ e.command = obj[x].command /\ e.conn = FALSE /\ e.value = v
               /\ e.pending = obj[x].pending
               /\ [obj EXCEPT ![x].conn = FALSE, ![x].value = v] = [obj EXCEPT ![x] = e]
               /\ [[obj EXCEPT ![x].conn = FALSE, ![x].value = v] EXCEPT ![x] = NoObject]
                     = [obj EXCEPT ![x] = NoObject]
<1> DEFINE e == [obj[x] EXCEPT !.conn = FALSE, !.value = v]
<1>1. obj[x] \in Reply /\ obj[x].kind # "none"
  BY ReplyFields, UnreadIs
<1>2. /\ e \in Reply /\ e.kind = obj[x].kind /\ e.command = obj[x].command /\ e.conn = FALSE
      /\ e.value = v /\ e.pending = obj[x].pending
  BY <1>1 DEF Reply
<1>3. e # NoObject
  BY <1>1, <1>2, NoObjectIs
<1>4. obj \in [Replies -> Reply]
  BY DEF Types, Objects
<1>5. [obj EXCEPT ![x].conn = FALSE, ![x].value = v] = [obj EXCEPT ![x] = e]
  BY <1>4
<1>6. [[obj EXCEPT ![x] = e] EXCEPT ![x] = NoObject] = [obj EXCEPT ![x] = NoObject]
  BY <1>4
<1> QED
  BY <1>1, <1>2, <1>3, <1>5, <1>6

\* ... whose answer is taken for v.
LEMMA GotOneIs ==
    ASSUME IInv, wanted # NoReply, NEW x \in Replies, x = First, Unread(x), NEW v \in Nat,
           GotOne(v), UNCHANGED multiVars, careless' = careless
    PROVE  \E e : /\ Becomes(x, e) /\ ~Unread(x)' /\ Wanted'
                  /\ wanted' \in Replies \cup {NoReply} /\ dying' \in BOOLEAN
                  /\ \/ e = NoObject
                     \/ /\ e.kind = obj[x].kind /\ e.command = obj[x].command
                        /\ e.value = v /\ e.pending = obj[x].pending
<1> DEFINE e == [obj[x] EXCEPT !.conn = FALSE, !.value = v]
<1>1. Types /\ wanted \in Replies \cup {NoReply} /\ dying \in BOOLEAN
  BY DEF IInv, Types
<1>4. /\ e \in Reply /\ e # NoObject /\ e.kind = obj[x].kind /\ e.kind # "none"
      /\ e.command = obj[x].command /\ e.conn = FALSE /\ e.value = v
      /\ e.pending = obj[x].pending
      /\ [obj EXCEPT ![x].conn = FALSE, ![x].value = v] = [obj EXCEPT ![x] = e]
      /\ [[obj EXCEPT ![x].conn = FALSE, ![x].value = v] EXCEPT ![x] = NoObject]
            = [obj EXCEPT ![x] = NoObject]
  BY <1>1, ReadIs
<1>6. /\ LessOne(outstanding, Without(x), x)
      /\ LessOne(outstanding, RemoveFirst(Without(x), x), x)
  BY <1>1, WithoutIs
<1>7. CASE x = wanted /\ dying
  <2>1. /\ obj' = [obj EXCEPT ![x] = NoObject] /\ outstanding' = RemoveFirst(Without(x), x)
        /\ wanted' = NoReply /\ dying' = FALSE
    <3>1. Return(wanted, [obj EXCEPT ![x].conn = FALSE, ![x].value = v], Without(x))
      BY <1>7 DEF GotOne
    <3> QED
      BY <1>4, <1>7, <3>1 DEF Return
  <2>2. Becomes(x, NoObject)
    BY <1>6, <2>1, NoObjectIs DEF Becomes
  <2>3. ~Unread(x)'
    BY <1>1, <2>2, BecomesIs, NoObjectIs DEF Unread
  <2>4. Wanted'
    BY <2>1, NoneWanted
  <2> QED
    BY <2>1, <2>2, <2>3, <2>4
<1>8. CASE ~ (x = wanted /\ dying)
  <2>1. /\ obj' = [obj EXCEPT ![x] = e] /\ outstanding' = Without(x)
        /\ \/ wanted' = NoReply /\ dying' = FALSE
           \/ x # wanted /\ UNCHANGED readVars
    <3>1. CASE x = wanted
      <4>1. Return(wanted, [obj EXCEPT ![x].conn = FALSE, ![x].value = v], Without(x))
        BY <3>1 DEF GotOne
      <4> QED
        BY <1>4, <1>8, <3>1, <4>1 DEF Return
    <3>2. CASE x # wanted
      <4>1. /\ obj' = [obj EXCEPT ![x].conn = FALSE, ![x].value = v] /\ outstanding' = Without(x)
            /\ UNCHANGED readVars
        BY <3>2 DEF GotOne
      <4> QED
        BY <1>4, <3>2, <4>1
    <3> QED
      BY <3>1, <3>2
  <2>2. Becomes(x, e)
    BY <1>4, <1>6, <2>1 DEF Becomes
  <2>3. ~Unread(x)'
    <3>1. obj'[x] = e
      BY <1>1, <2>2, BecomesIs
    <3> QED
      BY <1>4, <3>1 DEF Unread
  <2>4. Wanted'
    BY <2>1, <2>2, NoneWanted, StillWanted
  <2>5. wanted' \in Replies \cup {NoReply} /\ dying' \in BOOLEAN
    BY <1>1, <2>1 DEF readVars
  <2> HIDE DEF e
  <2> QED
    BY <1>4, <2>2, <2>3, <2>4, <2>5
<1> QED
  BY <1>7, <1>8

LEMMA ReadOneStep == ASSUME IInv, ReadOne PROVE IInv'
<1>0. PICK x : x = First
  OBVIOUS
<1>1. /\ Types /\ OwnAnswer /\ Sound /\ ~broken /\ wanted # NoReply
      /\ broken' \in BOOLEAN /\ careless' \in BOOLEAN /\ orphaned' \in BOOLEAN
      /\ careless' = careless /\ broken' = broken
      /\ UNCHANGED <<commands, multiVars>> /\ stream' = Tail(stream) /\ obj[x].kind # "multi"
      /\ GotOne(Head(stream).command)
  BY <1>0 DEF IInv, ReadOne, GotOne, Good, Readable, Sound, flags, Types
<1>2. /\ x \in Replies /\ Unread(x) /\ stream \in Seq(Item)
      /\ Head(stream).command = obj[x].command /\ 1 \in 1 .. Len(stream)
      /\ Duty(obj[x]).left > 0 => stream[1].more = Duty(obj[x]).left - 1
  BY <1>0, <1>1, FirstComes
<1>3. stream[1].more = 0 /\ obj[x].command \in Nat
  BY <1>1, <1>2, DutyIs, ReplyFields
<1>4. GotOne(obj[x].command)
  BY <1>1, <1>2
<1>5. PICK e : /\ Becomes(x, e) /\ ~Unread(x)' /\ Wanted'
               /\ wanted' \in Replies \cup {NoReply} /\ dying' \in BOOLEAN
               /\ \/ e = NoObject
                  \/ /\ e.kind = obj[x].kind /\ e.command = obj[x].command
                     /\ e.value = obj[x].command /\ e.pending = obj[x].pending
  BY <1>0, <1>1, <1>2, <1>3, <1>4, GotOneIs
<1>6. InStep' /\ stream' \in Seq(Item) /\ Small(stream')
  BY <1>0, <1>1, <1>3, <1>5, OneItem
<1>7. Owned(e, broken')
  <2>1. \A i \in DOMAIN obj[x].pending : obj[x].pending[i] = obj[x].command
    BY <1>1, <1>2, OwnWhole
  <2> QED
    BY <1>5, <2>1, OwnCommand, OwnNothing
<1> QED
  BY <1>1, <1>2, <1>5, <1>6, <1>7, ChangeKeeps

\* The answer to the first reply is there to its end.
LEMMA FirstWhole ==
    ASSUME IInv, Sound, wanted # NoReply
    PROVE  \A k \in 1 .. stream[1].more + 1 :
              k \in 1 .. Len(stream) /\ stream[k].command = obj[First].command
<1>1. /\ InStep /\ stream \in Seq(Item) /\ 1 \in 1 .. Len(stream)
      /\ stream[1].command = obj[First].command /\ stream[1].more \in 0 .. MaxElements
  BY FirstComes
<1>2. InPieces(stream) /\ Len(stream) \in Nat /\ MaxElements \in Nat
  BY <1>1, ItemFields, RedisAssumption DEF InStep, Serves
<1>3. \A k \in 1 .. 1 + stream[1].more : k <= Len(stream) /\ stream[k].command = stream[1].command
  BY <1>1, <1>2 DEF InPieces
<1>4. 1 .. stream[1].more + 1 = 1 .. 1 + stream[1].more
  BY <1>1, <1>2
<1>5. \A k \in 1 .. 1 + stream[1].more : k \in Nat /\ 1 <= k
  BY <1>1, <1>2
<1> QED
  BY <1>1, <1>2, <1>3, <1>4, <1>5

\* The elements that come next.
LEMMA ElementsAre ==
    ASSUME IInv, Sound, wanted # NoReply, NEW x, x = First, obj[x].kind = "multi"
    PROVE  LET read == Elements(obj[x].header)
           IN  /\ x \in Replies /\ read \in Seq(Nat) /\ Len(read) \in 0 .. MaxElements
               /\ DOMAIN read = 1 .. Len(read)
               /\ \A i \in 1 .. Len(read) : read[i] = obj[x].command
<1> DEFINE h == IF obj[x].header THEN 0 ELSE 1
           size == stream[1].more + 1
           read == Elements(obj[x].header)
<1>1. Types
  BY DEF IInv
<1>2. /\ x \in Replies /\ Unread(x) /\ stream \in Seq(Item)
      /\ Head(stream) = stream[1] /\ stream[1].more \in 0 .. MaxElements
      /\ Duty(obj[x]).left > 0 => stream[1].more = Duty(obj[x]).left - 1
  BY FirstComes
<1>3. \A k \in 1 .. size : k \in 1 .. Len(stream) /\ stream[k].command = obj[x].command
  BY FirstWhole
<1>4. /\ size \in Nat /\ h \in 0 .. 1 /\ obj[x].command \in Nat
      /\ obj[x].header \in BOOLEAN /\ obj[x].count \in 0 .. MaxElements
      /\ obj[x].header => obj[x].count > 0 /\ Duty(obj[x]).left = obj[x].count
  BY <1>1, <1>2, ReplyFields, UnreadIs, DutyIs, RedisAssumption
<1>5. size - h \in 0 .. MaxElements
  <2>1. CASE obj[x].header
    <3>1. stream[1].more = obj[x].count - 1 /\ h = 0
      BY <1>2, <1>4, <2>1, RedisAssumption
    <3>2. PICK c \in 0 .. MaxElements : c = obj[x].count
      BY <1>4
    <3>3. size = c
      BY <3>1, <3>2, RedisAssumption
    <3> QED
      BY <3>1, <3>2, <3>3, RedisAssumption
  <2>2. CASE ~obj[x].header
    BY <1>2, <2>2, RedisAssumption
  <2> QED
    BY <2>1, <2>2
<1>6. size - h \in Nat
  BY <1>5, RedisAssumption
<1>7. \A i \in 1 .. size - h : i + h \in 1 .. size
  BY <1>4
<1>8. read = [i \in 1 .. size - h |-> stream[i + h].command]
  BY <1>2 DEF Elements
<1>9. \A i \in 1 .. size - h : read[i] = obj[x].command
  BY <1>3, <1>7, <1>8
<1>10. read \in [1 .. size - h -> Nat]
  BY <1>4, <1>8, <1>9
<1> HIDE DEF read
<1>11. read \in Seq(Nat) /\ Len(read) = size - h /\ DOMAIN read = 1 .. Len(read)
  BY <1>6, <1>10, LenProperties
<1> QED
  BY <1>2, <1>5, <1>9, <1>11 DEF read

LEMMA ConcatAmong ==
    ASSUME NEW p \in Seq(Nat), NEW q \in Seq(Nat), NEW S,
           \A i \in DOMAIN p : p[i] \in S, \A i \in DOMAIN q : q[i] \in S
    PROVE  p \o q \in Seq(Nat) /\ \A i \in DOMAIN (p \o q) : (p \o q)[i] \in S
<1>1. /\ Len(p) \in Nat /\ Len(q) \in Nat /\ DOMAIN p = 1 .. Len(p) /\ DOMAIN q = 1 .. Len(q)
  BY LenProperties
<1>2. /\ p \o q \in Seq(Nat) /\ Len(p \o q) = Len(p) + Len(q)
      /\ \A i \in 1 .. Len(p) + Len(q) :
            (p \o q)[i] = IF i <= Len(p) THEN p[i] ELSE q[i - Len(p)]
  BY ConcatProperties
<1>3. ASSUME NEW i \in DOMAIN (p \o q) PROVE (p \o q)[i] \in S
  <2>1. i \in 1 .. Len(p) + Len(q)
    BY <1>2, LenProperties
  <2>2. CASE i <= Len(p)
    BY <1>1, <1>2, <2>1, <2>2
  <2>3. CASE ~ (i <= Len(p))
    <3>1. i - Len(p) \in 1 .. Len(q)
      BY <1>1, <2>1, <2>3
    <3> QED
      BY <1>1, <1>2, <2>1, <2>3, <3>1
  <2> QED
    BY <2>2, <2>3
<1> QED
  BY <1>2, <1>3

\* An enumerator is read to its end.
LEMMA GotAllIs ==
    ASSUME Types, NEW x \in Replies, x = First, Unread(x), NEW read \in Seq(Nat), GotAll(read)
    PROVE  \E e : /\ Becomes(x, e) /\ ~Unread(x)' /\ x # wanted /\ UNCHANGED readVars
                  /\ e.kind = obj[x].kind /\ e.command = obj[x].command
                  /\ e.value = obj[x].value /\ e.pending = obj[x].pending \o read
<1> DEFINE e == [obj[x] EXCEPT !.conn = FALSE, !.header = TRUE, !.count = 0,
                               !.pending = obj[x].pending \o read]
<1>1. /\ obj' = [obj EXCEPT ![x] = e] /\ outstanding' = Without(x) /\ obj[x].kind = "multi"
      /\ x # wanted /\ UNCHANGED readVars
  BY DEF GotAll
<1>2. obj[x] \in Reply /\ obj[x].pending \in Seq(Nat)
  BY ReplyFields
<1>3. obj[x].pending \o read \in Seq(Nat)
  BY <1>2, ConcatProperties
<1>4. /\ e \in Reply /\ e.kind = obj[x].kind /\ e.command = obj[x].command /\ e.conn = FALSE
      /\ e.value = obj[x].value /\ e.pending = obj[x].pending \o read
  <2>1. 0 \in 0 .. MaxElements
    BY RedisAssumption
  <2> QED
    BY <1>2, <1>3, <2>1 DEF Reply
<1> HIDE DEF e
<1>5. Becomes(x, e)
  <2>1. LessOne(outstanding, outstanding', x)
    BY <1>1, WithoutIs
  <2> QED
    BY <1>1, <1>4, <2>1 DEF Becomes
<1>6. ~Unread(x)'
  <2>1. obj'[x] = e
    BY <1>5, BecomesIs
  <2> QED
    BY <1>4, <2>1 DEF Unread
<1> QED
  BY <1>1, <1>4, <1>5, <1>6

LEMMA ReadAllStep == ASSUME IInv, ReadAll PROVE IInv'
<1>0. PICK x : x = First
  OBVIOUS
<1>1. /\ Types /\ OwnAnswer /\ Sound /\ ~broken /\ wanted # NoReply
      /\ wanted \in Replies \cup {NoReply} /\ dying \in BOOLEAN
      /\ broken' \in BOOLEAN /\ careless' \in BOOLEAN /\ orphaned' \in BOOLEAN
      /\ careless' = careless /\ broken' = broken
      /\ UNCHANGED <<commands, multiVars>>
      /\ obj[x].kind = "multi" /\ GotAll(Elements(obj[x].header))
      /\ stream' = Drop(stream, Head(stream).more + 1)
  BY <1>0 DEF IInv, ReadAll, GotAll, Good, Readable, Sound, flags, Types
<1>2. /\ x \in Before /\ x \in Replies /\ Unread(x) /\ stream \in Seq(Item) /\ InStep
      /\ Head(stream) = stream[1] /\ stream[1].more \in 0 .. MaxElements
  BY <1>0, <1>1, FirstComes
<1>3. PICK read : read = Elements(obj[x].header)
  OBVIOUS
<1>4. /\ read \in Seq(Nat) /\ GotAll(read) /\ \A i \in DOMAIN read : read[i] = obj[x].command
  BY <1>0, <1>1, <1>3, ElementsAre
<1>5. PICK e : /\ Becomes(x, e) /\ ~Unread(x)' /\ x # wanted /\ UNCHANGED readVars
               /\ e.kind = obj[x].kind /\ e.command = obj[x].command
               /\ e.value = obj[x].value /\ e.pending = obj[x].pending \o read
  BY <1>0, <1>1, <1>2, <1>4, GotAllIs
<1>6. stream' = Drop(stream, stream[1].more + 1) /\ stream[1].more + 1 \in Nat
  BY <1>1, <1>2, RedisAssumption
<1>7. InStep'
  BY <1>0, <1>1, <1>2, <1>5, <1>6, WholeInStep
<1>8. stream' \in Seq(Item) /\ Small(stream')
  BY <1>1, <1>2, <1>6, DropTypes DEF Types
<1>9. Wanted' /\ wanted' \in Replies \cup {NoReply} /\ dying' \in BOOLEAN
  BY <1>1, <1>2, <1>5, StillWanted DEF readVars
<1>10. Owned(e, broken')
  <2>1. /\ obj[x].value \in {0, obj[x].command} /\ obj[x].pending \in Seq(Nat)
        /\ \A i \in DOMAIN obj[x].pending : obj[x].pending[i] \in {obj[x].command}
    BY <1>1, <1>2, OwnWhole, ReplyFields
  <2>2. \A i \in DOMAIN e.pending : e.pending[i] \in {obj[x].command}
    <3>1. \A i \in DOMAIN read : read[i] \in {obj[x].command}
      BY <1>4
    <3> QED
      BY <1>4, <1>5, <2>1, <3>1, ConcatAmong
  <2>3. \A i \in DOMAIN e.pending : e.pending[i] = e.command
    BY <1>5, <2>2
  <2>4. e.value \in {0, e.command}
    BY <1>5, <2>1
  <2> QED
    BY <2>3, <2>4, OwnCommand
<1> QED
  BY <1>1, <1>2, <1>5, <1>7, <1>8, <1>9, <1>10, ChangeKeeps

\* One item of an enumerator is read, and more is to come.
LEMMA NextItem ==
    ASSUME IInv, Sound, wanted # NoReply, NEW x, x = First, NEW e, Becomes(x, e),
           e.kind = "multi", e.header, e.conn, e.command = obj[x].command,
           stream[1].more > 0, e.count = stream[1].more,
           stream' = Tail(stream), UNCHANGED multiVars
    PROVE  InStep' /\ stream' \in Seq(Item) /\ Small(stream')
<1>1. /\ x \in Before /\ InStep /\ stream \in Seq(Item) /\ Tail(stream) = Drop(stream, 1)
      /\ x \in Replies
  BY FirstComes
<1>2. Types /\ Small(stream)
  BY DEF IInv, Types
<1>3. Unread(x)'
  <2>1. obj'[x] = e
    BY <1>1, <1>2, BecomesIs
  <2> QED
    BY <2>1 DEF Unread
<1>4. InStep'
  BY <1>1, <1>2, <1>3, PartInStep
<1> QED
  BY <1>1, <1>2, <1>4, DropTypes

LEMMA ReadHeaderStep == ASSUME IInv, ReadHeader PROVE IInv'
<1>0. PICK x : x = First
  OBVIOUS
<1> DEFINE c == stream[1].more
           e == [obj[x] EXCEPT !.header = TRUE, !.count = c, !.conn = c # 0]
<1>1. /\ Types /\ OwnAnswer /\ Sound /\ wanted # NoReply /\ x = wanted
      /\ wanted \in Replies \cup {NoReply} /\ dying = FALSE
      /\ broken' \in BOOLEAN /\ careless' \in BOOLEAN /\ orphaned' \in BOOLEAN
      /\ careless' = careless /\ ~broken /\ broken' = broken
      /\ UNCHANGED <<commands, multiVars>> /\ stream' = Tail(stream)
      /\ obj[x].kind = "multi"
  BY <1>0 DEF IInv, ReadHeader, Good, Readable, Sound, flags, Types, Wanted
<1>2. /\ x \in Before /\ x \in Replies /\ Unread(x) /\ stream \in Seq(Item) /\ InStep
      /\ Head(stream) = stream[1] /\ 1 \in 1 .. Len(stream) /\ c \in 0 .. MaxElements
  BY <1>0, <1>1, FirstComes
<1>3. obj[x] \in Reply /\ obj[x].conn = TRUE
  BY <1>1, <1>2, ReplyFields, UnreadIs
<1>4. e \in Reply /\ (c # 0) \in BOOLEAN
  <2>1. PICK b \in BOOLEAN : b = (c # 0)
    OBVIOUS
  <2>2. e = [obj[x] EXCEPT !.header = TRUE, !.count = c, !.conn = b]
    BY <2>1
  <2> HIDE DEF c, e
  <2>3. [obj[x] EXCEPT !.header = TRUE, !.count = c, !.conn = b] \in Reply
    BY <1>2, <1>3 DEF Reply
  <2> QED
    BY <2>1, <2>2, <2>3
<1>5. /\ e.kind = "multi" /\ e.command = obj[x].command /\ e.header = TRUE /\ e.count = c
      /\ e.conn = (c # 0) /\ e.value = obj[x].value /\ e.pending = obj[x].pending
  BY <1>1, <1>3 DEF Reply
<1>6. /\ obj' = [obj EXCEPT ![x] = e]
      /\ c = 0 => wanted' = NoReply /\ dying' = FALSE /\ outstanding' = Without(x)
      /\ c # 0 => UNCHANGED <<outstanding, readVars>>
  <2>1. CASE c = 0
    <3>1. Return(wanted, [obj EXCEPT ![wanted] = [@ EXCEPT !.header = TRUE, !.count = c, !.conn = c # 0]],
                 Without(wanted))
      BY <1>2, <2>1 DEF ReadHeader
    <3> QED
      BY <1>1, <2>1, <3>1 DEF Return
  <2>2. CASE c # 0
    <3>1. /\ obj' = [obj EXCEPT ![wanted] = [@ EXCEPT !.header = TRUE, !.count = c, !.conn = c # 0]]
          /\ UNCHANGED <<outstanding, readVars>>
      BY <1>2, <2>2 DEF ReadHeader
    <3> QED
      BY <1>1, <2>2, <3>1
  <2> QED
    BY <2>1, <2>2
<1> HIDE DEF e
<1>7. Becomes(x, e)
  <2>1. e # NoObject
    BY <1>5, NoObjectIs
  <2>2. \/ outstanding' = outstanding /\ e # NoObject
        \/ LessOne(outstanding, outstanding', x) /\ ~e.conn
    <3>1. LessOne(outstanding, Without(x), x)
      BY <1>1, WithoutIs
    <3>2. CASE c = 0
      BY <1>5, <1>6, <3>1, <3>2
    <3>3. CASE c # 0
      BY <1>6, <2>1, <3>3
    <3> QED
      BY <3>2, <3>3
  <2> QED
    BY <1>1, <1>3, <1>4, <1>5, <1>6, <2>2 DEF Becomes
<1>8. InStep' /\ stream' \in Seq(Item) /\ Small(stream')
  <2>1. CASE c = 0
    <3>1. obj'[x] = e
      BY <1>1, <1>2, <1>7, BecomesIs
    <3>2. ~Unread(x)'
      BY <1>5, <2>1, <3>1 DEF Unread
    <3> QED
      BY <1>0, <1>1, <1>7, <2>1, <3>2, OneItem
  <2>2. CASE c # 0
    <3>1. c > 0
      BY <1>2, <2>2, RedisAssumption
    <3>2. e.conn /\ e.header
      BY <1>5, <2>2
    <3> QED
      BY <1>0, <1>1, <1>5, <1>7, <3>1, <3>2, NextItem
  <2> QED
    BY <2>1, <2>2
<1>9. Wanted'
  <2>1. CASE c = 0
    BY <1>6, <2>1, NoneWanted
  <2>2. CASE c # 0
    <3>1. /\ wanted' = wanted /\ dying' = dying /\ inMulti' = inMulti /\ multiFrom' = multiFrom
          /\ obj'[x] = e
      BY <1>1, <1>2, <1>6, <1>7, <2>2, BecomesIs DEF readVars, multiVars
    <3> c > 0
      BY <1>2, <2>2, RedisAssumption
    <3>2. Unread(x)' /\ (Queued(x)' <=> Queued(x))
      BY <1>5, <2>2, <3>1 DEF Unread, Queued
    <3>3. ~Queued(x)
      BY <1>2, BeforeIs
    <3> QED
      BY <1>1, <3>1, <3>2, <3>3 DEF Wanted
  <2> QED
    BY <2>1, <2>2
<1>10. Owned(e, broken')
  <2>1. /\ obj[x].value \in {0, obj[x].command}
        /\ \A i \in DOMAIN obj[x].pending : obj[x].pending[i] = obj[x].command
    BY <1>1, <1>2, OwnWhole
  <2> QED
    BY <1>5, <2>1, OwnCommand
<1>11. wanted' \in Replies \cup {NoReply} /\ dying' \in BOOLEAN
  BY <1>1, <1>6 DEF readVars
<1> QED
  BY <1>1, <1>2, <1>7, <1>8, <1>9, <1>10, <1>11, ChangeKeeps

\* An element is taken for v.
LEMMA GotElementIs ==
    ASSUME IInv, wanted # NoReply, NEW x \in Replies, x = First, Unread(x), NEW v \in Nat,
           GotElement(v)
    PROVE  \E e : /\ Becomes(x, e) /\ wanted' = NoReply /\ dying' = FALSE
                  /\ e.kind = "multi" /\ e.header = TRUE /\ e.conn = TRUE
                  /\ e.command = obj[x].command /\ e.count = obj[x].count - 1
                  /\ e.value = v /\ e.pending = obj[x].pending
                  /\ obj[x].kind = "multi" /\ obj[x].header /\ obj[x].count \in 1 .. MaxElements
<1> DEFINE c == obj[x].count - 1
           e == [obj[x] EXCEPT !.count = c, !.value = v]
<1>1. /\ Types /\ dying = FALSE /\ x = wanted /\ obj[x].kind = "multi" /\ obj[x].header
      /\ Return(wanted, [obj EXCEPT ![wanted].count = @ - 1, ![wanted].value = v], outstanding)
  BY DEF IInv, GotElement, Types, Wanted
<1>2. /\ obj[x] \in Reply /\ obj[x].conn = TRUE /\ obj[x].header = TRUE
      /\ obj[x].count \in 1 .. MaxElements
  <2>1. /\ obj[x] \in Reply /\ obj[x].conn = TRUE /\ obj[x].count \in 0 .. MaxElements
        /\ obj[x].count > 0 /\ obj[x].header = TRUE
    BY <1>1, ReplyFields, UnreadIs
  <2> QED
    BY <2>1, RedisAssumption
<1>3. c \in 0 .. MaxElements
  BY <1>2, RedisAssumption
<1>4. /\ e \in Reply /\ e.kind = "multi" /\ e.command = obj[x].command /\ e.header = TRUE
      /\ e.count = c /\ e.conn = TRUE /\ e.value = v /\ e.pending = obj[x].pending
  BY <1>1, <1>2, <1>3 DEF Reply
<1>5. obj' = [obj EXCEPT ![x] = e] /\ wanted' = NoReply /\ dying' = FALSE /\ outstanding' = outstanding
  <2>1. [obj EXCEPT ![x].count = @ - 1, ![x].value = v] = [obj EXCEPT ![x] = e]
    <3>1. obj \in [Replies -> Reply]
      BY <1>1 DEF Types, Objects
    <3> QED
      BY <3>1
  <2> QED
    BY <1>1, <2>1 DEF Return
<1> HIDE DEF e
<1>6. Becomes(x, e)
  <2>1. e # NoObject
    BY <1>4, NoObjectIs
  <2> QED
    BY <1>1, <1>2, <1>4, <1>5, <2>1 DEF Becomes
<1> QED
  BY <1>1, <1>2, <1>4, <1>5, <1>6

LEMMA ReadElementStep == ASSUME IInv, ReadElement PROVE IInv'
<1>0. PICK x : x = First
  OBVIOUS
<1> DEFINE c == obj[x].count - 1
<1>1. /\ Types /\ OwnAnswer /\ Sound /\ ~broken /\ wanted # NoReply
      /\ broken' \in BOOLEAN /\ careless' \in BOOLEAN /\ orphaned' \in BOOLEAN /\ broken' = broken
      /\ UNCHANGED <<commands, multiVars>> /\ stream' = Tail(stream)
      /\ GotElement(Head(stream).command)
  BY <1>0 DEF IInv, ReadElement, Good, Readable, Sound, flags, Types
<1>2. /\ x \in Replies /\ Unread(x) /\ Head(stream).command = obj[x].command
      /\ stream[1].more \in 0 .. MaxElements
      /\ Duty(obj[x]).left > 0 => stream[1].more = Duty(obj[x]).left - 1
  BY <1>0, <1>1, FirstComes
<1>3. GotElement(obj[x].command) /\ obj[x].command \in Nat
  BY <1>1, <1>2, ReplyFields
<1>4. PICK e : /\ Becomes(x, e) /\ wanted' = NoReply /\ dying' = FALSE
               /\ e.kind = "multi" /\ e.header = TRUE /\ e.conn = TRUE
               /\ e.command = obj[x].command /\ e.count = c
               /\ e.value = obj[x].command /\ e.pending = obj[x].pending
               /\ obj[x].kind = "multi" /\ obj[x].header /\ obj[x].count \in 1 .. MaxElements
  BY <1>0, <1>1, <1>2, <1>3, GotElementIs
<1>5. stream[1].more = c /\ (c # 0 => c > 0)
  <2>1. Duty(obj[x]).left = obj[x].count
    BY <1>1, <1>2, <1>4, DutyIs
  <2> QED
    BY <1>2, <1>4, <2>1, RedisAssumption
<1>6. InStep' /\ stream' \in Seq(Item) /\ Small(stream')
  <2>1. CASE c = 0
    <3>1. obj'[x] = e
      BY <1>1, <1>2, <1>4, BecomesIs
    <3>2. ~Unread(x)'
      BY <1>4, <2>1, <3>1 DEF Unread
    <3> QED
      BY <1>0, <1>1, <1>5, <1>4, <2>1, <3>2, OneItem
  <2>2. CASE c # 0
    BY <1>0, <1>1, <1>4, <1>5, <2>2, NextItem
  <2> QED
    BY <2>1, <2>2
<1>7. Wanted' /\ wanted' \in Replies \cup {NoReply} /\ dying' \in BOOLEAN
  BY <1>4, NoneWanted
<1>8. Owned(e, broken')
  <2>1. \A i \in DOMAIN obj[x].pending : obj[x].pending[i] = obj[x].command
    BY <1>1, <1>2, OwnWhole
  <2> QED
    BY <1>4, <2>1, OwnCommand
<1> QED
  BY <1>1, <1>2, <1>4, <1>6, <1>7, <1>8, ChangeKeeps

\* What a read that failed makes of a reply.
LEMMA FailedIs ==
    ASSUME Types, NEW x \in Replies, Unread(x)
    PROVE  LET f == Failed(obj[x])
           IN  /\ f \in Reply /\ f # NoObject /\ f.kind = obj[x].kind /\ f.kind # "none"
               /\ f.command = obj[x].command /\ (f.conn => obj[x].conn)
               /\ f.value = obj[x].value /\ f.pending = obj[x].pending
               /\ f.kind # "multi" => f.conn = FALSE
               /\ f.kind = "multi" => /\ f.header = TRUE
                                      /\ f.count = IF obj[x].header THEN obj[x].count - 1 ELSE 0
<1> DEFINE f == Failed(obj[x])
<1>1. /\ obj[x] \in Reply /\ obj[x].kind # "none" /\ obj[x].conn
      /\ obj[x].kind = "multi" /\ obj[x].header => obj[x].count > 0
      /\ obj[x].count \in 0 .. MaxElements
  BY ReplyFields, UnreadIs
<1>2. CASE obj[x].kind # "multi"
  <2>1. f = [obj[x] EXCEPT !.conn = FALSE]
    BY <1>2 DEF Failed
  <2>2. /\ f \in Reply /\ f.kind = obj[x].kind /\ f.command = obj[x].command /\ f.conn = FALSE
        /\ f.value = obj[x].value /\ f.pending = obj[x].pending
    BY <1>1, <2>1 DEF Reply
  <2> HIDE DEF f
  <2> QED
    BY <1>1, <1>2, <2>2, NoObjectIs DEF f
<1>3. CASE obj[x].kind = "multi"
  <2> DEFINE c == IF obj[x].header THEN obj[x].count - 1 ELSE 0
  <2>1. f = [obj[x] EXCEPT !.header = TRUE, !.count = c]
    BY <1>3 DEF Failed
  <2>2. c \in 0 .. MaxElements
    BY <1>1, <1>3, RedisAssumption
  <2> HIDE DEF c
  <2>3. /\ f \in Reply /\ f.kind = obj[x].kind /\ f.command = obj[x].command /\ f.conn = obj[x].conn
        /\ f.value = obj[x].value /\ f.pending = obj[x].pending /\ f.header = TRUE /\ f.count = c
    BY <1>1, <2>1, <2>2 DEF Reply
  <2> HIDE DEF f
  <2>4. f # NoObject
    BY <1>1, <2>3, NoObjectIs
  <2> QED
    BY <1>1, <1>3, <2>3, <2>4 DEF f, c
<1> QED
  BY <1>2, <1>3

\* The destructor gives up on an answer that was not its own.
LEMMA GivesUp ==
    ASSUME Types, OwnAnswer, wanted \in Replies, NEW x \in Replies, Unread(x), x # wanted,
           NEW f \in Reply, f.kind = obj[x].kind, f.command = obj[x].command, f.conn => obj[x].conn,
           f.value = obj[x].value, f.pending = obj[x].pending,
           obj' = [[obj EXCEPT ![x] = f] EXCEPT ![wanted] = NoObject],
           outstanding' = RemoveFirst(outstanding, wanted), commands' = commands, broken => broken'
    PROVE  Objects' /\ OwnAnswer'
<1>0. PICK w \in Replies : w = wanted
  OBVIOUS
<1>2. f.kind # "none"
  BY UnreadIs
<1>3. obj \in [Replies -> Reply] /\ NoObject \in Reply
  BY NoObjectIs DEF Types, Objects
<1>4. /\ obj' \in [Replies -> Reply] /\ obj'[w] = NoObject /\ obj'[x] = f
      /\ \A o \in Replies \ {x, w} : obj'[o] = obj[o]
  BY <1>0, <1>3
<1>5. LessOne(outstanding, outstanding', w)
  BY <1>0, Unlinked DEF LessOne, Types, Objects
<1>6. obj[x].command \in 1 .. commands /\ x \in In(outstanding)
  BY UnreadIs
<1>7. ASSUME NEW o \in Replies
      PROVE  /\ obj'[o].kind = "none" => obj'[o] = NoObject
             /\ obj'[o].kind # "none" => obj'[o].command \in 1 .. commands'
             /\ obj'[o].conn => o \in In(outstanding')
  <2>1. CASE o = w
    BY <1>4, <2>1, NoObjectIs
  <2>2. CASE o = x
    BY <1>0, <1>2, <1>4, <1>5, <1>6, <2>2 DEF LessOne
  <2>3. CASE o \notin {x, w}
    BY <1>4, <1>5, <2>3 DEF Types, Objects, LessOne
  <2> QED
    BY <2>1, <2>2, <2>3
<1>8. ASSUME NEW o \in In(outstanding') PROVE obj'[o].kind # "none"
  <2>1. o \in In(outstanding) /\ o # w
    BY <1>5, <1>8 DEF LessOne
  <2>2. o \in Replies
    BY <2>1, ElementOfSeq DEF Types, Objects, In
  <2> QED
    BY <1>2, <1>4, <2>1, <2>2 DEF Types, Objects
<1>9. Objects'
  BY <1>4, <1>5, <1>7, <1>8 DEF Objects, LessOne
<1>10. ASSUME NEW o \in Replies PROVE Owned(obj'[o], broken')
  <2>1. CASE o = w
    BY <1>4, <2>1, OwnNothing
  <2>2. CASE o = x
    <3>1. \A i \in DOMAIN obj[x].pending : obj[x].pending[i] \in Owns(obj[x], broken)
      BY DEF OwnAnswer
    <3> QED
      BY <1>4, <2>2, <3>1, OwnSame
  <2>3. CASE o \notin {x, w}
    BY <1>4, <2>3, OwnKept
  <2> QED
    BY <2>1, <2>2, <2>3
<1> QED
  BY <1>9, <1>10 DEF OwnAnswer, Owned

LEMMA ReadFailsStep == ASSUME IInv, ReadFails PROVE IInv'
<1>0. PICK x : x = First
  OBVIOUS
<1> DEFINE f == Failed(obj[x])
<1>1. /\ Types /\ OwnAnswer /\ Wanted /\ wanted # NoReply /\ wanted \in Replies
      /\ ~careless /\ ~orphaned
      /\ broken' \in BOOLEAN /\ careless' \in BOOLEAN /\ orphaned' \in BOOLEAN
      /\ UNCHANGED <<commands, multiVars>>
      /\ wanted' = NoReply /\ dying' = FALSE /\ dying \in BOOLEAN
  BY DEF IInv, ReadFails, Types, Return
<1>2. x \in Replies /\ Unread(x)
  BY <1>0, <1>1, FirstIs DEF Wanted
<1>3. /\ f \in Reply /\ f # NoObject /\ f.kind = obj[x].kind /\ f.kind # "none"
      /\ f.command = obj[x].command /\ (f.conn => obj[x].conn)
      /\ f.value = obj[x].value /\ f.pending = obj[x].pending
      /\ f.kind # "multi" => f.conn = FALSE
      /\ f.kind = "multi" => /\ f.header = TRUE
                             /\ f.count = IF obj[x].header THEN obj[x].count - 1 ELSE 0
  BY <1>1, <1>2, FailedIs
<1>4. /\ obj' = IF dying THEN [[obj EXCEPT ![x] = f] EXCEPT ![wanted] = NoObject]
                ELSE [obj EXCEPT ![x] = f]
      /\ outstanding' = IF dying THEN RemoveFirst(outstanding, wanted) ELSE outstanding
  <2>1. Return(wanted, [obj EXCEPT ![x] = f], outstanding)
    BY <1>0 DEF ReadFails
  <2> QED
    BY <2>1 DEF Return
<1>5. /\ stream' = IF broken' THEN << >> ELSE Tail(stream)
      /\ ~broken' => ~broken /\ stream # << >> /\ Head(stream).says # "value"
      /\ broken => broken'
      /\ dying /\ x # wanted => orphaned' \/ broken'
  BY <1>0 DEF ReadFails
<1>6. stream' \in Seq(Item) /\ Small(stream')
  <2>1. CASE broken'
    BY <1>5, <2>1, EmptySeq DEF Small
  <2>2. CASE ~broken'
    <3>1. stream' = Drop(stream, 1)
      BY <1>1, <1>5, <2>2, TailIs DEF Types
    <3> QED
      BY <1>1, <3>1, DropTypes DEF Types
  <2> QED
    BY <2>1, <2>2
<1>7. Wanted'
  BY <1>1, NoneWanted
<1>8. CASE dying /\ x # wanted
  <2>1. Objects' /\ OwnAnswer'
    <3> HIDE DEF f
    <3> QED
      BY <1>1, <1>2, <1>3, <1>4, <1>5, <1>8, GivesUp
  <2>2. ~Sound'
    BY <1>5, <1>8 DEF Sound
  <2>3. Types'
    BY <1>1, <1>6, <2>1 DEF Types, multiVars
  <2> QED
    BY <1>7, <2>1, <2>2, <2>3 DEF IInv
<1>9. CASE ~ (dying /\ x # wanted)
  <2>1. PICK e : e = IF dying THEN NoObject ELSE f
    OBVIOUS
  <2>2. Becomes(x, e)
    <3>1. CASE dying
      <4>1. obj' = [obj EXCEPT ![x] = NoObject] /\ outstanding' = RemoveFirst(outstanding, x)
        <5>1. obj \in [Replies -> Reply]
          BY <1>1 DEF Types, Objects
        <5> HIDE DEF f
        <5> QED
          BY <1>4, <1>9, <3>1, <5>1
      <4>2. LessOne(outstanding, outstanding', x)
        BY <1>1, <4>1, WithoutIs DEF Without
      <4> QED
        BY <2>1, <3>1, <4>1, <4>2, NoObjectIs DEF Becomes
    <3>2. CASE ~dying
      <4> HIDE DEF f
      <4> QED
        BY <1>3, <1>4, <2>1, <3>2 DEF Becomes
    <3> QED
      BY <3>1, <3>2
  <2>3. ASSUME Sound' PROVE InStep'
    <3>1. Sound /\ stream # << >> /\ Head(stream).says # "value" /\ stream' = Tail(stream)
      BY <1>1, <1>5, <2>3 DEF Sound
    <3>2. /\ stream \in Seq(Item) /\ Head(stream) = stream[1] /\ 1 \in 1 .. Len(stream)
          /\ Duty(obj[x]).left > 0 => stream[1].more = Duty(obj[x]).left - 1
          /\ InStep
      BY <1>0, <1>1, <3>1, FirstComes
    <3>3. stream[1].more = 0
      BY <3>1, <3>2 DEF InStep, Serves, InPieces
    <3>4. ~Unread(x)'
      <4>1. obj'[x] = e
        BY <1>1, <1>2, <2>2, BecomesIs
      <4>2. CASE dying
        BY <2>1, <4>1, <4>2, NoObjectIs DEF Unread
      <4>3. CASE ~dying /\ f.kind # "multi"
        <5> HIDE DEF f
        <5> QED
          BY <1>3, <2>1, <4>1, <4>3 DEF Unread
      <4>4. CASE ~dying /\ f.kind = "multi"
        <5>1. obj[x].header \in BOOLEAN /\ obj[x].count \in Nat
          BY <1>1, <1>2, ReplyFields, RedisAssumption
        <5>2. obj[x].header => Duty(obj[x]).left = obj[x].count /\ obj[x].count > 0
          BY <1>1, <1>2, <1>3, <4>4, DutyIs, UnreadIs
        <5>3. f.count = 0 /\ f.header = TRUE
          <6> HIDE DEF f
          <6> QED
            BY <1>3, <3>2, <3>3, <4>4, <5>1, <5>2
        <5>4. obj'[x] = f
          BY <2>1, <4>1, <4>4
        <5> HIDE DEF f
        <5> QED
          BY <4>4, <5>3, <5>4 DEF Unread
      <4> QED
        BY <4>2, <4>3, <4>4
    <3> QED
      BY <1>0, <1>1, <2>2, <3>1, <3>3, <3>4, OneItem
  <2>4. Owned(e, broken')
    <3>1. CASE dying
      BY <2>1, <3>1, OwnNothing
    <3>2. CASE ~dying
      <4>1. \A i \in DOMAIN obj[x].pending : obj[x].pending[i] \in Owns(obj[x], broken)
        BY <1>1, <1>2 DEF OwnAnswer
      <4> HIDE DEF f
      <4> QED
        BY <1>1, <1>2, <1>3, <1>5, <2>1, <3>2, <4>1, OwnSame
    <3> QED
      BY <3>1, <3>2
  <2>5. wanted' \in Replies \cup {NoReply} /\ dying' \in BOOLEAN
    BY <1>1
  <2> QED
    BY <1>1, <1>2, <1>5, <1>6, <1>7, <2>2, <2>3, <2>4, <2>5, ChangeKeeps
<1> QED
  BY <1>8, <1>9

\* An enumerator of which some elements are gone.
LEMMA LeftIs ==
    ASSUME Types, NEW x \in Replies, Unread(x), obj[x].kind = "multi", NEW n \in 0 .. MaxElements
    PROVE  LET f == [obj[x] EXCEPT !.header = TRUE, !.count = n]
           IN  /\ f \in Reply /\ f # NoObject /\ f.kind = obj[x].kind /\ f.kind # "none"
               /\ f.command = obj[x].command /\ (f.conn => obj[x].conn)
               /\ f.value = obj[x].value /\ f.pending = obj[x].pending
               /\ [obj EXCEPT ![x].header = TRUE, ![x].count = n] = [obj EXCEPT ![x] = f]
<1> DEFINE f == [obj[x] EXCEPT !.header = TRUE, !.count = n]
<1>1. obj[x] \in Reply /\ obj \in [Replies -> Reply]
  BY ReplyFields DEF Types, Objects
<1>2. /\ f \in Reply /\ f.kind = obj[x].kind /\ f.command = obj[x].command /\ f.conn = obj[x].conn
      /\ f.value = obj[x].value /\ f.pending = obj[x].pending
  BY <1>1 DEF Reply
<1>3. [obj EXCEPT ![x].header = TRUE, ![x].count = n] = [obj EXCEPT ![x] = f]
  BY <1>1
<1> HIDE DEF f
<1>4. f # NoObject
  BY <1>2, NoObjectIs
<1> QED
  BY <1>2, <1>3, <1>4 DEF f

LEMMA CutOffStep == ASSUME IInv, CutOff PROVE IInv'
<1>0. PICK x : x = First
  OBVIOUS
<1>1. /\ Types /\ OwnAnswer /\ Wanted /\ Sound /\ ~broken /\ wanted # NoReply
      /\ wanted \in Replies /\ dying \in BOOLEAN
      /\ broken' = TRUE /\ stream' = << >>
      /\ broken' \in BOOLEAN /\ careless' \in BOOLEAN /\ orphaned' \in BOOLEAN
      /\ careless' = careless /\ UNCHANGED <<commands, multiVars>>
  BY DEF IInv, CutOff, Good, Readable, Sound, Types
<1>2. x \in Replies /\ Unread(x)
  BY <1>0, <1>1, FirstIs DEF Wanted
<1>3. stream' \in Seq(Item) /\ Small(stream') /\ ~Sound' /\ Torn \in Nat
  BY <1>1, NothingServed, RedisAssumption DEF Sound, Torn
<1>4. /\ \A i \in DOMAIN obj[x].pending : obj[x].pending[i] \in Owns(obj[x], broken')
      /\ obj[x].value \in {0} \cup Owns(obj[x], broken')
      /\ obj[x].kind \in {"string", "multi"} => Torn \in Owns(obj[x], broken')
      /\ obj[x].command \in Owns(obj[x], broken')
  BY <1>1, <1>2, OwnKept DEF Owned, Owns
<1>5. CASE obj[x].kind = "string" /\ GotOne(Torn)
  <2>1. PICK e : /\ Becomes(x, e) /\ ~Unread(x)' /\ Wanted'
                 /\ wanted' \in Replies \cup {NoReply} /\ dying' \in BOOLEAN
                 /\ \/ e = NoObject
                    \/ /\ e.kind = obj[x].kind /\ e.command = obj[x].command
                       /\ e.value = Torn /\ e.pending = obj[x].pending
    BY <1>0, <1>1, <1>2, <1>3, <1>5, GotOneIs
  <2>2. Owned(e, broken')
    <3>1. CASE e = NoObject
      BY <3>1, OwnNothing
    <3>2. CASE e # NoObject
      BY <1>4, <1>5, <2>1, <3>2 DEF Owned, Owns
    <3> QED
      BY <3>1, <3>2
  <2> QED
    BY <1>1, <1>2, <1>3, <2>1, <2>2, ChangeKeeps
<1>6. CASE GotElement(Torn)
  <2>1. PICK e : /\ Becomes(x, e) /\ wanted' = NoReply /\ dying' = FALSE
                 /\ e.kind = "multi" /\ e.header = TRUE /\ e.conn = TRUE
                 /\ e.command = obj[x].command /\ e.count = obj[x].count - 1
                 /\ e.value = Torn /\ e.pending = obj[x].pending
                 /\ obj[x].kind = "multi" /\ obj[x].header /\ obj[x].count \in 1 .. MaxElements
    BY <1>0, <1>1, <1>2, <1>3, <1>6, GotElementIs
  <2>2. Owned(e, broken')
    BY <1>4, <2>1 DEF Owned, Owns
  <2>3. Wanted' /\ wanted' \in Replies \cup {NoReply} /\ dying' \in BOOLEAN
    BY <2>1, NoneWanted
  <2> QED
    BY <1>1, <1>2, <1>3, <2>1, <2>2, <2>3, ChangeKeeps
<1>7. PICK read : read = Elements(obj[x].header)
  OBVIOUS
<1>8. CASE read # << >> /\ GotAll([read EXCEPT ![Len(read)] = Torn])
  <2>1. PICK torn : torn = [read EXCEPT ![Len(read)] = Torn]
    OBVIOUS
  <2>2. obj[x].kind = "multi" /\ GotAll(torn)
    BY <1>0, <1>8, <2>1 DEF GotAll
  <2>3. /\ read \in Seq(Nat) /\ Len(read) \in Nat /\ DOMAIN read = 1 .. Len(read)
        /\ \A i \in 1 .. Len(read) : read[i] = obj[x].command
    BY <1>0, <1>1, <1>7, <2>2, ElementsAre, LenProperties
  <2>4. torn \in Seq(Nat) /\ \A i \in DOMAIN torn : torn[i] \in {obj[x].command, Torn}
    <3>1. /\ DOMAIN torn = 1 .. Len(read)
          /\ \A i \in 1 .. Len(read) : torn[i] = IF i = Len(read) THEN Torn ELSE read[i]
      BY <2>1, <2>3
    <3>0. obj[x].command \in Nat
      BY <1>1, <1>2, ReplyFields
    <3>2. \A i \in 1 .. Len(read) : torn[i] \in Nat
      BY <1>3, <2>3, <3>0, <3>1
    <3>3. torn \in [1 .. Len(read) -> Nat]
      BY <2>1, <2>3, <3>1, <3>2
    <3> QED
      BY <2>3, <3>1, <3>3
  <2>5. PICK e : /\ Becomes(x, e) /\ ~Unread(x)' /\ x # wanted /\ UNCHANGED readVars
                 /\ e.kind = obj[x].kind /\ e.command = obj[x].command
                 /\ e.value = obj[x].value /\ e.pending = obj[x].pending \o torn
    BY <1>0, <1>1, <1>2, <2>2, <2>4, GotAllIs
  <2>6. Owned(e, broken')
    <3>1. PICK S : S = Owns(obj[x], broken')
      OBVIOUS
    <3>2. /\ \A i \in DOMAIN torn : torn[i] \in S
          /\ \A i \in DOMAIN obj[x].pending : obj[x].pending[i] \in S
          /\ obj[x].pending \in Seq(Nat)
      BY <1>1, <1>2, <1>4, <2>2, <2>4, <3>1, ReplyFields
    <3>3. \A i \in DOMAIN e.pending : e.pending[i] \in S
      BY <2>4, <2>5, <3>2, ConcatAmong
    <3>4. Owns(e, broken') = S
      BY <2>5, <3>1 DEF Owns
    <3> QED
      BY <1>4, <2>5, <3>1, <3>3, <3>4 DEF Owned
  <2>7. Wanted' /\ wanted' \in Replies \cup {NoReply} /\ dying' \in BOOLEAN
    BY <1>1, <1>2, <2>5, StillWanted DEF readVars
  <2> QED
    BY <1>1, <1>2, <1>3, <2>5, <2>6, <2>7, ChangeKeeps
<1>9. ASSUME obj[x].kind = "multi", x # wanted, NEW n \in 0 .. Len(read) - 1,
             Return(wanted, [obj EXCEPT ![x].header = TRUE, ![x].count = n], outstanding)
      PROVE  IInv'
  <2>1. n \in 0 .. MaxElements
    <3>1. Len(read) \in 0 .. MaxElements
      BY <1>0, <1>1, <1>7, <1>9, ElementsAre
    <3> QED
      BY <3>1, RedisAssumption
  <2>2. PICK f : f = [obj[x] EXCEPT !.header = TRUE, !.count = n]
    OBVIOUS
  <2>3. /\ f \in Reply /\ f # NoObject /\ f.kind = obj[x].kind /\ f.kind # "none"
        /\ f.command = obj[x].command /\ (f.conn => obj[x].conn)
        /\ f.value = obj[x].value /\ f.pending = obj[x].pending
        /\ [obj EXCEPT ![x].header = TRUE, ![x].count = n] = [obj EXCEPT ![x] = f]
    BY <1>1, <1>2, <1>9, <2>1, <2>2, LeftIs
  <2>4. /\ wanted' = NoReply /\ dying' = FALSE
        /\ obj' = IF dying THEN [[obj EXCEPT ![x] = f] EXCEPT ![wanted] = NoObject]
                  ELSE [obj EXCEPT ![x] = f]
        /\ outstanding' = IF dying THEN RemoveFirst(outstanding, wanted) ELSE outstanding
    BY <1>9, <2>3 DEF Return
  <2>5. Wanted' /\ wanted' \in Replies \cup {NoReply} /\ dying' \in BOOLEAN
    BY <2>4, NoneWanted
  <2>6. CASE dying
    <3>1. Objects' /\ OwnAnswer'
      BY <1>1, <1>2, <1>9, <2>3, <2>4, <2>6, GivesUp
    <3>2. Types'
      BY <1>1, <1>3, <2>5, <3>1 DEF Types, multiVars
    <3> QED
      BY <1>3, <2>5, <3>1, <3>2 DEF IInv
  <2>7. CASE ~dying
    <3>1. Becomes(x, f)
      BY <2>3, <2>4, <2>7 DEF Becomes
    <3>2. Owned(f, broken')
      BY <1>4, <2>3 DEF Owned, Owns
    <3> QED
      BY <1>1, <1>2, <1>3, <2>5, <3>1, <3>2, ChangeKeeps
  <2> QED
    BY <1>1, <2>6, <2>7
<1> QED
  BY <1>0, <1>5, <1>6, <1>7, <1>8, <1>9 DEF CutOff

-----------------------------------------------------------------------------
(* Steps that read nothing.                                                *)

\* The objects and the list stay.
LEMMA SameObjects ==
    ASSUME Types, UNCHANGED <<obj, outstanding>>, commands' \in Nat, commands <= commands'
    PROVE  Objects'
<1>1. commands \in Nat /\ obj' = obj /\ outstanding' = outstanding
  BY RedisAssumption DEF Types
<1>2. \A o \in Replies : obj[o].command \in 1 .. commands => obj[o].command \in 1 .. commands'
  BY <1>1
<1> QED
  BY <1>1, <1>2 DEF Types, Objects

LEMMA TypeCommandStep == ASSUME IInv, TypeCommand PROVE IInv'
<1>1. /\ Types /\ OwnAnswer /\ (Sound => InStep) /\ wanted = NoReply
      /\ commands' = commands + 1 /\ commands < MaxCommands /\ ~careless
      /\ obj' = obj /\ outstanding' = outstanding /\ stream' = stream /\ held' = held
      /\ refusals' = refusals
      /\ wanted' = wanted /\ dying' = dying /\ inMulti' = inMulti /\ multiFrom' = multiFrom
      /\ broken' = broken /\ orphaned' = orphaned
      /\ careless' = (inMulti \/ \E o \in Replies : Unread(o))
  BY DEF IInv, TypeCommand, Idle, readVars, multiVars
<1>2. careless' \in BOOLEAN
  BY <1>1 DEF Types
<1>3. /\ commands \in Nat /\ commands' \in 0 .. MaxCommands /\ commands' \in Nat /\ commands <= commands'
      /\ multiFrom \in 0 .. commands' /\ refusals \subseteq 1 .. commands'
  BY <1>1, RedisAssumption DEF Types
<1>4. Objects'
  BY <1>1, <1>3, SameObjects
<1>5. Types'
  BY <1>1, <1>2, <1>3, <1>4 DEF Types
<1>6. OwnAnswer'
  BY <1>1 DEF OwnAnswer
<1>7. Wanted'
  BY <1>1, NoneWanted
<1>8. Sound' => InStep'
  BY <1>1 DEF Sound, InStep, Statuses, Ordered, Begun, Before, During, Unread, Queued, Duties
<1> QED
  BY <1>5, <1>6, <1>7, <1>8 DEF IInv

LEMMA WantStep ==
    ASSUME IInv, NEW o \in Replies, NEW d \in BOOLEAN, Idle, Unread(o), Want(o, d),
           d => obj[o].kind # "multi"
    PROVE  IInv'
<1>1. /\ Types /\ OwnAnswer /\ (Sound => InStep)
      /\ ~careless /\ careless' = Queued(o) /\ wanted' = o /\ dying' = d
      /\ obj' = obj /\ outstanding' = outstanding /\ stream' = stream /\ held' = held
      /\ refusals' = refusals
      /\ commands' = commands /\ inMulti' = inMulti /\ multiFrom' = multiFrom
      /\ broken' = broken /\ orphaned' = orphaned
  BY DEF IInv, Idle, Want, multiVars
<1>2. careless' \in BOOLEAN
  BY <1>1 DEF Queued, Types
<1>3. Types'
  BY <1>1, <1>2 DEF Types, Objects
<1>4. OwnAnswer'
  BY <1>1 DEF OwnAnswer
<1>5. Unread(o)' /\ (Queued(o)' <=> Queued(o))
  BY <1>1 DEF Unread, Queued
<1>6. Wanted'
  BY <1>1, <1>5 DEF Wanted
<1>7. Sound' => InStep'
  BY <1>1 DEF Sound, InStep, Statuses, Ordered, Begun, Before, During, Unread, Queued, Duties
<1> QED
  BY <1>3, <1>4, <1>6, <1>7 DEF IInv

LEMMA ResultStep == ASSUME IInv, NEW o \in Replies, Result(o) PROVE IInv'
<1>1. Unread(o) /\ Idle /\ Want(o, FALSE)
  BY DEF Result, Unread
<1> QED
  BY <1>1, WantStep

\* A reply changes that nobody waits for.
LEMMA IdleKeeps ==
    ASSUME IInv, Idle, NEW x \in Replies, NEW e, Becomes(x, e),
           Owned(e, broken),
           stream' \in Seq(Item), Small(stream'), UNCHANGED <<commands, readVars, multiVars, broken, orphaned>>,
           careless' \in BOOLEAN, Sound' => InStep'
    PROVE  IInv'
<1>1. Types /\ wanted = NoReply
  BY DEF IInv, Idle
<1>2. wanted' = wanted /\ dying' = dying /\ broken' = broken /\ orphaned' = orphaned
  BY DEF readVars
<1>3. wanted' \in Replies \cup {NoReply} /\ dying' \in BOOLEAN /\ broken' \in BOOLEAN /\ orphaned' \in BOOLEAN
  BY <1>1, <1>2 DEF Types
<1>4. Wanted'
  BY <1>1, <1>2, NoneWanted
<1>5. UNCHANGED <<commands, multiVars>>
  OBVIOUS
<1>6. Owned(e, broken')
  BY <1>2
<1> QED
  BY <1>2, <1>3, <1>4, <1>5, <1>6, ChangeKeeps

LEMMA NextElementStep == ASSUME IInv, NEW o \in Replies, NextElement(o) PROVE IInv'
<1>1. /\ Idle /\ Types /\ OwnAnswer /\ (Sound => InStep) /\ obj[o].kind = "multi"
      /\ stream \in Seq(Item) /\ Small(stream)
  BY DEF IInv, NextElement, Types
<1>2. /\ obj[o] \in Reply /\ obj[o].pending \in Seq(Nat) /\ obj[o].command \in Nat
      /\ obj \in [Replies -> Reply]
  BY <1>1, ReplyFields DEF Types, Objects
<1>3. CASE /\ obj[o].pending # << >>
           /\ obj' = [obj EXCEPT ![o].value = Head(obj[o].pending), ![o].pending = Tail(@)]
           /\ UNCHANGED <<outstanding, stream, commands, readVars, multiVars, flags>>
  <2>1. PICK v, p : v = Head(obj[o].pending) /\ p = Tail(obj[o].pending)
    OBVIOUS
  <2>2. /\ v \in Nat /\ p \in Seq(Nat) /\ v \in Owns(obj[o], broken)
        /\ \A i \in DOMAIN p : p[i] \in Owns(obj[o], broken)
    <3>1. \A i \in 1 .. Len(obj[o].pending) : obj[o].pending[i] \in Owns(obj[o], broken)
      BY <1>1, <1>2, LenProperties DEF OwnAnswer
    <3>2. /\ p \in Seq(Nat) /\ Len(p) = Len(obj[o].pending) - 1 /\ Len(obj[o].pending) \in Nat \ {0}
          /\ \A i \in 1 .. Len(p) : p[i] = obj[o].pending[i + 1]
      BY <1>2, <1>3, <2>1, HeadTailProperties, EmptySeq
    <3>3. \A i \in 1 .. Len(p) : p[i] \in Owns(obj[o], broken)
      BY <3>1, <3>2
    <3>4. v = obj[o].pending[1] /\ 1 \in 1 .. Len(obj[o].pending)
      BY <1>2, <1>3, <2>1, <3>2
    <3> QED
      BY <1>2, <3>1, <3>2, <3>3, <3>4, LenProperties
  <2>3. PICK e : e = [obj[o] EXCEPT !.value = v, !.pending = p]
    OBVIOUS
  <2>4. /\ e \in Reply /\ e.kind = obj[o].kind /\ e.command = obj[o].command /\ e.conn = obj[o].conn
        /\ e.header = obj[o].header /\ e.count = obj[o].count /\ e.value = v /\ e.pending = p
    BY <1>2, <2>2, <2>3 DEF Reply
  <2>5. obj' = [obj EXCEPT ![o] = e]
    BY <1>2, <1>3, <2>1, <2>3
  <2>6. Becomes(o, e)
    <3>1. e # NoObject
      BY <1>1, <2>4, NoObjectIs
    <3> QED
      BY <1>1, <1>3, <2>4, <2>5, <3>1 DEF Becomes
  <2>7. /\ Unread(o)' <=> Unread(o)
        /\ Duty(e) = Duty(obj[o])
    <3>1. obj'[o] = e
      BY <1>1, <2>6, BecomesIs
    <3> QED
      BY <2>4, <3>1 DEF Unread, Duty
  <2>8. stream' = stream /\ careless' = careless /\ broken' = broken /\ orphaned' = orphaned
    BY <1>3 DEF flags
  <2>9. Sound' => InStep'
    BY <1>1, <1>3, <2>4, <2>6, <2>7, <2>8, SameInStep DEF Sound
  <2>10. careless' \in BOOLEAN
    BY <1>1, <2>8 DEF Types
  <2>11. Owned(e, broken)
    <3>1. Owns(e, broken) = Owns(obj[o], broken)
      BY <2>4 DEF Owns
    <3> QED
      BY <2>2, <2>4, <3>1 DEF Owned
  <2> QED
    BY <1>1, <1>3, <2>6, <2>8, <2>9, <2>10, <2>11, IdleKeeps
<1>4. CASE obj[o].pending = << >> /\ Unread(o) /\ Want(o, FALSE)
  BY <1>1, <1>4, WantStep
<1>5. CASE /\ obj[o].pending = << >> /\ obj[o].conn /\ ~Unread(o)
           /\ obj' = [obj EXCEPT ![o].conn = FALSE]
           /\ outstanding' = Without(o)
           /\ UNCHANGED <<stream, commands, readVars, multiVars, flags>>
  <2>1. PICK e : e = [obj[o] EXCEPT !.conn = FALSE]
    OBVIOUS
  <2>2. /\ e \in Reply /\ e.kind = obj[o].kind /\ e.command = obj[o].command /\ e.conn = FALSE
        /\ e.value = obj[o].value /\ e.pending = obj[o].pending
    BY <1>2, <2>1 DEF Reply
  <2>3. obj' = [obj EXCEPT ![o] = e]
    BY <1>2, <1>5, <2>1
  <2>4. Becomes(o, e)
    <3>1. LessOne(outstanding, outstanding', o)
      BY <1>1, <1>5, WithoutIs
    <3> QED
      BY <1>1, <2>2, <2>3, <3>1 DEF Becomes
  <2>5. ~Unread(o)'
    <3>1. obj'[o] = e
      BY <1>1, <2>4, BecomesIs
    <3> QED
      BY <2>2, <3>1 DEF Unread
  <2>6. stream' = stream /\ careless' = careless /\ broken' = broken /\ orphaned' = orphaned
    BY <1>5 DEF flags
  <2>7. Sound' => InStep'
    BY <1>1, <1>5, <2>4, <2>5, <2>6, SameInStep DEF Sound
  <2>8. careless' \in BOOLEAN
    BY <1>1, <2>6 DEF Types
  <2>9. Owned(e, broken)
    <3>1. \A i \in DOMAIN obj[o].pending : obj[o].pending[i] \in Owns(obj[o], broken)
      BY <1>1 DEF OwnAnswer
    <3> QED
      BY <1>1, <2>2, <3>1, OwnSame
  <2> QED
    BY <1>1, <1>5, <2>4, <2>6, <2>7, <2>8, <2>9, IdleKeeps
<1> QED
  BY <1>3, <1>4, <1>5 DEF NextElement

\* An enumerator whose header was read is the first reply.
LEMMA BegunIsFirst ==
    ASSUME Types, InStep, NEW o \in Replies, Unread(o), obj[o].kind = "multi", obj[o].header
    PROVE  o = First /\ o \in Before
<1>1. /\ Ordered /\ ~Queued(o)
      /\ \A p \in Replies : Unread(p) /\ p # o => obj[o].command < obj[p].command
  BY DEF InStep, Begun
<1>2. /\ First \in Replies /\ Unread(First)
      /\ \A p \in Replies : Unread(p) /\ p # First => obj[First].command < obj[p].command
  BY <1>1, FirstLeast
<1>3. obj[o].command \in Nat /\ obj[First].command \in Nat
  BY <1>2, ReplyFields
<1> QED
  BY <1>1, <1>2, <1>3 DEF Before

LEMMA DestroyStep == ASSUME IInv, NEW o \in Replies, Destroy(o) PROVE IInv'
<1>1. /\ Idle /\ Types /\ OwnAnswer /\ (Sound => InStep) /\ obj[o].kind # "none"
      /\ stream \in Seq(Item) /\ Small(stream) /\ broken \in BOOLEAN
  BY DEF IInv, Destroy, Types
<1>2. obj[o].conn \in BOOLEAN /\ obj[o].header \in BOOLEAN /\ obj[o].count \in Nat
  BY <1>1, ReplyFields, RedisAssumption
<1>3. CASE obj[o].conn /\ obj[o].kind # "multi"
  <2>1. Unread(o) /\ Want(o, TRUE)
    BY <1>3 DEF Destroy, Unread
  <2> QED
    BY <1>1, <1>3, <2>1, WantStep
<1>4. CASE ~ (obj[o].conn /\ obj[o].kind # "multi")
  <2>1. PICK n \in Nat : n = LeftToRead(o)
    BY <1>2 DEF LeftToRead
  <2>2. /\ careless' = (obj[o].conn /\ ~obj[o].header)
        /\ obj' = [obj EXCEPT ![o] = NoObject] /\ stream' = Drop(stream, n) /\ outstanding' = Without(o)
        /\ UNCHANGED <<commands, readVars, multiVars, broken, orphaned>>
    BY <1>4, <2>1 DEF Destroy, Dispose
  <2>3. Becomes(o, NoObject)
    <3>1. LessOne(outstanding, outstanding', o)
      BY <1>1, <2>2, WithoutIs
    <3> QED
      BY <2>2, <3>1, NoObjectIs DEF Becomes
  <2>4. ~Unread(o)'
    BY <1>1, <2>3, BecomesIs, NoObjectIs DEF Unread
  <2>5. stream' \in Seq(Item) /\ Small(stream') /\ careless' \in BOOLEAN
    BY <1>1, <1>2, <2>2, DropTypes
  <2>6. ASSUME Sound' PROVE InStep'
    <3>1. Sound /\ InStep /\ ~broken /\ (obj[o].conn => obj[o].header)
      BY <1>1, <1>2, <2>2, <2>6 DEF Sound, Idle
    <3>2. CASE Unread(o)
      <4>1. obj[o].kind = "multi" /\ obj[o].header /\ obj[o].conn /\ obj[o].count > 0
        BY <1>4, <3>1, <3>2 DEF Unread
      <4>2. o = First /\ o \in Before
        BY <1>1, <3>1, <3>2, <4>1, BegunIsFirst
      <4>3. stream[1].more = obj[o].count - 1 /\ 1 \in 1 .. Len(stream)
        <5>1. /\ Len(stream) > 0
              /\ Duty(obj[First]).left > 0 => stream[1].more = Duty(obj[First]).left - 1
          BY <1>1, <3>1, <4>2, StreamHead
        <5>2. Duty(obj[o]).left = obj[o].count
          BY <1>1, <4>1, DutyIs
        <5>3. Len(stream) \in Nat
          BY <1>1, ItemFields
        <5> QED
          BY <4>1, <4>2, <5>1, <5>2, <5>3
      <4>4. n = stream[1].more + 1
        BY <1>2, <2>1, <3>1, <4>1, <4>3 DEF LeftToRead
      <4>5. stream' = Drop(stream, stream[1].more + 1)
        BY <2>2, <4>4
      <4> QED
        BY <1>1, <2>2, <2>3, <2>4, <3>1, <4>2, <4>5, WholeInStep
    <3>3. CASE ~Unread(o)
      <4>1. n = 0
        BY <1>2, <1>4, <2>1, <3>1, <3>3 DEF LeftToRead, Unread
      <4>2. stream' = stream
        BY <1>1, <2>2, <4>1, DropTypes
      <4> QED
        BY <1>1, <2>2, <2>3, <2>4, <3>1, <3>3, <4>2, SameInStep
    <3> QED
      BY <3>2, <3>3
  <2>7. Owned(NoObject, broken)
    BY OwnNothing
  <2> QED
    BY <1>1, <2>2, <2>3, <2>5, <2>6, <2>7, IdleKeeps
<1> QED
  BY <1>3, <1>4

\* Only objects, the list, the commands and what was wanted are left alone.
LEMMA OnlyStream ==
    ASSUME IInv, Idle, UNCHANGED <<obj, outstanding, commands, readVars>>,
           stream' \in Seq(Item), Small(stream'), held' \in Seq(Item), Small(held'),
           multiFrom' \in 0 .. commands, refusals' \subseteq 1 .. commands, inMulti' \in BOOLEAN,
           broken' = broken, careless' \in BOOLEAN, orphaned' \in BOOLEAN,
           Sound' => InStep'
    PROVE  IInv'
<1>1. /\ Types /\ OwnAnswer /\ wanted = NoReply
      /\ obj' = obj /\ outstanding' = outstanding /\ commands' = commands
      /\ wanted' = wanted /\ dying' = dying
  BY DEF IInv, Idle, readVars
<1>2. Types'
  BY <1>1 DEF Types, Objects
<1>3. OwnAnswer'
  BY <1>1 DEF OwnAnswer
<1>4. Wanted'
  BY <1>1, NoneWanted
<1> QED
  BY <1>2, <1>3, <1>4 DEF IInv

\* What no one queued comes before EXEC.
LEMMA QueuedIs ==
    ASSUME Types
    PROVE  /\ \A o \in Replies : ~inMulti => ~Queued(o)
           /\ \A o \in Replies : Unread(o) => obj[o].command <= commands
           /\ ~inMulti => During = {} /\ Before = {o \in Replies : Unread(o)}
<1>1. \A o \in Replies : Unread(o) => obj[o].command <= commands
  <2> SUFFICES ASSUME NEW o \in Replies, Unread(o) PROVE obj[o].command <= commands
    OBVIOUS
  <2>1. obj[o].command \in 1 .. commands /\ commands \in Nat
    BY UnreadIs, RedisAssumption DEF Types
  <2> QED
    BY <2>1
<1> QED
  BY <1>1 DEF Queued, Before, During

LEMMA ConcatItems ==
    ASSUME NEW q \in Seq(Item), NEW a \in Seq(Item), NEW i \in 1 .. Len(q \o a)
    PROVE  \/ \E j \in 1 .. Len(q) : (q \o a)[i] = q[j]
           \/ \E j \in 1 .. Len(a) : (q \o a)[i] = a[j]
<1>1. /\ Len(q) \in Nat /\ Len(a) \in Nat /\ Len(q \o a) = Len(q) + Len(a)
      /\ \A k \in 1 .. Len(q) : (q \o a)[k] = q[k]
      /\ \A k \in 1 .. Len(a) : (q \o a)[Len(q) + k] = a[k]
  BY ConcatIs, LenProperties
<1> DEFINE r == q \o a
<1>2. i \in 1 .. Len(q) + Len(a)
  BY <1>1
<1> HIDE DEF r
<1>3. CASE i \in 1 .. Len(q)
  BY <1>1, <1>3
<1>4. CASE i \notin 1 .. Len(q)
  <2>1. i - Len(q) \in 1 .. Len(a) /\ Len(q) + (i - Len(q)) = i
    BY <1>1, <1>2, <1>4
  <2> QED
    BY <1>1, <2>1
<1> QED
  BY <1>3, <1>4

LEMMA ConcatSmall ==
    ASSUME NEW q \in Seq(Item), NEW a \in Seq(Item), Small(q), Small(a)
    PROVE  Small(q \o a)
  BY ConcatItems DEF Small

LEMMA BeginTransactionStep == ASSUME IInv, BeginTransaction PROVE IInv'
<1>1. /\ Idle /\ Types /\ (Sound => InStep) /\ ~inMulti
      /\ inMulti' = TRUE /\ multiFrom' = commands /\ held' = held /\ refusals' = refusals
      /\ UNCHANGED <<obj, outstanding, commands, readVars>>
      /\ obj' = obj /\ outstanding' = outstanding
      /\ broken' = broken /\ careless' = careless /\ orphaned' = orphaned
      /\ stream' = (IF broken THEN stream ELSE stream \o Status("value"))
  BY DEF IInv, BeginTransaction, flags, Send
<1>2. /\ stream \in Seq(Item) /\ Small(stream) /\ held \in Seq(Item) /\ Small(held)
      /\ commands \in Nat /\ broken \in BOOLEAN /\ careless \in BOOLEAN /\ orphaned \in BOOLEAN
      /\ Len(stream) \in Nat
  BY <1>1, RedisAssumption, ItemFields DEF Types
<1>3. PICK status : /\ status = Status("value")
                    /\ status \in Seq(Item) /\ Len(status) = 1 /\ status[1].more = 0
  BY StatusIs
<1>4. stream' \in Seq(Item) /\ Small(stream')
  <2>1. stream \o status \in Seq(Item)
    BY <1>2, <1>3, ConcatIs
  <2>2. status[1].more <= MaxElements
    BY <1>3, RedisAssumption
  <2>3. Small(status)
    BY <1>3, <2>2 DEF Small
  <2>4. Small(stream \o status)
    BY <1>2, <1>3, <2>3, ConcatSmall
  <2> QED
    BY <1>1, <1>2, <1>3, <2>1, <2>4
<1>5. ASSUME Sound' PROVE InStep'
  <2>1. /\ Sound /\ InStep /\ Serves(stream, Duties(obj, Before)) /\ Serves(held, Duties(obj, During))
        /\ Statuses /\ Ordered /\ Begun /\ stream' = stream \o status
    BY <1>1, <1>3, <1>5 DEF Sound, InStep
  <2>2. \A o \in Replies : /\ Unread(o)' <=> Unread(o)
                           /\ Unread(o) => ~Queued(o)' /\ ~Queued(o)
    <3> SUFFICES ASSUME NEW o \in Replies
                 PROVE  /\ Unread(o)' <=> Unread(o)
                        /\ Unread(o) => ~Queued(o)' /\ ~Queued(o)
      OBVIOUS
    <3>1. Unread(o)' <=> Unread(o)
      BY <1>1 DEF Unread
    <3>2. Unread(o) => ~ (obj[o].command > commands)
      BY <1>1, <1>2, QueuedIs, ReplyFields
    <3>3. Queued(o)' => obj[o].command > commands
      BY <1>1 DEF Queued
    <3> QED
      BY <1>1, <3>1, <3>2, <3>3, QueuedIs
  <2>3. Before' = Before /\ During' = During
    BY <1>1, <2>2 DEF Before, During
  <2>4. Duties(obj, Before)' = Duties(obj, Before) /\ Duties(obj, During)' = Duties(obj, During)
    BY <1>1, <2>3 DEF Duties
  <2>5. Duties(obj, Before) \in SUBSET DutySet
    BY <1>1, BeforeIs, DutiesAre
  <2>6. Serves(stream \o status, Duties(obj, Before)) /\ StatusLast(stream \o status)
    BY <1>2, <1>3, <2>1, <2>5, AppendStatus DEF Statuses
  <2>7. Statuses'
    BY <1>1, <2>1, <2>6 DEF Statuses
  <2>8. Ordered'
    BY <1>1, <2>1, <2>2 DEF Ordered
  <2>9. Begun'
    BY <1>1, <2>1, <2>2 DEF Begun
  <2> QED
    BY <1>1, <2>1, <2>4, <2>6, <2>7, <2>8, <2>9 DEF InStep
<1>6. multiFrom' \in 0 .. commands /\ refusals' \subseteq 1 .. commands
  BY <1>1, <1>2 DEF Types
<1> QED
  BY <1>1, <1>2, <1>4, <1>5, <1>6, OnlyStream

LEMMA CommitStep == ASSUME IInv, Commit PROVE IInv'
<1>1. /\ Idle /\ Types /\ (Sound => InStep) /\ inMulti
      /\ inMulti' = FALSE /\ multiFrom' = 0 /\ held' = << >> /\ refusals' = {}
      /\ (refusals = {} \/ broken)
      /\ UNCHANGED <<obj, outstanding, commands, readVars>>
      /\ obj' = obj /\ outstanding' = outstanding
      /\ broken' = broken /\ orphaned' = orphaned /\ careless' = (Before # {})
      /\ stream' = (IF broken THEN << >> ELSE held)
  BY DEF IInv, Commit, NoTransaction
<1>2. /\ held \in Seq(Item) /\ Small(held)
      /\ commands \in Nat /\ broken' \in BOOLEAN /\ careless' \in BOOLEAN /\ orphaned' \in BOOLEAN
  BY <1>1, RedisAssumption DEF Types
<1>3. stream' \in Seq(Item) /\ Small(stream') /\ held' \in Seq(Item) /\ Small(held')
  BY <1>1, <1>2, NothingServed
<1>4. ASSUME Sound' PROVE InStep'
  <2>1. /\ Sound /\ InStep /\ Serves(held, Duties(obj, During)) /\ Before = {}
        /\ Statuses /\ Ordered /\ Begun /\ stream' = held
        /\ refusals = {}
    BY <1>1, <1>4 DEF Sound, InStep, Idle
  <2>2. \A o \in Replies : (Unread(o)' <=> Unread(o)) /\ ~Queued(o)'
    BY <1>1 DEF Unread, Queued
  <2>3. Before' = During /\ During' = {}
    BY <1>1, <2>1, <2>2 DEF Before, During
  <2>4. Duties(obj, Before)' = Duties(obj, During) /\ Duties(obj, During)' = {}
    BY <1>1, <2>3 DEF Duties
  <2>5. Statuses'
    BY <1>1, <2>1 DEF Statuses, StatusLast
  <2>6. Ordered'
    BY <1>1, <2>1, <2>2 DEF Ordered
  <2>7. Begun'
    BY <1>1, <2>1, <2>2 DEF Begun
  <2> QED
    BY <1>1, <2>1, <2>4, <2>5, <2>6, <2>7, NothingServed DEF InStep
<1>5. multiFrom' \in 0 .. commands /\ refusals' \subseteq 1 .. commands /\ inMulti' \in BOOLEAN
  <2>1. 0 \in 0 .. commands
    BY <1>2
  <2> QED
    BY <1>1, <2>1
<1> QED
  BY <1>1, <1>2, <1>3, <1>4, <1>5, OnlyStream

\* What a commit that throws leaves in the stream.
LEMMA CommitThrowsStep == ASSUME IInv, CommitThrows PROVE IInv'
<1>1. /\ Idle /\ Types /\ UNCHANGED <<obj, outstanding, commands, readVars>>
      /\ inMulti' = FALSE /\ multiFrom' = 0 /\ held' = << >> /\ refusals' = {}
      /\ broken' = broken /\ orphaned' = TRUE /\ careless' = (Before # {})
  BY DEF IInv, CommitThrows, NoTransaction
<1>2. /\ stream \in Seq(Item) /\ Small(stream) /\ held \in Seq(Item) /\ Small(held)
      /\ commands \in Nat /\ broken' \in BOOLEAN /\ careless' \in BOOLEAN /\ orphaned' \in BOOLEAN
  BY <1>1, RedisAssumption DEF Types
<1>3. PICK n \in DOMAIN stream : stream' = Drop(stream, n) \o Status("value") \o held
  BY DEF CommitThrows
<1>4. n \in Nat
  BY <1>2, LenProperties
<1>5. PICK status : /\ status = Status("value")
                    /\ status \in Seq(Item) /\ Len(status) = 1 /\ status[1].more = 0
  BY StatusIs
<1>6. Small(status)
  BY <1>5, RedisAssumption DEF Small
<1>7. PICK rest : rest = Drop(stream, n) /\ rest \in Seq(Item) /\ Small(rest)
  BY <1>2, <1>4, DropTypes
<1>8. rest \o status \in Seq(Item) /\ Small(rest \o status)
  BY <1>5, <1>6, <1>7, ConcatIs, ConcatSmall
<1>9. PICK all : all = rest \o status /\ all \in Seq(Item) /\ Small(all)
  BY <1>8
<1>10. all \o held \in Seq(Item) /\ Small(all \o held)
  BY <1>2, <1>9, ConcatIs, ConcatSmall
<1>11. stream' \in Seq(Item) /\ Small(stream') /\ held' \in Seq(Item) /\ Small(held')
  BY <1>1, <1>3, <1>5, <1>7, <1>9, <1>10, NothingServed
<1>12. ~Sound'
  BY <1>1 DEF Sound
<1>13. multiFrom' \in 0 .. commands /\ refusals' \subseteq 1 .. commands /\ inMulti' \in BOOLEAN
  <2>1. 0 \in 0 .. commands
    BY <1>2
  <2> QED
    BY <1>1, <2>1
<1> QED
  BY <1>1, <1>2, <1>11, <1>12, <1>13, OnlyStream

LEMMA AbortStep == ASSUME IInv, Abort PROVE IInv'
<1>1. /\ Idle /\ Types /\ (Sound => InStep) /\ inMulti
      /\ inMulti' = FALSE /\ multiFrom' = 0 /\ held' = << >> /\ stream' = << >>
      /\ refusals' = {}
      /\ UNCHANGED <<obj, outstanding, commands, readVars>>
      /\ obj' = obj /\ outstanding' = outstanding
      /\ broken' = broken /\ orphaned' = orphaned /\ careless' = (\E o \in Replies : Unread(o))
  BY DEF IInv, Abort, NoTransaction
<1>2. commands \in Nat /\ broken' \in BOOLEAN /\ careless' \in BOOLEAN /\ orphaned' \in BOOLEAN
  BY <1>1, RedisAssumption DEF Types
<1>3. stream' \in Seq(Item) /\ Small(stream') /\ held' \in Seq(Item) /\ Small(held')
  BY <1>1, NothingServed
<1>4. ASSUME Sound' PROVE InStep'
  <2>1. \A o \in Replies : ~Unread(o)
    BY <1>1, <1>4 DEF Sound
  <2>2. \A o \in Replies : ~Unread(o)'
    BY <1>1, <2>1 DEF Unread
  <2>3. Before' = {} /\ During' = {}
    BY <2>2 DEF Before, During
  <2>4. Duties(obj, Before)' = {} /\ Duties(obj, During)' = {}
    BY <2>3 DEF Duties
  <2>5. Statuses'
    BY <1>1, NothingServed DEF Statuses, StatusLast
  <2>6. Ordered' /\ Begun'
    BY <2>2 DEF Ordered, Begun
  <2> QED
    BY <1>1, <2>4, <2>5, <2>6, NothingServed DEF InStep
<1>5. multiFrom' \in 0 .. commands /\ refusals' \subseteq 1 .. commands /\ inMulti' \in BOOLEAN
  <2>1. 0 \in 0 .. commands
    BY <1>2
  <2> QED
    BY <1>1, <2>1
<1> QED
  BY <1>1, <1>2, <1>3, <1>4, <1>5, OnlyStream

LEMMA ConnectionLostStep == ASSUME IInv, ConnectionLost PROVE IInv'
<1>1. /\ Types /\ OwnAnswer /\ Wanted
      /\ broken' = TRUE /\ stream' = << >> /\ careless' = careless /\ orphaned' = orphaned
      /\ obj' = obj /\ outstanding' = outstanding /\ commands' = commands /\ held' = held
      /\ refusals' = refusals
      /\ wanted' = wanted /\ dying' = dying /\ inMulti' = inMulti /\ multiFrom' = multiFrom
  BY DEF IInv, ConnectionLost, readVars, multiVars
<1>2. Types'
  BY <1>1, NothingServed DEF Types, Objects
<1>3. OwnAnswer'
  BY <1>1, OwnKept DEF OwnAnswer, Owned
<1>4. Wanted'
  BY <1>1 DEF Wanted, Unread, Queued
<1>5. ~Sound'
  BY <1>1 DEF Sound
<1> QED
  BY <1>2, <1>3, <1>4, <1>5 DEF IInv

\* The object that a command returns.
New(k, n) == [NoObject EXCEPT !.kind = k, !.command = n, !.conn = TRUE]

LEMMA NewIs ==
    ASSUME NEW k \in Kinds, NEW n \in Nat
    PROVE  /\ New(k, n) \in Reply /\ New(k, n).kind = k /\ New(k, n).kind # "none"
           /\ New(k, n).command = n /\ New(k, n).conn = TRUE
           /\ New(k, n).value = 0 /\ New(k, n).header = FALSE /\ New(k, n).pending = << >>
           /\ Duty(New(k, n)) = [command |-> n, left |-> IF k # "multi" THEN 1 ELSE 0]
<1> DEFINE e == New(k, n)
<1>1. /\ e \in Reply /\ e.kind = k /\ e.command = n /\ e.conn = TRUE
      /\ e.value = 0 /\ e.header = FALSE /\ e.pending = << >>
  BY NoObjectIs DEF New, Reply, NoObject
<1>2. k # "none"
  BY KindIsKind
<1> HIDE DEF e
<1>3. Duty(e) = [command |-> n, left |-> IF k # "multi" THEN 1 ELSE 0]
  BY <1>1 DEF Duty
<1> QED
  BY <1>1, <1>2, <1>3 DEF e

LEMMA CommandStep ==
    ASSUME IInv, NEW o \in Replies, NEW k \in Kinds, Command(o, k)
    PROVE  IInv'
<1>1. /\ Idle /\ Types /\ OwnAnswer /\ (Sound => InStep) /\ obj[o].kind = "none"
      /\ commands < MaxCommands /\ commands' = commands + 1
      /\ wanted' = wanted /\ dying' = dying /\ wanted = NoReply
      /\ inMulti' = inMulti /\ multiFrom' = multiFrom
      /\ broken' = broken /\ careless' = careless /\ orphaned' = orphaned
  BY DEF IInv, Command, flags, readVars, Idle
<1>2. PICK n, e : n = commands + 1 /\ e = New(k, n)
  OBVIOUS
<1>3. /\ commands \in Nat /\ n \in 1 .. MaxCommands /\ n \in Nat /\ commands' = n /\ commands < n
      /\ multiFrom \in Nat /\ multiFrom < n /\ multiFrom \in 0 .. n
  BY <1>1, <1>2, RedisAssumption DEF Types
<1>4. /\ e \in Reply /\ e.kind = k /\ e.kind # "none" /\ e.command = n /\ e.conn = TRUE
      /\ e.value = 0 /\ e.header = FALSE /\ e.pending = << >>
      /\ Duty(e) = [command |-> n, left |-> IF k # "multi" THEN 1 ELSE 0]
  <2>1. n \in Nat /\ e = New(k, n)
    BY <1>2, <1>3
  <2>2. /\ e \in Reply /\ e.kind = k /\ e.kind # "none" /\ e.command = n /\ e.conn = TRUE
        /\ e.value = 0 /\ e.header = FALSE /\ e.pending = << >>
    <3>1. New(k, n).kind = k /\ New(k, n).kind # "none"
      BY <2>1, NewIs
    <3>2. New(k, n).command = n /\ New(k, n).value = 0 /\ New(k, n).pending = << >>
      BY <2>1, NewIs
    <3>3. New(k, n).conn = TRUE /\ New(k, n).header = FALSE /\ New(k, n) \in Reply
      BY <2>1, NewIs
    <3> QED
      BY <2>1, <3>1, <3>2, <3>3
  <2>3. Duty(e) = [command |-> n, left |-> IF k # "multi" THEN 1 ELSE 0]
    BY <2>1, NewIs
  <2> QED
    BY <2>2, <2>3
<1>5. \/ \E a \in Answers(n, k) :
            /\ stream' = IF broken THEN stream ELSE stream \o (IF inMulti THEN Status("value") ELSE a)
            /\ held' = IF inMulti THEN held \o a ELSE held
            /\ refusals' = refusals
      \/ /\ inMulti
         /\ stream' = IF broken THEN stream ELSE stream \o Status("error")
         /\ held' = held /\ refusals' = refusals \cup {n}
  BY <1>3 DEF Command, Send
<1>6. obj' = [obj EXCEPT ![o] = e] /\ outstanding' = Append(outstanding, o)
  BY <1>2, <1>3 DEF Command, Link, New
<1>7. /\ obj \in [Replies -> Reply] /\ obj' \in [Replies -> Reply] /\ obj'[o] = e
      /\ \A p \in Replies \ {o} : obj'[p] = obj[p]
  BY <1>1, <1>4, <1>6 DEF Types, Objects
<1>8. o \notin In(outstanding) /\ ~Unread(o)
  BY <1>1, ReplyFields DEF Types, Objects, Unread
<1>9. /\ outstanding' \in Seq(Replies) /\ Single(outstanding')
      /\ In(outstanding') = In(outstanding) \cup {o}
      /\ \A f, g : Precedes(outstanding', f, g) =>
            Precedes(outstanding, f, g) \/ (g = o /\ f \in In(outstanding))
  BY <1>1, <1>6, <1>8, Linked DEF Types, Objects
<1>10. Objects'
  <2>1. ASSUME NEW p \in Replies
        PROVE  /\ obj'[p].kind = "none" => obj'[p] = NoObject
               /\ obj'[p].kind # "none" => obj'[p].command \in 1 .. commands'
               /\ obj'[p].conn => p \in In(outstanding')
    <3>1. CASE p = o
      <4>1. n \in 1 .. n
        BY <1>3
      <4> QED
        BY <1>3, <1>4, <1>7, <1>9, <3>1, <4>1
    <3>2. CASE p # o
      <4>1. obj'[p] = obj[p] /\ \A m \in 1 .. commands : m \in 1 .. commands'
        BY <1>3, <1>7, <3>2
      <4> QED
        BY <1>1, <1>9, <4>1 DEF Types, Objects
    <3> QED
      BY <3>1, <3>2
  <2>2. ASSUME NEW p \in In(outstanding') PROVE obj'[p].kind # "none"
    <3>1. CASE p = o
      BY <1>4, <1>7, <3>1
    <3>2. CASE p \in In(outstanding)
      <4>1. p \in Replies /\ p # o
        BY <1>1, <1>8, <3>2, ElementOfSeq DEF Types, Objects, In
      <4> QED
        BY <1>1, <1>7, <3>2, <4>1 DEF Types, Objects
    <3> QED
      BY <1>9, <2>2, <3>1, <3>2
  <2> QED
    BY <1>7, <1>9, <2>1, <2>2 DEF Objects
<1>11. /\ \A a \in Answers(n, k) :
             a \in Seq(Item) /\ Small(a) /\ \A i \in 1 .. Len(a) : a[i].command # 0
       /\ \A s \in {"value", "error"} : Status(s) \in Seq(Item) /\ Small(Status(s))
  <2>1. ASSUME NEW a \in Answers(n, k)
        PROVE  a \in Seq(Item) /\ Small(a) /\ \A i \in 1 .. Len(a) : a[i].command # 0
    <3>1. /\ a \in Seq(Item)
          /\ \A i \in 1 .. Len(a) : a[i].command = n /\ a[i].more \in 0 .. MaxElements
      BY <1>3, AnswerIs
    <3> QED
      BY <1>3, <3>1, RedisAssumption DEF Small
  <2>2. ASSUME NEW s \in {"value", "error"} PROVE Status(s) \in Seq(Item) /\ Small(Status(s))
    BY StatusIs, RedisAssumption DEF Small
  <2> QED
    BY <2>1, <2>2
<1>12. stream' \in Seq(Item) /\ Small(stream') /\ held' \in Seq(Item) /\ Small(held')
  <2>1. stream \in Seq(Item) /\ Small(stream) /\ held \in Seq(Item) /\ Small(held)
    BY <1>1 DEF Types
  <2>2. \A s \in {"value", "error"} :
           stream \o Status(s) \in Seq(Item) /\ Small(stream \o Status(s))
    BY <1>11, <2>1, ConcatIs, ConcatSmall
  <2>3. \A a \in Answers(n, k) : /\ stream \o a \in Seq(Item) /\ Small(stream \o a)
                                 /\ held \o a \in Seq(Item) /\ Small(held \o a)
    BY <1>11, <2>1, ConcatIs, ConcatSmall
  <2> QED
    BY <1>5, <2>1, <2>2, <2>3
<1>13. Types'
  <2>1. commands' \in 0 .. MaxCommands /\ multiFrom' \in 0 .. commands'
    BY <1>1, <1>3
  <2>2. refusals' \subseteq 1 .. commands'
    <3>1. refusals \subseteq 1 .. n /\ n \in 1 .. n
      BY <1>1, <1>3 DEF Types
    <3> QED
      BY <1>3, <1>5, <3>1
  <2> QED
    BY <1>1, <1>10, <1>12, <2>1, <2>2 DEF Types
<1>14. OwnAnswer'
  <2>1. ASSUME NEW p \in Replies PROVE Owned(obj'[p], broken')
    <3>1. CASE p = o
      BY <1>4, <1>7, <3>1, OwnCommand
    <3>2. CASE p # o
      BY <1>1, <1>7, <3>2, OwnKept
    <3> QED
      BY <3>1, <3>2
  <2> QED
    BY <2>1 DEF OwnAnswer, Owned
<1>15. Wanted'
  BY <1>1, NoneWanted
<1>16. ASSUME Sound' PROVE InStep'
  <2>1. /\ Sound /\ InStep /\ ~broken /\ Serves(stream, Duties(obj, Before))
        /\ Serves(held, Duties(obj, During)) /\ Statuses /\ Ordered /\ Begun
        /\ stream \in Seq(Item) /\ held \in Seq(Item)
    BY <1>1, <1>16 DEF Sound, InStep, Types
  <2>2. Unread(o)' /\ (Queued(o)' <=> inMulti)
    BY <1>1, <1>3, <1>4, <1>7 DEF Unread, Queued
  <2>3. \A p \in Replies \ {o} : (Unread(p)' <=> Unread(p)) /\ (Queued(p)' <=> Queued(p))
    BY <1>1, <1>7 DEF Unread, Queued
  <2>4. /\ Before' \in SUBSET Replies /\ During' \in SUBSET Replies
        /\ \A p \in Replies \ {o} : (p \in Before' <=> p \in Before) /\ (p \in During' <=> p \in During)
        /\ o \notin Before /\ o \notin During
        /\ (o \in Before' <=> ~inMulti) /\ (o \in During' <=> inMulti /\ n \notin refusals')
    <3>1. ASSUME NEW p \in Replies \ {o}, Unread(p)
          PROVE  obj'[p].command = obj[p].command /\ (obj[p].command \in refusals' <=> obj[p].command \in refusals)
      <4>1. obj[p].command \in 1 .. commands /\ obj'[p] = obj[p]
        BY <1>1, <1>7, <3>1, UnreadIs
      <4>2. obj[p].command # n
        BY <1>3, <4>1
      <4> QED
        BY <1>5, <4>1, <4>2
    <3>2. obj'[o].command = n
      BY <1>4, <1>7
    <3> QED
      BY <1>8, <2>2, <2>3, <3>1, <3>2 DEF Before, During
  <2>5. Duties(obj', Before') = Duties(obj, Before) \cup (IF inMulti THEN {} ELSE {Duty(e)})
    <3>1. Duties(obj', Before') =
             (Duties(obj, Before) \ (IF o \in Before THEN {Duty(obj[o])} ELSE {}))
             \cup (IF o \in Before' THEN {Duty(obj'[o])} ELSE {})
      BY <1>1, <1>7, <2>1, <2>4, BeforeIs, DutiesChange
    <3> QED
      BY <1>7, <2>4, <3>1
  <2>6. Duties(obj', During') =
           Duties(obj, During) \cup (IF inMulti /\ n \notin refusals' THEN {Duty(e)} ELSE {})
    <3>1. Duties(obj', During') =
             (Duties(obj, During) \ (IF o \in During THEN {Duty(obj[o])} ELSE {}))
             \cup (IF o \in During' THEN {Duty(obj'[o])} ELSE {})
      BY <1>1, <1>7, <2>1, <2>4, BeforeIs, DutiesChange
    <3> QED
      BY <1>7, <2>4, <3>1
  <2>7. ASSUME NEW O \in SUBSET Replies, \A p \in O : Unread(p)
        PROVE  Duties(obj, O) \in SUBSET DutySet /\ \A d \in Duties(obj, O) : d.command < n
    <3>1. \A p \in O : Duty(obj[p]).command = obj[p].command /\ obj[p].command < n
      <4> SUFFICES ASSUME NEW p \in O PROVE Duty(obj[p]).command = obj[p].command /\ obj[p].command < n
        OBVIOUS
      <4>1. p \in Replies /\ obj[p].command \in 1 .. commands
        BY <1>1, <2>7, UnreadIs
      <4> QED
        BY <1>1, <1>3, <4>1, DutyIs
    <3> QED
      BY <1>1, <3>1, DutiesAre DEF Duties
  <2>8. Ordered'
    <3> SUFFICES ASSUME NEW f \in Replies, NEW g \in Replies,
                        Precedes(outstanding', f, g), Unread(f)', Unread(g)'
                 PROVE  obj'[f].command < obj'[g].command
      BY DEF Ordered
    <3>1. CASE Precedes(outstanding, f, g)
      <4>1. f # o /\ g # o
        BY <1>8, <3>1 DEF Precedes, In
      <4> QED
        BY <1>7, <2>1, <2>3, <3>1, <4>1 DEF Ordered
    <3>2. CASE g = o /\ f \in In(outstanding)
      <4>1. f # o
        BY <1>8, <3>2
      <4>2. Unread(f) /\ obj'[f] = obj[f]
        BY <1>7, <2>3, <4>1
      <4>3. obj[f].command \in 1 .. commands
        BY <1>1, <4>2, UnreadIs
      <4> QED
        BY <1>3, <1>4, <1>7, <3>2, <4>2, <4>3
    <3> QED
      BY <1>9, <3>1, <3>2
  <2>9. Begun'
    <3> SUFFICES ASSUME NEW p \in Replies, Unread(p)', obj'[p].kind = "multi", obj'[p].header
                 PROVE  /\ ~Queued(p)'
                        /\ \A q \in Replies : Unread(q)' /\ q # p => obj'[p].command < obj'[q].command
      BY DEF Begun
    <3>1. p # o
      BY <1>4, <1>7
    <3>2. /\ Unread(p) /\ obj'[p] = obj[p] /\ ~Queued(p) /\ ~Queued(p)'
          /\ \A q \in Replies : Unread(q) /\ q # p => obj[p].command < obj[q].command
      BY <1>7, <2>1, <2>3, <3>1 DEF Begun
    <3>3. obj[p].command < n
      <4>1. obj[p].command \in 1 .. commands
        BY <1>1, <3>2, UnreadIs
      <4> QED
        BY <1>3, <4>1
    <3> QED
      BY <1>4, <1>7, <2>3, <3>2, <3>3
  <2>10. ASSUME NEW s \in {"value", "error"}, stream' = stream \o Status(s), inMulti
         PROVE  Serves(stream', Duties(obj', Before')) /\ StatusLast(stream')
    <3>1. Duties(obj', Before') = Duties(obj, Before)
      BY <2>5, <2>10
    <3>2. Duties(obj, Before) \in SUBSET DutySet
      BY <2>7, BeforeIs
    <3> QED
      BY <2>1, <2>10, <3>1, <3>2, AppendStatus DEF Statuses
  <2>11. n \notin refusals
    <3>1. refusals \subseteq 1 .. commands /\ n \notin 1 .. commands
      BY <1>1, <1>3 DEF Types
    <3> QED
      BY <3>1
  <2>12. ASSUME NEW a \in Answers(n, k), inMulti, refusals' = refusals,
                stream' = stream \o Status("value"), held' = held \o a
         PROVE  InStep'
    <3>1. /\ a \in Seq(Item) /\ \A i \in 1 .. Len(a) : a[i].command # 0
      BY <1>11
    <3>2. Serves(stream', Duties(obj', Before')) /\ StatusLast(stream')
      BY <2>10, <2>12
    <3>3. Serves(held', Duties(obj', During'))
      <4>1. Duties(obj', During') = Duties(obj, During) \cup {Duty(e)}
        BY <2>6, <2>11, <2>12
      <4>2. PICK D, d : D = Duties(obj, During) /\ d = Duty(e)
        OBVIOUS
      <4>3. /\ D \in SUBSET DutySet /\ \A f \in D : f.command < n
            /\ d = [command |-> n, left |-> IF k # "multi" THEN 1 ELSE 0]
        BY <1>4, <2>7, <4>2, BeforeIs
      <4>4. Serves(held \o a, D \cup {d})
        BY <1>3, <2>1, <4>2, <4>3, AppendAnswer
      <4> QED
        BY <2>12, <4>1, <4>2, <4>4
    <3>4. \A i \in 1 .. Len(held') : held'[i].command # 0
      BY <2>1, <2>12, <3>1, ConcatItems DEF Statuses
    <3>5. Statuses'
      BY <1>1, <2>12, <3>2, <3>4 DEF Statuses
    <3> QED
      BY <3>2, <3>3, <3>5, <2>8, <2>9 DEF InStep, Duties
  <2>13. ASSUME inMulti, stream' = stream \o Status("error"), held' = held, n \in refusals'
         PROVE  InStep'
    <3>1. Serves(stream', Duties(obj', Before')) /\ StatusLast(stream')
      BY <2>10, <2>13
    <3>2. Serves(held', Duties(obj', During'))
      BY <2>1, <2>6, <2>13
    <3>3. Statuses'
      BY <1>1, <2>1, <2>13, <3>1 DEF Statuses
    <3> QED
      BY <3>1, <3>2, <3>3, <2>8, <2>9 DEF InStep, Duties
  <2>14. ASSUME NEW a \in Answers(n, k), ~inMulti, stream' = stream \o a, held' = held
         PROVE  InStep'
    <3>1. /\ a \in Seq(Item) /\ \A i \in 1 .. Len(a) : a[i].command # 0
      BY <1>11
    <3>2. Serves(stream', Duties(obj', Before'))
      <4>1. Duties(obj', Before') = Duties(obj, Before) \cup {Duty(e)}
        BY <2>5, <2>14
      <4>2. PICK D, d : D = Duties(obj, Before) /\ d = Duty(e)
        OBVIOUS
      <4>3. /\ D \in SUBSET DutySet /\ \A f \in D : f.command < n
            /\ d = [command |-> n, left |-> IF k # "multi" THEN 1 ELSE 0]
        BY <1>4, <2>7, <4>2, BeforeIs
      <4>4. Serves(stream \o a, D \cup {d})
        BY <1>3, <2>1, <4>2, <4>3, AppendAnswer
      <4> QED
        BY <2>14, <4>1, <4>2, <4>4
    <3>3. Serves(held', Duties(obj', During'))
      BY <2>1, <2>6, <2>14
    <3>4. \A i \in 1 .. Len(stream') : stream'[i].command # 0
      BY <2>1, <2>14, <3>1, ConcatItems DEF Statuses
    <3>5. Statuses'
      BY <1>1, <2>1, <2>14, <3>4 DEF Statuses, StatusLast
    <3> QED
      BY <3>2, <3>3, <3>5, <2>8, <2>9 DEF InStep, Duties
  <2> QED
    BY <1>5, <2>1, <2>12, <2>13, <2>14
<1> QED
  BY <1>13, <1>14, <1>15, <1>16 DEF IInv

-----------------------------------------------------------------------------
(* Copies and assignments.                                                 *)

\* Who stood in q's place before o moved to p.
Was(q, o, p) == IF q = p THEN o ELSE q

LEMMA MoveIs ==
    ASSUME Types, NEW o \in Replies, NEW p \in Replies, o # p, Move(o, p)
    PROVE  /\ outstanding' \in Seq(Replies) /\ Single(outstanding')
           /\ In(outstanding') = IF obj[o].conn THEN (In(outstanding) \ {o}) \cup {p}
                                                ELSE (In(outstanding) \ {p}) \ {o}
           /\ \A e, f : Precedes(outstanding', e, f) =>
                 Precedes(outstanding, Was(e, o, p), Was(f, o, p))
<1> DEFINE l == Without(p)
<1>1. /\ l \in Seq(Replies) /\ Single(l) /\ In(l) = In(outstanding) \ {p}
      /\ \A e, f : Precedes(l, e, f) => Precedes(outstanding, e, f)
  BY WithoutIs DEF LessOne
<1>2. outstanding' = IF obj[o].conn THEN ReplaceAll(l, o, p) ELSE RemoveFirst(l, o)
  BY DEF Move
<1> HIDE DEF l
<1>3. CASE obj[o].conn
  <2>1. o \in In(l)
    BY <1>1, <1>3 DEF Types, Objects
  <2>2. p \notin In(l)
    BY <1>1
  <2>3. outstanding' = ReplaceAll(l, o, p)
    BY <1>2, <1>3
  <2>4. /\ ReplaceAll(l, o, p) \in Seq(Replies) /\ Single(ReplaceAll(l, o, p))
        /\ In(ReplaceAll(l, o, p)) = IF o \in In(l) THEN (In(l) \ {o}) \cup {p} ELSE In(l)
        /\ \A e, f : Precedes(ReplaceAll(l, o, p), e, f) =>
              Precedes(l, IF e = p THEN o ELSE e, IF f = p THEN o ELSE f)
    BY <1>1, <2>2, Replaced
  <2>5. ASSUME NEW e, NEW f, Precedes(outstanding', e, f)
        PROVE  Precedes(outstanding, Was(e, o, p), Was(f, o, p))
    BY <1>1, <2>3, <2>4, <2>5 DEF Was
  <2> QED
    BY <1>1, <1>3, <2>1, <2>3, <2>4, <2>5
<1>4. CASE ~obj[o].conn
  <2>1. outstanding' = RemoveFirst(l, o)
    BY <1>2, <1>4
  <2>2. /\ RemoveFirst(l, o) \in Seq(Replies) /\ Single(RemoveFirst(l, o))
        /\ In(RemoveFirst(l, o)) = In(l) \ {o}
        /\ \A e, f : Precedes(RemoveFirst(l, o), e, f) => Precedes(l, e, f)
    BY <1>1, Unlinked
  <2>3. ASSUME NEW e, NEW f, Precedes(outstanding', e, f)
        PROVE  Precedes(outstanding, Was(e, o, p), Was(f, o, p))
    <3>1. Precedes(l, e, f)
      BY <2>1, <2>2, <2>3
    <3>2. e \in In(l) /\ f \in In(l)
      BY <3>1 DEF Precedes, In
    <3>3. e # p /\ f # p
      BY <1>1, <3>2
    <3> QED
      BY <1>1, <3>1, <3>3 DEF Was
  <2> QED
    BY <1>1, <1>4, <2>1, <2>2, <2>3
<1> QED
  BY <1>3, <1>4

\* e is for p what obj[o] was, and o keeps nothing that is to be read.
Moved(o, p, e, f) ==
    /\ obj' = [obj EXCEPT ![p] = e, ![o] = f] /\ e \in Reply /\ f \in Reply
    /\ e.kind = obj[o].kind /\ e.command = obj[o].command /\ e.conn = obj[o].conn
    /\ e.header = obj[o].header /\ e.count = obj[o].count
    /\ f.kind = obj[o].kind /\ f.command = obj[o].command /\ f.conn = FALSE
    /\ obj[o].kind # "none"

LEMMA MovedIs ==
    ASSUME Types, NEW o \in Replies, NEW p \in Replies, o # p, NEW e, NEW f, Moved(o, p, e, f),
           multiFrom' = multiFrom, inMulti' = inMulti
    PROVE  /\ obj' \in [Replies -> Reply] /\ obj'[p] = e /\ obj'[o] = f
           /\ \A q \in Replies \ {o, p} : obj'[q] = obj[q]
           /\ ~Unread(o)'
           /\ \A q \in Replies \ {o} :
                 /\ Unread(q)' <=> Unread(Was(q, o, p))
                 /\ Queued(q)' <=> Queued(Was(q, o, p))
                 /\ Duty(obj'[q]) = Duty(obj[Was(q, o, p)])
                 /\ obj'[q].command = obj[Was(q, o, p)].command
                 /\ obj'[q].kind = obj[Was(q, o, p)].kind
                 /\ obj'[q].header = obj[Was(q, o, p)].header
<1>0. obj' = [obj EXCEPT ![p] = e, ![o] = f] /\ e \in Reply /\ f \in Reply
  BY DEF Moved
<1>1. /\ obj' \in [Replies -> Reply] /\ obj'[p] = e /\ obj'[o] = f
      /\ \A q \in Replies \ {o, p} : obj'[q] = obj[q]
  <2>1. obj \in [Replies -> Reply]
    BY DEF Types, Objects
  <2> QED
    BY <1>0, <2>1
<1>2. ~Unread(o)'
  BY <1>1 DEF Moved, Unread
<1>3. ASSUME NEW q \in Replies \ {o}
      PROVE  /\ Unread(q)' <=> Unread(Was(q, o, p))
             /\ Queued(q)' <=> Queued(Was(q, o, p))
             /\ Duty(obj'[q]) = Duty(obj[Was(q, o, p)])
             /\ obj'[q].command = obj[Was(q, o, p)].command
             /\ obj'[q].kind = obj[Was(q, o, p)].kind
             /\ obj'[q].header = obj[Was(q, o, p)].header
  <2>1. CASE q = p
    <3>1. /\ Was(q, o, p) = o /\ obj'[q] = e
          /\ e.kind = obj[o].kind /\ e.command = obj[o].command /\ e.conn = obj[o].conn
          /\ e.header = obj[o].header /\ e.count = obj[o].count
      BY <1>1, <2>1 DEF Moved, Was
    <3>2. (Unread(q)' <=> Unread(o)) /\ (Queued(q)' <=> Queued(o)) /\ Duty(obj'[q]) = Duty(obj[o])
      BY <3>1 DEF Unread, Queued, Duty
    <3> QED
      BY <3>1, <3>2
  <2>2. CASE q # p
    <3>1. Was(q, o, p) = q /\ obj'[q] = obj[q]
      BY <1>1, <2>2 DEF Was
    <3>2. (Unread(q)' <=> Unread(q)) /\ (Queued(q)' <=> Queued(q))
      BY <3>1 DEF Unread, Queued
    <3> QED
      BY <3>1, <3>2
  <2> QED
    BY <2>1, <2>2
<1> QED
  BY <1>1, <1>2, <1>3

LEMMA MovedTypes ==
    ASSUME Types, NEW o \in Replies, NEW p \in Replies, o # p, NEW e, NEW f, Moved(o, p, e, f),
           Move(o, p), commands' = commands, UNCHANGED multiVars
    PROVE  Objects'
<1>1. /\ obj' \in [Replies -> Reply] /\ obj'[p] = e /\ obj'[o] = f
      /\ \A q \in Replies \ {o, p} : obj'[q] = obj[q]
  BY MovedIs DEF multiVars
<1>2. /\ outstanding' \in Seq(Replies) /\ Single(outstanding')
      /\ In(outstanding') = IF obj[o].conn THEN (In(outstanding) \ {o}) \cup {p}
                                           ELSE (In(outstanding) \ {p}) \ {o}
  BY MoveIs
<1>3. ASSUME NEW q \in Replies
      PROVE  /\ obj'[q].kind = "none" => obj'[q] = NoObject
             /\ obj'[q].kind # "none" => obj'[q].command \in 1 .. commands'
             /\ obj'[q].conn => q \in In(outstanding')
  <2>1. CASE q = p
    BY <1>1, <1>2, <2>1 DEF Types, Objects, Moved
  <2>2. CASE q = o
    BY <1>1, <2>2 DEF Types, Objects, Moved
  <2>3. CASE q \notin {o, p}
    BY <1>1, <1>2, <2>3 DEF Types, Objects
  <2> QED
    BY <2>1, <2>2, <2>3
<1>4. ASSUME NEW q \in In(outstanding') PROVE obj'[q].kind # "none"
  <2>1. q \in Replies
    BY <1>2, ElementOfSeq DEF In
  <2>2. CASE q \in {o, p}
    BY <1>1, <2>2 DEF Moved
  <2>3. CASE q \notin {o, p}
    BY <1>1, <1>2, <2>1, <2>3 DEF Types, Objects
  <2> QED
    BY <2>2, <2>3
<1> QED
  BY <1>1, <1>2, <1>3, <1>4 DEF Objects

LEMMA MovedInStep ==
    ASSUME Types, InStep, NEW o \in Replies, NEW p \in Replies, o # p,
           NEW e, NEW f, Moved(o, p, e, f), Move(o, p), UNCHANGED multiVars,
           Unread(p) => obj[p].kind = "multi" /\ obj[p].header,
           stream' = Drop(stream, IF Unread(p) THEN obj[p].count ELSE 0)
    PROVE  InStep'
<1>0. /\ stream \in Seq(Item) /\ Len(stream) \in Nat
      /\ Serves(stream, Duties(obj, Before)) /\ Serves(held, Duties(obj, During))
      /\ Ordered /\ Begun /\ Statuses
      /\ held' = held /\ inMulti' = inMulti /\ multiFrom' = multiFrom
      /\ refusals' = refusals
  BY ItemFields DEF Types, InStep, multiVars
<1>1. /\ ~Unread(o)'
      /\ \A q \in Replies \ {o} :
            /\ Unread(q)' <=> Unread(Was(q, o, p))
            /\ Queued(q)' <=> Queued(Was(q, o, p))
            /\ Duty(obj'[q]) = Duty(obj[Was(q, o, p)])
            /\ obj'[q].command = obj[Was(q, o, p)].command
            /\ obj'[q].kind = obj[Was(q, o, p)].kind
            /\ obj'[q].header = obj[Was(q, o, p)].header
  BY <1>0, MovedIs
<1>2. /\ \A q \in Replies \ {o} : Was(q, o, p) \in Replies \ {p}
      /\ \A q, r \in Replies \ {o} : q # r => Was(q, o, p) # Was(r, o, p)
      /\ \A r \in Replies \ {p} : \E q \in Replies \ {o} : Was(q, o, p) = r
  BY DEF Was
<1>3. /\ \A q \in Before' : q \in Replies \ {o} /\ Was(q, o, p) \in Before \ {p}
      /\ \A q \in Replies \ {o} : Was(q, o, p) \in Before => q \in Before'
      /\ \A q \in During' : q \in Replies \ {o} /\ Was(q, o, p) \in During \ {p}
      /\ \A q \in Replies \ {o} : Was(q, o, p) \in During => q \in During'
  BY <1>0, <1>1, <1>2 DEF Before, During
<1>4. Duties(obj', Before') = Duties(obj, Before \ {p})
  <2>1. ASSUME NEW q \in Before' PROVE Duty(obj'[q]) \in Duties(obj, Before \ {p})
    BY <1>1, <1>3 DEF Duties
  <2>2. ASSUME NEW r \in Before \ {p} PROVE Duty(obj[r]) \in Duties(obj', Before')
    <3>1. PICK q \in Replies \ {o} : Was(q, o, p) = r
      BY <1>2, BeforeIs
    <3> QED
      BY <1>1, <1>3, <3>1 DEF Duties
  <2> QED
    BY <2>1, <2>2 DEF Duties
<1>5. Duties(obj', During') = Duties(obj, During \ {p})
  <2>1. ASSUME NEW q \in During' PROVE Duty(obj'[q]) \in Duties(obj, During \ {p})
    BY <1>1, <1>3 DEF Duties
  <2>2. ASSUME NEW r \in During \ {p} PROVE Duty(obj[r]) \in Duties(obj', During')
    <3>1. PICK q \in Replies \ {o} : Was(q, o, p) = r
      BY <1>2, BeforeIs
    <3> QED
      BY <1>1, <1>3, <3>1 DEF Duties
  <2> QED
    BY <2>1, <2>2 DEF Duties
<1>6. During \ {p} = During
  <2>1. p \notin During
    BY <1>0, BeforeIs DEF Begun
  <2> QED
    BY <2>1
<1>7. PICK n \in 0 .. Len(stream) :
         stream' = Drop(stream, n) /\ Serves(stream', Duties(obj, Before \ {p}))
  <2>1. CASE Unread(p)
    <3>1. p = First /\ p \in Before
      BY <2>1, BegunIsFirst
    <3>2. PICK D, d : D = Duties(obj, Before) /\ d = Duty(obj[p])
      OBVIOUS
    <3>3. /\ D \in SUBSET DutySet /\ d \in D /\ d.command = obj[p].command /\ d.left = obj[p].count
          /\ obj[p].count \in Nat /\ obj[p].count > 0
      <4>1. obj[p].count \in Nat /\ obj[p].count > 0
        BY <2>1, ReplyFields, UnreadIs, RedisAssumption
      <4> QED
        BY <2>1, <3>1, <3>2, <4>1, BeforeIs, DutiesAre, DutyIs DEF Duties
    <3>4. Len(stream) > 0 /\ stream[1].command = d.command /\ stream[1].more = d.left - 1
      BY <3>1, <3>2, <3>3, StreamHead
    <3>5. /\ stream[1].more + 1 \in 1 .. Len(stream)
          /\ Serves(Drop(stream, stream[1].more + 1), D \ {d})
      BY <1>0, <3>2, <3>3, <3>4, DropAnswer
    <3>6. stream[1].more + 1 = obj[p].count
      BY <3>3, <3>4
    <3>7. D \ {d} = Duties(obj, Before \ {p})
      <4>1. Duties(obj, Before \ {p}) =
               (Duties(obj, Before) \ (IF p \in Before THEN {Duty(obj[p])} ELSE {}))
               \cup (IF p \in Before \ {p} THEN {Duty(obj[p])} ELSE {})
        BY <1>0, BeforeIs, DutiesChange
      <4> QED
        BY <3>1, <3>2, <4>1
    <3>8. obj[p].count \in 0 .. Len(stream) /\ stream' = Drop(stream, obj[p].count)
      BY <1>0, <2>1, <3>5, <3>6
    <3> QED
      BY <3>5, <3>6, <3>7, <3>8
  <2>2. CASE ~Unread(p)
    <3>1. Before \ {p} = Before
      BY <2>2 DEF Before
    <3>2. stream' = Drop(stream, 0) /\ Drop(stream, 0) = stream /\ 0 \in 0 .. Len(stream)
      <4>1. Drop(stream, 0) = stream
        BY <1>0, SubSeqFull DEF Drop
      <4> QED
        BY <1>0, <2>2, <4>1
    <3> QED
      BY <1>0, <3>1, <3>2
  <2> QED
    BY <2>1, <2>2
<1>8. Statuses'
  <2>1. InPieces(stream)
    BY <1>0 DEF Serves
  <2> QED
    BY <1>0, <1>7, <2>1, DropStatuses
<1>9. Ordered'
  <2> SUFFICES ASSUME NEW q \in Replies, NEW r \in Replies,
                      Precedes(outstanding', q, r), Unread(q)', Unread(r)'
               PROVE  obj'[q].command < obj'[r].command
    BY DEF Ordered
  <2>1. q # o /\ r # o
    BY <1>1
  <2>2. Precedes(outstanding, Was(q, o, p), Was(r, o, p))
    BY MoveIs
  <2>3. PICK a, b \in Replies : a = Was(q, o, p) /\ b = Was(r, o, p)
    BY <1>2, <2>1
  <2>4. Unread(a) /\ Unread(b) /\ obj'[q].command = obj[a].command /\ obj'[r].command = obj[b].command
    BY <1>1, <2>1, <2>3
  <2> QED
    BY <1>0, <2>2, <2>3, <2>4 DEF Ordered
<1>10. Begun'
  <2> SUFFICES ASSUME NEW q \in Replies, Unread(q)', obj'[q].kind = "multi", obj'[q].header
               PROVE  /\ ~Queued(q)'
                      /\ \A r \in Replies : Unread(r)' /\ r # q => obj'[q].command < obj'[r].command
    BY DEF Begun
  <2>1. q # o
    BY <1>1
  <2>2. PICK a \in Replies : a = Was(q, o, p)
    BY <1>2, <2>1
  <2>3. /\ Unread(a) /\ obj[a].kind = "multi" /\ obj[a].header
        /\ (Queued(q)' <=> Queued(a)) /\ obj'[q].command = obj[a].command
    BY <1>1, <2>1, <2>2
  <2>4. /\ ~Queued(a)
        /\ \A b \in Replies : Unread(b) /\ b # a => obj[a].command < obj[b].command
    BY <1>0, <2>3 DEF Begun
  <2>5. ASSUME NEW r \in Replies, Unread(r)', r # q PROVE obj'[q].command < obj'[r].command
    <3>1. r # o
      BY <1>1, <2>5
    <3>2. PICK b \in Replies : b = Was(r, o, p)
      BY <1>2, <3>1
    <3>3. Unread(b) /\ b # a /\ obj'[r].command = obj[b].command
      BY <1>1, <1>2, <2>1, <2>2, <2>5, <3>1, <3>2
    <3> QED
      BY <2>3, <2>4, <3>3
  <2> QED
    BY <2>3, <2>4, <2>5
<1>11. Serves(stream', Duties(obj, Before)') /\ Serves(held', Duties(obj, During)')
  BY <1>0, <1>4, <1>5, <1>6, <1>7 DEF Duties
<1> QED
  BY <1>8, <1>9, <1>10, <1>11 DEF InStep

LEMMA MovedKeeps ==
    ASSUME IInv, Idle, NEW o \in Replies, NEW p \in Replies, o # p,
           NEW e, NEW f, Moved(o, p, e, f), Move(o, p),
           e.value = obj[o].value, e.pending = obj[o].pending \/ e.pending = << >>,
           f.value = obj[o].value, f.pending = obj[o].pending \/ f.pending = << >>,
           NEW n \in Nat, stream' = Drop(stream, n),
           UNCHANGED <<commands, readVars, multiVars, broken, orphaned>>,
           careless' \in BOOLEAN,
           Sound' => /\ Unread(p) => obj[p].kind = "multi" /\ obj[p].header
                     /\ n = IF Unread(p) THEN obj[p].count ELSE 0
    PROVE  IInv'
<1>1. /\ Types /\ OwnAnswer /\ (Sound => InStep) /\ wanted = NoReply /\ ~careless
      /\ commands' = commands /\ wanted' = wanted /\ dying' = dying
      /\ held' = held /\ inMulti' = inMulti /\ multiFrom' = multiFrom
      /\ refusals' = refusals
      /\ broken' = broken /\ orphaned' = orphaned
  BY DEF IInv, Idle, readVars, multiVars
<1>2. Objects'
  BY <1>1, MovedTypes
<1>3. stream' \in Seq(Item) /\ Small(stream')
  BY <1>1, DropTypes DEF Types
<1>4. Types'
  BY <1>1, <1>2, <1>3 DEF Types
<1>5. /\ obj' \in [Replies -> Reply] /\ obj'[p] = e /\ obj'[o] = f
      /\ \A q \in Replies \ {o, p} : obj'[q] = obj[q]
  BY <1>1, MovedIs
<1>6. ASSUME NEW q \in Replies PROVE Owned(obj'[q], broken')
  <2>0. /\ \A i \in DOMAIN obj[o].pending : obj[o].pending[i] \in Owns(obj[o], broken)
        /\ e.command = obj[o].command /\ e.kind = obj[o].kind
        /\ f.command = obj[o].command /\ f.kind = obj[o].kind
    BY <1>1 DEF OwnAnswer, Moved
  <2>1. CASE q = p
    BY <1>1, <1>5, <2>0, <2>1, OwnSame
  <2>2. CASE q = o
    BY <1>1, <1>5, <2>0, <2>2, OwnSame
  <2>3. CASE q \notin {o, p}
    BY <1>1, <1>5, <2>3, OwnKept
  <2> QED
    BY <2>1, <2>2, <2>3
<1>7. OwnAnswer'
  BY <1>6 DEF OwnAnswer, Owned
<1>8. Wanted'
  BY <1>1, NoneWanted
<1>9. ASSUME Sound' PROVE InStep'
  <2>1. /\ InStep
        /\ Unread(p) => obj[p].kind = "multi" /\ obj[p].header
        /\ stream' = Drop(stream, IF Unread(p) THEN obj[p].count ELSE 0)
    BY <1>1, <1>9 DEF Sound
  <2> QED
    BY <1>1, <2>1, MovedInStep
<1> QED
  BY <1>4, <1>7, <1>8, <1>9 DEF IInv

LEMMA CopyStep == ASSUME IInv, NEW o \in Replies, NEW p \in Replies, Copy(o, p) PROVE IInv'
<1>1. /\ Idle /\ Types /\ Move(o, p) /\ obj[o].kind # "none" /\ obj[p].kind = "none" /\ o # p
      /\ stream \in Seq(Item) /\ Small(stream) /\ stream' = stream
      /\ UNCHANGED <<commands, readVars, multiVars, broken, orphaned>> /\ careless' \in BOOLEAN
  BY DEF IInv, Copy, Types, flags
<1>2. obj[o] \in Reply /\ obj \in [Replies -> Reply]
  BY <1>1 DEF Types, Objects
<1>3. PICK e, f : e = obj[o] /\ f = [obj[o] EXCEPT !.conn = FALSE, !.pending = << >>]
  OBVIOUS
<1>4. /\ f \in Reply /\ f.kind = obj[o].kind /\ f.command = obj[o].command /\ f.conn = FALSE
      /\ f.value = obj[o].value /\ f.pending = << >>
  <2>1. << >> \in Seq(Nat)
    OBVIOUS
  <2> QED
    BY <1>2, <1>3, <2>1 DEF Reply
<1>5. obj' = [obj EXCEPT ![p] = e, ![o] = f]
  <2>1. obj' = [obj EXCEPT ![p] = obj[o], ![o] = [@ EXCEPT !.conn = FALSE, !.pending = << >>]]
    BY DEF Copy
  <2> QED
    BY <1>1, <1>2, <1>3, <2>1
<1>6. Moved(o, p, e, f)
  BY <1>1, <1>2, <1>3, <1>4, <1>5 DEF Moved
<1>7. ~Unread(p)
  BY <1>1, ReplyFields DEF Unread
<1>8. stream' = Drop(stream, 0)
  BY <1>1, DropTypes
<1> QED
  BY <1>1, <1>3, <1>4, <1>6, <1>7, <1>8, MovedKeeps

LEMMA AssignStep == ASSUME IInv, NEW o \in Replies, NEW p \in Replies, Assign(o, p) PROVE IInv'
<1>1. /\ Idle /\ Types /\ Move(o, p) /\ obj[o].kind # "none" /\ o # p
      /\ obj[p].conn => obj[p].kind = "multi" /\ obj[p].count = LeftToRead(p)
      /\ stream' = Drop(stream, LeftToRead(p))
      /\ UNCHANGED <<commands, readVars, multiVars, broken, orphaned>>
      /\ careless' = (obj[p].conn /\ ~obj[p].header)
  BY DEF IInv, Assign
<1>2. /\ obj[o] \in Reply /\ obj \in [Replies -> Reply]
      /\ obj[p].conn \in BOOLEAN /\ obj[p].header \in BOOLEAN /\ obj[p].count \in Nat
  BY <1>1, ReplyFields, RedisAssumption DEF Types, Objects
<1>3. PICK e, f : e = [obj[o] EXCEPT !.pending = << >>] /\ f = [obj[o] EXCEPT !.conn = FALSE]
  OBVIOUS
<1>4. /\ f \in Reply /\ f.kind = obj[o].kind /\ f.command = obj[o].command /\ f.conn = FALSE
      /\ f.value = obj[o].value /\ f.pending = obj[o].pending
  BY <1>2, <1>3 DEF Reply
<1>5. /\ e \in Reply /\ e.kind = obj[o].kind /\ e.command = obj[o].command /\ e.conn = obj[o].conn
      /\ e.header = obj[o].header /\ e.count = obj[o].count
      /\ e.value = obj[o].value /\ e.pending = << >>
  <2>1. << >> \in Seq(Nat)
    OBVIOUS
  <2> QED
    BY <1>2, <1>3, <2>1 DEF Reply
<1>6. obj' = [obj EXCEPT ![p] = e, ![o] = f]
  <2>1. obj' = [obj EXCEPT ![p] = [obj[o] EXCEPT !.pending = << >>], ![o].conn = FALSE]
    BY DEF Assign
  <2> QED
    BY <1>1, <1>2, <1>3, <2>1
<1>7. Moved(o, p, e, f)
  BY <1>1, <1>4, <1>5, <1>6 DEF Moved
<1>8. PICK n \in Nat : n = LeftToRead(p)
  BY <1>2 DEF LeftToRead
<1>9. careless' \in BOOLEAN
  BY <1>1, <1>2
<1>10. ASSUME Sound'
       PROVE  /\ Unread(p) => obj[p].kind = "multi" /\ obj[p].header
              /\ n = IF Unread(p) THEN obj[p].count ELSE 0
  <2>1. ~broken /\ (obj[p].conn => obj[p].header)
    BY <1>1, <1>2, <1>10 DEF Sound
  <2> QED
    BY <1>1, <1>2, <1>8, <2>1 DEF LeftToRead, Unread
<1> QED
  BY <1>1, <1>4, <1>5, <1>7, <1>8, <1>9, <1>10, MovedKeeps

-----------------------------------------------------------------------------
(* The results.                                                            *)

LEMMA IInvInit == Init => IInv
<1> SUFFICES ASSUME Init PROVE IInv
  OBVIOUS
<1>1. /\ obj = [o \in Replies |-> NoObject] /\ outstanding = << >> /\ stream = << >> /\ held = << >>
      /\ commands = 0 /\ multiFrom = 0 /\ refusals = {} /\ wanted = NoReply
      /\ dying = FALSE /\ inMulti = FALSE /\ broken = FALSE /\ careless = FALSE /\ orphaned = FALSE
  BY DEF Init
<1>2. \A o \in Replies : obj[o] = NoObject /\ ~Unread(o)
  BY <1>1, NoObjectIs DEF Unread
<1>3. << >> \in Seq(Replies) /\ Single(<< >>) /\ In(<< >>) = {} /\ \A e, f : ~Precedes(<< >>, e, f)
  BY EmptySeq DEF Single, In, Precedes
<1>4. Objects
  <2>1. obj \in [Replies -> Reply]
    BY <1>1, NoObjectIs
  <2> QED
    BY <1>1, <1>2, <1>3, <2>1, NoObjectIs DEF Objects
<1>5. Types
  <2>1. commands \in 0 .. MaxCommands /\ multiFrom \in 0 .. commands
    BY <1>1, RedisAssumption
  <2> QED
    BY <1>1, <1>4, <2>1, NothingServed DEF Types
<1>6. OwnAnswer
  BY <1>2, NoObjectIs DEF OwnAnswer
<1>7. Wanted
  BY <1>1 DEF Wanted
<1>8. InStep
  <2>1. Before = {} /\ During = {}
    BY <1>2 DEF Before, During
  <2>2. Duties(obj, Before) = {} /\ Duties(obj, During) = {}
    BY <2>1 DEF Duties
  <2>3. Statuses
    BY <1>1, NothingServed DEF Statuses, StatusLast
  <2>4. Ordered /\ Begun
    BY <1>2 DEF Ordered, Begun
  <2> QED
    BY <1>1, <2>2, <2>3, <2>4, NothingServed DEF InStep
<1> QED
  BY <1>5, <1>6, <1>7, <1>8 DEF IInv

LEMMA IInvStep == IInv /\ [Next]_vars => IInv'
<1> SUFFICES ASSUME IInv, [Next]_vars PROVE IInv'
  OBVIOUS
<1>1. CASE \E o \in Replies, kind \in Kinds : Command(o, kind)
  BY <1>1, CommandStep
<1>2. CASE TypeCommand
  BY <1>2, TypeCommandStep
<1>3. CASE BeginTransaction
  BY <1>3, BeginTransactionStep
<1>4. CASE Commit
  BY <1>4, CommitStep
<1>11. CASE CommitThrows
  BY <1>11, CommitThrowsStep
<1>5. CASE Abort
  BY <1>5, AbortStep
<1>6. CASE \E o \in Replies : Result(o) \/ NextElement(o) \/ Destroy(o)
  BY <1>6, ResultStep, NextElementStep, DestroyStep
<1>7. CASE \E o, p \in Replies : Copy(o, p) \/ Assign(o, p)
  BY <1>7, CopyStep, AssignStep
<1>8. CASE Read
  BY <1>8, ReadOneStep, ReadAllStep, ReadHeaderStep, ReadElementStep, CutOffStep, ReadFailsStep DEF Read
<1>9. CASE ConnectionLost
  BY <1>9, ConnectionLostStep
<1>10. CASE UNCHANGED vars
  <2>1. /\ obj' = obj /\ outstanding' = outstanding /\ stream' = stream /\ commands' = commands
        /\ wanted' = wanted /\ dying' = dying /\ inMulti' = inMulti /\ multiFrom' = multiFrom
        /\ held' = held /\ refusals' = refusals /\ broken' = broken /\ careless' = careless /\ orphaned' = orphaned
    BY <1>10 DEF vars, readVars, multiVars, flags
  <2>2. Types'
    BY <2>1 DEF IInv, Types, Objects
  <2>3. OwnAnswer' /\ Wanted'
    BY <2>1 DEF IInv, OwnAnswer, Wanted, Unread, Queued
  <2>4. Sound' => InStep'
    BY <2>1 DEF IInv, Sound, InStep, Statuses, Ordered, Begun, Before, During, Unread, Queued, Duties
  <2> QED
    BY <2>2, <2>3, <2>4 DEF IInv
<1> QED
  BY <1>1, <1>2, <1>3, <1>4, <1>5, <1>6, <1>7, <1>8, <1>9, <1>10, <1>11 DEF Next

\* The invariant that the properties rest on: while nothing has gone wrong, the
\* answers that are still to come are those of the unread replies, and no others.
THEOREM Invariant == Spec => []IInv
  BY IInvInit, IInvStep, PTL DEF Spec

\* A reply, or an element of it, is the answer to its own command, all of it unless
\* the connection was lost in its body.
THEOREM OwnAnswerHolds == Spec => []OwnAnswer
<1>1. IInv => OwnAnswer
  BY DEF IInv
<1> QED
  BY Invariant, <1>1, PTL

\* The reply objects, the list and the stream are what their declarations say: no
\* object that waits for its answer is missing in the list, no dead one stands there,
\* and none stands there twice.
THEOREM TypeCorrect == Spec => []TypeOK
<1>1. ASSUME IInv PROVE TypeOK
  <2>0. Types /\ OwnAnswer
    BY <1>1 DEF IInv
  <2>1. ASSUME NEW o \in Replies
        PROVE  /\ obj[o].kind \in Kinds \cup {"none"}
               /\ obj[o].command \in 0 .. commands
               /\ obj[o].value \in 0 .. commands \cup {Torn}
               /\ obj[o].count \in 0 .. MaxElements
               /\ obj[o].pending \in Seq(1 .. commands \cup {Torn})
               /\ obj[o].kind = "none" => obj[o] = NoObject
               /\ obj[o].conn => \E i \in DOMAIN outstanding : outstanding[i] = o
    <3>1. /\ obj[o] \in Reply /\ obj[o].kind \in Kinds \cup {"none"}
          /\ obj[o].count \in 0 .. MaxElements /\ obj[o].pending \in Seq(Nat)
      BY <2>0, ReplyFields
    <3>2. /\ obj[o].kind = "none" => obj[o] = NoObject
          /\ obj[o].kind # "none" => obj[o].command \in 1 .. commands
          /\ commands \in Nat
      BY <2>0, RedisAssumption DEF Types, Objects
    <3>3. obj[o].command \in 0 .. commands
      BY <3>2, NoObjectIs
    <3>4. obj[o].value \in 0 .. commands \cup {Torn}
      BY <2>0, <3>2, <3>3 DEF OwnAnswer, Owns
    <3>5. obj[o].pending \in Seq(1 .. commands \cup {Torn})
      <4>1. CASE obj[o].kind = "none"
        BY <3>2, <4>1, NoObjectIs, EmptySeq
      <4>2. CASE obj[o].kind # "none"
        <5> DEFINE q == obj[o].pending
        <5>1. q \in Seq(Nat) /\ \A i \in 1 .. Len(q) : q[i] \in 1 .. commands \cup {Torn}
          BY <2>0, <3>1, <3>2, <4>2, LenProperties DEF OwnAnswer, Owns
        <5> HIDE DEF q
        <5>2. PICK S, n : S = 1 .. commands \cup {Torn} /\ n = Len(q)
          OBVIOUS
        <5>3. q \in [1 .. n -> S] /\ n \in Nat
          BY <5>1, <5>2, LenProperties
        <5>4. q \in Seq(S)
          BY <5>3
        <5> QED
          BY <5>2, <5>4 DEF q
      <4> QED
        BY <4>1, <4>2
    <3>6. obj[o].conn => \E i \in DOMAIN outstanding : outstanding[i] = o
      <4>1. outstanding \in Seq(Replies) /\ (obj[o].conn => o \in In(outstanding))
        BY <2>0 DEF Types, Objects
      <4> QED
        BY <4>1, LenProperties DEF In
    <3> QED
      BY <3>1, <3>2, <3>3, <3>4, <3>5, <3>6
  <2>2. /\ \A i \in DOMAIN outstanding : obj[outstanding[i]].kind # "none"
        /\ \A i, j \in DOMAIN outstanding : outstanding[i] = outstanding[j] => i = j
    <3>1. outstanding \in Seq(Replies)
      BY <2>0 DEF Types, Objects
    <3>2. DOMAIN outstanding = 1 .. Len(outstanding)
      BY <3>1, LenProperties
    <3> QED
      BY <2>0, <3>2 DEF Types, Objects, Single, In
  <2>3. /\ stream \in Seq(Item) /\ held \in Seq(Item)
        /\ commands \in 0 .. MaxCommands /\ multiFrom \in 0 .. commands
        /\ refusals \subseteq 1 .. commands
        /\ wanted \in Replies \cup {NoReply}
    BY <2>0 DEF Types
  <2>4. <<dying, inMulti, broken, careless, orphaned>> \in [1 .. 5 -> BOOLEAN]
    BY <2>0 DEF Types
  <2> QED
    BY <2>1, <2>2, <2>3, <2>4 DEF TypeOK
<1> QED
  BY Invariant, <1>1, PTL

\* Answers that come in pieces, one after the other.
LEMMA JoinPieces ==
    ASSUME NEW q \in Seq(Item), NEW a \in Seq(Item), InPieces(q), InPieces(a),
           \A i \in 1 .. Len(q), j \in 1 .. Len(a) :
              q[i].command # 0 /\ a[j].command # 0 => q[i].command < a[j].command
    PROVE  InPieces(q \o a)
<1> DEFINE r == q \o a
           l == Len(q)
<1>1. /\ l \in Nat /\ Len(a) \in Nat
      /\ \A i \in 1 .. l : q[i].command \in Nat /\ q[i].more \in Nat
      /\ \A i \in 1 .. Len(a) : a[i].command \in Nat /\ a[i].more \in Nat
  BY ItemFields
<1>2. /\ Len(r) = l + Len(a)
      /\ \A i \in 1 .. l : r[i] = q[i]
      /\ \A i \in 1 .. Len(a) : r[l + i] = a[i]
  BY ConcatIs
<1>3. /\ \A i, j \in 1 .. l : i < j /\ q[i].command # 0 /\ q[j].command # 0 =>
            \/ q[i].command < q[j].command
            \/ q[i].command = q[j].command /\ q[i].more = q[j].more + (j - i)
      /\ \A i \in 1 .. l : \A k \in i .. i + q[i].more : k <= l /\ q[k].command = q[i].command
      /\ \A i \in 1 .. l : q[i].says # "value" => q[i].more = 0
  BY DEF InPieces
<1>4. \A i \in 1 .. l, j \in 1 .. Len(a) :
         q[i].command # 0 /\ a[j].command # 0 => q[i].command < a[j].command
  OBVIOUS
<1> HIDE DEF r, l
<1>5. ASSUME NEW i \in 1 .. Len(r)
      PROVE  \/ i \in 1 .. l /\ r[i] = q[i]
             \/ i - l \in 1 .. Len(a) /\ r[i] = a[i - l] /\ i > l
  <2>1. CASE i <= l
    BY <1>1, <1>2, <2>1
  <2>2. CASE i > l
    <3>1. i - l \in 1 .. Len(a) /\ l + (i - l) = i
      BY <1>1, <1>2, <2>2
    <3> QED
      BY <1>2, <2>2, <3>1
  <2> QED
    BY <1>1, <2>1, <2>2
<1>6. ASSUME NEW i \in 1 .. Len(r), NEW j \in 1 .. Len(r), i < j, r[i].command # 0, r[j].command # 0
      PROVE  \/ r[i].command < r[j].command
             \/ r[i].command = r[j].command /\ r[i].more = r[j].more + (j - i)
  <2>1. CASE i \in 1 .. l /\ r[i] = q[i] /\ j \in 1 .. l /\ r[j] = q[j]
    BY <1>3, <1>6, <2>1
  <2>2. CASE i \in 1 .. l /\ r[i] = q[i] /\ j - l \in 1 .. Len(a) /\ r[j] = a[j - l]
    BY <1>4, <1>6, <2>2
  <2>3. CASE i - l \in 1 .. Len(a) /\ r[i] = a[i - l] /\ j - l \in 1 .. Len(a) /\ r[j] = a[j - l]
    <3>1. i - l < j - l /\ (j - l) - (i - l) = j - i
      BY <1>1, <1>6
    <3>2. \/ a[i - l].command < a[j - l].command
          \/ a[i - l].command = a[j - l].command /\ a[i - l].more = a[j - l].more + ((j - l) - (i - l))
      BY <1>6, <2>3, <3>1 DEF InPieces
    <3> QED
      BY <2>3, <3>1, <3>2
  <2>4. CASE i > l /\ j \in 1 .. l
    BY <1>1, <1>6, <2>4
  <2> QED
    BY <1>5, <2>1, <2>2, <2>3, <2>4
<1>7. ASSUME NEW i \in 1 .. Len(r), NEW k \in i .. i + r[i].more
      PROVE  k <= Len(r) /\ r[k].command = r[i].command
  <2>1. CASE i \in 1 .. l /\ r[i] = q[i]
    <3>1. k <= l /\ q[k].command = q[i].command
      BY <1>3, <1>7, <2>1
    <3>2. k \in 1 .. l
      BY <1>1, <1>7, <2>1, <3>1
    <3> QED
      BY <1>1, <1>2, <2>1, <3>1, <3>2
  <2>2. CASE i - l \in 1 .. Len(a) /\ r[i] = a[i - l] /\ i > l
    <3>1. k - l \in (i - l) .. (i - l) + a[i - l].more
      BY <1>1, <1>7, <2>2
    <3>2. k - l <= Len(a) /\ a[k - l].command = a[i - l].command
      BY <2>2, <3>1 DEF InPieces
    <3>3. k - l \in 1 .. Len(a) /\ l + (k - l) = k /\ k <= Len(r)
      BY <1>1, <1>2, <1>7, <2>2, <3>1, <3>2
    <3> QED
      BY <1>2, <2>2, <3>2, <3>3
  <2> QED
    BY <1>5, <2>1, <2>2
<1>8. ASSUME NEW i \in 1 .. Len(r), r[i].says # "value" PROVE r[i].more = 0
  BY <1>3, <1>5, <1>8 DEF InPieces
<1>9. InPieces(r)
  BY <1>6, <1>7, <1>8 DEF InPieces
<1> QED
  BY <1>9 DEF r

\* Of the answers that are still to be read, one and no more ends for each unread
\* reply, they come in the order of the list, and nothing else comes.
THEOREM InOrderHolds == Spec => []InOrder
<1>1. ASSUME IInv PROVE InOrder
  <2> SUFFICES ASSUME Sound PROVE InOrder
    BY DEF Sound, InOrder
  <2>0. /\ Types /\ InStep /\ stream \in Seq(Item) /\ held \in Seq(Item)
        /\ Serves(stream, Duties(obj, Before)) /\ Serves(held, Duties(obj, During))
        /\ Ordered /\ \A i \in 1 .. Len(held) : held[i].command # 0
    BY <1>1 DEF IInv, InStep, Statuses, Types
  <2> DEFINE r == stream \o held
             l == Len(stream)
             ends(o) == {i \in DOMAIN r : r[i].command = obj[o].command /\ r[i].more = 0}
             Coming == {o \in Replies : Unread(o) /\ obj[o].command \notin refusals}
  <2>1. /\ l \in Nat /\ Len(held) \in Nat /\ r \in Seq(Item) /\ Len(r) = l + Len(held)
        /\ \A i \in 1 .. l : r[i] = stream[i]
        /\ \A i \in 1 .. Len(held) : r[l + i] = held[i]
    BY <2>0, ConcatIs, LenProperties
  <2>2. DOMAIN r = 1 .. Len(r) /\ \A i \in 1 .. Len(r) : r[i].command \in Nat /\ r[i].more \in Nat
    BY <2>1, LenProperties, ItemFields
  <2>3. /\ Coming \subseteq Before \cup During /\ Before \cup During \subseteq {o \in Replies : Unread(o)}
        /\ \A o \in Coming : o \in Replies /\ Unread(o)
    BY DEF Before, During
  <2>4. \A o \in Replies : Duty(obj[o]).command = obj[o].command /\ obj[o].command \in Nat
    BY <2>0, DutyIs, ReplyFields
  <2>5. \A o \in Before, p \in During : obj[o].command < obj[p].command
    <3> SUFFICES ASSUME NEW o \in Before, NEW p \in During PROVE obj[o].command < obj[p].command
      OBVIOUS
    <3>1. inMulti /\ ~ (obj[o].command > multiFrom) /\ obj[p].command > multiFrom
      BY BeforeIs DEF Queued
    <3>2. obj[o].command \in Nat /\ obj[p].command \in Nat /\ multiFrom \in Nat
      BY <2>0, <2>3, <2>4, RedisAssumption DEF Types
    <3> QED
      BY <3>1, <3>2
  <2>6. /\ \A i \in 1 .. l : stream[i].command # 0 =>
              \E o \in Before : obj[o].command = stream[i].command
        /\ \A i \in 1 .. Len(held) : \E o \in During : obj[o].command = held[i].command
    <3>1. ASSUME NEW i \in 1 .. l, stream[i].command # 0
          PROVE  \E o \in Before : obj[o].command = stream[i].command
      <4>1. PICK d \in Duties(obj, Before) : d.command = stream[i].command
        BY <2>0, <3>1 DEF Serves
      <4>2. PICK o \in Before : d = Duty(obj[o])
        BY DEF Duties
      <4> QED
        BY <2>3, <2>4, <4>1, <4>2
    <3>2. ASSUME NEW i \in 1 .. Len(held) PROVE \E o \in During : obj[o].command = held[i].command
      <4>1. PICK d \in Duties(obj, During) : d.command = held[i].command
        BY <2>0 DEF Serves
      <4>2. PICK o \in During : d = Duty(obj[o])
        BY DEF Duties
      <4> QED
        BY <2>3, <2>4, <4>1, <4>2
    <3> QED
      BY <3>1, <3>2
  <2>7. InPieces(r)
    <3>1. \A i \in 1 .. Len(stream), j \in 1 .. Len(held) :
             stream[i].command # 0 /\ held[j].command # 0 => stream[i].command < held[j].command
      BY <2>5, <2>6
    <3> QED
      BY <2>0, <3>1, JoinPieces DEF Serves
  <2>8. ASSUME NEW o \in Coming
        PROVE  obj[o].command # 0 /\ \E i \in 1 .. Len(r) : r[i].command = obj[o].command
    <3>1. CASE o \in Before
      <4>1. Duty(obj[o]) \in Duties(obj, Before)
        BY <3>1 DEF Duties
      <4>2. PICK i \in 1 .. l : stream[i].command = obj[o].command
        BY <2>0, <2>4, <4>1 DEF Serves
      <4>3. i \in 1 .. Len(r)
        BY <2>1
      <4> QED
        BY <2>0, <2>1, <2>4, <4>1, <4>2, <4>3 DEF Serves
    <3>2. CASE o \in During
      <4>1. Duty(obj[o]) \in Duties(obj, During)
        BY <3>2 DEF Duties
      <4>2. PICK i \in 1 .. Len(held) : held[i].command = obj[o].command
        BY <2>0, <2>4, <4>1 DEF Serves
      <4>3. l + i \in 1 .. Len(r) /\ r[l + i] = held[i]
        BY <2>1
      <4>4. obj[o].command # 0
        BY <2>0, <2>4, <4>1 DEF Serves
      <4> QED
        BY <4>2, <4>3, <4>4
    <3> QED
      BY <2>3, <3>1, <3>2
  <2>9. \A i \in 1 .. Len(r) : r[i].command # 0 =>
           \E o \in Replies : Unread(o) /\ obj[o].command = r[i].command
    <3> SUFFICES ASSUME NEW i \in 1 .. Len(r), r[i].command # 0
                 PROVE  \E o \in Replies : Unread(o) /\ obj[o].command = r[i].command
      OBVIOUS
    <3>1. \/ \E j \in 1 .. l : r[i] = stream[j]
          \/ \E j \in 1 .. Len(held) : r[i] = held[j]
      BY <2>0, ConcatItems
    <3> QED
      BY <2>3, <2>6, <3>1
  <2> HIDE DEF r, l, Coming
  <2>10. \A i, j \in 1 .. Len(r) : i < j /\ r[i].command # 0 /\ r[j].command # 0 =>
            \/ r[i].command < r[j].command
            \/ r[i].command = r[j].command /\ r[i].more = r[j].more + (j - i)
    BY <2>7 DEF InPieces
  <2>11. ASSUME NEW o \in Coming PROVE \E i \in DOMAIN r : ends(o) = {i}
    <3>1. PICK k \in 1 .. Len(r) : r[k].command = obj[o].command
      BY <2>8
    <3>2. PICK i : i = k + r[k].more
      OBVIOUS
    <3>3. i \in 1 .. Len(r) /\ r[i].command = obj[o].command
      <4>1. i \in k .. k + r[k].more /\ k \in Nat /\ k >= 1 /\ r[k].more \in Nat
        BY <2>2, <3>2
      <4>2. i <= Len(r) /\ r[i].command = r[k].command
        BY <2>7, <4>1 DEF InPieces
      <4>3. Len(r) \in Nat
        BY <2>1
      <4> QED
        BY <3>1, <3>2, <4>1, <4>2, <4>3
    <3>4. r[i].more = 0
      <4>1. CASE i = k
        BY <2>2, <3>2, <4>1
      <4>2. CASE i # k
        <5>1. k < i /\ r[k].more \in Nat /\ r[i].more \in Nat /\ i - k = r[k].more
          BY <2>2, <3>2, <3>3, <4>2
        <5>2. r[k].more = r[i].more + (i - k)
          BY <2>2, <2>8, <2>10, <3>1, <3>3, <5>1
        <5> QED
          BY <5>1, <5>2
      <4> QED
        BY <4>1, <4>2
    <3>5. ASSUME NEW j \in 1 .. Len(r), r[j].command = obj[o].command, r[j].more = 0 PROVE j = i
      <4>1. CASE j < i
        <5>0. r[j].command # 0 /\ r[i].command # 0 /\ r[j].command = r[i].command /\ r[i].command \in Nat
          BY <2>2, <2>8, <3>3, <3>5
        <5>1. r[j].more = r[i].more + (i - j)
          BY <2>10, <3>3, <3>5, <4>1, <5>0
        <5> QED
          BY <3>3, <3>4, <3>5, <4>1, <5>1
      <4>2. CASE i < j
        <5>1. r[i].more = r[j].more + (j - i)
          BY <2>2, <2>8, <2>10, <3>3, <3>5, <4>2
        <5> QED
          BY <3>3, <3>4, <3>5, <4>2, <5>1
      <4> QED
        BY <3>3, <4>1, <4>2
    <3>6. ends(o) = {i}
      BY <2>2, <3>3, <3>4, <3>5
    <3> QED
      BY <2>2, <3>3, <3>6
  <2>12. \A o \in Replies : Unread(o) /\ obj[o].command \notin refusals =>
            \E i \in DOMAIN r : ends(o) = {i}
    BY <2>11 DEF Coming
  <2>13. \A i \in DOMAIN r : r[i].command # 0 =>
            \E o \in Replies : Unread(o) /\ obj[o].command = r[i].command
    BY <2>2, <2>9
  <2>14. ASSUME NEW i \in DOMAIN outstanding, NEW j \in DOMAIN outstanding,
                i < j, Unread(outstanding[i]), Unread(outstanding[j]),
                NEW x \in ends(outstanding[i]), NEW y \in ends(outstanding[j])
         PROVE  x < y
    <3>1. outstanding \in Seq(Replies)
      BY <2>0 DEF Types, Objects
    <3>2. PICK o, p \in Replies : o = outstanding[i] /\ p = outstanding[j]
      BY <3>1, LenProperties, ElementOfSeq
    <3>3. Precedes(outstanding, o, p) /\ Unread(o) /\ Unread(p)
      BY <2>14, <3>1, <3>2, LenProperties DEF Precedes
    <3>4. obj[o].command < obj[p].command
      BY <2>0, <3>3 DEF Ordered
    <3>5. /\ x \in 1 .. Len(r) /\ r[x].command = obj[o].command
          /\ y \in 1 .. Len(r) /\ r[y].command = obj[p].command
      BY <2>2, <3>2
    <3>6. obj[o].command \in Nat /\ obj[p].command \in Nat /\ obj[o].command # 0 /\ obj[p].command # 0
      <4>1. obj[o].command \in 1 .. commands /\ obj[p].command \in 1 .. commands /\ commands \in Nat
        BY <2>0, <3>3, UnreadIs, RedisAssumption DEF Types
      <4> QED
        BY <4>1
    <3>7. ASSUME y <= x PROVE FALSE
      <4>1. CASE x = y
        BY <3>4, <3>5, <3>6, <4>1
      <4>2. CASE y < x
        BY <2>10, <3>4, <3>5, <3>6, <4>2
      <4> QED
        BY <3>5, <3>7, <4>1, <4>2
    <3> QED
      BY <3>5, <3>7
  <2> HIDE DEF ends
  <2> QED
    BY <2>12, <2>13, <2>14 DEF InOrder, r, ends
<1> QED
  BY Invariant, <1>1, PTL

=============================================================================
