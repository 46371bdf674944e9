--------------------------- MODULE RecvPacketProofs ---------------------------
(***************************************************************************)
(* Proofs about RecvPacket, for all streams of packets and all lengths of  *)
(* the fields: where a receive may write, for any number of pieces a field *)
(* arrives in; what the handlers get, and when a connection ends, for      *)
(* fields that arrive in one piece or in two.                              *)
(***************************************************************************)
EXTENDS Integers, RecvPacket, SequenceTheorems, WellFoundedInduction, TLAPS

\* The receive that is outstanding is one for the rest of the field, and lies in
\* the field.
FieldInv ==
    /\ size \in Nat
    /\ bytesToRecv \in 0 .. size
    /\ wsaBuf \in [off : Nat, len : Nat]
    /\ wsaBuf.len = bytesToRecv
    /\ wsaBuf.off + wsaBuf.len <= size

FieldSet == [len : Nat, value : Nat]

LEMMA ReadIsNat ==
    ASSUME sent.fields \in Seq(FieldSet), NEW bytes
    PROVE  ValuesRead(bytes) \subseteq Nat
<1>1. ASSUME NEW g \in DOMAIN sent.fields PROVE sent.fields[g].value \in Nat
  <2>1. sent.fields[g] \in FieldSet
    BY ElementOfSeq, LenProperties
  <2> QED
    BY <2>1 DEF FieldSet
<1>2. 0 .. BufSize + 1 \subseteq Nat
  BY RecvPacketAssumption
<1> QED
  BY <1>1, <1>2 DEF ValuesRead

\* A receive for a new field is one for all of it.
LEMMA NetRecvField ==
    ASSUME NEW state, NEW len \in Nat, NetRecv(state, len)
    PROVE  FieldInv'
  BY RecvPacketAssumption DEF NetRecv, FieldInv

LEMMA PacketDoneField == ASSUME NEW fields, PacketDone(fields) PROVE FieldInv'
<1>1. HeaderLen \in Nat
  BY RecvPacketAssumption
<1> QED
  BY <1>1, NetRecvField DEF PacketDone, NetRecvPacket

\* The steps that move no bytes.
Other == ZeroBytes \/ ConnectionReset \/ PingTimeout \/ Send \/ Dropped

LEMMA FieldStep ==
    ASSUME FieldInv, sent.fields \in Seq(FieldSet), [Next]_vars
    PROVE  FieldInv' /\ sent' = sent
<1>0. NameLen \in Nat /\ SizeLen \in Nat /\ BufSize \in Nat
  BY RecvPacketAssumption
<1>1. ASSUME NEW n \in 1 .. BufSize, ShortRead(n) PROVE FieldInv' /\ sent' = sent
  <2>1. n <= wsaBuf.len /\ n < bytesToRecv
    BY <1>1 DEF ShortRead, Completion
  <2>2. /\ wsaBuf' = [off |-> n, len |-> bytesToRecv - n]
        /\ bytesToRecv' = bytesToRecv - n /\ size' = size /\ sent' = sent
    BY <1>1 DEF ShortRead
  <2> QED
    BY <1>0, <2>1, <2>2 DEF FieldInv
<1>2. ASSUME NEW n \in 1 .. BufSize, HeaderDone(n) PROVE FieldInv' /\ sent' = sent
  <2>1. PICK c \in ValuesRead(Content(n)) :
            PacketDone(<<Content(n)>>) \/ NetRecv("DATANAME", NameLen)
    BY <1>2 DEF HeaderDone
  <2>2. sent' = sent
    BY <1>2 DEF HeaderDone, FieldDone
  <2> QED
    BY <1>0, <2>1, <2>2, PacketDoneField, NetRecvField
<1>3. ASSUME NEW n \in 1 .. BufSize, DataNameDone(n) PROVE FieldInv' /\ sent' = sent
  BY <1>0, <1>3, NetRecvField DEF DataNameDone, FieldDone
<1>4. ASSUME NEW n \in 1 .. BufSize, DataSizeDone(n) PROVE FieldInv' /\ sent' = sent
  <2>1. PICK len \in ValuesRead(Content(n)) : NetRecv("DATA", len)
    BY <1>4 DEF DataSizeDone
  <2>2. sent' = sent
    BY <1>4 DEF DataSizeDone, FieldDone
  <2> QED
    BY <2>1, <2>2, ReadIsNat, NetRecvField
<1>5. ASSUME NEW n \in 1 .. BufSize, DataDone(n) PROVE FieldInv' /\ sent' = sent
  <2>1. PacketDone(Append(packet, Content(n))) \/ NetRecv("DATANAME", NameLen)
    BY <1>5 DEF DataDone
  <2>2. sent' = sent
    BY <1>5 DEF DataDone, FieldDone
  <2> QED
    BY <1>0, <2>1, <2>2, PacketDoneField, NetRecvField
<1>6. CASE Other \/ UNCHANGED vars
  BY <1>6 DEF Other, ZeroBytes, ConnectionReset, PingTimeout, TearDown, Send, Dropped,
              vars, ioVars, FieldInv
<1> QED
  BY <1>1, <1>2, <1>3, <1>4, <1>5, <1>6 DEF Next, Other, Receive


-----------------------------------------------------------------------------
(* Induction over the numbers, and what FlattenSeq makes of a sequence.     *)

LEMMA Least == ASSUME NEW T \in SUBSET Nat, T # {} PROVE \E x \in T : \A y \in T : x <= y
<1>1. IsWellFoundedOn(OpToRel(<, Nat), Nat)
  BY NatLessThanWellFounded
<1>2. \A x, y \in Nat : <<x, y>> \in OpToRel(<, Nat) <=> x < y
  BY DEF OpToRel
<1>3. PICK R : IsWellFoundedOn(R, Nat) /\ \A x, y \in Nat : <<x, y>> \in R <=> x < y
  BY <1>1, <1>2
<1>4. PICK x \in T : \A y \in T : ~ (<<y, x>> \in R)
  <2>1. T \subseteq Nat
    OBVIOUS
  <2>2. IsWellFoundedOn(R, Nat)
    BY <1>3
  <2> QED
    BY <2>1, <2>2, WFMin
<1>5. \A y \in T : ~ (y < x)
  BY <1>3, <1>4
<1> QED
  BY <1>5

LEMMA SetInduction ==
    ASSUME NEW T \in SUBSET Nat, 0 \in T, \A n \in T : n + 1 \in T
    PROVE  \A n \in Nat : n \in T
<1> SUFFICES ASSUME Nat \ T # {} PROVE FALSE
  OBVIOUS
<1>1. PICK x \in Nat \ T : \A y \in Nat \ T : x <= y
  <2> (Nat \ T) \in SUBSET Nat
    OBVIOUS
  <2> QED
    BY Least
<1>2. x - 1 \in T
  BY <1>1
<1> QED
  BY <1>1, <1>2

\* f flattens the first n of the sequences in q, one after the other.
Flattens(f, q, n) == \A i \in 1 .. n : f[i] = IF i = 1 THEN q[i] ELSE f[i - 1] \o q[i]

LEMMA FlattensExists ==
    ASSUME NEW S, NEW q \in Seq(Seq(S))
    PROVE  \A n \in 0 .. Len(q) : \E f \in [1 .. n -> Seq(S)] : Flattens(f, q, n)
<1> DEFINE T == {n \in Nat : n <= Len(q) => \E f \in [1 .. n -> Seq(S)] : Flattens(f, q, n)}
<1>0. Len(q) \in Nat /\ \A i \in 1 .. Len(q) : q[i] \in Seq(S)
  BY ElementOfSeq
<1>1. 0 \in T
  <2>1. [i \in 1 .. 0 |-> << >>] \in [1 .. 0 -> Seq(S)]
    OBVIOUS
  <2>2. 1 .. 0 = {}
    OBVIOUS
  <2>3. Flattens([i \in 1 .. 0 |-> << >>], q, 0)
    BY <2>2 DEF Flattens
  <2> QED
    BY <2>1, <2>3
<1>2. ASSUME NEW n \in T PROVE n + 1 \in T
  <2> SUFFICES ASSUME n + 1 <= Len(q)
               PROVE  \E f \in [1 .. n + 1 -> Seq(S)] : Flattens(f, q, n + 1)
    OBVIOUS
  <2>1. PICK f \in [1 .. n -> Seq(S)] : Flattens(f, q, n)
    BY <1>0
  <2>2. q[n + 1] \in Seq(S)
    BY <1>0
  <2> DEFINE last == IF n + 1 = 1 THEN q[n + 1] ELSE f[n] \o q[n + 1]
             g == [i \in 1 .. n + 1 |-> IF i <= n THEN f[i] ELSE last]
  <2>3. last \in Seq(S)
    <3>1. CASE n = 0
      BY <2>2, <3>1
    <3>2. CASE n # 0
      <4>1. f[n] \in Seq(S)
        BY <3>2
      <4> QED
        BY <2>2, <3>2, <4>1, ConcatProperties
    <3> QED
      BY <3>1, <3>2
  <2> HIDE DEF last
  <2>4. g \in [1 .. n + 1 -> Seq(S)]
    BY <2>3
  <2>5. Flattens(g, q, n + 1)
    <3> SUFFICES ASSUME NEW i \in 1 .. n + 1
                 PROVE  g[i] = IF i = 1 THEN q[i] ELSE g[i - 1] \o q[i]
      BY DEF Flattens
    <3>1. CASE i <= n
      <4>1. g[i] = f[i] /\ (i # 1 => g[i - 1] = f[i - 1])
        BY <3>1
      <4>2. i \in 1 .. n
        BY <3>1
      <4>3. f[i] = IF i = 1 THEN q[i] ELSE f[i - 1] \o q[i]
        BY <2>1, <4>2 DEF Flattens
      <4> QED
        BY <4>1, <4>3
    <3>2. CASE i = n + 1
      <4>1. g[i] = last /\ (i # 1 => g[i - 1] = f[n])
        BY <3>2
      <4> QED
        BY <3>2, <4>1 DEF last
    <3> QED
      BY <3>1, <3>2
  <2> QED
    BY <2>4, <2>5
<1>3. \A n \in Nat : n \in T
  <2> HIDE DEF T
  <2>1. T \in SUBSET Nat
    BY DEF T
  <2> QED
    BY <1>1, <1>2, <2>1, SetInduction
<1> QED
  BY <1>0, <1>3

LEMMA FlattenIs ==
    ASSUME NEW S, NEW q \in Seq(Seq(S)), Len(q) > 0
    PROVE  \E f : Flattens(f, q, Len(q)) /\ FlattenSeq(q) = f[Len(q)]
<1> DEFINE R(f) == f = [i \in 1 .. Len(q) |-> IF i = 1 THEN q[i] ELSE f[i - 1] \o q[i]]
<1>1. \E f : R(f)
  <2>1. PICK f \in [1 .. Len(q) -> Seq(S)] : Flattens(f, q, Len(q))
    BY FlattensExists
  <2>2. R(f)
    BY <2>1 DEF Flattens
  <2> QED
    BY <2>2
<1> DEFINE f == CHOOSE f : R(f)
<1>2. R(f)
  <2> HIDE DEF R
  <2> QED BY <1>1
<1>3. FlattenSeq(q) = f[Len(q)]
  BY DEF FlattenSeq
<1> HIDE DEF f
<1>4. Flattens(f, q, Len(q))
  BY <1>2 DEF Flattens
<1> QED
  BY <1>3, <1>4

LEMMA FlattensSame ==
    ASSUME NEW q, NEW r, NEW n \in Nat, \A i \in 1 .. n : q[i] = r[i],
           NEW f, NEW g, Flattens(f, q, n), Flattens(g, r, n)
    PROVE  \A i \in 1 .. n : f[i] = g[i]
<1> DEFINE T == {i \in Nat : i \in 1 .. n => f[i] = g[i]}
<1>1. 0 \in T
  OBVIOUS
<1>2. ASSUME NEW i \in T PROVE i + 1 \in T
  <2> SUFFICES ASSUME i + 1 \in 1 .. n PROVE f[i + 1] = g[i + 1]
    OBVIOUS
  <2>1. /\ f[i + 1] = IF i + 1 = 1 THEN q[i + 1] ELSE f[(i + 1) - 1] \o q[i + 1]
        /\ g[i + 1] = IF i + 1 = 1 THEN r[i + 1] ELSE g[(i + 1) - 1] \o r[i + 1]
        /\ q[i + 1] = r[i + 1]
    BY DEF Flattens
  <2>2. i + 1 # 1 => i \in 1 .. n /\ (i + 1) - 1 = i
    OBVIOUS
  <2> QED
    BY <2>1, <2>2
<1>3. \A i \in Nat : i \in T
  <2> HIDE DEF T
  <2>1. T \in SUBSET Nat
    BY DEF T
  <2> QED
    BY <1>1, <1>2, <2>1, SetInduction
<1> QED
  BY <1>3

\* The first i sequences of q, one after the other.
Flat(q, i) == FlattenSeq(SubSeq(q, 1, i))

LEMMA FlatSteps ==
    ASSUME NEW S, NEW q \in Seq(Seq(S))
    PROVE  /\ Flat(q, 0) = << >>
           /\ \A i \in 1 .. Len(q) : Flat(q, i) = Flat(q, i - 1) \o q[i]
           /\ Flat(q, Len(q)) = FlattenSeq(q)
           /\ \A i \in 0 .. Len(q) : Flat(q, i) \in Seq(S)
<1>0. Len(q) \in Nat /\ \A i \in 1 .. Len(q) : q[i] \in Seq(S)
  BY ElementOfSeq
<1>1. Flat(q, 0) = << >>
  <2>1. SubSeq(q, 1, 0) = << >>
    BY SubSeqEmpty
  <2>2. FlattenSeq(<< >>) = << >>
    BY DEF FlattenSeq
  <2> QED
    BY <2>1, <2>2 DEF Flat
<1>2. PICK f \in [1 .. Len(q) -> Seq(S)] : Flattens(f, q, Len(q))
  BY <1>0, FlattensExists
<1>3. ASSUME NEW i \in 1 .. Len(q) PROVE Flat(q, i) = f[i]
  <2> DEFINE r == SubSeq(q, 1, i)
  <2>1. r \in Seq(Seq(S)) /\ Len(r) = i /\ \A j \in 1 .. i : r[j] = q[j]
    <3>1. \A j \in 1 .. i : q[j] \in Seq(S)
      BY <1>0
    <3> QED
      BY <1>0, <3>1, SubSeqProperties
  <2> HIDE DEF r
  <2>2. PICK g : Flattens(g, r, i) /\ FlattenSeq(r) = g[i]
    BY <1>0, <2>1, FlattenIs
  <2>3. Flattens(f, q, i)
    <3>1. 1 .. i \subseteq 1 .. Len(q)
      BY <1>0
    <3> QED
      BY <1>2, <3>1 DEF Flattens
  <2>4. g[i] = f[i]
    <3>1. i \in Nat /\ i \in 1 .. i
      OBVIOUS
    <3>2. \A j \in 1 .. i : r[j] = q[j]
      BY <2>1
    <3>3. \A j \in 1 .. i : g[j] = f[j]
      BY <2>2, <2>3, <3>1, <3>2, FlattensSame
    <3> QED
      BY <3>1, <3>3
  <2> QED
    BY <2>2, <2>4 DEF Flat, r
<1>4. ASSUME NEW i \in 1 .. Len(q) PROVE Flat(q, i) = Flat(q, i - 1) \o q[i]
  <2>1. f[i] = IF i = 1 THEN q[i] ELSE f[i - 1] \o q[i]
    BY <1>2 DEF Flattens
  <2>2. CASE i = 1
    <3>1. << >> \o q[i] = q[i]
      BY <1>0, ConcatEmptySeq
    <3> QED
      BY <1>1, <1>3, <2>1, <2>2, <3>1
  <2>3. CASE i # 1
    <3>1. i - 1 \in 1 .. Len(q)
      BY <1>0, <2>3
    <3> QED
      BY <1>3, <2>1, <2>3, <3>1
  <2> QED
    BY <2>2, <2>3
<1>5. Flat(q, Len(q)) = FlattenSeq(q)
  BY SubSeqFull DEF Flat
<1>6. ASSUME NEW i \in 0 .. Len(q) PROVE Flat(q, i) \in Seq(S)
  <2>1. CASE i = 0
    <3>1. << >> \in Seq(S)
      OBVIOUS
    <3> QED
      BY <1>1, <2>1, <3>1
  <2>2. CASE i # 0
    <3>1. i \in 1 .. Len(q)
      BY <1>0, <2>2
    <3>2. f[i] \in Seq(S)
      BY <1>2, <3>1
    <3> QED
      BY <1>3, <3>1, <3>2
  <2> QED
    BY <2>1, <2>2
<1> QED
  BY <1>1, <1>4, <1>5, <1>6

LEMMA Inside ==
    ASSUME NEW a \in Nat, NEW n \in Nat, NEW b \in Nat, a + n <= b, NEW k \in 1 .. n
    PROVE  a + k \in 1 .. b /\ a + k <= a + n
  OBVIOUS

\* FlattenSeq lays the sequences of q out one after the other.
LEMMA Layout ==
    ASSUME NEW S, NEW q \in Seq(Seq(S))
    PROVE  /\ FlattenSeq(q) \in Seq(S)
           /\ Len(FlattenSeq(q)) = Len(Flat(q, Len(q)))
           /\ Len(Flat(q, 0)) = 0
           /\ \A i \in 0 .. Len(q) : Len(Flat(q, i)) \in Nat /\ Len(Flat(q, i)) <= Len(FlattenSeq(q))
           /\ \A i \in 1 .. Len(q) :
                 /\ Len(Flat(q, i)) = Len(Flat(q, i - 1)) + Len(q[i])
                 /\ \A k \in 1 .. Len(q[i]) :
                       /\ Len(Flat(q, i - 1)) + k \in 1 .. Len(FlattenSeq(q))
                       /\ FlattenSeq(q)[Len(Flat(q, i - 1)) + k] = q[i][k]
<1>0. Len(q) \in Nat /\ \A i \in 1 .. Len(q) : q[i] \in Seq(S) /\ Len(q[i]) \in Nat
  BY ElementOfSeq, LenProperties
<1>1. /\ Flat(q, 0) = << >>
      /\ \A i \in 1 .. Len(q) : Flat(q, i) = Flat(q, i - 1) \o q[i]
      /\ Flat(q, Len(q)) = FlattenSeq(q)
      /\ \A i \in 0 .. Len(q) : Flat(q, i) \in Seq(S)
  BY FlatSteps
<1>2. \A i \in 0 .. Len(q) : Len(Flat(q, i)) \in Nat
  BY <1>1, LenProperties
<1>3. ASSUME NEW i \in 1 .. Len(q)
      PROVE  /\ i - 1 \in 0 .. Len(q)
             /\ Len(Flat(q, i)) = Len(Flat(q, i - 1)) + Len(q[i])
             /\ \A k \in 1 .. Len(Flat(q, i)) :
                   Flat(q, i)[k] = IF k <= Len(Flat(q, i - 1)) THEN Flat(q, i - 1)[k]
                                   ELSE q[i][k - Len(Flat(q, i - 1))]
  <2>1. i - 1 \in 0 .. Len(q)
    BY <1>0
  <2>2. Flat(q, i - 1) \in Seq(S) /\ q[i] \in Seq(S)
    BY <1>0, <1>1, <2>1
  <2>3. Flat(q, i) = Flat(q, i - 1) \o q[i]
    BY <1>1
  <2>4. /\ Len(Flat(q, i - 1) \o q[i]) = Len(Flat(q, i - 1)) + Len(q[i])
        /\ \A k \in 1 .. Len(Flat(q, i - 1)) + Len(q[i]) :
              (Flat(q, i - 1) \o q[i])[k] = IF k <= Len(Flat(q, i - 1)) THEN Flat(q, i - 1)[k]
                                           ELSE q[i][k - Len(Flat(q, i - 1))]
    BY <2>2, ConcatProperties
  <2> QED
    BY <2>1, <2>3, <2>4
\* What was laid out stays where it is.
<1> DEFINE T == {n \in Nat : n <= Len(q) =>
                    /\ \A i \in 0 .. n : Len(Flat(q, i)) <= Len(Flat(q, n))
                    /\ \A i \in 1 .. n : \A k \in 1 .. Len(q[i]) :
                          Flat(q, n)[Len(Flat(q, i - 1)) + k] = q[i][k]}
<1>4. 0 \in T
  <2>1. 1 .. 0 = {} /\ 0 .. 0 = {0}
    OBVIOUS
  <2> QED
    BY <1>2, <2>1
<1>5. ASSUME NEW n \in T PROVE n + 1 \in T
  <2> SUFFICES ASSUME n + 1 <= Len(q)
               PROVE  /\ \A i \in 0 .. n + 1 : Len(Flat(q, i)) <= Len(Flat(q, n + 1))
                      /\ \A i \in 1 .. n + 1 : \A k \in 1 .. Len(q[i]) :
                            Flat(q, n + 1)[Len(Flat(q, i - 1)) + k] = q[i][k]
    OBVIOUS
  <2>0. /\ n \in Nat /\ n <= Len(q) /\ n + 1 \in 1 .. Len(q) /\ (n + 1) - 1 = n /\ n \in 0 .. Len(q)
        /\ Len(Flat(q, n)) \in Nat
    BY <1>0, <1>2
  <2>1. /\ \A i \in 0 .. n : Len(Flat(q, i)) <= Len(Flat(q, n))
        /\ \A i \in 1 .. n : \A k \in 1 .. Len(q[i]) :
              Flat(q, n)[Len(Flat(q, i - 1)) + k] = q[i][k]
    BY <2>0
  <2> HIDE DEF T
  <2>2. /\ Len(Flat(q, n + 1)) = Len(Flat(q, n)) + Len(q[n + 1]) /\ Len(q[n + 1]) \in Nat
        /\ \A k \in 1 .. Len(Flat(q, n + 1)) :
              Flat(q, n + 1)[k] = IF k <= Len(Flat(q, n)) THEN Flat(q, n)[k]
                                  ELSE q[n + 1][k - Len(Flat(q, n))]
    BY <1>0, <1>3, <2>0
  <2>3. ASSUME NEW i \in 0 .. n + 1 PROVE Len(Flat(q, i)) <= Len(Flat(q, n + 1))
    <3>1. CASE i = n + 1
      BY <1>2, <2>0, <3>1
    <3>2. CASE i # n + 1
      <4>1. i \in 0 .. n /\ i \in 0 .. Len(q)
        BY <2>0, <3>2
      <4>2. Len(Flat(q, i)) <= Len(Flat(q, n)) /\ Len(Flat(q, i)) \in Nat
        BY <1>2, <2>1, <4>1
      <4> QED
        BY <2>0, <2>2, <4>2
    <3> QED
      BY <3>1, <3>2
  <2>4. ASSUME NEW i \in 1 .. n + 1, NEW k \in 1 .. Len(q[i])
        PROVE  Flat(q, n + 1)[Len(Flat(q, i - 1)) + k] = q[i][k]
    <3>1. CASE i = n + 1
      <4>1. /\ Len(Flat(q, n)) + k \in 1 .. Len(Flat(q, n + 1)) /\ ~(Len(Flat(q, n)) + k <= Len(Flat(q, n)))
            /\ (Len(Flat(q, n)) + k) - Len(Flat(q, n)) = k /\ i - 1 = n
        BY <2>0, <2>2, <3>1
      <4> QED
        BY <2>2, <3>1, <4>1
    <3>2. CASE i # n + 1
      <4>1. i \in 1 .. n /\ i \in 1 .. Len(q) /\ i \in 0 .. n /\ i - 1 \in 0 .. Len(q)
        BY <2>0, <3>2
      <4>2. /\ Len(Flat(q, i)) = Len(Flat(q, i - 1)) + Len(q[i]) /\ Len(q[i]) \in Nat
            /\ Len(Flat(q, i)) <= Len(Flat(q, n)) /\ Len(Flat(q, i - 1)) \in Nat
        BY <1>0, <1>2, <1>3, <2>1, <4>1
      <4>3. Len(Flat(q, i - 1)) + k \in 1 .. Len(Flat(q, n + 1)) /\ Len(Flat(q, i - 1)) + k <= Len(Flat(q, n))
        <5> DEFINE a == Len(Flat(q, i - 1))
                   l == Len(q[i])
                   b == Len(Flat(q, n + 1))
                   c == Len(Flat(q, n))
        <5>1. a \in Nat /\ l \in Nat /\ b \in Nat /\ c \in Nat /\ k \in 1 .. l
          BY <2>0, <2>2, <4>2
        <5>2. a + l <= c
          BY <4>2
        <5>4. c <= b
          <6> DEFINE d == Len(q[n + 1])
          <6>1. b = c + d /\ d \in Nat
            BY <2>2
          <6> HIDE DEF b, c, d
          <6> QED
            BY <5>1, <6>1
        <5> HIDE DEF a, l, b, c
        <5>3. a + k \in 1 .. b /\ a + k <= c
          BY <5>1, <5>2, <5>4
        <5> QED
          BY <5>3 DEF a, b, c
      <4>4. Flat(q, n + 1)[Len(Flat(q, i - 1)) + k] = Flat(q, n)[Len(Flat(q, i - 1)) + k]
        BY <2>2, <4>3
      <4>5. Flat(q, n)[Len(Flat(q, i - 1)) + k] = q[i][k]
        BY <2>1, <4>1
      <4> QED
        BY <4>4, <4>5
    <3> QED
      BY <3>1, <3>2
  <2> QED
    BY <2>3, <2>4
<1>6. \A n \in Nat : n \in T
  <2> HIDE DEF T
  <2>1. T \in SUBSET Nat
    BY DEF T
  <2> QED
    BY <1>4, <1>5, <2>1, SetInduction
<1>7. /\ \A i \in 0 .. Len(q) : Len(Flat(q, i)) <= Len(FlattenSeq(q))
      /\ \A i \in 1 .. Len(q) : \A k \in 1 .. Len(q[i]) :
            FlattenSeq(q)[Len(Flat(q, i - 1)) + k] = q[i][k]
  <2>1. Len(q) \in T
    BY <1>0, <1>6
  <2> QED
    BY <1>0, <1>1, <2>1
<1> HIDE DEF T
<1>8. ASSUME NEW i \in 1 .. Len(q), NEW k \in 1 .. Len(q[i])
      PROVE  Len(Flat(q, i - 1)) + k \in 1 .. Len(FlattenSeq(q))
  <2>0. i \in 0 .. Len(q) /\ Len(q) \in 0 .. Len(q) /\ i - 1 \in 0 .. Len(q)
    BY <1>0
  <2>1. Len(q[i]) \in Nat /\ Len(Flat(q, i - 1)) \in Nat
    BY <1>0, <1>2, <2>0
  <2>2. Len(FlattenSeq(q)) \in Nat
    BY <1>1, <1>2, <2>0
  <2>3. Len(Flat(q, i - 1)) + Len(q[i]) <= Len(FlattenSeq(q))
    BY <1>3, <1>7, <2>0
  <2> QED
    BY <2>1, <2>2, <2>3, Inside
<1>9. Len(Flat(q, 0)) = 0
  BY <1>1
<1>10. FlattenSeq(q) \in Seq(S) /\ Len(FlattenSeq(q)) = Len(Flat(q, Len(q)))
  <2>1. Len(q) \in 0 .. Len(q)
    BY <1>0
  <2> QED
    BY <1>1, <2>1
<1> QED
  BY <1>2, <1>3, <1>7, <1>8, <1>9, <1>10

-----------------------------------------------------------------------------
(* What a client sends.                                                    *)

\* A packet of c data is a header and three fields for each of them.
LEMMA PacketFields ==
    ASSUME NEW p \in Seq(Nat)
    PROVE  /\ FieldsOf(p) \in Seq(FieldSet)
           /\ Len(FieldsOf(p)) = 1 + 3 * Len(p)
           /\ FieldsOf(p)[1] = Field(HeaderLen, Len(p))
           /\ \A j \in 1 .. Len(p) :
                 /\ FieldsOf(p)[3 * j - 1] = Field(NameLen, 0)
                 /\ FieldsOf(p)[3 * j] = Field(SizeLen, p[j])
                 /\ FieldsOf(p)[3 * j + 1] = Field(p[j], 0)
<1> DEFINE datum(j) == <<Field(NameLen, 0), Field(SizeLen, p[j]), Field(p[j], 0)>>
           q == [j \in DOMAIN p |-> datum(j)]
           header == <<Field(HeaderLen, Len(p))>>
           data == FlattenSeq(q)
<1>0. Len(p) \in Nat /\ DOMAIN p = 1 .. Len(p) /\ \A j \in 1 .. Len(p) : p[j] \in Nat
  <2>1. \A j \in 1 .. Len(p) : p[j] \in Nat
    BY ElementOfSeq
  <2> QED
    BY <2>1, LenProperties
<1>1. \A j \in 1 .. Len(p) : /\ datum(j) \in Seq(FieldSet) /\ Len(datum(j)) = 3
                             /\ datum(j)[1] = Field(NameLen, 0)
                             /\ datum(j)[2] = Field(SizeLen, p[j])
                             /\ datum(j)[3] = Field(p[j], 0)
  <2> SUFFICES ASSUME NEW j \in 1 .. Len(p)
               PROVE  datum(j) \in Seq(FieldSet)
    OBVIOUS
  <2>1. Field(NameLen, 0) \in FieldSet /\ Field(SizeLen, p[j]) \in FieldSet /\ Field(p[j], 0) \in FieldSet
    BY <1>0, RecvPacketAssumption DEF Field, FieldSet
  <2> QED
    BY <2>1
<1>2. header \in Seq(FieldSet) /\ Len(header) = 1 /\ header[1] = Field(HeaderLen, Len(p))
  <2>1. Field(HeaderLen, Len(p)) \in FieldSet
    BY <1>0, RecvPacketAssumption DEF Field, FieldSet
  <2> QED
    BY <2>1
<1> HIDE DEF datum, header
<1>3. q \in Seq(Seq(FieldSet)) /\ Len(q) = Len(p) /\ \A j \in 1 .. Len(p) : q[j] = datum(j)
  BY <1>0, <1>1
<1> HIDE DEF q
\* The data before datum j + 1 have 3 * j fields.
<1>4. \A j \in 0 .. Len(p) : Len(Flat(q, j)) = 3 * j
  <2> DEFINE T == {j \in Nat : j <= Len(p) => Len(Flat(q, j)) = 3 * j}
  <2>1. 0 \in T
    <3>1. Len(Flat(q, 0)) = 0
      BY <1>3, Layout
    <3> QED
      BY <3>1
  <2>2. ASSUME NEW j \in T PROVE j + 1 \in T
    <3> SUFFICES ASSUME j + 1 <= Len(p) PROVE Len(Flat(q, j + 1)) = 3 * (j + 1)
      OBVIOUS
    <3>1. j + 1 \in 1 .. Len(q) /\ (j + 1) - 1 = j /\ Len(Flat(q, j)) = 3 * j
      BY <1>0, <1>3
    <3>2. Len(Flat(q, j + 1)) = Len(Flat(q, j)) + Len(q[j + 1])
      BY <1>3, <3>1, Layout
    <3>3. Len(q[j + 1]) = 3
      BY <1>1, <1>3, <3>1
    <3> QED
      BY <3>1, <3>2, <3>3
  <2>3. \A j \in Nat : j \in T
    <3> HIDE DEF T
    <3>1. T \in SUBSET Nat
      BY DEF T
    <3> QED
      BY <2>1, <2>2, <3>1, SetInduction
  <2> QED
    BY <2>3
<1>5. data \in Seq(FieldSet) /\ Len(data) = 3 * Len(p)
  <2>1. Len(p) \in 0 .. Len(p)
    BY <1>0
  <2> QED
    BY <1>3, <1>4, <2>1, Layout
<1>6. ASSUME NEW j \in 1 .. Len(p), NEW k \in 1 .. 3
      PROVE  3 * (j - 1) + k \in 1 .. 3 * Len(p) /\ data[3 * (j - 1) + k] = datum(j)[k]
  <2>1. j \in 1 .. Len(q) /\ j - 1 \in 0 .. Len(p) /\ k \in 1 .. Len(q[j]) /\ q[j] = datum(j)
    BY <1>0, <1>1, <1>3
  <2>2. data[Len(Flat(q, j - 1)) + k] = q[j][k]
    BY <1>3, <2>1, Layout
  <2>3. Len(Flat(q, j - 1)) = 3 * (j - 1)
    BY <1>4, <2>1
  <2>4. 3 * (j - 1) + k \in 1 .. 3 * Len(p)
    BY <1>0
  <2> QED
    BY <2>1, <2>2, <2>3, <2>4
<1> HIDE DEF data
<1>7. FieldsOf(p) = header \o data
  BY DEF FieldsOf, header, data, q, datum
<1>8. /\ header \o data \in Seq(FieldSet) /\ Len(header \o data) = 1 + 3 * Len(p)
      /\ (header \o data)[1] = header[1]
      /\ \A k \in 1 .. 3 * Len(p) : (header \o data)[1 + k] = data[k]
  <2>1. /\ header \o data \in Seq(FieldSet) /\ Len(header \o data) = Len(header) + Len(data)
        /\ \A i \in 1 .. Len(header) + Len(data) :
              (header \o data)[i] = IF i <= Len(header) THEN header[i] ELSE data[i - Len(header)]
    BY <1>2, <1>5, ConcatProperties
  <2>2. ASSUME NEW k \in 1 .. 3 * Len(p) PROVE (header \o data)[1 + k] = data[k]
    <3>1. 1 + k \in 1 .. 1 + 3 * Len(p) /\ ~(1 + k <= 1) /\ (1 + k) - 1 = k
      BY <1>0
    <3> QED
      BY <1>2, <1>5, <2>1, <3>1
  <2>3. (header \o data)[1] = header[1]
    BY <1>0, <1>2, <1>5, <2>1
  <2> QED
    BY <1>2, <1>5, <2>1, <2>2, <2>3
<1>9. ASSUME NEW j \in 1 .. Len(p)
      PROVE  /\ FieldsOf(p)[3 * j - 1] = datum(j)[1]
             /\ FieldsOf(p)[3 * j] = datum(j)[2]
             /\ FieldsOf(p)[3 * j + 1] = datum(j)[3]
  <2>1. /\ 1 + (3 * (j - 1) + 1) = 3 * j - 1
        /\ 1 + (3 * (j - 1) + 2) = 3 * j
        /\ 1 + (3 * (j - 1) + 3) = 3 * j + 1
    OBVIOUS
  <2>2. /\ (header \o data)[1 + (3 * (j - 1) + 1)] = datum(j)[1]
        /\ (header \o data)[1 + (3 * (j - 1) + 2)] = datum(j)[2]
        /\ (header \o data)[1 + (3 * (j - 1) + 3)] = datum(j)[3]
    <3>1. ASSUME NEW k \in 1 .. 3 PROVE (header \o data)[1 + (3 * (j - 1) + k)] = datum(j)[k]
      BY <1>6, <1>8
    <3>2. 1 \in 1 .. 3 /\ 2 \in 1 .. 3 /\ 3 \in 1 .. 3
      OBVIOUS
    <3> QED
      BY <3>1, <3>2, Zenon
  <2> QED
    BY <1>7, <2>1, <2>2
<1> QED
  BY <1>1, <1>2, <1>7, <1>8, <1>9

\* The fields of a stream are those of its packets, one packet after the other.
LEMMA StreamFields ==
    ASSUME NEW s \in Streams
    PROVE  /\ s \in Seq(Seq(Nat)) /\ Len(s) \in Nat
           /\ FlattenSeq(Packed(s)) \in Seq(FieldSet)
           /\ FieldsBefore(s, 1) = 0
           /\ FieldsBefore(s, Len(s) + 1) = Len(FlattenSeq(Packed(s)))
           /\ \A i \in 1 .. Len(s) + 1 : FieldsBefore(s, i) \in Nat
           /\ \A i \in 1 .. Len(s) :
                 /\ s[i] \in Seq(Nat) /\ Len(s[i]) \in Nat
                 /\ Len(FieldsOf(s[i])) = 1 + 3 * Len(s[i])
                 /\ FieldsBefore(s, i + 1) = FieldsBefore(s, i) + 1 + 3 * Len(s[i])
                 /\ \A j \in 1 .. 1 + 3 * Len(s[i]) :
                       /\ FieldsBefore(s, i) + j \in 1 .. Len(FlattenSeq(Packed(s)))
                       /\ FlattenSeq(Packed(s))[FieldsBefore(s, i) + j] = FieldsOf(s[i])[j]
<1> DEFINE q == Packed(s)
<1>1. s \in Seq(Seq(Nat))
  BY RecvPacketAssumption
<1>2. Len(s) \in Nat /\ DOMAIN s = 1 .. Len(s)
  BY <1>1, LenProperties
<1>3. ASSUME NEW i \in 1 .. Len(s)
      PROVE  /\ s[i] \in Seq(Nat) /\ Len(s[i]) \in Nat
             /\ FieldsOf(s[i]) \in Seq(FieldSet) /\ Len(FieldsOf(s[i])) = 1 + 3 * Len(s[i])
  <2>1. s[i] \in Seq(Nat)
    BY <1>1, <1>2, ElementOfSeq
  <2>2. Len(s[i]) \in Nat
    BY <2>1, LenProperties
  <2> QED
    BY <2>1, <2>2, PacketFields
<1>4. q \in Seq(Seq(FieldSet)) /\ Len(q) = Len(s) /\ \A i \in 1 .. Len(s) : q[i] = FieldsOf(s[i])
  <2>1. q = [i \in 1 .. Len(s) |-> FieldsOf(s[i])]
    BY <1>2 DEF Packed
  <2> HIDE DEF q
  <2> QED
    BY <1>2, <1>3, <2>1
<1>5. \A i : FieldsBefore(s, i) = Len(Flat(q, i - 1))
  BY DEF FieldsBefore, Flat
<1> HIDE DEF q
<1>6. /\ FlattenSeq(q) \in Seq(FieldSet)
      /\ Len(FlattenSeq(q)) = Len(Flat(q, Len(q)))
      /\ Len(Flat(q, 0)) = 0
      /\ \A i \in 0 .. Len(q) : Len(Flat(q, i)) \in Nat
      /\ \A i \in 1 .. Len(q) :
            /\ Len(Flat(q, i)) = Len(Flat(q, i - 1)) + Len(q[i])
            /\ \A k \in 1 .. Len(q[i]) :
                  /\ Len(Flat(q, i - 1)) + k \in 1 .. Len(FlattenSeq(q))
                  /\ FlattenSeq(q)[Len(Flat(q, i - 1)) + k] = q[i][k]
  BY <1>4, Layout
<1>7. FieldsBefore(s, 1) = 0 /\ FieldsBefore(s, Len(s) + 1) = Len(FlattenSeq(q))
  <2>1. 1 - 1 = 0 /\ (Len(s) + 1) - 1 = Len(q)
    BY <1>2, <1>4
  <2> QED
    BY <1>5, <1>6, <2>1
<1>8. ASSUME NEW i \in 1 .. Len(s) + 1 PROVE FieldsBefore(s, i) \in Nat
  <2>1. i - 1 \in 0 .. Len(q)
    BY <1>2, <1>4
  <2> QED
    BY <1>5, <1>6, <2>1
<1>9. ASSUME NEW i \in 1 .. Len(s)
      PROVE  /\ FieldsBefore(s, i + 1) = FieldsBefore(s, i) + 1 + 3 * Len(s[i])
             /\ \A j \in 1 .. 1 + 3 * Len(s[i]) :
                   /\ FieldsBefore(s, i) + j \in 1 .. Len(FlattenSeq(q))
                   /\ FlattenSeq(q)[FieldsBefore(s, i) + j] = FieldsOf(s[i])[j]
  <2>0. i \in 1 .. Len(q) /\ q[i] = FieldsOf(s[i])
    BY <1>4
  <2>1. /\ (i + 1) - 1 = i /\ Len(q[i]) = 1 + 3 * Len(s[i])
    BY <1>3, <2>0
  <2>2. FieldsBefore(s, i + 1) = FieldsBefore(s, i) + (1 + 3 * Len(s[i]))
    BY <1>5, <1>6, <2>0, <2>1
  <2>3. FieldsBefore(s, i) \in Nat /\ Len(s[i]) \in Nat
    <3>1. i \in 1 .. Len(s) + 1
      BY <1>2
    <3> QED
      BY <1>3, <1>8, <3>1
  <2>4. FieldsBefore(s, i + 1) = FieldsBefore(s, i) + 1 + 3 * Len(s[i])
    <3> DEFINE a == FieldsBefore(s, i)
               b == FieldsBefore(s, i + 1)
               c == Len(s[i])
    <3>1. b = a + (1 + 3 * c) /\ a \in Nat /\ c \in Nat
      BY <2>2, <2>3
    <3> HIDE DEF a, b, c
    <3>2. b = a + 1 + 3 * c
      BY <3>1
    <3> QED
      BY <3>2 DEF a, b, c
  <2>5. ASSUME NEW j \in 1 .. 1 + 3 * Len(s[i])
        PROVE  /\ FieldsBefore(s, i) + j \in 1 .. Len(FlattenSeq(q))
               /\ FlattenSeq(q)[FieldsBefore(s, i) + j] = FieldsOf(s[i])[j]
    <3>1. j \in 1 .. Len(q[i]) /\ FieldsBefore(s, i) = Len(Flat(q, i - 1))
      BY <1>5, <2>1
    <3> QED
      BY <1>6, <2>0, <3>1
  <2> QED
    BY <2>4, <2>5
<1> QED
  BY <1>1, <1>2, <1>3, <1>6, <1>7, <1>8, <1>9 DEF q

Bytes == Nat \X Nat

\* Field g starts after this many bytes.
Start(f, g) == Len(Flat([h \in DOMAIN f |-> BytesOf(f, h)], g - 1))

LEMMA FieldBytes ==
    ASSUME NEW f \in Seq(FieldSet)
    PROVE  /\ Len(f) \in Nat
           /\ AllBytes(f) \in Seq(Bytes) /\ Len(AllBytes(f)) \in Nat
           /\ Start(f, 1) = 0
           /\ Start(f, Len(f) + 1) = Len(AllBytes(f))
           /\ \A g \in 1 .. Len(f) :
                 /\ f[g] \in FieldSet /\ f[g].len \in Nat /\ Start(f, g) \in Nat
                 /\ Start(f, g + 1) = Start(f, g) + f[g].len
                 /\ Start(f, g + 1) <= Len(AllBytes(f))
                 /\ BytesOf(f, g) \in Seq(Bytes) /\ Len(BytesOf(f, g)) = f[g].len
                 /\ \A k \in 1 .. f[g].len : BytesOf(f, g)[k] = <<g, k>>
                 /\ \A k \in 1 .. f[g].len : AllBytes(f)[Start(f, g) + k] = <<g, k>>
<1> DEFINE q == [h \in DOMAIN f |-> BytesOf(f, h)]
<1>1. Len(f) \in Nat /\ DOMAIN f = 1 .. Len(f)
  BY LenProperties
<1>2. ASSUME NEW g \in 1 .. Len(f)
      PROVE  /\ f[g] \in FieldSet /\ f[g].len \in Nat
             /\ BytesOf(f, g) \in Seq(Bytes) /\ Len(BytesOf(f, g)) = f[g].len
             /\ \A k \in 1 .. f[g].len : BytesOf(f, g)[k] = <<g, k>>
  <2>1. f[g] \in FieldSet /\ f[g].len \in Nat
    <3>1. f[g] \in FieldSet
      BY ElementOfSeq
    <3> QED
      BY <3>1, RecvPacketAssumption DEF FieldSet
  <2>2. \A k \in 1 .. f[g].len : <<g, k>> \in Bytes
    BY <2>1 DEF Bytes
  <2> QED
    BY <2>1, <2>2 DEF BytesOf
<1>3. q \in Seq(Seq(Bytes)) /\ Len(q) = Len(f) /\ \A g \in 1 .. Len(f) : q[g] = BytesOf(f, g)
  BY <1>1, <1>2
<1>4. AllBytes(f) = FlattenSeq(q) /\ \A g : Start(f, g) = Len(Flat(q, g - 1))
  BY DEF AllBytes, Start
<1> HIDE DEF q
<1>5. /\ FlattenSeq(q) \in Seq(Bytes)
      /\ Len(FlattenSeq(q)) = Len(Flat(q, Len(q)))
      /\ Len(Flat(q, 0)) = 0
      /\ \A g \in 0 .. Len(q) : Len(Flat(q, g)) \in Nat /\ Len(Flat(q, g)) <= Len(FlattenSeq(q))
      /\ \A g \in 1 .. Len(q) :
            /\ Len(Flat(q, g)) = Len(Flat(q, g - 1)) + Len(q[g])
            /\ \A k \in 1 .. Len(q[g]) : FlattenSeq(q)[Len(Flat(q, g - 1)) + k] = q[g][k]
  BY <1>3, Layout
<1>6. Len(FlattenSeq(q)) \in Nat
  BY <1>5, LenProperties
<1>7. Start(f, 1) = 0 /\ Start(f, Len(f) + 1) = Len(AllBytes(f))
  <2>1. 1 - 1 = 0 /\ (Len(f) + 1) - 1 = Len(q)
    BY <1>1, <1>3
  <2> QED
    BY <1>4, <1>5, <2>1
<1>8. ASSUME NEW g \in 1 .. Len(f)
      PROVE  /\ Start(f, g) \in Nat
             /\ Start(f, g + 1) = Start(f, g) + f[g].len
             /\ Start(f, g + 1) <= Len(AllBytes(f))
             /\ \A k \in 1 .. f[g].len : AllBytes(f)[Start(f, g) + k] = <<g, k>>
  <2>1. /\ g \in 1 .. Len(q) /\ (g + 1) - 1 = g /\ g \in 0 .. Len(q) /\ g - 1 \in 0 .. Len(q)
        /\ q[g] = BytesOf(f, g) /\ Len(q[g]) = f[g].len
    BY <1>1, <1>2, <1>3
  <2>2. Start(f, g) = Len(Flat(q, g - 1)) /\ Start(f, g + 1) = Len(Flat(q, g))
    BY <1>4, <2>1
  <2>3. /\ Len(Flat(q, g)) = Len(Flat(q, g - 1)) + Len(q[g])
        /\ Len(Flat(q, g - 1)) \in Nat /\ Len(Flat(q, g)) <= Len(FlattenSeq(q))
        /\ \A k \in 1 .. Len(q[g]) : FlattenSeq(q)[Len(Flat(q, g - 1)) + k] = q[g][k]
    BY <1>5, <2>1
  <2>4. ASSUME NEW k \in 1 .. f[g].len PROVE AllBytes(f)[Start(f, g) + k] = <<g, k>>
    <3>1. FlattenSeq(q)[Len(Flat(q, g - 1)) + k] = q[g][k] /\ BytesOf(f, g)[k] = <<g, k>>
      BY <1>2, <2>1, <2>3
    <3> QED
      BY <1>4, <2>1, <2>2, <3>1
  <2> QED
    BY <1>4, <2>1, <2>2, <2>3, <2>4
<1> QED
  BY <1>1, <1>2, <1>4, <1>5, <1>6, <1>7, <1>8

-----------------------------------------------------------------------------
(* The invariant: where in the stream the worker is.                       *)

\* The client sends the packets of s.
Sent(s) == sent = [fields |-> FlattenSeq(Packed(s)), packets |-> PacketsOf(s)]

\* The field that is being received, and how many bytes of it have come.
Current(s) == FieldsBefore(s, Len(handed) + 1) + Len(packet) + 1
Come == size - bytesToRecv

\* The first d bytes have been delivered.
Delivered(d) ==
    /\ inbound \in Seq(Bytes)
    /\ Len(inbound) = Len(AllBytes(sent.fields)) - d
    /\ \A k \in 1 .. Len(inbound) : inbound[k] = AllBytes(sent.fields)[d + k]

\* The fields of the packet that is being assembled, and those of the packets
\* that were, are the bytes that were sent for them.
Assembled(s) ==
    /\ handed \in Seq(Seq(Seq(Bytes))) /\ Len(handed) <= Len(s)
    /\ \A i \in 1 .. Len(handed) : handed[i] = sent.packets[i]
    /\ packet \in Seq(Seq(Bytes))
    /\ \A j \in 1 .. Len(packet) :
          packet[j] = BytesOf(sent.fields, FieldsBefore(s, Len(handed) + 1) + j)

\* The state, the index and the length go with the field.
Place(s) ==
    \/ recvState = "HEADER" /\ packet = << >> /\ dataIndex = 0 /\ size = HeaderLen
    \/ /\ Len(handed) < Len(s)
       /\ count = Len(s[Len(handed) + 1]) /\ dataIndex \in 0 .. count - 1
       /\ \/ recvState = "DATANAME" /\ Len(packet) = 3 * dataIndex + 1 /\ size = NameLen
          \/ recvState = "DATASIZE" /\ Len(packet) = 3 * dataIndex + 2 /\ size = SizeLen
          \/ /\ recvState = "DATA" /\ Len(packet) = 3 * dataIndex + 3
             /\ size = s[Len(handed) + 1][dataIndex + 1]

\* Of a field in two pieces the first is at the start of the buffer, and the
\* second is to go behind it.
Pieces(s) ==
    /\ FieldInv
    /\ reads \in {0, 1} /\ (reads = 0 => Come = 0)
    /\ wsaBuf.off = Come
    /\ Come < size \/ size = 0
    /\ \A k \in 1 .. Come : buffer[k] = <<Current(s), k>>
    /\ Delivered(Start(sent.fields, Current(s)) + Come)

Follows(s) == Sent(s) /\ Assembled(s) /\ Place(s) /\ Pieces(s)

Ended == closed = "end" => inbound = << >> \/ wsaBuf.len = 0

IInv == Ended /\ \E s \in Streams : Follows(s)

-----------------------------------------------------------------------------
(* One receive.                                                            *)

\* The packets of a stream, as the bytes of their fields.
LEMMA SentPackets ==
    ASSUME NEW s \in Streams, Sent(s)
    PROVE  /\ sent.fields = FlattenSeq(Packed(s)) /\ sent.fields \in Seq(FieldSet)
           /\ Len(sent.packets) = Len(s)
           /\ \A i \in 1 .. Len(s) :
                 sent.packets[i] = [j \in 1 .. 1 + 3 * Len(s[i]) |->
                                       BytesOf(sent.fields, FieldsBefore(s, i) + j)]
<1>1. s \in Seq(Seq(Nat)) /\ Len(s) \in Nat /\ DOMAIN s = 1 .. Len(s)
  BY StreamFields, LenProperties
<1>2. sent.fields = FlattenSeq(Packed(s)) /\ sent.packets = PacketsOf(s)
  BY DEF Sent
<1>3. sent.fields \in Seq(FieldSet)
  BY <1>2, StreamFields
<1>4. PacketsOf(s) = [i \in 1 .. Len(s) |->
            [j \in DOMAIN FieldsOf(s[i]) |-> BytesOf(sent.fields, FieldsBefore(s, i) + j)]]
  BY <1>1, <1>2 DEF PacketsOf
<1>5. ASSUME NEW i \in 1 .. Len(s)
      PROVE  DOMAIN FieldsOf(s[i]) = 1 .. 1 + 3 * Len(s[i])
  <2>1. s[i] \in Seq(Nat) /\ Len(FieldsOf(s[i])) = 1 + 3 * Len(s[i])
    BY <1>5, StreamFields, RecvPacketAssumption
  <2>2. FieldsOf(s[i]) \in Seq(FieldSet)
    BY <2>1, PacketFields
  <2> QED
    BY <2>1, <2>2, LenProperties
<1>6. Len(sent.packets) = Len(s)
  BY <1>1, <1>2, <1>4
<1>7. ASSUME NEW i \in 1 .. Len(s)
      PROVE  sent.packets[i] = [j \in 1 .. 1 + 3 * Len(s[i]) |->
                                   BytesOf(sent.fields, FieldsBefore(s, i) + j)]
  BY <1>2, <1>4, <1>5
<1> QED
  BY <1>2, <1>3, <1>6, <1>7

\* Which field of the stream is the current one.
LEMMA CurrentField ==
    ASSUME NEW s \in Streams, Follows(s), Len(handed) < Len(s)
    PROVE  LET i == Len(handed) + 1
               f == sent.fields
               g == Current(s)
           IN  /\ i \in 1 .. Len(s) /\ Len(packet) \in 0 .. 3 * Len(s[i])
               /\ g = FieldsBefore(s, i) + (Len(packet) + 1) /\ g \in 1 .. Len(f)
               /\ size = f[g].len
               /\ recvState = "HEADER" => f[g].value = Len(s[i])
               /\ recvState = "DATASIZE" => f[g].value = s[i][dataIndex + 1]
<1> DEFINE i == Len(handed) + 1
           f == sent.fields
           g == Current(s)
           p == s[i]
<1>1. /\ Len(handed) \in Nat /\ Len(s) \in Nat /\ i \in 1 .. Len(s) /\ Len(packet) \in Nat
  BY StreamFields, LenProperties DEF Follows, Assembled
<1>2. /\ p \in Seq(Nat) /\ Len(p) \in Nat /\ FieldsBefore(s, i) \in Nat
      /\ \A j \in 1 .. 1 + 3 * Len(p) :
            /\ FieldsBefore(s, i) + j \in 1 .. Len(f)
            /\ f[FieldsBefore(s, i) + j] = FieldsOf(p)[j]
  <2>1. f = FlattenSeq(Packed(s))
    BY SentPackets DEF Follows
  <2>2. i \in 1 .. Len(s) + 1
    BY <1>1
  <2> QED
    BY <1>1, <2>1, <2>2, StreamFields
<1>3. Len(p) \in Nat /\ \A j \in 1 .. Len(p) : p[j] \in Nat
  <2>1. \A j \in 1 .. Len(p) : p[j] \in Nat
    BY <1>2, ElementOfSeq
  <2> QED
    BY <1>2, <2>1, RecvPacketAssumption
<1>4. /\ FieldsOf(p)[1] = Field(HeaderLen, Len(p))
      /\ \A j \in 1 .. Len(p) :
            /\ FieldsOf(p)[3 * j - 1] = Field(NameLen, 0)
            /\ FieldsOf(p)[3 * j] = Field(SizeLen, p[j])
            /\ FieldsOf(p)[3 * j + 1] = Field(p[j], 0)
  BY <1>2, <1>3, PacketFields
<1>5. g = FieldsBefore(s, i) + (Len(packet) + 1)
  BY <1>1, <1>2 DEF Current
<1> HIDE DEF g
<1>6. CASE recvState = "HEADER" /\ packet = << >> /\ size = HeaderLen
  <2>1. Len(packet) + 1 = 1 /\ 1 \in 1 .. 1 + 3 * Len(p) /\ Len(packet) \in 0 .. 3 * Len(p)
    BY <1>3, <1>6
  <2>2. g \in 1 .. Len(f) /\ f[g] = Field(HeaderLen, Len(p))
    BY <1>2, <1>4, <1>5, <2>1
  <2> QED
    BY <1>1, <1>5, <1>6, <2>1, <2>2 DEF Field, g
<1>7. ASSUME count = Len(p), dataIndex \in 0 .. count - 1,
             \/ recvState = "DATANAME" /\ Len(packet) = 3 * dataIndex + 1 /\ size = NameLen
             \/ recvState = "DATASIZE" /\ Len(packet) = 3 * dataIndex + 2 /\ size = SizeLen
             \/ /\ recvState = "DATA" /\ Len(packet) = 3 * dataIndex + 3
                /\ size = p[dataIndex + 1]
      PROVE  /\ Len(packet) \in 0 .. 3 * Len(p) /\ g \in 1 .. Len(f) /\ size = f[g].len
             /\ recvState # "HEADER"
             /\ recvState = "DATASIZE" => f[g].value = p[dataIndex + 1]
  <2>1. dataIndex + 1 \in 1 .. Len(p) /\ dataIndex \in Nat
    BY <1>3, <1>7
  <2>2. Len(packet) \in 0 .. 3 * Len(p) /\ Len(packet) + 1 \in 1 .. 1 + 3 * Len(p)
    <3>1. Len(packet) \in {3 * dataIndex + 1, 3 * dataIndex + 2, 3 * dataIndex + 3}
      BY <1>7
    <3>2. dataIndex + 1 <= Len(p) /\ Len(p) \in Nat
      BY <1>3, <2>1
    <3> HIDE DEF p
    <3> QED
      BY <2>1, <3>1, <3>2
  <2>3. g \in 1 .. Len(f) /\ f[g] = FieldsOf(p)[Len(packet) + 1]
    BY <1>2, <1>5, <2>2
  <2>4. CASE recvState = "DATANAME" /\ Len(packet) = 3 * dataIndex + 1 /\ size = NameLen
    <3>1. Len(packet) + 1 = 3 * (dataIndex + 1) - 1
      BY <2>1, <2>4
    <3>2. f[g] = Field(NameLen, 0)
      BY <1>4, <2>1, <2>3, <3>1
    <3> QED
      BY <2>2, <2>3, <2>4, <3>2 DEF Field
  <2>5. CASE recvState = "DATASIZE" /\ Len(packet) = 3 * dataIndex + 2 /\ size = SizeLen
    <3>1. Len(packet) + 1 = 3 * (dataIndex + 1)
      BY <2>1, <2>5
    <3>2. f[g] = Field(SizeLen, p[dataIndex + 1])
      BY <1>4, <2>1, <2>3, <3>1
    <3> QED
      BY <2>2, <2>3, <2>5, <3>2 DEF Field
  <2>6. CASE recvState = "DATA" /\ Len(packet) = 3 * dataIndex + 3 /\ size = p[dataIndex + 1]
    <3>1. Len(packet) + 1 = 3 * (dataIndex + 1) + 1
      BY <2>1, <2>6
    <3>2. f[g] = Field(p[dataIndex + 1], 0)
      BY <1>4, <2>1, <2>3, <3>1
    <3> QED
      BY <2>2, <2>3, <2>6, <3>2 DEF Field
  <2> QED
    BY <1>7, <2>4, <2>5, <2>6
<1> QED
  BY <1>1, <1>5, <1>6, <1>7 DEF Follows, Place, g

\* Bytes come of the current field, behind those that have come.
LEMMA CompletionBytes ==
    ASSUME NEW s \in Streams, Follows(s), NEW n \in 1 .. BufSize, Completion(n), sent' = sent
    PROVE  /\ Len(handed) < Len(s) /\ n <= bytesToRecv
           /\ \A k \in 1 .. Come + n : k \in 1 .. BufSize /\ Written(n)[k] = <<Current(s), k>>
           /\ buffer' = Written(n)
           /\ \A d : d = Start(sent.fields, Current(s)) + (Come + n) => Delivered(d)'
<1> DEFINE f == sent.fields
           g == Current(s)
           all == AllBytes(f)
           r == Come
<1>0. /\ size \in Nat /\ size <= BufSize /\ bytesToRecv \in 0 .. size /\ wsaBuf.len = bytesToRecv
      /\ BufSize \in Nat /\ r = size - bytesToRecv /\ wsaBuf.off = r
      /\ \A k \in 1 .. r : buffer[k] = <<g, k>>
      /\ inbound \in Seq(Bytes)
      /\ Len(inbound) = Len(all) - (Start(f, g) + r)
      /\ \A k \in 1 .. Len(inbound) : inbound[k] = all[(Start(f, g) + r) + k]
  BY RecvPacketAssumption DEF Completion, Follows, Pieces, FieldInv, Delivered, Come
<1>1. /\ n <= wsaBuf.len /\ n <= Len(inbound)
      /\ inbound' = SubSeq(inbound, n + 1, Len(inbound)) /\ buffer' = Written(n)
  BY DEF Completion
<1>2. f \in Seq(FieldSet) /\ f = FlattenSeq(Packed(s))
  BY SentPackets DEF Follows
<1>3. Len(inbound) \in Nat /\ Len(all) \in Nat /\ r \in Nat
  BY <1>0, <1>2, FieldBytes, LenProperties
<1>4. Len(handed) < Len(s)
  <2> SUFFICES ASSUME ~(Len(handed) < Len(s)) PROVE FALSE
    OBVIOUS
  <2>1. Len(handed) \in Nat /\ Len(s) \in Nat /\ Len(handed) <= Len(s)
    BY StreamFields, LenProperties DEF Follows, Assembled
  <2>2. Len(handed) = Len(s) /\ packet = << >>
    BY <2>1 DEF Follows, Place
  <2>3. FieldsBefore(s, Len(s) + 1) = Len(f)
    BY <1>2, StreamFields
  <2>4. g = Len(f) + 1
    <3>1. Len(packet) = 0 /\ Len(f) \in Nat
      BY <1>2, <2>2, LenProperties
    <3>2. g = Len(f) + 0 + 1
      BY <2>2, <2>3, <3>1 DEF Current
    <3> QED
      BY <3>1, <3>2
  <2>5. Start(f, g) = Len(all)
    BY <1>2, <2>4, FieldBytes
  <2> QED
    BY <1>0, <1>1, <1>3, <2>5
<1>5. g \in 1 .. Len(f) /\ size = f[g].len
  BY <1>4, CurrentField
<1>6. /\ Start(f, g) \in Nat
      /\ \A k \in 1 .. f[g].len : all[Start(f, g) + k] = <<g, k>>
  BY <1>2, <1>5, FieldBytes
<1> HIDE DEF f, g, all, r
<1>7. r + n <= size /\ n <= bytesToRecv
  BY <1>0, <1>1
<1>8. ASSUME NEW k \in 1 .. r + n PROVE k \in 1 .. BufSize /\ Written(n)[k] = <<g, k>>
  <2>1. k \in 1 .. BufSize /\ k \in 1 .. size
    BY <1>0, <1>3, <1>7
  <2>2. Written(n)[k] = IF k \in r + 1 .. r + n THEN inbound[k - r] ELSE buffer[k]
    BY <1>0, <2>1 DEF Written
  <2>3. CASE k <= r
    BY <1>0, <1>3, <2>1, <2>2, <2>3
  <2>4. CASE k > r
    <3>1. k \in r + 1 .. r + n /\ k - r \in 1 .. Len(inbound)
      BY <1>1, <1>3, <2>1, <2>4
    <3>2. inbound[k - r] = all[(Start(f, g) + r) + (k - r)]
      BY <1>0, <3>1
    <3>3. (Start(f, g) + r) + (k - r) = Start(f, g) + k
      BY <1>3, <1>6
    <3>4. all[Start(f, g) + k] = <<g, k>>
      BY <1>5, <1>6, <2>1
    <3> QED
      BY <2>1, <2>2, <3>1, <3>2, <3>3, <3>4
  <2> QED
    BY <1>3, <2>3, <2>4
<1>9. /\ inbound' \in Seq(Bytes) /\ Len(inbound') = Len(inbound) - n
      /\ \A k \in 1 .. Len(inbound) - n : inbound'[k] = inbound[n + k]
  <2>1. \A k \in n + 1 .. Len(inbound) : inbound[k] \in Bytes
    <3>1. \A k \in 1 .. Len(inbound) : inbound[k] \in Bytes
      BY <1>0, ElementOfSeq
    <3> QED
      BY <1>3, <3>1
  <2>2. n + 1 \in Int /\ Len(inbound) \in Int
    BY <1>3
  <2>3. /\ inbound' \in Seq(Bytes)
        /\ Len(inbound') = IF n + 1 <= Len(inbound) THEN Len(inbound) - (n + 1) + 1 ELSE 0
        /\ \A k \in 1 .. Len(inbound) - (n + 1) + 1 : inbound'[k] = inbound[(n + 1) + k - 1]
    BY <1>1, <2>1, <2>2, SubSeqProperties
  <2>4. Len(inbound) - (n + 1) + 1 = Len(inbound) - n
    BY <1>3
  <2>5. ASSUME NEW k \in 1 .. Len(inbound) - n PROVE inbound'[k] = inbound[n + k]
    <3>1. (n + 1) + k - 1 = n + k
      OBVIOUS
    <3> QED
      BY <2>3, <2>4, <3>1
  <2>6. Len(inbound') = Len(inbound) - n
    <3>1. n <= Len(inbound) /\ Len(inbound) \in Nat
      BY <1>1, <1>3
    <3> QED
      BY <2>3, <3>1
  <2> QED
    BY <2>3, <2>5, <2>6
<1>10. /\ inbound' \in Seq(Bytes)
       /\ Len(inbound') = Len(all) - (Start(f, g) + (r + n))
       /\ \A k \in 1 .. Len(inbound') : inbound'[k] = all[(Start(f, g) + (r + n)) + k]
  <2>1. ASSUME NEW k \in 1 .. Len(inbound) - n
        PROVE  inbound[n + k] = all[(Start(f, g) + (r + n)) + k]
    <3>1. n + k \in 1 .. Len(inbound)
      BY <1>3
    <3>2. (Start(f, g) + r) + (n + k) = (Start(f, g) + (r + n)) + k
      BY <1>3, <1>6
    <3> QED
      BY <1>0, <3>1, <3>2
  <2>2. Len(inbound) - n = Len(all) - (Start(f, g) + (r + n))
    BY <1>0, <1>3, <1>6
  <2> QED
    BY <1>9, <2>1, <2>2
<1>11. ASSUME NEW d, d = Start(f, g) + (r + n) PROVE Delivered(d)'
  BY <1>10, <1>11 DEF Delivered, f, all
<1> QED
  BY <1>1, <1>4, <1>7, <1>8, <1>11 DEF f, g, r

\* The first piece of a field, when fields come in two at most.
LEMMA ShortReadFollows ==
    ASSUME MaxReads <= 2, NEW s \in Streams, Follows(s), NEW n \in 1 .. BufSize, ShortRead(n), FieldInv'
    PROVE  Follows(s)'
<1>1. /\ Completion(n) /\ n < bytesToRecv /\ reads + 1 < MaxReads
      /\ wsaBuf' = [off |-> n, len |-> bytesToRecv - n]
      /\ bytesToRecv' = bytesToRecv - n /\ reads' = reads + 1
      /\ UNCHANGED <<sent, recvState, dataIndex, size, count, packet, handed>>
  BY DEF ShortRead, packetVars
<1>2. reads = 0 /\ reads' = 1 /\ Come = 0
  BY <1>1, RecvPacketAssumption DEF Follows, Pieces
<1>3. size \in Nat /\ bytesToRecv \in Nat /\ size = bytesToRecv
  BY <1>2, RecvPacketAssumption DEF Follows, Pieces, FieldInv, Come
<1>4. Come' = n /\ wsaBuf'.off = n /\ n < size'
  BY <1>1, <1>3 DEF Come
<1>5. Sent(s)' /\ Assembled(s)' /\ Place(s)' /\ Current(s)' = Current(s)
  <2>1. Sent(s)'
    BY <1>1 DEF Follows, Sent
  <2>2. Assembled(s)'
    BY <1>1 DEF Follows, Assembled
  <2>3. Place(s)'
    BY <1>1 DEF Follows, Place
  <2> QED
    BY <1>1, <2>1, <2>2, <2>3 DEF Current
<1>6. /\ \A k \in 1 .. n : buffer'[k] = <<Current(s), k>>
      /\ \A d : d = Start(sent.fields, Current(s)) + n => Delivered(d)'
  <2>1. Come + n = n
    BY <1>2
  <2> QED
    BY <1>1, <2>1, CompletionBytes
<1>7. Delivered(Start(sent.fields, Current(s)) + Come)'
  <2> DEFINE d == Start(sent.fields, Current(s)) + n
  <2>1. Start(sent.fields, Current(s))' + Come' = d
    BY <1>1, <1>4, <1>5
  <2>2. \A e : e = d => Delivered(e)'
    BY <1>6
  <2> HIDE DEF d
  <2>3. /\ inbound' \in Seq(Bytes)
        /\ Len(inbound') = Len(AllBytes(sent'.fields)) - d
        /\ \A k \in 1 .. Len(inbound') : inbound'[k] = AllBytes(sent'.fields)[d + k]
    BY <2>2 DEF Delivered
  <2> QED
    BY <2>1, <2>3 DEF Delivered
<1>8. Pieces(s)'
  BY <1>2, <1>4, <1>5, <1>6, <1>7 DEF Pieces
<1> QED
  BY <1>5, <1>8 DEF Follows

\* The last piece: the buffer holds the bytes of the current field, and the next
\* byte is the first of the next field.
LEMMA FieldWhole ==
    ASSUME NEW s \in Streams, Follows(s), NEW n \in 1 .. BufSize, NEW state, FieldDone(n, state)
    PROVE  /\ Len(handed) < Len(s) /\ recvState = state /\ sent' = sent
           /\ Content(n) = BytesOf(sent.fields, Current(s)) /\ Content(n) \in Seq(Bytes)
           /\ \A d : d = Start(sent.fields, Current(s) + 1) => Delivered(d)'
<1>1. Completion(n) /\ n >= bytesToRecv /\ recvState = state /\ sent' = sent
  BY DEF FieldDone
<1>2. /\ Len(handed) < Len(s) /\ n <= bytesToRecv
      /\ \A k \in 1 .. Come + n : k \in 1 .. BufSize /\ Written(n)[k] = <<Current(s), k>>
      /\ \A d : d = Start(sent.fields, Current(s)) + (Come + n) => Delivered(d)'
  BY <1>1, CompletionBytes
<1>3. size \in Nat /\ Come + n = size
  BY <1>1, <1>2, RecvPacketAssumption DEF Follows, Pieces, FieldInv, Come
<1>4. Current(s) \in 1 .. Len(sent.fields) /\ size = sent.fields[Current(s)].len
  BY <1>2, CurrentField
<1>5. /\ BytesOf(sent.fields, Current(s)) \in Seq(Bytes)
      /\ Len(BytesOf(sent.fields, Current(s))) = size
      /\ \A k \in 1 .. size : BytesOf(sent.fields, Current(s))[k] = <<Current(s), k>>
      /\ Start(sent.fields, Current(s) + 1) = Start(sent.fields, Current(s)) + size
  <2>1. sent.fields \in Seq(FieldSet)
    BY SentPackets DEF Follows
  <2> QED
    BY <1>4, <2>1, FieldBytes
<1>6. Content(n) = BytesOf(sent.fields, Current(s))
  <2>1. \A k \in 1 .. size : Written(n)[k] = <<Current(s), k>>
    BY <1>2, <1>3
  <2>2. \A k \in 1 .. size : <<Current(s), k>> \in Bytes
    BY <1>3, <1>4 DEF Bytes
  <2>3. /\ Content(n) \in Seq(Bytes)
        /\ Len(Content(n)) = IF 1 <= size THEN size - 1 + 1 ELSE 0
        /\ \A k \in 1 .. size - 1 + 1 : Content(n)[k] = Written(n)[1 + k - 1]
    <3>1. \A k \in 1 .. size : Written(n)[k] \in Bytes
      BY <2>1, <2>2
    <3>2. 1 \in Int /\ size \in Int
      BY <1>3
    <3> QED
      BY <3>1, <3>2, SubSeqProperties DEF Content
  <2>4. Len(Content(n)) = size /\ \A k \in 1 .. size : Content(n)[k] = Written(n)[k]
    BY <1>3, <2>3
  <2> QED
    BY <1>5, <2>1, <2>3, <2>4, SeqEqual
<1> QED
  BY <1>1, <1>2, <1>3, <1>5, <1>6

\* What a header or a size says is what was sent.
LEMMA ReadValue ==
    ASSUME NEW s \in Streams, Follows(s), Len(handed) < Len(s), size > 0
    PROVE  ValuesRead(BytesOf(sent.fields, Current(s))) = {sent.fields[Current(s)].value}
<1> DEFINE f == sent.fields
           g == Current(s)
<1>1. f \in Seq(FieldSet) /\ g \in 1 .. Len(f) /\ size = f[g].len /\ DOMAIN f = 1 .. Len(f)
  <2>1. f \in Seq(FieldSet)
    BY SentPackets DEF Follows
  <2> QED
    BY <2>1, CurrentField, LenProperties
<1>2. f[g].value \in Nat
  <2>1. f[g] \in FieldSet
    BY <1>1, FieldBytes
  <2> QED
    BY <2>1 DEF FieldSet
<1>3. ASSUME NEW h \in DOMAIN f, BytesOf(f, g) = BytesOf(f, h) PROVE h = g
  <2>1. h \in 1 .. Len(f) /\ g \in 1 .. Len(f)
    BY <1>1
  <2>2. /\ Len(BytesOf(f, g)) = f[g].len /\ Len(BytesOf(f, h)) = f[h].len
        /\ \A k \in 1 .. f[g].len : BytesOf(f, g)[k] = <<g, k>>
        /\ \A k \in 1 .. f[h].len : BytesOf(f, h)[k] = <<h, k>>
        /\ f[g].len \in Nat
    BY <1>1, <2>1, FieldBytes
  <2>3. 1 \in 1 .. f[g].len /\ 1 \in 1 .. f[h].len
    BY <1>1, <1>3, <2>2
  <2>4. <<g, 1>> = <<h, 1>>
    BY <1>3, <2>2, <2>3
  <2> QED
    BY <2>4
<1> DEFINE whole == {h \in DOMAIN f : BytesOf(f, g) = BytesOf(f, h)}
<1>4. whole = {g}
  BY <1>1, <1>3
<1>5. ValuesRead(BytesOf(f, g)) = IF whole = {} THEN 0 .. BufSize + 1
                                  ELSE {f[h].value : h \in whole}
  BY DEF ValuesRead
<1> HIDE DEF whole, f, g
<1>6. ValuesRead(BytesOf(f, g)) = {f[g].value}
  BY <1>2, <1>4, <1>5
<1> QED
  BY <1>6 DEF f, g

\* The next field is asked for.
LEMMA NextField ==
    ASSUME NEW s \in Streams, Follows(s), NEW n \in 1 .. BufSize, NEW state, FieldDone(n, state),
           NEW next, NEW len \in Nat, NetRecv(next, len),
           Current(s)' = Current(s) + 1
    PROVE  Pieces(s)'
<1>1. /\ size' = len /\ bytesToRecv' = len /\ reads' = 0
      /\ wsaBuf' = [off |-> 0, len |-> len]
  BY DEF NetRecv
<1>2. len \in Nat /\ FieldInv'
  BY NetRecvField, RecvPacketAssumption
<1>3. Come' = 0 /\ wsaBuf'.off = 0 /\ (Come' < size' \/ size' = 0)
  BY <1>1, <1>2 DEF Come
<1>4. Delivered(Start(sent.fields, Current(s)) + Come)'
  <2> DEFINE d == Start(sent.fields, Current(s) + 1)
  <2>1. sent' = sent /\ \A e : e = d => Delivered(e)'
    BY FieldWhole
  <2>2. d \in Int
    <3>1. Current(s) \in 1 .. Len(sent.fields) /\ sent.fields \in Seq(FieldSet)
      BY CurrentField, FieldWhole, SentPackets DEF Follows
    <3>2. Start(sent.fields, Current(s)) \in Nat /\ sent.fields[Current(s)].len \in Nat
          /\ d = Start(sent.fields, Current(s)) + sent.fields[Current(s)].len
      BY <3>1, FieldBytes
    <3> QED
      BY <3>2
  <2>3. Start(sent.fields, Current(s))' = d
    BY <2>1
  <2> HIDE DEF d
  <2>4. Start(sent.fields, Current(s))' + Come' = d
    BY <1>3, <2>2, <2>3
  <2>5. /\ inbound' \in Seq(Bytes)
        /\ Len(inbound') = Len(AllBytes(sent'.fields)) - d
        /\ \A k \in 1 .. Len(inbound') : inbound'[k] = AllBytes(sent'.fields)[d + k]
    BY <2>1 DEF Delivered
  <2> QED
    BY <2>4, <2>5 DEF Delivered
<1>5. \A k \in 1 .. Come' : buffer'[k] = <<Current(s)', k>>
  BY <1>3
<1> QED
  BY <1>1, <1>2, <1>3, <1>4, <1>5 DEF Pieces

-----------------------------------------------------------------------------
(* The actions.                                                            *)

\* A field joins the packet.
LEMMA FieldJoins ==
    ASSUME NEW s \in Streams, Follows(s), NEW n \in 1 .. BufSize, NEW state, FieldDone(n, state),
           packet' = Append(packet, Content(n)), handed' = handed
    PROVE  /\ Sent(s)' /\ Assembled(s)'
           /\ Len(packet') = Len(packet) + 1 /\ Len(packet) \in Nat
           /\ Current(s)' = Current(s) + 1
<1>1. /\ Len(handed) < Len(s) /\ sent' = sent /\ Content(n) = BytesOf(sent.fields, Current(s))
      /\ Content(n) \in Seq(Bytes)
  BY FieldWhole
<1>2. packet \in Seq(Seq(Bytes)) /\ Len(packet) \in Nat
  BY LenProperties DEF Follows, Assembled
<1>3. /\ packet' \in Seq(Seq(Bytes)) /\ Len(packet') = Len(packet) + 1
      /\ \A j \in 1 .. Len(packet) : packet'[j] = packet[j]
      /\ packet'[Len(packet) + 1] = Content(n)
  BY <1>1, <1>2, AppendProperties
<1>4. /\ Current(s) = FieldsBefore(s, Len(handed) + 1) + (Len(packet) + 1)
      /\ FieldsBefore(s, Len(handed) + 1) \in Nat
  <2>1. Len(handed) + 1 \in 1 .. Len(s) + 1
    BY <1>1, CurrentField, StreamFields
  <2> QED
    BY <1>1, <2>1, CurrentField, StreamFields
<1>5. Current(s)' = Current(s) + 1
  <2>1. Current(s)' = FieldsBefore(s, Len(handed) + 1) + (Len(packet) + 1) + 1
    BY <1>3 DEF Current
  <2> QED
    BY <1>4, <2>1
<1>6. Sent(s)'
  BY <1>1 DEF Follows, Sent
<1>7. \A j \in 1 .. Len(packet) + 1 :
          packet'[j] = BytesOf(sent.fields, FieldsBefore(s, Len(handed) + 1) + j)
  <2>1. \A j \in 1 .. Len(packet) :
            packet[j] = BytesOf(sent.fields, FieldsBefore(s, Len(handed) + 1) + j)
    BY DEF Follows, Assembled
  <2>2. packet'[Len(packet) + 1] = BytesOf(sent.fields, FieldsBefore(s, Len(handed) + 1) + (Len(packet) + 1))
    BY <1>1, <1>3, <1>4
  <2>3. \A j \in 1 .. Len(packet) + 1 : j \in 1 .. Len(packet) \/ j = Len(packet) + 1
    BY <1>2
  <2> QED
    BY <1>3, <2>1, <2>2, <2>3
<1>8. Assembled(s)'
  BY <1>1, <1>3, <1>7 DEF Follows, Assembled
<1> QED
  BY <1>2, <1>3, <1>5, <1>6, <1>8

\* The last field of a packet: ProcessPacket gets the packet that was sent.
LEMMA PacketWhole ==
    ASSUME NEW s \in Streams, Follows(s), NEW n \in 1 .. BufSize, NEW state, FieldDone(n, state),
           PacketDone(Append(packet, Content(n))),
           Len(packet) = 3 * Len(s[Len(handed) + 1])
    PROVE  Follows(s)' /\ Promised!HandOver
<1> DEFINE i == Len(handed) + 1
           p == s[i]
           whole == Append(packet, Content(n))
<1>1. /\ Len(handed) < Len(s) /\ sent' = sent /\ Content(n) = BytesOf(sent.fields, Current(s))
      /\ Content(n) \in Seq(Bytes)
  BY FieldWhole
<1>2. /\ handed' = Append(handed, whole) /\ packet' = << >>
      /\ NetRecv("HEADER", HeaderLen) /\ dataIndex' = 0
  BY DEF PacketDone, NetRecvPacket
<1>3. /\ handed \in Seq(Seq(Seq(Bytes))) /\ packet \in Seq(Seq(Bytes))
      /\ Len(handed) \in Nat /\ Len(packet) \in Nat /\ Len(s) \in Nat
      /\ \A x \in 1 .. Len(handed) : handed[x] = sent.packets[x]
      /\ \A j \in 1 .. Len(packet) : packet[j] = BytesOf(sent.fields, FieldsBefore(s, i) + j)
  BY StreamFields, LenProperties DEF Follows, Assembled
<1>4. /\ i \in 1 .. Len(s) /\ Current(s) = FieldsBefore(s, i) + (Len(packet) + 1)
      /\ Len(p) \in Nat /\ FieldsBefore(s, i) \in Nat
      /\ FieldsBefore(s, i + 1) = FieldsBefore(s, i) + 1 + 3 * Len(p)
  <2>1. i \in 1 .. Len(s) /\ i \in 1 .. Len(s) + 1
    BY <1>1, <1>3
  <2>2. Current(s) = FieldsBefore(s, i) + (Len(packet) + 1)
    BY <1>1, CurrentField
  <2>3. Len(p) \in Nat /\ BufSize \in Nat
    BY <2>1, StreamFields, RecvPacketAssumption
  <2> QED
    BY <2>1, <2>2, <2>3, StreamFields
<1>5. whole = sent.packets[i]
  <2>1. /\ whole \in Seq(Seq(Bytes)) /\ Len(whole) = Len(packet) + 1
        /\ \A j \in 1 .. Len(packet) : whole[j] = packet[j]
        /\ whole[Len(packet) + 1] = Content(n)
    BY <1>1, <1>3, AppendProperties
  <2> HIDE DEF whole
  <2>2. \A j \in 1 .. Len(packet) + 1 : whole[j] = BytesOf(sent.fields, FieldsBefore(s, i) + j)
    <3>1. \A j \in 1 .. Len(packet) + 1 : j \in 1 .. Len(packet) \/ j = Len(packet) + 1
      <4>1. Len(packet) \in Nat
        BY <1>3
      <4> QED
        BY <4>1
    <3>2. \A j \in 1 .. Len(packet) : whole[j] = BytesOf(sent.fields, FieldsBefore(s, i) + j)
      BY <1>3, <2>1
    <3>3. whole[Len(packet) + 1] = BytesOf(sent.fields, FieldsBefore(s, i) + (Len(packet) + 1))
      BY <1>1, <1>4, <2>1
    <3> QED
      BY <3>1, <3>2, <3>3
  <2>3. whole = [j \in 1 .. Len(packet) + 1 |-> BytesOf(sent.fields, FieldsBefore(s, i) + j)]
    <3>1. whole = [j \in 1 .. Len(packet) + 1 |-> whole[j]]
      BY <2>1
    <3> QED
      BY <2>2, <3>1
  <2>4. 1 + 3 * Len(p) = Len(packet) + 1
    BY <1>4
  <2>5. sent.packets[i] = [j \in 1 .. 1 + 3 * Len(p) |-> BytesOf(sent.fields, FieldsBefore(s, i) + j)]
    BY <1>4, SentPackets DEF Follows
  <2> QED
    BY <2>3, <2>4, <2>5
<1>6. whole \in Seq(Seq(Bytes))
  BY <1>1, <1>3, AppendProperties
<1> HIDE DEF whole
<1>7. /\ handed' \in Seq(Seq(Seq(Bytes))) /\ Len(handed') = Len(handed) + 1
      /\ \A x \in 1 .. Len(handed) : handed'[x] = handed[x]
      /\ handed'[Len(handed) + 1] = whole
  BY <1>2, <1>3, <1>6, AppendProperties
<1>8. \A x \in 1 .. Len(handed') : handed'[x] = sent.packets[x]
  <2>1. \A x \in 1 .. Len(handed') : x \in 1 .. Len(handed) \/ x = Len(handed) + 1
    BY <1>3, <1>7
  <2> QED
    BY <1>3, <1>5, <1>7, <2>1
<1>9. Len(packet') = 0 /\ packet' \in Seq(Seq(Bytes)) /\ Len(handed') <= Len(s)
  BY <1>1, <1>2, <1>3, <1>7
<1>10. Sent(s)' /\ Place(s)'
  <2>1. Sent(s)'
    BY <1>1 DEF Follows, Sent
  <2>2. Place(s)'
    BY <1>2 DEF Place, NetRecv
  <2> QED
    BY <2>1, <2>2
<1>11. Assembled(s)'
  <2>1. 1 .. Len(packet') = {}
    BY <1>9
  <2>2. \A x \in 1 .. Len(handed') : handed'[x] = sent'.packets[x]
    BY <1>1, <1>8
  <2> QED
    BY <1>7, <1>9, <2>1, <2>2 DEF Assembled
<1>12. Current(s)' = Current(s) + 1
  <2>1. Current(s)' = FieldsBefore(s, i + 1) + 0 + 1
    BY <1>7, <1>9 DEF Current
  <2> QED
    BY <1>4, <2>1
<1>13. Pieces(s)'
  <2>1. HeaderLen \in Nat
    BY RecvPacketAssumption
  <2> QED
    BY <1>2, <1>12, <2>1, NextField
<1>14. Promised!HandOver
  <2>1. Len(sent.packets) = Len(s)
    BY SentPackets DEF Follows
  <2> QED
    BY <1>1, <1>2, <1>5, <2>1 DEF Promised!HandOver
<1> QED
  BY <1>10, <1>11, <1>13, <1>14 DEF Follows

LEMMA HeaderDoneFollows ==
    ASSUME NEW s \in Streams, Follows(s), NEW n \in 1 .. BufSize, HeaderDone(n)
    PROVE  Follows(s)' /\ (handed' = handed \/ Promised!HandOver)
<1>1. FieldDone(n, "HEADER")
  BY DEF HeaderDone
<1>2. /\ Len(handed) < Len(s) /\ recvState = "HEADER"
      /\ Content(n) = BytesOf(sent.fields, Current(s)) /\ Content(n) \in Seq(Bytes)
  BY <1>1, FieldWhole
<1>3. packet = << >> /\ dataIndex = 0 /\ size = HeaderLen /\ size > 0
  BY <1>2, RecvPacketAssumption DEF Follows, Place
<1>4. /\ sent.fields[Current(s)].value = Len(s[Len(handed) + 1])
      /\ Len(handed) + 1 \in 1 .. Len(s)
  BY <1>2, CurrentField
<1>5. ValuesRead(Content(n)) = {Len(s[Len(handed) + 1])}
  BY <1>2, <1>3, <1>4, ReadValue
<1>6. Append(packet, Content(n)) = <<Content(n)>> /\ Len(packet) = 0
  BY <1>2, <1>3
<1>7. Len(s[Len(handed) + 1]) \in Nat
  BY <1>4, StreamFields, RecvPacketAssumption
<1>8. /\ count' = Len(s[Len(handed) + 1])
      /\ \/ count' = 0 /\ PacketDone(<<Content(n)>>)
         \/ /\ count' # 0 /\ packet' = <<Content(n)>>
            /\ NetRecv("DATANAME", NameLen)
            /\ UNCHANGED <<dataIndex, handed>>
  BY <1>5 DEF HeaderDone
<1>9. CASE count' = 0 /\ PacketDone(<<Content(n)>>)
  <2>1. Len(packet) = 3 * Len(s[Len(handed) + 1])
    BY <1>6, <1>8, <1>9
  <2>2. PacketDone(Append(packet, Content(n)))
    BY <1>6, <1>9
  <2> QED
    BY <1>1, <2>1, <2>2, PacketWhole
<1>10. CASE /\ count' # 0 /\ packet' = <<Content(n)>>
            /\ NetRecv("DATANAME", NameLen)
            /\ UNCHANGED <<dataIndex, handed>>
  <2>1. packet' = Append(packet, Content(n)) /\ handed' = handed
    BY <1>6, <1>10
  <2>2. /\ Sent(s)' /\ Assembled(s)' /\ Len(packet') = 1
        /\ Current(s)' = Current(s) + 1
    BY <1>1, <1>6, <2>1, FieldJoins
  <2>3. NameLen \in Nat
    BY RecvPacketAssumption
  <2>4. Pieces(s)'
    BY <1>1, <1>10, <2>2, <2>3, NextField
  <2>5. Place(s)'
    <3>1. recvState' = "DATANAME" /\ size' = NameLen /\ dataIndex' = 0
      BY <1>3, <1>10 DEF NetRecv
    <3>2. dataIndex' \in 0 .. count' - 1 /\ Len(packet') = 3 * dataIndex' + 1
      BY <1>7, <1>8, <1>10, <2>2, <3>1
    <3> QED
      BY <1>2, <1>8, <2>1, <3>1, <3>2 DEF Place
  <2> QED
    BY <2>1, <2>2, <2>4, <2>5 DEF Follows
<1> QED
  BY <1>8, <1>9, <1>10

LEMMA DataNameDoneFollows ==
    ASSUME NEW s \in Streams, Follows(s), NEW n \in 1 .. BufSize, DataNameDone(n)
    PROVE  Follows(s)' /\ handed' = handed
<1>1. /\ FieldDone(n, "DATANAME") /\ packet' = Append(packet, Content(n))
      /\ NetRecv("DATASIZE", SizeLen) /\ UNCHANGED <<dataIndex, count, handed>>
  BY DEF DataNameDone
<1>2. Len(handed) < Len(s) /\ recvState = "DATANAME"
  BY <1>1, FieldWhole
<1>3. /\ Sent(s)' /\ Assembled(s)' /\ Len(packet') = Len(packet) + 1
      /\ Current(s)' = Current(s) + 1
  BY <1>1, FieldJoins
<1>4. SizeLen \in Nat
  BY RecvPacketAssumption
<1>5. Pieces(s)'
  BY <1>1, <1>3, <1>4, NextField
<1>6. Place(s)'
  <2>1. count = Len(s[Len(handed) + 1]) /\ dataIndex \in 0 .. count - 1 /\ Len(packet) = 3 * dataIndex + 1
    BY <1>2 DEF Follows, Place
  <2>2. recvState' = "DATASIZE" /\ size' = SizeLen
    BY <1>1 DEF NetRecv
  <2>3. Len(packet') = 3 * dataIndex + 2
    BY <1>3, <2>1
  <2> QED
    BY <1>1, <1>2, <2>1, <2>2, <2>3 DEF Place
<1> QED
  BY <1>1, <1>3, <1>5, <1>6 DEF Follows

LEMMA DataSizeDoneFollows ==
    ASSUME NEW s \in Streams, Follows(s), NEW n \in 1 .. BufSize, DataSizeDone(n)
    PROVE  Follows(s)' /\ handed' = handed
<1>1. /\ FieldDone(n, "DATASIZE") /\ packet' = Append(packet, Content(n))
      /\ UNCHANGED <<dataIndex, count, handed>>
  BY DEF DataSizeDone
<1>2. Len(handed) < Len(s) /\ recvState = "DATASIZE" /\ Content(n) = BytesOf(sent.fields, Current(s))
  BY <1>1, FieldWhole
<1>3. /\ Sent(s)' /\ Assembled(s)' /\ Len(packet') = Len(packet) + 1
      /\ Current(s)' = Current(s) + 1
  BY <1>1, FieldJoins
<1>4. /\ count = Len(s[Len(handed) + 1]) /\ dataIndex \in 0 .. count - 1
      /\ Len(packet) = 3 * dataIndex + 2 /\ size = SizeLen /\ size > 0
  BY <1>2, RecvPacketAssumption DEF Follows, Place
<1> DEFINE len == s[Len(handed) + 1][dataIndex + 1]
<1>5. ValuesRead(Content(n)) = {len}
  BY <1>2, <1>4, CurrentField, ReadValue
<1>6. NetRecv("DATA", len) /\ len \in Nat
  <2>1. NetRecv("DATA", len)
    BY <1>5 DEF DataSizeDone
  <2> QED
    BY <1>2, <1>5, <2>1, SentPackets, ReadIsNat DEF Follows
<1>7. Pieces(s)'
  BY <1>1, <1>3, <1>6, NextField
<1>8. Place(s)'
  <2>1. recvState' = "DATA" /\ size' = len
    BY <1>6 DEF NetRecv
  <2>2. Len(packet') = 3 * dataIndex + 3
    BY <1>3, <1>4
  <2> QED
    BY <1>1, <1>2, <1>4, <2>1, <2>2 DEF Place
<1> QED
  BY <1>1, <1>3, <1>7, <1>8 DEF Follows

LEMMA DataDoneFollows ==
    ASSUME NEW s \in Streams, Follows(s), NEW n \in 1 .. BufSize, DataDone(n)
    PROVE  Follows(s)' /\ (handed' = handed \/ Promised!HandOver)
<1>1. /\ FieldDone(n, "DATA") /\ count' = count
      /\ \/ dataIndex + 1 >= count /\ PacketDone(Append(packet, Content(n)))
         \/ /\ dataIndex + 1 < count /\ dataIndex' = dataIndex + 1
            /\ packet' = Append(packet, Content(n))
            /\ NetRecv("DATANAME", NameLen) /\ handed' = handed
  BY DEF DataDone
<1>2. Len(handed) < Len(s) /\ recvState = "DATA"
  BY <1>1, FieldWhole
<1>3. /\ count = Len(s[Len(handed) + 1]) /\ dataIndex \in 0 .. count - 1
      /\ Len(packet) = 3 * dataIndex + 3
  BY <1>2 DEF Follows, Place
<1>4. count \in Nat
  <2>1. Len(handed) + 1 \in 1 .. Len(s)
    BY <1>2, CurrentField
  <2> QED
    BY <1>3, <2>1, StreamFields, RecvPacketAssumption
<1>5. CASE dataIndex + 1 >= count /\ PacketDone(Append(packet, Content(n)))
  <2>1. Len(packet) = 3 * Len(s[Len(handed) + 1])
    <3>1. dataIndex + 1 = count
      BY <1>3, <1>4, <1>5
    <3>2. Len(packet) = 3 * count
      BY <1>3, <1>4, <3>1
    <3> QED
      BY <1>3, <3>2
  <2> QED
    BY <1>1, <1>5, <2>1, PacketWhole
<1>6. CASE /\ dataIndex + 1 < count /\ dataIndex' = dataIndex + 1
           /\ packet' = Append(packet, Content(n))
           /\ NetRecv("DATANAME", NameLen) /\ handed' = handed
  <2>1. /\ Sent(s)' /\ Assembled(s)' /\ Len(packet') = Len(packet) + 1
        /\ Current(s)' = Current(s) + 1
    BY <1>1, <1>6, FieldJoins
  <2>2. NameLen \in Nat
    BY RecvPacketAssumption
  <2>3. Pieces(s)'
    BY <1>1, <1>6, <2>1, <2>2, NextField
  <2>4. Place(s)'
    <3>1. recvState' = "DATANAME" /\ size' = NameLen
      BY <1>6 DEF NetRecv
    <3>2. Len(packet') = 3 * dataIndex' + 1 /\ dataIndex' \in 0 .. count - 1
      BY <1>3, <1>4, <1>6, <2>1
    <3> QED
      BY <1>1, <1>2, <1>3, <1>6, <3>1, <3>2 DEF Place
  <2> QED
    BY <1>6, <2>1, <2>3, <2>4 DEF Follows
<1> QED
  BY <1>1, <1>5, <1>6

-----------------------------------------------------------------------------
(* The theorems.                                                           *)

\* However the client's bytes arrive, the kernel writes inside the field that is
\* asked for, whatever its length (whether the field is inside the buffer, nobody
\* checks).
THEOREM WithinFieldHolds == Spec => []WithinField
<1> DEFINE Inv == FieldInv /\ \E s \in Streams : Sent(s)
<1>1. Init => Inv
  BY RecvPacketAssumption DEF Init, FieldInv, Sent
<1>2. Inv /\ [Next]_vars => Inv'
  <2> SUFFICES ASSUME Inv, [Next]_vars PROVE Inv'
    OBVIOUS
  <2>1. PICK s \in Streams : Sent(s)
    OBVIOUS
  <2>2. FieldInv' /\ sent' = sent
    BY <2>1, SentPackets, FieldStep
  <2>3. Sent(s)'
    BY <2>1, <2>2 DEF Sent
  <2> QED
    BY <2>2, <2>3
<1>3. Inv => WithinField
  BY DEF FieldInv, WithinField
<1> HIDE DEF Inv
<1> QED
  BY <1>1, <1>2, <1>3, PTL DEF Spec

LEMMA InitFollows == Init => IInv
<1> SUFFICES ASSUME Init PROVE IInv
  OBVIOUS
<1>1. PICK s \in Streams : Sent(s)
  BY DEF Init, Sent
<1>2. /\ inbound = AllBytes(sent.fields) /\ recvState = "HEADER" /\ dataIndex = 0
      /\ size = HeaderLen /\ bytesToRecv = HeaderLen
      /\ wsaBuf = [off |-> 0, len |-> HeaderLen] /\ reads = 0
      /\ packet = << >> /\ handed = << >> /\ closed = "no"
  BY DEF Init
<1>3. /\ Len(s) \in Nat /\ FieldsBefore(s, 1) = 0
      /\ sent.fields \in Seq(FieldSet)
  BY <1>1, StreamFields, SentPackets
<1>4. HeaderLen \in 1 .. BufSize /\ BufSize \in Nat
  BY RecvPacketAssumption
<1>5. Come = 0 /\ Current(s) = 1
  BY <1>2, <1>3, <1>4 DEF Come, Current
<1>6. Assembled(s)
  <2>1. Len(<< >>) = 0 /\ << >> \in Seq(Seq(Bytes)) /\ << >> \in Seq(Seq(Seq(Bytes))) /\ 1 .. 0 = {}
    OBVIOUS
  <2> QED
    BY <1>2, <1>3, <2>1 DEF Assembled
<1>7. Place(s)
  BY <1>2 DEF Place
<1>8. Delivered(Start(sent.fields, Current(s)) + Come)
  <2>1. Start(sent.fields, 1) = 0 /\ AllBytes(sent.fields) \in Seq(Bytes) /\ Len(AllBytes(sent.fields)) \in Nat
    BY <1>3, FieldBytes
  <2>2. Start(sent.fields, Current(s)) + Come = 0
    BY <1>5, <2>1
  <2> QED
    BY <1>2, <2>1, <2>2 DEF Delivered
<1>9. Pieces(s)
  <2>1. FieldInv
    BY <1>2, <1>4 DEF FieldInv
  <2>2. 1 .. Come = {} /\ Come < size
    BY <1>2, <1>4, <1>5
  <2> QED
    BY <1>2, <1>5, <1>8, <2>1, <2>2 DEF Pieces
<1> QED
  BY <1>1, <1>2, <1>6, <1>7, <1>9 DEF Follows, IInv, Ended

LEMMA FollowsStep ==
    ASSUME MaxReads <= 2, IInv, [Next]_vars
    PROVE  IInv' /\ [Promised!HandOver]_<<sent.packets, handed>>
<1>1. PICK s \in Streams : Follows(s)
  BY DEF IInv
<1>2. FieldInv'
  BY <1>1, SentPackets, FieldStep DEF Follows, Pieces
<1>3. ASSUME NEW n \in 1 .. BufSize,
             ShortRead(n) \/ HeaderDone(n) \/ DataNameDone(n) \/ DataSizeDone(n) \/ DataDone(n)
      PROVE  IInv' /\ [Promised!HandOver]_<<sent.packets, handed>>
  <2>1. sent' = sent /\ closed = "no" /\ closed' = closed
    BY <1>3 DEF ShortRead, HeaderDone, DataNameDone, DataSizeDone, DataDone, FieldDone, Completion, Receiving
  <2>2. Follows(s)' /\ (handed' = handed \/ Promised!HandOver)
    <3>1. CASE ShortRead(n)
      BY <1>1, <1>2, <3>1, ShortReadFollows DEF ShortRead, packetVars
    <3>2. CASE HeaderDone(n)
      BY <1>1, <3>2, HeaderDoneFollows
    <3>3. CASE DataNameDone(n)
      BY <1>1, <3>3, DataNameDoneFollows
    <3>4. CASE DataSizeDone(n)
      BY <1>1, <3>4, DataSizeDoneFollows
    <3>5. CASE DataDone(n)
      BY <1>1, <3>5, DataDoneFollows
    <3> QED
      BY <1>3, <3>1, <3>2, <3>3, <3>4, <3>5
  <2> QED
    BY <2>1, <2>2 DEF IInv, Ended
<1>4. CASE Other \/ UNCHANGED vars
  <2>1. /\ UNCHANGED <<sent, inbound, ioVars, buffer, packetVars>>
        /\ closed' = "end" => closed = "end" \/ inbound = << >> \/ wsaBuf.len = 0
    BY <1>4 DEF Other, ZeroBytes, ConnectionReset, PingTimeout, TearDown, Send, Dropped, vars
  <2>2. UNCHANGED <<sent, inbound, recvState, dataIndex, size, bytesToRecv, wsaBuf, reads, buffer,
                    count, packet, handed>>
    BY <2>1 DEF ioVars, packetVars
  <2>3. Sent(s)' /\ Assembled(s)' /\ Place(s)'
    BY <1>1, <2>2 DEF Follows, Sent, Assembled, Place
  <2>4. Pieces(s)'
    BY <1>1, <2>2 DEF Follows, Pieces, FieldInv, Come, Current, Delivered
  <2>5. Ended'
    BY <2>1, <2>2 DEF IInv, Ended
  <2> QED
    BY <2>2, <2>3, <2>4, <2>5 DEF IInv, Follows
<1> QED
  BY <1>3, <1>4 DEF Next, Receive, Other

\* As long as a field comes in one piece or in two, whatever their sizes, the
\* state of CompletionThread goes with the place in the stream.
THEOREM Invariant == ASSUME MaxReads <= 2 PROVE Spec => []IInv
<1>1. IInv /\ [Next]_vars => IInv'
  BY FollowsStep
<1> QED
  BY <1>1, InitFollows, PTL DEF Spec

\* ProcessPacket gets the packets that the client sent: each whole, in order, and
\* once.
THEOREM Implements == ASSUME MaxReads <= 2 PROVE Spec => ImplementsPacketStream
<1>1. Init => Promised!Init
  BY DEF Init, Promised!Init
<1>2. IInv /\ [Next]_vars => [Promised!HandOver]_<<sent.packets, handed>>
  BY FollowsStep
<1> QED
  BY <1>1, <1>2, Invariant, PTL DEF Spec, ImplementsPacketStream, Promised!Spec

\* The server ends a connection when its client has, or at an empty datum.
THEOREM EndedByClientHolds == ASSUME MaxReads <= 2 PROVE Spec => []EndedByClient
<1>1. IInv => EndedByClient
  <2> SUFFICES ASSUME IInv, closed = "end", inbound # << >>
               PROVE  size = 0 /\ \E g \in DOMAIN sent.fields : sent.fields[g].len = 0
    BY DEF EndedByClient
  <2>1. PICK s \in Streams : Follows(s)
    BY DEF IInv
  <2>2. size = 0
    BY RecvPacketAssumption, <2>1 DEF IInv, Ended, Follows, Pieces, FieldInv, Come
  <2>3. Len(handed) < Len(s)
    BY <2>1, <2>2, RecvPacketAssumption DEF Follows, Place
  <2>4. Current(s) \in 1 .. Len(sent.fields) /\ sent.fields[Current(s)].len = 0
    BY <2>1, <2>2, <2>3, CurrentField
  <2>5. DOMAIN sent.fields = 1 .. Len(sent.fields)
    BY <2>1, SentPackets, LenProperties DEF Follows
  <2> QED
    BY <2>2, <2>4, <2>5
<1> QED
  BY <1>1, Invariant, PTL

\* Two pieces are the limit of what the comments on the short read promise: up to
\* there every field is whole (with three it is not, as a run shows).
THEOREM HandedIntactHolds == ASSUME MaxReads <= 2 PROVE Spec => []HandedIntact
<1>1. IInv => HandedIntact
  <2> SUFFICES ASSUME IInv PROVE IsPrefix(handed, sent.packets)
    BY DEF HandedIntact
  <2>1. PICK s \in Streams : Follows(s)
    BY DEF IInv
  <2>2. /\ handed \in Seq(Seq(Seq(Bytes))) /\ Len(handed) <= Len(sent.packets)
        /\ \A i \in 1 .. Len(handed) : handed[i] = sent.packets[i]
    BY <2>1, SentPackets DEF Follows, Assembled
  <2>3. Len(handed) \in Nat
    BY <2>2
  <2>4. /\ SubSeq(handed, 1, Len(handed)) = [i \in 1 .. Len(handed) |-> handed[i]]
        /\ SubSeq(sent.packets, 1, Len(handed)) = [i \in 1 .. Len(handed) |-> sent.packets[i]]
    BY <2>3 DEF SubSeq
  <2> QED
    BY <2>2, <2>4 DEF IsPrefix
<1> QED
  BY <1>1, Invariant, PTL

=============================================================================
