---------------------------- MODULE EapTnc_proofs ----------------------------
(***************************************************************************)
(* Theorems about EapTnc, for any endpoints, payloads and fragment sizes.  *)
(***************************************************************************)
EXTENDS EapTnc, SequenceTheorems, WellFoundedInduction, TLAPS

-----------------------------------------------------------------------------
(* Sequences.                                                              *)

\* A set of natural numbers has a least element.
LEMMA LeastElement ==
    ASSUME NEW T, T \subseteq Nat, T # {}
    PROVE  \E x \in T : \A y \in T : x <= y
<1>1. IsWellFoundedOn(OpToRel(<, Nat), Nat)
  BY NatLessThanWellFounded
<1>2. PICK x \in T : \A y \in T : <<y, x>> \notin OpToRel(<, Nat)
  BY <1>1, WFMin
<1>3. \A y, z \in T : <<y, z>> \in OpToRel(<, Nat) <=> y < z
  BY DEF OpToRel
<1>4. ASSUME NEW y \in T
      PROVE  x <= y
  <2>1. ~(y < x)
    BY <1>2, <1>3
  <2>2. x \in Nat /\ y \in Nat
    OBVIOUS
  <2> QED
    BY <2>1, <2>2
<1> QED
  BY <1>4

\* h[i] is the first i of the sequences in a row.
InARow(seqs, h) ==
    \A i \in 1 .. Len(seqs) : h[i] = IF i = 1 THEN seqs[i] ELSE h[i - 1] \o seqs[i]

\* Whoever knows the data up to each sequence knows all of them in a row.
LEMMA FlattenSeqIs ==
    ASSUME NEW n \in Nat, n > 0, NEW seqs, Len(seqs) = n,
           NEW S, NEW h \in [1 .. n -> S], InARow(seqs, h)
    PROVE  FlattenSeq(seqs) = h[n]
<1> DEFINE IsFlat(g) ==
             g = [i \in 1 .. n |-> IF i = 1 THEN seqs[i] ELSE g[i - 1] \o seqs[i]]
           f == CHOOSE g : IsFlat(g)
           T == {i \in 1 .. n : f[i] # h[i]}
<1>1. IsFlat(h)
  BY DEF InARow
<1>2. IsFlat(f)
  BY <1>1
<1>3. FlattenSeq(seqs) = f[n]
  BY DEF FlattenSeq
<1> HIDE DEF f
<1>4. T = {}
  <2> SUFFICES ASSUME T # {}
               PROVE  FALSE
    OBVIOUS
  <2>1. T \subseteq Nat
    OBVIOUS
  <2>2. PICK x \in T : \A y \in T : x <= y
    <3> HIDE DEF T
    <3> QED
      BY <2>1, LeastElement
  <2>3. x \in 1 .. n /\ f[x] # h[x]
    OBVIOUS
  <2>4. CASE x = 1
    BY <2>3, <2>4, <1>2 DEF InARow
  <2>5. CASE x # 1
    <3>1. f[x] = f[x - 1] \o seqs[x] /\ h[x] = h[x - 1] \o seqs[x]
      BY <2>3, <2>5, <1>2 DEF InARow
    <3>2. x - 1 \in 1 .. n /\ ~(x <= x - 1)
      BY <2>3, <2>5
    <3>3. f[x - 1] = h[x - 1]
      BY <2>2, <3>2
    <3> QED
      BY <2>3, <3>1, <3>3
  <2> QED
    BY <2>4, <2>5
<1> QED
  BY <1>3, <1>4

\* A piece of a sequence.
LEMMA Piece ==
    ASSUME NEW S, NEW s \in Seq(S), NEW m \in 0 .. Len(s), NEW n \in m .. Len(s)
    PROVE  /\ SubSeq(s, m + 1, n) \in Seq(S) /\ Len(SubSeq(s, m + 1, n)) = n - m
           /\ \A i \in 1 .. n - m : SubSeq(s, m + 1, n)[i] = s[m + i]
<1>1. Len(s) \in Nat /\ \A i \in m + 1 .. n : s[i] \in S
  BY ElementOfSeq, LenProperties
<1>2. m + 1 \in Int /\ n \in Int
  BY <1>1
<1> DEFINE t == SubSeq(s, m + 1, n)
<1>3. /\ t \in Seq(S)
      /\ Len(t) = IF m + 1 <= n THEN n - (m + 1) + 1 ELSE 0
      /\ \A i \in 1 .. n - (m + 1) + 1 : t[i] = s[m + 1 + i - 1]
  BY <1>1, <1>2, SubSeqProperties
<1> HIDE DEF t
<1>4. m \in Int /\ n \in Int /\ m <= n
  BY <1>1
<1>5. Len(t) = n - m
  BY <1>3, <1>4
<1>6. ASSUME NEW i \in 1 .. n - m
      PROVE  t[i] = s[m + i]
  <2>1. i \in 1 .. n - (m + 1) + 1 /\ m + 1 + i - 1 = m + i
    BY <1>4
  <2> QED
    BY <1>3, <2>1
<1> QED
  BY <1>3, <1>5, <1>6 DEF t

LEMMA FrontAndLast ==
    ASSUME NEW S, NEW s \in Seq(S), s # <<>>
    PROVE  /\ Front(s) \in Seq(S) /\ Last(s) \in S
           /\ Append(Front(s), Last(s)) = s
           /\ Len(s) > Len(Front(s))
<1>1. Len(s) \in Nat \ {0} /\ \A i \in 1 .. Len(s) : s[i] \in S
  BY EmptySeq, ElementOfSeq
<1>2. Front(s) = SubSeq(s, 1, Len(s) - 1) /\ Last(s) = s[Len(s)]
  BY DEF Front, Last
<1>3. /\ Front(s) \in Seq(S) /\ Len(Front(s)) = Len(s) - 1
      /\ \A i \in 1 .. Len(s) - 1 : Front(s)[i] = s[i]
  <2> DEFINE n == Len(s) - 1
  <2>1. n \in 0 .. Len(s)
    BY <1>1
  <2> HIDE DEF n
  <2>2. /\ SubSeq(s, 0 + 1, n) \in Seq(S) /\ Len(SubSeq(s, 0 + 1, n)) = n - 0
        /\ \A i \in 1 .. n - 0 : SubSeq(s, 0 + 1, n)[i] = s[0 + i]
    BY <1>1, <2>1, Piece
  <2>3. Front(s) = SubSeq(s, 0 + 1, n)
    BY <1>2 DEF n
  <2> QED
    BY <1>1, <2>1, <2>2, <2>3 DEF n
<1>4. Last(s) \in S
  BY <1>1, <1>2
<1> DEFINE t == Append(Front(s), Last(s))
<1>5. /\ t \in Seq(S) /\ Len(t) = Len(s)
      /\ \A i \in 1 .. Len(s) - 1 : t[i] = s[i]
      /\ t[Len(s)] = s[Len(s)]
  BY <1>1, <1>2, <1>3, <1>4, AppendProperties
<1> HIDE DEF t
<1>6. \A i \in 1 .. Len(s) : t[i] = s[i]
  BY <1>1, <1>5
<1>7. t = s
  BY <1>5, <1>6, SeqEqual
<1> QED
  BY <1>1, <1>3, <1>4, <1>7 DEF t

LEMMA FrontOfAppend ==
    ASSUME NEW S, NEW s \in Seq(S), NEW e \in S
    PROVE  AllButLast(s, Append(s, e)) /\ Last(Append(s, e)) = e
<1> DEFINE t == Append(s, e)
<1>1. /\ t \in Seq(S) /\ t # <<>> /\ Len(t) = Len(s) + 1 /\ t[Len(s) + 1] = e
      /\ \A i \in 1 .. Len(s) : t[i] = s[i]
  BY AppendProperties
<1> HIDE DEF t
<1>2. Len(s) \in Nat /\ Front(t) = SubSeq(t, 1, Len(s)) /\ Last(t) = e
  BY <1>1, LenProperties DEF Front, Last
<1>3. Append(Front(t), Last(t)) = t /\ Front(t) \in Seq(S)
  BY <1>1, FrontAndLast
<1>4. Front(t) = s /\ Last(t) = e
  BY <1>1, <1>2, <1>3, AppendInjective DEF t
<1> QED
  BY <1>1, <1>4 DEF t, AllButLast
-----------------------------------------------------------------------------
(* Fragments.                                                              *)

\* The fragments q carry the data d from its m-th unit on: off[i] units have
\* gone once the i-th of them is sent.
Offsets(q, d, m, off) ==
    /\ off[0] = m /\ off[Len(q)] = Len(d)
    /\ \A i, j \in 0 .. Len(q) : i < j => off[i] < off[j]
    /\ \A i \in 1 .. Len(q) :
         /\ q[i].wellFormed
         /\ q[i].data = SubSeq(d, off[i - 1] + 1, off[i])
         /\ q[i].more <=> i < Len(q)
         /\ q[i].length => i = 1 /\ m = 0
         /\ (i = 1 /\ m = 0 /\ q[i].more) => (q[i].length /\ q[i].total = Len(d))

Carries(q, d, m) == \E off \in [0 .. Len(q) -> 0 .. Len(d)] : Offsets(q, d, m, off)

LEMMA FragmentFields ==
    ASSUME NEW l \in BOOLEAN, NEW m \in BOOLEAN, NEW t \in Nat, NEW d \in Seq(Unit)
    PROVE  LET p == Fragment(l, m, t, d)
           IN  /\ p \in Packet /\ p.wellFormed /\ p.total = t /\ p.data = d
               /\ p.length <=> l
               /\ p.more <=> m
  BY DEF Fragment, Packet

LEMMA HeadAndTail ==
    ASSUME NEW S, NEW q \in Seq(S), q # <<>>
    PROVE  Head(q) \in S /\ Tail(q) \in Seq(S) /\ q = <<Head(q)>> \o Tail(q)
  OBVIOUS

LEMMA PacketFirst ==
    ASSUME NEW p \in Packet, NEW q \in Seq(Packet)
    PROVE  /\ <<p>> \o q \in Seq(Packet) /\ Len(<<p>> \o q) = Len(q) + 1
           /\ (<<p>> \o q)[1] = p
           /\ \A i \in 1 .. Len(q) : (<<p>> \o q)[i + 1] = q[i]
<1>1. <<p>> \in Seq(Packet) /\ Len(<<p>>) = 1 /\ <<p>>[1] = p
  OBVIOUS
<1>2. Len(q) \in Nat
  BY LenProperties
<1> HIDE DEF Packet
<1> DEFINE r == <<p>> \o q
<1>3. /\ r \in Seq(Packet) /\ Len(r) = 1 + Len(q)
      /\ \A i \in 1 .. 1 + Len(q) : r[i] = IF i <= 1 THEN <<p>>[i] ELSE q[i - 1]
  BY <1>1, ConcatProperties
<1> HIDE DEF r
<1>4. ASSUME NEW i \in 1 .. Len(q)
      PROVE  r[i + 1] = q[i]
  <2>1. i + 1 \in 1 .. 1 + Len(q) /\ ~(i + 1 <= 1) /\ i + 1 - 1 = i
    BY <1>2
  <2> QED
    BY <1>3, <2>1
<1>5. r[1] = p
  BY <1>1, <1>2, <1>3
<1> QED
  BY <1>2, <1>3, <1>4, <1>5 DEF r

\* The first of the fragments that carry d from its m-th unit on.
LEMMA FirstFragment ==
    ASSUME NEW d \in Seq(Unit), NEW m \in 0 .. Len(d),
           NEW p \in Packet, NEW q \in Seq(Packet), Carries(<<p>> \o q, d, m)
    PROVE  /\ p.wellFormed /\ p.data # <<>>
           /\ p.more <=> q # <<>>
           /\ p.length => m = 0
           /\ m = 0 /\ p.more => p.length /\ p.total = Len(d)
           /\ m + Len(p.data) \in m + 1 .. Len(d)
           /\ p.more <=> m + Len(p.data) < Len(d)
           /\ SubSeq(d, 1, m) \o p.data = SubSeq(d, 1, m + Len(p.data))
           /\ Carries(q, d, m + Len(p.data))
<1> DEFINE r == <<p>> \o q
<1>1. /\ r \in Seq(Packet) /\ Len(r) = Len(q) + 1 /\ r[1] = p
      /\ \A i \in 1 .. Len(q) : r[i + 1] = q[i]
  BY PacketFirst
<1>2. Len(q) \in Nat /\ Len(d) \in Nat
  BY LenProperties
<1> HIDE DEF r
<1>3. PICK off \in [0 .. Len(q) + 1 -> 0 .. Len(d)] : Offsets(r, d, m, off)
  BY <1>1 DEF Carries, r
<1> DEFINE n == off[1]
<1>4. /\ off[0] = m /\ m < n /\ n \in 0 .. Len(d)
      /\ p.wellFormed /\ p.data = SubSeq(d, m + 1, n)
      /\ p.more <=> 1 < Len(q) + 1
      /\ p.length => m = 0
      /\ (m = 0 /\ p.more) => (p.length /\ p.total = Len(d))
  <2>1. /\ 1 \in 1 .. Len(r) /\ 1 - 1 = 0
        /\ 0 \in 0 .. Len(r) /\ 1 \in 0 .. Len(r) /\ 1 \in 0 .. Len(q) + 1
    BY <1>1, <1>2
  <2>2. off[0] = m /\ \A i, j \in 0 .. Len(r) : i < j => off[i] < off[j]
    BY <1>3 DEF Offsets
  <2>3. off[0] < off[1] /\ off[1] \in 0 .. Len(d)
    BY <1>3, <2>1, <2>2
  <2>4. /\ r[1].wellFormed /\ r[1].data = SubSeq(d, off[1 - 1] + 1, off[1])
        /\ r[1].more <=> 1 < Len(r)
        /\ r[1].length => m = 0
        /\ (m = 0 /\ r[1].more) => (r[1].length /\ r[1].total = Len(d))
    BY <1>3, <2>1 DEF Offsets
  <2> QED
    BY <1>1, <2>1, <2>2, <2>3, <2>4
<1> HIDE DEF n
<1>5. Len(p.data) = n - m /\ n \in m .. Len(d)
  BY <1>2, <1>4, Piece
<1>6. n = m + Len(p.data) /\ p.data # <<>> /\ m \in Nat /\ n \in Nat
  <2>1. m \in Nat /\ n \in Nat /\ Len(p.data) > 0
    BY <1>2, <1>4, <1>5
  <2>2. Len(<<>>) = 0
    OBVIOUS
  <2>3. n = m + Len(p.data)
    BY <1>5, <2>1
  <2> QED
    BY <2>1, <2>2, <2>3
<1>7. q # <<>> <=> Len(q) > 0
  BY EmptySeq, <1>2
<1>8. SubSeq(d, 1, m) \o p.data = SubSeq(d, 1, n)
  <2>1. 1 \in 1 .. Len(d) + 1 /\ m \in 1 - 1 .. Len(d)
    BY <1>2
  <2> HIDE DEF Packet
  <2>2. SubSeq(d, 1, m) \o SubSeq(d, m + 1, n) = SubSeq(d, 1, n)
    BY <1>5, <2>1, ConcatAdjacentSubSeq
  <2> QED
    BY <1>4, <2>2
<1> DEFINE rest == [i \in 0 .. Len(q) |-> off[i + 1]]
<1>9. rest \in [0 .. Len(q) -> 0 .. Len(d)]
  BY <1>2
<1>10. rest[0] = n /\ rest[Len(q)] = Len(d)
  <2>1. off[Len(q) + 1] = Len(d)
    BY <1>1, <1>3 DEF Offsets
  <2> QED
    BY <1>2, <2>1 DEF n
<1>11. ASSUME NEW i \in 1 .. Len(q)
       PROVE  /\ q[i].wellFormed
              /\ q[i].data = SubSeq(d, rest[i - 1] + 1, rest[i])
              /\ q[i].more <=> i < Len(q)
              /\ ~q[i].length
  <2>1. /\ i + 1 \in 1 .. Len(r) /\ i + 1 - 1 = i /\ i + 1 # 1
        /\ (i + 1 < Len(q) + 1 <=> i < Len(q)) /\ r[i + 1] = q[i]
    BY <1>1, <1>2
  <2>2. rest[i - 1] = off[i] /\ rest[i] = off[i + 1]
    BY <1>2
  <2>3. /\ r[i + 1].wellFormed
        /\ r[i + 1].data = SubSeq(d, off[i + 1 - 1] + 1, off[i + 1])
        /\ r[i + 1].more <=> i + 1 < Len(r)
        /\ r[i + 1].length => i + 1 = 1
    <3> PICK j \in 1 .. Len(r) : j = i + 1
      BY <2>1
    <3> HIDE DEF Packet, rest
    <3>1. Offsets(r, d, m, off)
      BY <1>3
    <3>2. /\ r[j].wellFormed /\ r[j].data = SubSeq(d, off[j - 1] + 1, off[j])
          /\ r[j].more <=> j < Len(r)
          /\ r[j].length => j = 1
      BY ONLY <3>1, j \in 1 .. Len(r) DEF Offsets
    <3> QED
      BY <3>2
  <2> HIDE DEF Packet, rest
  <2>4. q[i].data = SubSeq(d, rest[i - 1] + 1, rest[i])
    BY <2>1, <2>2, <2>3
  <2>5. (q[i].more <=> i < Len(q)) /\ q[i].wellFormed /\ ~q[i].length
    BY <1>1, <2>1, <2>3
  <2> QED
    BY <2>4, <2>5
<1>17. ASSUME NEW i \in 0 .. Len(q), NEW j \in 0 .. Len(q), i < j
       PROVE  rest[i] < rest[j]
  <2>1. i + 1 \in 0 .. Len(r) /\ j + 1 \in 0 .. Len(r) /\ i + 1 < j + 1
    BY <1>1, <1>2, <1>17
  <2>2. rest[i] = off[i + 1] /\ rest[j] = off[j + 1]
    OBVIOUS
  <2> QED
    BY <1>3, <2>1, <2>2 DEF Offsets
<1> HIDE DEF rest
<1>12. Offsets(q, d, n, rest)
  BY <1>4, <1>10, <1>11, <1>17 DEF Offsets
<1>13. Carries(q, d, n)
  BY <1>9, <1>12 DEF Carries
<1>14. n < Len(d) <=> q # <<>>
  <2>1. CASE q = <<>>
    BY <2>1, <1>2, <1>7, <1>10
  <2>2. CASE q # <<>>
    <3>1. 0 \in 0 .. Len(q) /\ 1 \in 0 .. Len(q) /\ 0 < 1
      BY <2>2, <1>2, <1>7
    <3>2. n < rest[1] /\ rest[1] \in 0 .. Len(d)
      BY <1>9, <1>10, <1>17, <3>1
    <3> QED
      BY <2>2, <3>2, <1>2, <1>4
  <2> QED
    BY <2>1, <2>2
<1>15. n \in m + 1 .. Len(d)
  <2>1. m < n
    BY <1>4
  <2>2. n <= Len(d)
    BY <1>2, <1>4
  <2> QED
    BY <1>2, <1>6, <2>1, <2>2
<1>16. p.more <=> q # <<>>
  BY <1>2, <1>4, <1>7
<1> HIDE DEF Packet
<1> QED
  BY <1>4, <1>6, <1>8, <1>13, <1>14, <1>15, <1>16

\* What is left of the data is what the fragments hold.
LEMMA RestOfFragments ==
    ASSUME NEW d \in Seq(Unit), NEW m \in 0 .. Len(d), NEW q \in Seq(Packet),
           Carries(q, d, m)
    PROVE  Rest(q) = SubSeq(d, m + 1, Len(d))
<1> DEFINE n == Len(q)
           seqs == [k \in DOMAIN q |-> q[k].data]
<1>1. n \in Nat /\ Len(d) \in Nat /\ DOMAIN q = 1 .. n
  BY LenProperties
<1>2. PICK off \in [0 .. n -> 0 .. Len(d)] : Offsets(q, d, m, off)
  BY DEF Carries
<1>3. off[0] = m /\ off[n] = Len(d)
  BY <1>2 DEF Offsets
<1>4. \A i \in 1 .. n : seqs[i] = SubSeq(d, off[i - 1] + 1, off[i])
  BY <1>1, <1>2 DEF Offsets
<1>5. Rest(q) = FlattenSeq(seqs)
  BY DEF Rest
<1>6. \A i \in 1 .. n : q[i].data \in Seq(Unit)
  <2>1. \A i \in 1 .. n : q[i] \in Packet
    BY ElementOfSeq
  <2> QED
    BY <2>1 DEF Packet
<1>7. seqs \in Seq(Seq(Unit)) /\ Len(seqs) = n
  BY <1>1, <1>6
<1>8. CASE n = 0
  <2>1. seqs = <<>> /\ Rest(q) = seqs
    BY <1>5, <1>7, <1>8 DEF FlattenSeq
  <2>2. m = Len(d)
    BY <1>3, <1>8
  <2> QED
    BY <1>1, <2>1, <2>2, SubSeqEmpty
<1>9. CASE n # 0
  <2> DEFINE h == [i \in 1 .. n |-> SubSeq(d, m + 1, off[i])]
  <2>1. ASSUME NEW i \in 1 .. n
        PROVE  h[i] = IF i = 1 THEN seqs[i] ELSE h[i - 1] \o seqs[i]
    <3>1. CASE i = 1
      <4>0. 1 \in 1 .. n /\ 1 - 1 = 0
        BY <3>1
      <4>1. seqs[1] = SubSeq(d, off[0] + 1, off[1])
        BY <1>4, <4>0
      <4> QED
        BY <1>3, <3>1, <4>1
    <3>2. CASE i # 1
      <4>1. i - 1 \in 1 .. n /\ {0, i - 1, i} \subseteq 0 .. n /\ 0 < i - 1 /\ i - 1 < i
        BY <1>1, <3>2
      <4>2. m < off[i - 1] /\ off[i - 1] < off[i]
        BY <1>2, <1>3, <4>1 DEF Offsets
      <4>3. off[i - 1] \in 0 .. Len(d) /\ off[i] \in 0 .. Len(d)
        BY <1>2, <4>1
      <4>4. /\ m + 1 \in 1 .. Len(d) + 1 /\ off[i - 1] \in m + 1 - 1 .. Len(d)
            /\ off[i] \in off[i - 1] .. Len(d)
        BY <1>1, <4>2, <4>3
      <4>5. SubSeq(d, m + 1, off[i - 1]) \o SubSeq(d, off[i - 1] + 1, off[i])
              = SubSeq(d, m + 1, off[i])
        <5> DEFINE a == m + 1
                   b == off[i - 1]
                   e == off[i]
        <5>1. a \in 1 .. Len(d) + 1 /\ b \in a - 1 .. Len(d) /\ e \in b .. Len(d)
          BY <4>4
        <5> HIDE DEF a, b, e
        <5>2. SubSeq(d, a, b) \o SubSeq(d, b + 1, e) = SubSeq(d, a, e)
          BY <5>1, ConcatAdjacentSubSeq
        <5> QED
          BY <5>2 DEF a, b, e
      <4> QED
        BY <1>4, <3>2, <4>1, <4>5
    <3> QED
      BY <3>1, <3>2
  <2>2. h[n] = SubSeq(d, m + 1, Len(d))
    BY <1>1, <1>3, <1>9
  <2> DEFINE W == {SubSeq(d, m + 1, off[i]) : i \in 1 .. n}
  <2>7. h \in [1 .. n -> W]
    OBVIOUS
  <2> HIDE DEF h, seqs, n, W
  <2>3. n \in Nat /\ n > 0 /\ Len(seqs) = n
    BY <1>1, <1>7, <1>9
  <2>4. InARow(seqs, h)
    BY <2>1, <2>3 DEF InARow
  <2>6. FlattenSeq(seqs) = h[n]
    BY <2>3, <2>4, <2>7, FlattenSeqIs
  <2> QED
    BY <1>5, <2>2, <2>6
<1> QED
  BY <1>8, <1>9

LEMMA Product ==
    ASSUME NEW i \in Nat, NEW j \in Nat, NEW s \in Nat \ {0}, i < j
    PROVE  /\ i * s \in Nat /\ j * s \in Nat /\ i * s < j * s
           /\ i * s <= (j - 1) * s
  OBVIOUS

LEMMA RoundUp ==
    ASSUME NEW l \in Nat \ {0}, NEW s \in Nat \ {0}
    PROVE  LET n == (l + s - 1) \div s
           IN  n \in Nat \ {0} /\ l <= n * s /\ (n - 1) * s < l
<1> DEFINE a == l + s - 1
           n == a \div s
           r == a % s
<1>1. a \in Nat /\ n \in Int /\ r \in 0 .. s - 1 /\ a = s * n + r
  OBVIOUS
<1>2. a = l + s - 1
  OBVIOUS
<1> HIDE DEF a, n, r
<1>3. s * n = n * s /\ (n - 1) * s = n * s - s /\ n * s \in Int
  BY <1>1
<1>4. l <= n * s /\ (n - 1) * s < l
  BY <1>1, <1>2, <1>3
<1>5. n > 0
  BY <1>1, <1>4
<1> QED
  BY <1>1, <1>4, <1>5 DEF n, a

\* What Fragmentation::fragment makes of the data carries the data.
LEMMA CutCarries ==
    ASSUME NEW d \in Seq(Unit), d # <<>>, NEW s \in Nat \ {0}
    PROVE  Cut(d, s) \in Seq(Packet) \ {<<>>} /\ Carries(Cut(d, s), d, 0)
<1> DEFINE l == Len(d)
           n == (l + s - 1) \div s
           off == [i \in 0 .. n |-> Least(i * s, l)]
           q == Cut(d, s)
<1>1. l \in Nat \ {0}
  BY EmptySeq
<1>2. n \in Nat \ {0} /\ l <= n * s /\ (n - 1) * s < l
  <2> HIDE DEF l
  <2> QED
    BY <1>1, RoundUp
<1>3. q = [k \in 1 .. n |->
             Fragment(k = 1 /\ n > 1, k < n, IF k = 1 /\ n > 1 THEN l ELSE 0,
                      SubSeq(d, (k - 1) * s + 1, Least(k * s, l)))]
  BY DEF Cut
<1>4. l = Len(d)
  OBVIOUS
<1> HIDE DEF l, n, q
<1>5. ASSUME NEW i \in Nat, i < n
      PROVE  i * s \in Nat /\ i * s < l
  <2>1. i * s \in Nat /\ i * s <= (n - 1) * s /\ (n - 1) * s \in Int
    BY <1>2, <1>5, Product
  <2> QED
    BY <1>1, <1>2, <2>1
<1>6. ASSUME NEW i \in 0 .. n
      PROVE  /\ off[i] \in 0 .. l
             /\ i < n => off[i] = i * s
             /\ i = n => off[i] = l
  <2>1. CASE i < n
    BY <1>1, <1>2, <1>5, <2>1 DEF Least
  <2>2. CASE i = n
    BY <1>1, <1>2, <2>2 DEF Least
  <2> QED
    BY <1>2, <2>1, <2>2
<1>7. off[0] = 0 /\ off[n] = l
  BY <1>2, <1>6
<1>8. ASSUME NEW i \in 0 .. n, NEW j \in 0 .. n, i < j
      PROVE  off[i] < off[j]
  <2>1. i \in Nat /\ j \in Nat /\ i < n /\ off[i] = i * s
    BY <1>2, <1>6, <1>8
  <2>2. CASE j < n
    <3>1. i * s < j * s /\ off[j] = j * s
      BY <1>6, <1>8, <2>1, <2>2, Product
    <3> QED
      BY <2>1, <3>1
  <2>3. CASE j = n
    BY <1>5, <1>6, <2>1, <2>3
  <2> QED
    BY <1>2, <2>2, <2>3
<1>9. ASSUME NEW k \in 1 .. n
      PROVE  /\ SubSeq(d, (k - 1) * s + 1, Least(k * s, l)) = SubSeq(d, off[k - 1] + 1, off[k])
             /\ SubSeq(d, off[k - 1] + 1, off[k]) \in Seq(Unit)
  <2>1. k - 1 \in 0 .. n /\ k \in 0 .. n /\ k - 1 < n /\ k - 1 < k
    BY <1>2
  <2>2. off[k - 1] = (k - 1) * s /\ off[k] = Least(k * s, l)
    BY <1>6, <2>1
  <2>3. off[k - 1] \in 0 .. l /\ off[k] \in 0 .. l /\ off[k - 1] < off[k]
    BY <1>6, <1>8, <2>1
  <2>4. off[k] \in off[k - 1] .. l
    BY <1>1, <2>3
  <2>5. SubSeq(d, off[k - 1] + 1, off[k]) \in Seq(Unit)
    BY <1>4, <2>3, <2>4, Piece
  <2> QED
    BY <2>2, <2>5
<1> HIDE DEF off
<1>10. ASSUME NEW k \in 1 .. n
       PROVE  q[k] = Fragment(k = 1 /\ n > 1, k < n, IF k = 1 /\ n > 1 THEN l ELSE 0,
                              SubSeq(d, off[k - 1] + 1, off[k]))
  BY <1>3, <1>9
<1>11. ASSUME NEW k \in 1 .. n
       PROVE  /\ q[k] \in Packet /\ q[k].wellFormed
              /\ q[k].data = SubSeq(d, off[k - 1] + 1, off[k])
              /\ q[k].more <=> k < n
              /\ q[k].length => k = 1
              /\ (k = 1 /\ q[k].more) => (q[k].length /\ q[k].total = l)
  <2> DEFINE first == k = 1 /\ n > 1
             more == k < n
             total == IF first THEN l ELSE 0
             data == SubSeq(d, off[k - 1] + 1, off[k])
  <2>1. first \in BOOLEAN /\ more \in BOOLEAN /\ total \in Nat /\ data \in Seq(Unit)
    BY <1>1, <1>9
  <2>2. q[k] = Fragment(first, more, total, data)
    BY <1>10
  <2>3. first => total = l
    OBVIOUS
  <2>4. (first => k = 1) /\ (k = 1 /\ more => first)
    BY <1>2
  <2> HIDE DEF first, total, data
  <2>5. /\ q[k] \in Packet /\ q[k].wellFormed /\ q[k].data = data
        /\ q[k].more <=> more
        /\ q[k].length <=> first
        /\ q[k].total = total
    <3> HIDE DEF more
    <3> QED
      BY <2>1, <2>2, FragmentFields
  <2> QED
    BY <2>3, <2>4, <2>5 DEF data
<1>12. q \in Seq(Packet) /\ Len(q) = n
  <2>1. \A k \in 1 .. n : q[k] \in Packet
    BY <1>11
  <2>2. q \in [1 .. n -> Packet]
    <3> HIDE DEF Packet
    <3> QED
      BY <1>3, <2>1
  <2> QED
    BY <1>2, <2>2
<1>14. Offsets(q, d, 0, off)
  BY <1>4, <1>7, <1>8, <1>11, <1>12 DEF Offsets
<1>15. off \in [0 .. n -> 0 .. l]
  BY <1>6 DEF off
<1>16. Carries(q, d, 0)
  BY <1>4, <1>12, <1>14, <1>15 DEF Carries
<1>17. q # <<>>
  BY <1>2, <1>12
<1> QED
  BY <1>12, <1>16, <1>17 DEF q

LEMMA SingleCarries ==
    ASSUME NEW d \in Seq(Unit), d # <<>>, NEW l \in BOOLEAN, NEW t \in Nat
    PROVE  LET q == <<Fragment(l, FALSE, t, d)>>
           IN  q \in Seq(Packet) \ {<<>>} /\ Carries(q, d, 0)
<1> DEFINE p == Fragment(l, FALSE, t, d)
           off == [i \in 0 .. 1 |-> IF i = 0 THEN 0 ELSE Len(d)]
<1>1. p \in Packet /\ p.wellFormed /\ p.data = d /\ ~p.more
  BY DEF Fragment, Packet
<1>2. Len(d) \in Nat \ {0} /\ SubSeq(d, 1, Len(d)) = d
  BY EmptySeq, SubSeqFull
<1> HIDE DEF p, Packet
<1>3. <<p>> \in Seq(Packet) \ {<<>>} /\ Len(<<p>>) = 1 /\ <<p>>[1] = p
  BY <1>1
<1>4. off \in [0 .. 1 -> 0 .. Len(d)] /\ off[0] = 0 /\ off[1] = Len(d)
  BY <1>2
<1> HIDE DEF off
<1>5. Offsets(<<p>>, d, 0, off)
  BY <1>1, <1>2, <1>3, <1>4 DEF Offsets
<1> QED
  BY <1>3, <1>4, <1>5 DEF Carries, p

-----------------------------------------------------------------------------
(* Types.                                                                  *)

\* A connection with a turn has a state.
TInv == TypeOK /\ \A c \in Conn : turn[c] # "off" => conState[c] # "UNKNOWN"

LEMMA AckIsPacket ==
    /\ Ack \in Packet /\ Ack.wellFormed /\ Ack.data = <<>> /\ ~Ack.more
    /\ Greeting = [result |-> "SUCCESS", state |-> "HANDSHAKE", out |-> Ack]
    /\ NoBuffer \in [total : Nat, data : Seq(Unit)]
    /\ NoBuffer.total = 0 /\ NoBuffer.data = <<>>
<1>1. <<>> \in Seq(Unit)
  OBVIOUS
<1>2. Ack \in Packet /\ Ack.wellFormed /\ Ack.data = <<>> /\ ~Ack.more
  BY <1>1 DEF Ack, Fragment, Packet
<1> QED
  BY <1>1, <1>2 DEF Greeting, NoBuffer

LEMMA WaysCarry ==
    ASSUME NEW d \in Payloads, NEW q \in Ways(d)
    PROVE  /\ d \in Seq(Unit) \ {<<>>} /\ Len(d) \in Nat \ {0}
           /\ q \in Seq(Packet) \ {<<>>} /\ Carries(q, d, 0)
<1>1. d \in Seq(Unit) /\ d # <<>> /\ Len(d) \in Nat \ {0}
  BY PayloadAssumption, EmptySeq
<1>2. CASE \E n \in PeerSizes : q = Cut(d, n)
  BY <1>1, <1>2, SizeAssumption, CutCarries
<1>3. CASE q = <<Fragment(TRUE, FALSE, Len(d), d)>>
  BY <1>1, <1>3, SingleCarries
<1> QED
  BY <1>1, <1>2, <1>3 DEF Ways

\* The pieces in which the server sends d.
Pieces(d) == IF active THEN Cut(d, MaxFragment) ELSE <<Fragment(FALSE, FALSE, 0, d)>>

LEMMA PiecesCarry ==
    ASSUME NEW d \in Payloads
    PROVE  /\ d \in Seq(Unit) \ {<<>>} /\ Len(d) \in Nat \ {0}
           /\ Pieces(d) \in Seq(Packet) \ {<<>>} /\ Carries(Pieces(d), d, 0)
<1>1. d \in Seq(Unit) /\ d # <<>> /\ Len(d) \in Nat \ {0}
  BY PayloadAssumption, EmptySeq
<1> QED
  BY <1>1, SizeAssumption, CutCarries, SingleCarries DEF Pieces

LEMMA ReplyType ==
    ASSUME TypeOK, NEW c \in Conn, NEW r \in {"SUCCESS", "FATAL", "INVALID_PARAMETER"},
           NEW s \in {"HANDSHAKE"} \cup Decided, NEW out \in Packet, Reply(c, r, s, out)
    PROVE  /\ answer' \in [Conn -> [result : {"SUCCESS", "FATAL", "INVALID_PARAMETER"},
                                    state : {"HANDSHAKE"} \cup Decided, out : Packet]]
           /\ turn' \in [Conn -> {"off", "peer", "server"}]
           /\ turn[c] = "server" => \A e \in Conn : turn'[e] # "off" => turn[e] # "off"
           /\ UNCHANGED <<active, packet, todo, part, sent, got>>
<1> HIDE DEF Packet
<1> QED
  BY DEF TypeOK, Reply, peer

LEMMA DeliverType ==
    ASSUME TypeOK, NEW c \in Conn, NEW p \in Packet, Deliver(c, p)
    PROVE  /\ packet' \in [Conn -> Packet]
           /\ turn' \in [Conn -> {"off", "peer", "server"}]
           /\ turn[c] = "peer" => \A e \in Conn : turn'[e] # "off" => turn[e] # "off"
           /\ UNCHANGED <<active, conState, buffer, queue, answer, handed, answered>>
<1> HIDE DEF Packet
<1> QED
  BY DEF TypeOK, Deliver, server, history

LEMMA SpeakType ==
    ASSUME TypeOK, NEW c \in Conn, turn[c] = "peer", Speak(c)
    PROVE  /\ packet' \in [Conn -> Packet]
           /\ turn' \in [Conn -> {"off", "peer", "server"}]
           /\ \A e \in Conn : turn'[e] # "off" => turn[e] # "off"
           /\ UNCHANGED <<active, conState, buffer, queue, answer, handed, answered>>
           /\ todo' \in [Conn -> Seq(Packet)] /\ sent' \in [Conn -> Seq(Seq(Unit))]
<1> HIDE DEF Packet
<1>1. CASE sent[c] # <<>> /\ Deliver(c, Ack) /\ UNCHANGED <<todo, sent>>
  BY <1>1, AckIsPacket, DeliverType DEF TypeOK
<1>2. CASE \E d \in Payloads : \E q \in Ways(d) :
              /\ Deliver(c, Head(q))
              /\ todo' = [todo EXCEPT ![c] = Tail(q)]
              /\ sent' = [sent EXCEPT ![c] = Append(@, d)]
  <2>1. PICK d \in Payloads : \E q \in Ways(d) :
              /\ Deliver(c, Head(q))
              /\ todo' = [todo EXCEPT ![c] = Tail(q)]
              /\ sent' = [sent EXCEPT ![c] = Append(@, d)]
    BY <1>2
  <2>2. PICK q \in Ways(d) :
              /\ Deliver(c, Head(q))
              /\ todo' = [todo EXCEPT ![c] = Tail(q)]
              /\ sent' = [sent EXCEPT ![c] = Append(@, d)]
    BY <2>1
  <2>3. d \in Seq(Unit) /\ Head(q) \in Packet /\ Tail(q) \in Seq(Packet)
    BY WaysCarry, HeadAndTail
  <2>4. Append(sent[c], d) \in Seq(Seq(Unit))
    BY <2>3, AppendProperties DEF TypeOK
  <2> QED
    BY <2>2, <2>3, <2>4, DeliverType DEF TypeOK
<1> QED
  BY <1>1, <1>2 DEF Speak

LEMMA SendFragmentsType ==
    ASSUME TypeOK, NEW c \in Conn, NEW d \in Payloads, SendFragments(c, d)
    PROVE  /\ Send(c, Head(Pieces(d))) /\ Head(Pieces(d)) \in Packet
           /\ queue' = IF active THEN [queue EXCEPT ![c] = Tail(Pieces(d))] ELSE queue
           /\ queue' \in [Conn -> Seq(Packet)]
<1> HIDE DEF Packet
<1>1. /\ Send(c, Head(Pieces(d)))
      /\ queue' = IF active THEN [queue EXCEPT ![c] = Tail(Pieces(d))] ELSE queue
  BY DEF SendFragments, Pieces
<1>2. Head(Pieces(d)) \in Packet /\ Tail(Pieces(d)) \in Seq(Packet)
  BY PiecesCarry, HeadAndTail
<1> QED
  BY <1>1, <1>2 DEF TypeOK

LEMMA JoinedType ==
    ASSUME TypeOK, NEW c \in Conn
    PROVE  /\ packet[c] \in Packet /\ packet[c].data \in Seq(Unit)
           /\ packet[c].total \in Nat
           /\ Joined(c, packet[c]) \in Seq(Unit)
           /\ buffer[c] \in [total : Nat, data : Seq(Unit)]
<1>1. packet[c] \in Packet /\ buffer[c] \in [total : Nat, data : Seq(Unit)]
  BY DEF TypeOK
<1>2. packet[c].data \in Seq(Unit) /\ packet[c].total \in Nat /\ buffer[c].data \in Seq(Unit)
  BY <1>1 DEF Packet
<1> QED
  BY <1>1, <1>2, ConcatProperties DEF Joined

LEMMA HandOverType ==
    ASSUME TypeOK, NEW c \in Conn, HandOver(c)
    PROVE  /\ handed' \in [Conn -> Seq(Seq(Unit))]
           /\ buffer' \in [Conn -> [total : Nat, data : Seq(Unit)]]
           /\ turn[c] = "server" /\ conState[c] = "HANDSHAKE"
<1>1. handed[c] \in Seq(Seq(Unit))
  BY DEF TypeOK
<1>2. Append(handed[c], Joined(c, packet[c])) \in Seq(Seq(Unit))
  BY <1>1, JoinedType, AppendProperties
<1> HIDE DEF Packet
<1> QED
  BY <1>2, AckIsPacket DEF TypeOK, HandOver, Complete, Defragmented, Loaded, Called

LEMMA ServerType ==
    ASSUME TInv, NEW c \in Conn, Serve(c)
    PROVE  TInv'
<1> USE DEF TInv
<1> HIDE DEF Packet
<1>1. CASE RejectHeader(c) \/ NoNextFragment(c) \/ LastAck(c)
  <2>1. conState[c] # "HANDSHAKE" /\ turn[c] = "server" => conState[c] \in Decided
    BY DEF TypeOK
  <2>2. UNCHANGED <<conState, buffer, queue, handed, answered>> /\ turn[c] = "server"
    BY <1>1 DEF RejectHeader, NoNextFragment, LastAck, Empty, Called, history
  <2>3. PICK r \in {"SUCCESS", "FATAL", "INVALID_PARAMETER"},
             s \in {"HANDSHAKE"} \cup Decided : Reply(c, r, s, Ack)
    BY <1>1, <2>1 DEF RejectHeader, NoNextFragment, LastAck, Empty, Called, Refuse, Report
  <2>4. /\ answer' \in [Conn -> [result : {"SUCCESS", "FATAL", "INVALID_PARAMETER"},
                                state : {"HANDSHAKE"} \cup Decided, out : Packet]]
        /\ turn' \in [Conn -> {"off", "peer", "server"}]
        /\ \A e \in Conn : turn'[e] # "off" => turn[e] # "off"
        /\ UNCHANGED <<active, packet, todo, part, sent, got>>
    BY <2>2, <2>3, ReplyType, AckIsPacket
  <2> QED
    BY <2>2, <2>4 DEF TypeOK
<1>2. CASE SendNextFragment(c)
  <2>1. queue[c] \in Seq(Packet) \ {<<>>}
    BY <1>2 DEF SendNextFragment, TypeOK
  <2>2. Head(queue[c]) \in Packet /\ Tail(queue[c]) \in Seq(Packet)
    BY <2>1, HeadAndTail
  <2>3. /\ UNCHANGED <<conState, buffer, handed, answered>> /\ turn[c] = "server"
        /\ queue' = [queue EXCEPT ![c] = Tail(@)]
        /\ Reply(c, "SUCCESS", "HANDSHAKE", Head(queue[c]))
    BY <1>2 DEF SendNextFragment, Empty, Called, history, Send
  <2> QED
    BY <2>2, <2>3, ReplyType DEF TypeOK
<1>3. CASE RejectFragment(c) \/ StoreFragment(c) \/ HandOverLate(c)
  <2>1. conState[c] # "HANDSHAKE" /\ turn[c] = "server" => conState[c] \in Decided
    BY DEF TypeOK
  <2>2. UNCHANGED <<conState, queue, handed, answered>> /\ turn[c] = "server"
    BY <1>3 DEF RejectFragment, StoreFragment, HandOverLate, Complete, Defragmented, Loaded,
                Called, history
  <2>3. PICK r \in {"SUCCESS", "FATAL", "INVALID_PARAMETER"},
             s \in {"HANDSHAKE"} \cup Decided : Reply(c, r, s, Ack)
    BY <1>3, <2>1 DEF RejectFragment, StoreFragment, HandOverLate, Complete, Defragmented,
                      Loaded, Called, Refuse, Report, Send
  <2>4. buffer' \in [Conn -> [total : Nat, data : Seq(Unit)]]
    <3>1. CASE buffer' = [buffer EXCEPT ![c] = NoBuffer]
      BY <3>1, AckIsPacket DEF TypeOK
    <3>2. CASE StoreFragment(c)
      <4> DEFINE b == [total |-> IF Begun(c) THEN buffer[c].total ELSE packet[c].total,
                       data |-> Joined(c, packet[c])]
      <4>1. b \in [total : Nat, data : Seq(Unit)]
        BY JoinedType
      <4>2. buffer' = [buffer EXCEPT ![c] = b]
        BY <3>2 DEF StoreFragment
      <4> HIDE DEF b
      <4> QED
        BY <4>1, <4>2 DEF TypeOK
    <3> QED
      BY <1>3, <3>1, <3>2 DEF RejectFragment, HandOverLate
  <2>5. /\ answer' \in [Conn -> [result : {"SUCCESS", "FATAL", "INVALID_PARAMETER"},
                                state : {"HANDSHAKE"} \cup Decided, out : Packet]]
        /\ turn' \in [Conn -> {"off", "peer", "server"}]
        /\ \A e \in Conn : turn'[e] # "off" => turn[e] # "off"
        /\ UNCHANGED <<active, packet, todo, part, sent, got>>
    BY <2>2, <2>3, ReplyType, AckIsPacket
  <2> QED
    BY <2>2, <2>4, <2>5 DEF TypeOK
<1>4. CASE EndWithoutBatch(c)
  <2>1. PICK s \in Decided : conState' = [conState EXCEPT ![c] = s] /\ Report(c, s)
    BY <1>4 DEF EndWithoutBatch
  <2>2. HandOver(c) /\ UNCHANGED <<queue, answered>>
    BY <1>4 DEF EndWithoutBatch
  <2>3. Reply(c, "SUCCESS", s, Ack)
    BY <2>1 DEF Report
  <2>4. s # "UNKNOWN" /\ s \in {"UNKNOWN", "HANDSHAKE"} \cup Decided
    BY DEF Decided
  <2> QED
    BY <2>1, <2>2, <2>3, <2>4, HandOverType, ReplyType, AckIsPacket DEF TypeOK
<1>5. CASE AnswerBatch(c)
  <2>1. PICK d \in Payloads : SendFragments(c, d) /\ answered' = [answered EXCEPT ![c] = Append(@, d)]
    BY <1>5 DEF AnswerBatch
  <2>2. HandOver(c) /\ UNCHANGED conState
    BY <1>5 DEF AnswerBatch
  <2>3. Append(answered[c], d) \in Seq(Seq(Unit))
    BY PiecesCarry, AppendProperties DEF TypeOK
  <2>4. Reply(c, "SUCCESS", "HANDSHAKE", Head(Pieces(d)))
    BY <2>1, SendFragmentsType DEF Send
  <2> QED
    BY <2>1, <2>2, <2>3, <2>4, HandOverType, ReplyType, SendFragmentsType DEF TypeOK
<1>6. CASE AnswerInterrupted(c)
  <2>1. /\ HandOver(c) /\ UNCHANGED <<conState, answered>>
        /\ queue' = [queue EXCEPT ![c] = <<>>]
        /\ Reply(c, "FATAL", "HANDSHAKE", Ack)
    BY <1>6 DEF AnswerInterrupted, Refuse
  <2>2. <<>> \in Seq(Packet)
    OBVIOUS
  <2> QED
    BY <2>1, <2>2, HandOverType, ReplyType, AckIsPacket DEF TypeOK
<1>7. CASE AnswerLastBatch(c)
  <2>1. PICK d \in Payloads, s \in Decided :
          /\ conState' = [conState EXCEPT ![c] = s]
          /\ SendFragments(c, d) /\ answered' = [answered EXCEPT ![c] = Append(@, d)]
    BY <1>7 DEF AnswerLastBatch
  <2>2. HandOver(c)
    BY <1>7 DEF AnswerLastBatch
  <2>3. Append(answered[c], d) \in Seq(Seq(Unit))
    BY PiecesCarry, AppendProperties DEF TypeOK
  <2>4. Reply(c, "SUCCESS", "HANDSHAKE", Head(Pieces(d)))
    BY <2>1, SendFragmentsType DEF Send
  <2>5. s # "UNKNOWN" /\ s \in {"UNKNOWN", "HANDSHAKE"} \cup Decided
    BY DEF Decided
  <2> QED
    BY <2>1, <2>2, <2>3, <2>4, <2>5, HandOverType, ReplyType, SendFragmentsType DEF TypeOK
<1>8. CASE Crash(c)
  <2>1. <<>> \in Seq(Packet)
    OBVIOUS
  <2> QED
    BY <1>8, <2>1, AckIsPacket DEF Crash, TypeOK, peer, history
<1> QED
  BY <1>1, <1>2, <1>3, <1>4, <1>5, <1>6, <1>7, <1>8 DEF Serve

LEMMA EndpointType ==
    ASSUME TInv, NEW c \in Conn, Endpoint(c)
    PROVE  TInv'
<1> USE DEF TInv
<1> HIDE DEF Packet
<1>1. CASE PeerStarts(c)
  <2>1. turn[c] = "peer" /\ Speak(c) /\ UNCHANGED <<part, got>>
    BY <1>1 DEF PeerStarts, InSession
  <2> QED
    BY <2>1, SpeakType DEF TypeOK
<1>2. CASE PeerSendsNext(c)
  <2>1. /\ turn[c] = "peer" /\ todo[c] # <<>> /\ Deliver(c, Head(todo[c]))
        /\ todo' = [todo EXCEPT ![c] = Tail(@)] /\ UNCHANGED <<part, sent, got>>
    BY <1>2 DEF PeerSendsNext, InSession
  <2>2. Head(todo[c]) \in Packet /\ Tail(todo[c]) \in Seq(Packet)
    BY <2>1, HeadAndTail DEF TypeOK
  <2> QED
    BY <2>1, <2>2, DeliverType DEF TypeOK
<1>3. part[c] \in Seq(Unit) /\ Out(c) \in Packet /\ Out(c).data \in Seq(Unit)
      /\ part[c] \o Out(c).data \in Seq(Unit)
  <2>1. part[c] \in Seq(Unit) /\ Out(c) \in Packet
    BY DEF TypeOK, Out
  <2>2. Out(c).data \in Seq(Unit)
    BY <2>1 DEF Packet
  <2> QED
    BY <2>1, <2>2, ConcatProperties
<1>4. CASE PeerCollects(c)
  <2>1. /\ turn[c] = "peer" /\ Deliver(c, Ack)
        /\ part' = [part EXCEPT ![c] = @ \o Out(c).data] /\ UNCHANGED <<todo, sent, got>>
    BY <1>4 DEF PeerCollects, InSession
  <2> QED
    BY <2>1, <1>3, AckIsPacket, DeliverType DEF TypeOK
<1>5. CASE PeerReceives(c)
  <2>1. /\ turn[c] = "peer" /\ Speak(c)
        /\ got' = [got EXCEPT ![c] = Append(@, part[c] \o Out(c).data)]
        /\ part' = [part EXCEPT ![c] = <<>>]
    BY <1>5 DEF PeerReceives, InSession
  <2>2. Append(got[c], part[c] \o Out(c).data) \in Seq(Seq(Unit)) /\ <<>> \in Seq(Unit)
    BY <1>3, AppendProperties DEF TypeOK
  <2> QED
    BY <2>1, <2>2, SpeakType DEF TypeOK
<1>6. CASE Misbehave(c)
  <2>1. PICK p \in Junk : Deliver(c, p)
    BY <1>6 DEF Misbehave
  <2>2. p \in Packet /\ turn[c] = "peer" /\ UNCHANGED <<todo, part, sent, got>>
    BY <1>6, JunkAssumption DEF Misbehave, peer
  <2> QED
    BY <2>1, <2>2, DeliverType DEF TypeOK
<1> QED
  BY <1>1, <1>2, <1>4, <1>5, <1>6 DEF Endpoint

LEMMA TypeStep ==
    ASSUME TInv, [Next]_vars
    PROVE  TInv'
<1>1. CASE \E c \in Conn : GetConnection(c)
  <2>1. /\ <<>> \in Seq(Packet) /\ <<>> \in Seq(Unit) /\ <<>> \in Seq(Seq(Unit))
    OBVIOUS
  <2> HIDE DEF Packet
  <2> QED
    BY <1>1, <2>1, AckIsPacket DEF TInv, TypeOK, GetConnection, Reset
<1>2. CASE \E c \in Conn : Serve(c) \/ Endpoint(c)
  BY <1>2, ServerType, EndpointType
<1>3. CASE UNCHANGED vars
  BY <1>3 DEF TInv, TypeOK, vars, server, link, peer, history
<1> QED
  BY <1>1, <1>2, <1>3 DEF Next

\* Every variable of EapTnc keeps its type.
THEOREM TypeCorrect == Spec => []TypeOK
<1>1. Init => TInv
  <2>1. /\ <<>> \in Seq(Packet) /\ <<>> \in Seq(Unit) /\ <<>> \in Seq(Seq(Unit))
    OBVIOUS
  <2> HIDE DEF Packet
  <2> QED
    BY <2>1, AckIsPacket, SizeAssumption DEF Init, TInv, TypeOK
<1>2. TInv => TypeOK
  BY DEF TInv
<1> QED
  BY <1>1, <1>2, TypeStep, PTL DEF Spec

-----------------------------------------------------------------------------
(* The inductive invariant: what an honest endpoint and its session have   *)
(* told each other.                                                        *)

\* Nothing is under way to the server, or to the endpoint.
Resting(c) == handed[c] = sent[c] /\ todo[c] = <<>> /\ buffer[c] = NoBuffer
Quiet(c)   == got[c] = answered[c] /\ part[c] = <<>> /\ queue[c] = <<>>

\* The buffer holds the first m units of d.
Holds(b, d, m) ==
    /\ m \in 0 .. Len(d) /\ b.data = SubSeq(d, 1, m)
    /\ IF m = 0 THEN b = NoBuffer ELSE b.total = Len(d)

\* The endpoint's batch is under way, the fragments q are still to arrive.
Sending(c, q) ==
    /\ Quiet(c) /\ AllButLast(handed[c], sent[c])
    /\ LET d == Last(sent[c])
           m == Len(buffer[c].data)
       IN  Holds(buffer[c], d, m) /\ Carries(q, d, m)

\* The server's batch is under way.
Hearing(c, q) ==
    /\ Resting(c) /\ sent[c] # <<>> /\ AllButLast(got[c], answered[c])
    /\ LET d == Last(answered[c])
           m == Len(part[c])
       IN  m \in 0 .. Len(d) /\ part[c] = SubSeq(d, 1, m) /\ Carries(q, d, m)

Served(c) == answer[c].result = "SUCCESS"
Dismissed(c) == answer[c].state # "HANDSHAKE"

AtServer(c) ==
    /\ turn[c] = "server" /\ Served(c)
    /\ \/ Sending(c, <<packet[c]>> \o todo[c])
       \/ packet[c] = Ack /\ Hearing(c, queue[c]) /\ queue[c] # <<>>
       \/ packet[c] = Ack /\ Resting(c) /\ Quiet(c)

AtPeer(c) ==
    /\ turn[c] = "peer"
    /\ \/ Out(c) = Ack /\ Resting(c) /\ Quiet(c) /\ (Served(c) \/ packet[c] = Ack)
       \/ Out(c) = Ack /\ Served(c) /\ Sending(c, todo[c])
       \/ Out(c) = Ack /\ Served(c) /\ Dismissed(c) /\ Quiet(c)
            /\ AllButLast(handed[c], sent[c]) /\ conState[c] # "HANDSHAKE"
       \/ Served(c) /\ Hearing(c, <<Out(c)>> \o queue[c])
       \/ Out(c) = Ack /\ Served(c) /\ Dismissed(c) /\ Hearing(c, queue[c])

\* What holds even when the server has forgotten the endpoint.
Kept(c) ==
    /\ handed[c] = sent[c] \/ AllButLast(handed[c], sent[c])
    /\ got[c] = answered[c] \/ AllButLast(got[c], answered[c])
    /\ Served(c) \/ (packet[c] = Ack /\ part[c] = <<>>)

Exchange(c) == Kept(c) /\ (turn[c] = "off" \/ AtServer(c) \/ AtPeer(c))

EInv == TInv /\ \A c \in Honest : Exchange(c)

\* What a step of another endpoint leaves alone.
Untouched(c) ==
    /\ conState'[c] = conState[c] /\ buffer'[c] = buffer[c] /\ queue'[c] = queue[c]
    /\ turn'[c] = turn[c] /\ packet'[c] = packet[c] /\ answer'[c] = answer[c]
    /\ todo'[c] = todo[c] /\ part'[c] = part[c] /\ sent'[c] = sent[c]
    /\ handed'[c] = handed[c] /\ answered'[c] = answered[c] /\ got'[c] = got[c]

LEMMA UntouchedKeeps ==
    ASSUME NEW c, Exchange(c), Untouched(c)
    PROVE  Exchange(c)'
<1> USE DEF Untouched
<1>1. Kept(c)'
  BY DEF Exchange, Kept, Served
<1>2. /\ Resting(c) => Resting(c)'
      /\ Quiet(c) => Quiet(c)'
  BY DEF Resting, Quiet
<1>3. ASSUME NEW q
      PROVE  /\ Sending(c, q) => Sending(c, q)'
             /\ Hearing(c, q) => Hearing(c, q)'
  BY <1>2 DEF Sending, Hearing
<1>4. AtServer(c) => AtServer(c)'
  BY <1>2, <1>3 DEF AtServer, Served
<1>5. AtPeer(c) => AtPeer(c)'
  BY <1>2, <1>3 DEF AtPeer, Served, Dismissed, Out
<1> QED
  BY <1>1, <1>4, <1>5 DEF Exchange

LEMMA PhaseKept ==
    ASSUME NEW c, AtServer(c)' \/ AtPeer(c)'
    PROVE  Exchange(c)'
<1>1. CASE AtServer(c)'
  BY <1>1 DEF Exchange, AtServer, Kept, Sending, Hearing, Resting, Quiet
<1>2. CASE AtPeer(c)'
  BY <1>2 DEF Exchange, AtPeer, Kept, Sending, Hearing, Resting, Quiet
<1> QED
  BY <1>1, <1>2

LEMMA OthersUntouched ==
    ASSUME TInv, NEW c \in Conn, NEW e \in Conn, e # c,
           GetConnection(c) \/ (Serve(c) /\ ~Crash(c)) \/ Endpoint(c)
    PROVE  Untouched(e)
<1> USE DEF TInv, Untouched
<1>1. CASE GetConnection(c)
  BY <1>1 DEF GetConnection, Reset, TypeOK
<1>2. ASSUME NEW r, NEW s, NEW out, Reply(c, r, s, out)
      PROVE  /\ turn'[e] = turn[e] /\ packet'[e] = packet[e] /\ answer'[e] = answer[e]
             /\ todo'[e] = todo[e] /\ part'[e] = part[e] /\ sent'[e] = sent[e]
             /\ got'[e] = got[e]
  BY <1>2 DEF Reply, TypeOK, peer
<1>3. CASE RejectHeader(c) \/ SendNextFragment(c) \/ NoNextFragment(c) \/ LastAck(c)
  <2>1. \E r, s, out : Reply(c, r, s, out)
    BY <1>3 DEF RejectHeader, SendNextFragment, NoNextFragment, LastAck, Refuse, Send, Report
  <2>2. /\ conState'[e] = conState[e] /\ buffer'[e] = buffer[e] /\ queue'[e] = queue[e]
        /\ handed'[e] = handed[e] /\ answered'[e] = answered[e]
    BY <1>3 DEF RejectHeader, SendNextFragment, NoNextFragment, LastAck, TypeOK, history
  <2> QED
    BY <1>2, <2>1, <2>2
<1>4. CASE RejectFragment(c) \/ StoreFragment(c) \/ HandOverLate(c)
  <2>1. \E r, s, out : Reply(c, r, s, out)
    BY <1>4 DEF RejectFragment, StoreFragment, HandOverLate, Refuse, Send, Report
  <2>2. /\ conState'[e] = conState[e] /\ buffer'[e] = buffer[e] /\ queue'[e] = queue[e]
        /\ handed'[e] = handed[e] /\ answered'[e] = answered[e]
    BY <1>4 DEF RejectFragment, StoreFragment, HandOverLate, TypeOK, history
  <2> QED
    BY <1>2, <2>1, <2>2
<1>5. CASE EndWithoutBatch(c) \/ AnswerBatch(c) \/ AnswerInterrupted(c) \/ AnswerLastBatch(c)
  <2>1. \E r, s, out : Reply(c, r, s, out)
    BY <1>5 DEF EndWithoutBatch, AnswerBatch, AnswerInterrupted, AnswerLastBatch,
                SendFragments, Refuse, Send, Report
  <2>2. HandOver(c)
    BY <1>5 DEF EndWithoutBatch, AnswerBatch, AnswerInterrupted, AnswerLastBatch
  <2>3. buffer'[e] = buffer[e] /\ handed'[e] = handed[e]
    BY <2>2 DEF HandOver, TypeOK
  <2>4. ASSUME NEW d, SendFragments(c, d)
        PROVE  queue'[e] = queue[e]
    BY <2>4 DEF SendFragments, TypeOK
  <2>5. conState'[e] = conState[e] /\ queue'[e] = queue[e] /\ answered'[e] = answered[e]
    BY <1>5, <2>4 DEF EndWithoutBatch, AnswerBatch, AnswerInterrupted, AnswerLastBatch, TypeOK
  <2> QED
    BY <1>2, <2>1, <2>3, <2>5
<1>6. CASE Endpoint(c)
  <2>1. ASSUME NEW p, Deliver(c, p)
        PROVE  /\ turn'[e] = turn[e] /\ packet'[e] = packet[e] /\ answer'[e] = answer[e]
               /\ conState'[e] = conState[e] /\ buffer'[e] = buffer[e]
               /\ queue'[e] = queue[e]
               /\ handed'[e] = handed[e] /\ answered'[e] = answered[e]
    BY <2>1 DEF Deliver, TypeOK, server, history
  <2>2. \E p : Deliver(c, p)
    BY <1>6 DEF Endpoint, PeerStarts, PeerSendsNext, PeerCollects, PeerReceives, Misbehave,
                Speak
  <2>3. /\ todo'[e] = todo[e] /\ part'[e] = part[e] /\ sent'[e] = sent[e]
        /\ got'[e] = got[e]
    BY <1>6 DEF Endpoint, PeerStarts, PeerSendsNext, PeerCollects, PeerReceives, Misbehave,
                Speak, TypeOK, peer
  <2> QED
    BY <2>1, <2>2, <2>3
<1> QED
  BY <1>1, <1>3, <1>4, <1>5, <1>6 DEF Serve

\* The server has forgotten the endpoint, what it was told before stands.
LEMMA CrashKeeps ==
    ASSUME TInv, NEW c, Crash(c), NEW e \in Conn, Exchange(e)
    PROVE  Exchange(e)'
<1>1. /\ handed' = handed /\ sent' = sent /\ got' = got /\ answered' = answered
      /\ answer' = answer /\ packet' = packet /\ part' = part /\ turn'[e] = "off"
  BY DEF Crash, peer, history
<1> QED
  BY <1>1 DEF Exchange, Kept, Served

LEMMA ConnectedAnew ==
    ASSUME TInv, NEW c \in Honest, GetConnection(c)
    PROVE  Exchange(c)'
<1>0. c \in Conn
  BY ConnAssumption
<1>1. /\ queue'[c] = <<>> /\ buffer'[c] = NoBuffer /\ turn'[c] = "peer"
      /\ answer'[c] = Greeting /\ todo'[c] = <<>> /\ part'[c] = <<>>
      /\ sent'[c] = <<>> /\ handed'[c] = <<>> /\ answered'[c] = <<>> /\ got'[c] = <<>>
  BY <1>0 DEF GetConnection, Reset, TInv, TypeOK
<1>2. AtPeer(c)'
  BY <1>1, AckIsPacket DEF AtPeer, Out, Served, Resting, Quiet
<1> QED
  BY <1>2, PhaseKept

-----------------------------------------------------------------------------
(* The server's steps with an honest endpoint.                             *)

\* Its types, one connection at a time.
LEMMA SessionTypes ==
    ASSUME TInv, NEW c \in Conn
    PROVE  /\ queue[c] \in Seq(Packet) /\ todo[c] \in Seq(Packet)
           /\ packet[c] \in Packet /\ Out(c) \in Packet
           /\ packet[c].data \in Seq(Unit) /\ Out(c).data \in Seq(Unit)
           /\ part[c] \in Seq(Unit) /\ buffer[c].data \in Seq(Unit)
           /\ buffer[c] \in [total : Nat, data : Seq(Unit)]
           /\ sent[c] \in Seq(Seq(Unit)) /\ answered[c] \in Seq(Seq(Unit))
           /\ handed[c] \in Seq(Seq(Unit)) /\ got[c] \in Seq(Seq(Unit))
<1>1. /\ queue[c] \in Seq(Packet) /\ todo[c] \in Seq(Packet)
      /\ packet[c] \in Packet /\ Out(c) \in Packet
      /\ part[c] \in Seq(Unit) /\ buffer[c] \in [total : Nat, data : Seq(Unit)]
      /\ sent[c] \in Seq(Seq(Unit)) /\ answered[c] \in Seq(Seq(Unit))
      /\ handed[c] \in Seq(Seq(Unit)) /\ got[c] \in Seq(Seq(Unit))
  <2> HIDE DEF Packet
  <2> QED
    BY DEF TInv, TypeOK, Out
<1>2. packet[c].data \in Seq(Unit) /\ Out(c).data \in Seq(Unit)
  BY <1>1 DEF Packet
<1> HIDE DEF Packet
<1> QED
  BY <1>1, <1>2

\* What processEAPTNCData finds when an honest endpoint sends a batch: the
\* fragment is accepted, and the last one completes the batch.
LEMMA FragmentArrives ==
    ASSUME TInv, NEW c \in Conn, Sending(c, <<packet[c]>> \o todo[c])
    PROVE  LET d == Last(sent[c])
               m == Len(buffer[c].data)
               n == m + Len(packet[c].data)
           IN  /\ d \in Seq(Unit) /\ Len(d) \in Nat
               /\ m \in 0 .. Len(d) /\ n \in m + 1 .. Len(d)
               /\ Begun(c) <=> m > 0
               /\ Begun(c) => buffer[c].total = Len(d)
               /\ packet[c].wellFormed /\ packet[c].data # <<>>
               /\ packet[c].length => m = 0
               /\ m = 0 /\ packet[c].more => packet[c].length /\ packet[c].total = Len(d)
               /\ packet[c].more <=> todo[c] # <<>>
               /\ packet[c].more <=> n < Len(d)
               /\ Joined(c, packet[c]) = SubSeq(d, 1, n)
               /\ Len(Joined(c, packet[c])) = n
               /\ Carries(todo[c], d, n)
<1> DEFINE d == Last(sent[c])
           m == Len(buffer[c].data)
           p == packet[c]
           n == m + Len(p.data)
<1>1. sent[c] \in Seq(Seq(Unit)) /\ sent[c] # <<>>
  BY SessionTypes DEF Sending, AllButLast
<1>2. d \in Seq(Unit)
  BY <1>1, FrontAndLast
<1>3. Holds(buffer[c], d, m) /\ Carries(<<p>> \o todo[c], d, m)
  BY DEF Sending
<1>4. Len(d) \in Nat /\ Len(p.data) \in Nat /\ p.data \in Seq(Unit)
  BY <1>2, SessionTypes, LenProperties
<1>5. m \in 0 .. Len(d) /\ buffer[c].data = SubSeq(d, 1, m)
  BY <1>3 DEF Holds
<1>6. (Begun(c) <=> m > 0) /\ (Begun(c) => buffer[c].total = Len(d))
  <2>1. CASE m = 0
    BY <1>3, <2>1 DEF Holds, Begun
  <2>2. CASE m # 0
    <3>1. Len(NoBuffer.data) = 0
      BY AckIsPacket
    <3>2. buffer[c] # NoBuffer /\ m > 0
      BY <2>2, <3>1, <1>4, <1>5
    <3> QED
      BY <1>3, <2>2, <3>2 DEF Holds, Begun
  <2> QED
    BY <2>1, <2>2
<1>7. p \in Packet /\ todo[c] \in Seq(Packet)
  BY SessionTypes
<1> HIDE DEF d, m, p, Packet
<1>8. /\ p.wellFormed /\ p.data # <<>>
      /\ p.more <=> todo[c] # <<>>
      /\ p.length => m = 0
      /\ m = 0 /\ p.more => p.length /\ p.total = Len(d)
      /\ n \in m + 1 .. Len(d)
      /\ p.more <=> n < Len(d)
      /\ SubSeq(d, 1, m) \o p.data = SubSeq(d, 1, n)
      /\ Carries(todo[c], d, n)
  BY <1>2, <1>3, <1>5, <1>7, FirstFragment
<1>9. Joined(c, p) = SubSeq(d, 1, n)
  BY <1>5, <1>8 DEF Joined
<1>10. Len(Joined(c, p)) = n
  <2>1. n \in 0 .. Len(d) /\ 0 \in 0 .. Len(d) /\ n \in 0 .. Len(d)
    BY <1>4, <1>5, <1>8
  <2> HIDE DEF n
  <2>2. Len(SubSeq(d, 0 + 1, n)) = n - 0
    BY <1>2, <2>1, Piece
  <2> QED
    BY <1>9, <2>1, <2>2
<1> QED
  BY <1>2, <1>4, <1>5, <1>6, <1>8, <1>9, <1>10 DEF d, m, p

LEMMA FragmentAccepted ==
    ASSUME TInv, NEW c \in Conn, Sending(c, <<packet[c]>> \o todo[c])
    PROVE  /\ Acceptable(c, packet[c])
           /\ ~packet[c].more => Joined(c, packet[c]) = Last(sent[c])
<1> DEFINE d == Last(sent[c])
           m == Len(buffer[c].data)
           p == packet[c]
           n == m + Len(p.data)
<1>1. /\ d \in Seq(Unit) /\ Len(d) \in Nat
      /\ m \in 0 .. Len(d) /\ n \in m + 1 .. Len(d)
      /\ Begun(c) <=> m > 0
      /\ Begun(c) => buffer[c].total = Len(d)
      /\ p.length => m = 0
      /\ m = 0 /\ p.more => p.length /\ p.total = Len(d)
      /\ p.more <=> n < Len(d)
      /\ Joined(c, p) = SubSeq(d, 1, n)
      /\ Len(Joined(c, p)) = n
  BY FragmentArrives
<1>2. Len(p.data) \in Nat /\ n = m + Len(p.data)
  BY SessionTypes, LenProperties
<1> HIDE DEF d, m, p, n
<1>3. p.length => ~Begun(c)
  BY <1>1
<1>4. (p.more /\ ~p.length) => Begun(c)
  BY <1>1
<1>5. (p.length /\ p.more) => Len(p.data) <= p.total
  BY <1>1, <1>2
<1>6. Begun(c) => /\ Len(Joined(c, p)) <= buffer[c].total
                  /\ ~p.more => Len(Joined(c, p)) = buffer[c].total
  BY <1>1
<1>7. Acceptable(c, p)
  BY <1>3, <1>4, <1>5, <1>6 DEF Acceptable
<1>8. ~p.more => Joined(c, p) = d
  BY <1>1, SubSeqFull
<1> QED
  BY <1>7, <1>8 DEF d, p

LEMMA ReplyValues ==
    ASSUME TInv, NEW c \in Conn, NEW r, NEW s, NEW out, Reply(c, r, s, out)
    PROVE  /\ turn'[c] = "peer" /\ packet'[c] = packet[c]
           /\ Out(c)' = out
           /\ Served(c)' <=> r = "SUCCESS"
           /\ Dismissed(c)' <=> s # "HANDSHAKE"
           /\ todo'[c] = todo[c] /\ part'[c] = part[c] /\ sent'[c] = sent[c]
           /\ got'[c] = got[c]
<1>1. answer'[c] = [result |-> r, state |-> s, out |-> out]
  BY DEF Reply, TInv, TypeOK
<1> QED
  BY <1>1 DEF Reply, TInv, TypeOK, peer, Out, Served, Dismissed

LEMMA HearingStays ==
    ASSUME NEW c, NEW q, Hearing(c, q),
           buffer'[c] = buffer[c], todo'[c] = todo[c], part'[c] = part[c], sent'[c] = sent[c],
           handed'[c] = handed[c], answered'[c] = answered[c], got'[c] = got[c]
    PROVE  Hearing(c, q)'
<1>1. Resting(c)'
  BY DEF Hearing, Resting
<1> QED
  BY <1>1 DEF Hearing

LEMMA IdleStays ==
    ASSUME NEW c, Resting(c), Quiet(c), buffer'[c] = buffer[c], queue'[c] = queue[c],
           todo'[c] = todo[c], part'[c] = part[c], sent'[c] = sent[c],
           handed'[c] = handed[c], answered'[c] = answered[c], got'[c] = got[c]
    PROVE  Resting(c)' /\ Quiet(c)'
  BY DEF Resting, Quiet

\* An empty packet: the next fragment of the server's batch, if there is one.
LEMMA AckServed ==
    ASSUME TInv, NEW c \in Conn, Exchange(c),
           RejectHeader(c) \/ SendNextFragment(c) \/ NoNextFragment(c) \/ LastAck(c)
    PROVE  Exchange(c)'
<1>1. AtServer(c)
  BY DEF Exchange, AtPeer, RejectHeader, SendNextFragment, NoNextFragment, LastAck, Empty,
         Called
<1>2. packet[c] = Ack /\ ~RejectHeader(c)
  <2>1. CASE Sending(c, <<packet[c]>> \o todo[c])
    <3>1. packet[c].wellFormed /\ packet[c].data # <<>>
      BY <2>1, FragmentArrives
    <3> QED
      BY <3>1 DEF RejectHeader, SendNextFragment, NoNextFragment, LastAck, Empty
  <2>2. CASE packet[c] = Ack
    BY <2>2, AckIsPacket DEF RejectHeader
  <2> QED
    BY <1>1, <2>1, <2>2 DEF AtServer
<1>3. packet[c].data = <<>> /\ Served(c)
  BY <1>1, <1>2, AckIsPacket DEF AtServer
<1>4. \/ Hearing(c, queue[c]) /\ queue[c] # <<>>
      \/ Resting(c) /\ Quiet(c)
  <2>1. ~Sending(c, <<packet[c]>> \o todo[c])
    BY <1>3, FragmentArrives
  <2> QED
    BY <1>1, <2>1 DEF AtServer
<1>5. CASE SendNextFragment(c)
  <2>1. /\ Reply(c, "SUCCESS", "HANDSHAKE", Head(queue[c]))
        /\ queue'[c] = Tail(queue[c])
        /\ buffer'[c] = buffer[c] /\ handed'[c] = handed[c] /\ answered'[c] = answered[c]
    BY <1>5 DEF SendNextFragment, Send, history, TInv, TypeOK
  <2>2. queue[c] # <<>> /\ Hearing(c, queue[c])
    BY <1>4, <1>5 DEF SendNextFragment, Quiet
  <2>3. queue[c] = <<Head(queue[c])>> \o Tail(queue[c])
    BY <2>2, SessionTypes, HeadAndTail
  <2>4. PICK q : q = queue[c]
    OBVIOUS
  <2>5. <<Out(c)'>> \o queue'[c] = q
    BY <2>1, <2>3, <2>4, ReplyValues
  <2>6. Hearing(c, q)'
    BY <2>1, <2>2, <2>4, ReplyValues, HearingStays
  <2>7. AtPeer(c)'
    BY <2>1, <2>5, <2>6, ReplyValues DEF AtPeer
  <2> QED
    BY <2>7, PhaseKept
<1>6. CASE NoNextFragment(c)
  <2>1. /\ Reply(c, "FATAL", "HANDSHAKE", Ack) /\ queue'[c] = queue[c]
        /\ buffer'[c] = buffer[c] /\ handed'[c] = handed[c] /\ answered'[c] = answered[c]
    BY <1>6 DEF NoNextFragment, Refuse, history
  <2>2. Resting(c) /\ Quiet(c)
    BY <1>4, <1>6 DEF NoNextFragment
  <2>3. Resting(c)' /\ Quiet(c)'
    BY <2>1, <2>2, ReplyValues, IdleStays
  <2>4. AtPeer(c)'
    BY <1>2, <2>1, <2>3, ReplyValues DEF AtPeer
  <2> QED
    BY <2>4, PhaseKept
<1>7. CASE LastAck(c)
  <2>1. /\ Reply(c, "SUCCESS", conState[c], Ack) /\ conState[c] # "HANDSHAKE"
        /\ queue'[c] = queue[c]
        /\ buffer'[c] = buffer[c] /\ handed'[c] = handed[c] /\ answered'[c] = answered[c]
    BY <1>7 DEF LastAck, Report, history
  <2>2. CASE Resting(c) /\ Quiet(c)
    <3>1. Resting(c)' /\ Quiet(c)'
      BY <2>1, <2>2, ReplyValues, IdleStays
    <3>2. AtPeer(c)'
      BY <1>2, <2>1, <3>1, ReplyValues DEF AtPeer
    <3> QED
      BY <3>2, PhaseKept
  <2>3. CASE Hearing(c, queue[c])
    <3>1. PICK q : q = queue[c]
      OBVIOUS
    <3>2. Hearing(c, q)' /\ queue'[c] = q
      BY <2>1, <2>3, <3>1, ReplyValues, HearingStays
    <3>3. AtPeer(c)'
      BY <2>1, <3>2, ReplyValues DEF AtPeer
    <3> QED
      BY <3>3, PhaseKept
  <2> QED
    BY <1>4, <2>2, <2>3
<1> QED
  BY <1>2, <1>5, <1>6, <1>7

\* What the step of a fragment means for an honest endpoint.
LEMMA SendingAtServer ==
    ASSUME TInv, NEW c \in Conn, Exchange(c), Loaded(c)
    PROVE  /\ Sending(c, <<packet[c]>> \o todo[c]) /\ Served(c)
           /\ Quiet(c) /\ AllButLast(handed[c], sent[c]) /\ sent[c] # <<>>
           /\ Acceptable(c, packet[c])
           /\ ~packet[c].more => /\ Append(handed[c], Joined(c, packet[c])) = sent[c]
                                 /\ todo[c] = <<>>
<1>1. AtServer(c)
  BY DEF Exchange, AtPeer, Loaded, Called
<1>2. Sending(c, <<packet[c]>> \o todo[c]) /\ Served(c)
  BY <1>1, AckIsPacket DEF AtServer, Loaded
<1>3. Quiet(c) /\ sent[c] # <<>> /\ handed[c] = Front(sent[c])
  BY <1>2 DEF Sending, AllButLast
<1>4. Append(handed[c], Last(sent[c])) = sent[c]
  BY <1>3, SessionTypes, FrontAndLast
<1> QED
  BY <1>2, <1>3, <1>4, FragmentAccepted, FragmentArrives DEF AllButLast

LEMMA FragmentStored ==
    ASSUME TInv, NEW c \in Conn, Exchange(c),
           RejectFragment(c) \/ StoreFragment(c) \/ HandOverLate(c)
    PROVE  Exchange(c)'
<1>1. Loaded(c)
  BY DEF RejectFragment, StoreFragment, HandOverLate, Complete, Defragmented
<1>2. /\ Sending(c, <<packet[c]>> \o todo[c])
      /\ Quiet(c) /\ AllButLast(handed[c], sent[c]) /\ ~RejectFragment(c)
  BY <1>1, SendingAtServer DEF RejectFragment
<1>3. /\ queue'[c] = queue[c] /\ handed'[c] = handed[c] /\ answered'[c] = answered[c]
      /\ conState'[c] = conState[c]
  BY DEF RejectFragment, StoreFragment, HandOverLate, history
<1>4. CASE StoreFragment(c)
  <2> DEFINE d == Last(sent[c])
             m == Len(buffer[c].data)
             p == packet[c]
             n == m + Len(p.data)
             b == [total |-> IF Begun(c) THEN buffer[c].total ELSE p.total,
                   data |-> Joined(c, p)]
  <2>1. Reply(c, "SUCCESS", "HANDSHAKE", Ack) /\ p.more
    BY <1>4 DEF StoreFragment, Send
  <2>2. buffer'[c] = b
    BY <1>4 DEF StoreFragment, TInv, TypeOK
  <2>3. /\ d \in Seq(Unit) /\ Len(d) \in Nat
        /\ m \in 0 .. Len(d) /\ n \in m + 1 .. Len(d)
        /\ Begun(c) <=> m > 0
        /\ Begun(c) => buffer[c].total = Len(d)
        /\ m = 0 /\ p.more => p.length /\ p.total = Len(d)
        /\ Joined(c, p) = SubSeq(d, 1, n) /\ Len(Joined(c, p)) = n
        /\ Carries(todo[c], d, n)
    BY <1>2, FragmentArrives
  <2>4. b.data = SubSeq(d, 1, n) /\ Len(b.data) = n
    BY <2>3
  <2>5. b.total = Len(d)
    BY <2>1, <2>3
  <2> PICK q, w : q = todo[c] /\ w = n
    OBVIOUS
  <2>6. todo'[c] = q /\ sent'[c] = sent[c] /\ Last(sent[c])' = d
    BY <2>1, ReplyValues
  <2> HIDE DEF b, n, d, p
  <2>7. Holds(b, d, w) /\ Carries(q, d, w) /\ Len(b.data) = w
    <3>1. w # 0 /\ w \in 0 .. Len(d)
      BY <2>3
    <3> QED
      BY <2>3, <2>4, <2>5, <3>1 DEF Holds
  <2>8. Quiet(c)'
    BY <1>2, <1>3, <2>1, ReplyValues DEF Quiet
  <2>9. Sending(c, q)'
    BY <1>2, <1>3, <2>2, <2>6, <2>7, <2>8 DEF Sending
  <2>10. AtPeer(c)'
    BY <2>1, <2>6, <2>9, ReplyValues DEF AtPeer
  <2> QED
    BY <2>10, PhaseKept
<1>5. CASE HandOverLate(c)
  <2>1. Reply(c, "SUCCESS", conState[c], Ack) /\ conState[c] # "HANDSHAKE"
    BY <1>5 DEF HandOverLate, Report
  <2>2. Quiet(c)'
    BY <1>2, <1>3, <2>1, ReplyValues DEF Quiet
  <2>3. AtPeer(c)'
    BY <1>2, <1>3, <2>1, <2>2, ReplyValues DEF AtPeer
  <2> QED
    BY <2>3, PhaseKept
<1> QED
  BY <1>2, <1>4, <1>5

\* The last fragment of an honest endpoint's batch.
LEMMA BatchHandedOver ==
    ASSUME TInv, NEW c \in Conn, Exchange(c), HandOver(c)
    PROVE  /\ Quiet(c) /\ sent[c] # <<>> /\ todo[c] = <<>>
           /\ handed'[c] = sent[c] /\ buffer'[c] = NoBuffer
<1>1. Loaded(c) /\ ~packet[c].more
  BY DEF HandOver, Complete, Defragmented
<1>2. handed'[c] = Append(handed[c], Joined(c, packet[c])) /\ buffer'[c] = NoBuffer
  BY DEF HandOver, TInv, TypeOK
<1> QED
  BY <1>1, <1>2, SendingAtServer

\* The server's answer begins.
LEMMA AnswerBegins ==
    ASSUME TInv, NEW c \in Conn, Exchange(c), HandOver(c), NEW d \in Payloads,
           SendFragments(c, d), answered' = [answered EXCEPT ![c] = Append(@, d)]
    PROVE  Exchange(c)'
<1>1. /\ Quiet(c) /\ sent[c] # <<>> /\ todo[c] = <<>>
      /\ handed'[c] = sent[c] /\ buffer'[c] = NoBuffer
  BY BatchHandedOver
<1>2. /\ d \in Seq(Unit) \ {<<>>} /\ Len(d) \in Nat \ {0}
      /\ Pieces(d) \in Seq(Packet) \ {<<>>} /\ Carries(Pieces(d), d, 0)
  BY PiecesCarry
<1>3. Pieces(d) = <<Head(Pieces(d))>> \o Tail(Pieces(d))
  BY <1>2, HeadAndTail
<1>4. Reply(c, "SUCCESS", "HANDSHAKE", Head(Pieces(d)))
  BY SendFragmentsType DEF Send, TInv
<1>5. queue'[c] = Tail(Pieces(d))
  <2>1. queue' = IF active THEN [queue EXCEPT ![c] = Tail(Pieces(d))] ELSE queue
    BY SendFragmentsType DEF TInv
  <2>2. CASE active
    BY <2>1, <2>2 DEF TInv, TypeOK
  <2>3. CASE ~active
    BY <1>1, <2>1, <2>3 DEF Quiet, Pieces
  <2> QED
    BY <2>2, <2>3
<1>6. answered[c] \in Seq(Seq(Unit)) /\ answered'[c] = Append(answered[c], d)
  BY SessionTypes DEF TInv, TypeOK
<1>7. AllButLast(answered[c], Append(answered[c], d)) /\ Last(Append(answered[c], d)) = d
  BY <1>2, <1>6, FrontOfAppend
<1> PICK q : q = Pieces(d)
  OBVIOUS
<1>8. <<Out(c)'>> \o queue'[c] = q
  BY <1>3, <1>4, <1>5, ReplyValues
<1>9. Resting(c)' /\ sent'[c] # <<>>
  BY <1>1, <1>4, ReplyValues DEF Resting
<1>10. AllButLast(got'[c], answered'[c]) /\ Last(answered'[c]) = d
  BY <1>1, <1>4, <1>6, <1>7, ReplyValues DEF Quiet
<1>11. part'[c] = <<>> /\ Len(part'[c]) = 0 /\ part'[c] = SubSeq(d, 1, 0) /\ 0 \in 0 .. Len(d)
  <2>1. part'[c] = <<>>
    BY <1>1, <1>4, ReplyValues DEF Quiet
  <2> QED
    BY <1>2, <2>1, SubSeqEmpty
<1>12. Hearing(c, q)'
  BY <1>2, <1>9, <1>10, <1>11 DEF Hearing
<1>13. AtPeer(c)'
  BY <1>4, <1>8, <1>12, ReplyValues DEF AtPeer
<1> QED
  BY <1>13, PhaseKept

LEMMA BatchAnswered ==
    ASSUME TInv, NEW c \in Conn, Exchange(c),
           EndWithoutBatch(c) \/ AnswerBatch(c) \/ AnswerInterrupted(c) \/ AnswerLastBatch(c)
    PROVE  Exchange(c)'
<1>1. HandOver(c)
  BY DEF EndWithoutBatch, AnswerBatch, AnswerInterrupted, AnswerLastBatch
<1>2. CASE EndWithoutBatch(c)
  <2>1. /\ \E s : Reply(c, "SUCCESS", s, Ack)
        /\ queue'[c] = queue[c] /\ answered'[c] = answered[c]
    BY <1>2 DEF EndWithoutBatch, Report
  <2>2. Resting(c)' /\ Quiet(c)'
    BY <1>1, <2>1, BatchHandedOver, ReplyValues DEF Resting, Quiet
  <2>3. AtPeer(c)'
    BY <2>1, <2>2, ReplyValues DEF AtPeer
  <2> QED
    BY <2>3, PhaseKept
<1>3. ~AnswerInterrupted(c)
  BY <1>1, BatchHandedOver DEF AnswerInterrupted, Interrupted, Quiet
<1>4. CASE AnswerBatch(c)
  BY <1>1, <1>4, AnswerBegins DEF AnswerBatch
<1>5. CASE AnswerLastBatch(c)
  BY <1>1, <1>5, AnswerBegins DEF AnswerLastBatch
<1> QED
  BY <1>2, <1>3, <1>4, <1>5

LEMMA ServerKeeps ==
    ASSUME TInv, NEW c \in Honest, Exchange(c), Serve(c)
    PROVE  Exchange(c)'
  BY ConnAssumption, AckServed, FragmentStored, BatchAnswered, CrashKeeps DEF Serve

-----------------------------------------------------------------------------
(* The steps of an honest endpoint.                                        *)

LEMMA DeliverValues ==
    ASSUME TInv, NEW c \in Conn, NEW p, Deliver(c, p)
    PROVE  /\ turn'[c] = "server" /\ packet'[c] = p /\ answer'[c] = answer[c]
           /\ Served(c)' <=> Served(c)
           /\ buffer'[c] = buffer[c] /\ queue'[c] = queue[c]
           /\ handed'[c] = handed[c] /\ answered'[c] = answered[c]
  BY DEF Deliver, TInv, TypeOK, server, history, Served

\* The endpoint's next batch begins, or it acknowledges the last of the server.
LEMMA Spoken ==
    ASSUME TInv, NEW c \in Conn, turn[c] = "peer", Served(c), Speak(c),
           Resting(c), Quiet(c)'
    PROVE  AtServer(c)'
<1>1. CASE sent[c] # <<>> /\ Deliver(c, Ack) /\ UNCHANGED <<todo, sent>>
  <2>1. Resting(c)'
    BY <1>1, DeliverValues DEF Resting
  <2> QED
    BY <1>1, <2>1, DeliverValues DEF AtServer
<1>2. CASE \E d \in Payloads : \E q \in Ways(d) :
              /\ Deliver(c, Head(q))
              /\ todo' = [todo EXCEPT ![c] = Tail(q)]
              /\ sent' = [sent EXCEPT ![c] = Append(@, d)]
  <2>1. PICK d \in Payloads : \E q \in Ways(d) :
              /\ Deliver(c, Head(q))
              /\ todo' = [todo EXCEPT ![c] = Tail(q)]
              /\ sent' = [sent EXCEPT ![c] = Append(@, d)]
    BY <1>2
  <2>2. PICK q \in Ways(d) :
              /\ Deliver(c, Head(q))
              /\ todo' = [todo EXCEPT ![c] = Tail(q)]
              /\ sent' = [sent EXCEPT ![c] = Append(@, d)]
    BY <2>1
  <2>3. /\ d \in Seq(Unit) \ {<<>>} /\ Len(d) \in Nat \ {0}
        /\ q \in Seq(Packet) \ {<<>>} /\ Carries(q, d, 0)
    BY WaysCarry
  <2>4. q = <<Head(q)>> \o Tail(q)
    BY <2>3, HeadAndTail
  <2>5. todo'[c] = Tail(q) /\ sent'[c] = Append(sent[c], d) /\ sent[c] \in Seq(Seq(Unit))
    BY <2>2, SessionTypes DEF TInv, TypeOK
  <2>6. AllButLast(sent[c], sent'[c]) /\ Last(sent'[c]) = d
    BY <2>3, <2>5, FrontOfAppend
  <2>7. <<packet'[c]>> \o todo'[c] = q
    BY <2>2, <2>4, <2>5, DeliverValues
  <2>8. buffer'[c] = NoBuffer /\ handed'[c] = sent[c]
    BY <2>2, DeliverValues DEF Resting
  <2>9. Holds(NoBuffer, d, 0) /\ Len(NoBuffer.data) = 0
    BY <2>3, AckIsPacket, SubSeqEmpty DEF Holds
  <2>10. Sending(c, q)'
    BY <2>3, <2>6, <2>8, <2>9 DEF Sending
  <2> QED
    BY <2>2, <2>7, <2>10, DeliverValues DEF AtServer
<1> QED
  BY <1>1, <1>2 DEF Speak

\* What an endpoint finds when a fragment of the server arrives.
LEMMA FragmentHeard ==
    ASSUME TInv, NEW c \in Conn, Hearing(c, <<Out(c)>> \o queue[c])
    PROVE  LET d == Last(answered[c])
               n == Len(part[c]) + Len(Out(c).data)
           IN  /\ d \in Seq(Unit) /\ n \in 0 .. Len(d)
               /\ part[c] \o Out(c).data = SubSeq(d, 1, n)
               /\ Len(part[c] \o Out(c).data) = n
               /\ Carries(queue[c], d, n)
               /\ Out(c).more <=> queue[c] # <<>>
               /\ ~Out(c).more => part[c] \o Out(c).data = d
               /\ Out(c).data # <<>>
<1> DEFINE d == Last(answered[c])
           m == Len(part[c])
           p == Out(c)
           n == m + Len(p.data)
<1>1. answered[c] \in Seq(Seq(Unit)) /\ answered[c] # <<>>
  BY SessionTypes DEF Hearing, AllButLast
<1>2. d \in Seq(Unit) /\ Len(d) \in Nat
  BY <1>1, FrontAndLast, LenProperties
<1>3. m \in 0 .. Len(d) /\ part[c] = SubSeq(d, 1, m) /\ Carries(<<p>> \o queue[c], d, m)
  BY DEF Hearing
<1>4. p \in Packet /\ queue[c] \in Seq(Packet) /\ part[c] \in Seq(Unit) /\ p.data \in Seq(Unit)
  BY SessionTypes
<1>5. Len(part[c] \o p.data) = n
  BY <1>4, ConcatProperties
<1> HIDE DEF d, m, p, Packet
<1>6. /\ p.data # <<>>
      /\ p.more <=> queue[c] # <<>>
      /\ n \in m + 1 .. Len(d)
      /\ p.more <=> n < Len(d)
      /\ SubSeq(d, 1, m) \o p.data = SubSeq(d, 1, n)
      /\ Carries(queue[c], d, n)
  BY <1>2, <1>3, <1>4, FirstFragment
<1>7. n \in 0 .. Len(d)
  BY <1>2, <1>3, <1>6
<1>8. ~p.more => part[c] \o p.data = d
  <2>1. ~p.more => n = Len(d)
    BY <1>2, <1>6, <1>7
  <2>2. SubSeq(d, 1, Len(d)) = d
    BY <1>2, SubSeqFull
  <2> QED
    BY <1>3, <1>6, <2>1, <2>2
<1> QED
  BY <1>2, <1>3, <1>5, <1>6, <1>7, <1>8 DEF d, m, p

LEMMA PeerStartsKeeps ==
    ASSUME TInv, NEW c \in Conn, Exchange(c), PeerStarts(c)
    PROVE  Exchange(c)'
<1>1. /\ turn[c] = "peer" /\ Served(c) /\ sent[c] = <<>> /\ Speak(c)
      /\ part'[c] = part[c] /\ got'[c] = got[c]
  BY DEF PeerStarts, InSession, Served
<1>2. Resting(c) /\ Quiet(c)
  BY <1>1 DEF Exchange, AtServer, AtPeer, Sending, Hearing, AllButLast
<1>3. \E p : Deliver(c, p)
  BY <1>1 DEF Speak
<1>4. Quiet(c)'
  BY <1>1, <1>2, <1>3, DeliverValues DEF Quiet
<1>5. AtServer(c)'
  BY <1>1, <1>2, <1>4, Spoken
<1> QED
  BY <1>5, PhaseKept

LEMMA PeerSendsNextKeeps ==
    ASSUME TInv, NEW c \in Conn, Exchange(c), PeerSendsNext(c)
    PROVE  Exchange(c)'
<1>1. /\ turn[c] = "peer" /\ Served(c) /\ ~Dismissed(c)
      /\ Out(c) = Ack /\ todo[c] # <<>> /\ Deliver(c, Head(todo[c]))
      /\ part'[c] = part[c] /\ sent'[c] = sent[c] /\ got'[c] = got[c]
      /\ todo'[c] = Tail(todo[c])
  BY DEF PeerSendsNext, InSession, Served, Dismissed, TInv, TypeOK
<1>2. Sending(c, todo[c])
  BY <1>1 DEF Exchange, AtServer, AtPeer, Hearing, Resting
<1>3. todo[c] = <<Head(todo[c])>> \o Tail(todo[c])
  BY <1>1, SessionTypes, HeadAndTail
<1> PICK q : q = todo[c]
  OBVIOUS
<1>4. <<packet'[c]>> \o todo'[c] = q
  BY <1>1, <1>3, DeliverValues
<1>5. Quiet(c)'
  BY <1>1, <1>2, DeliverValues DEF Sending, Quiet
<1>6. Sending(c, q)'
  BY <1>1, <1>2, <1>5, DeliverValues DEF Sending
<1>7. AtServer(c)'
  BY <1>1, <1>4, <1>6, DeliverValues DEF AtServer
<1> QED
  BY <1>7, PhaseKept

\* An endpoint that gets data is getting a batch.
LEMMA DataAreHeard ==
    ASSUME TInv, NEW c \in Conn, Exchange(c), turn[c] = "peer", Out(c).data # <<>>
    PROVE  Served(c) /\ Hearing(c, <<Out(c)>> \o queue[c])
<1>1. Out(c) # Ack
  BY AckIsPacket
<1> QED
  BY <1>1 DEF Exchange, AtServer, AtPeer

LEMMA PeerCollectsKeeps ==
    ASSUME TInv, NEW c \in Conn, Exchange(c), PeerCollects(c)
    PROVE  Exchange(c)'
<1>1. /\ turn[c] = "peer" /\ Out(c).data # <<>> /\ Out(c).more /\ Deliver(c, Ack)
      /\ part'[c] = part[c] \o Out(c).data
      /\ todo'[c] = todo[c] /\ sent'[c] = sent[c] /\ got'[c] = got[c]
  BY DEF PeerCollects, InSession, TInv, TypeOK
<1>2. Served(c) /\ Hearing(c, <<Out(c)>> \o queue[c])
  BY <1>1, DataAreHeard
<1> DEFINE d == Last(answered[c])
           n == Len(part[c]) + Len(Out(c).data)
<1>3. /\ n \in 0 .. Len(d) /\ part'[c] = SubSeq(d, 1, n) /\ Len(part'[c]) = n
      /\ Carries(queue[c], d, n) /\ queue[c] # <<>>
  BY <1>1, <1>2, FragmentHeard
<1> PICK q : q = queue[c]
  OBVIOUS
<1>4. Resting(c)' /\ answered'[c] = answered[c] /\ queue'[c] = q
  BY <1>1, <1>2, DeliverValues DEF Hearing, Resting
<1>5. Hearing(c, q)'
  BY <1>1, <1>2, <1>3, <1>4 DEF Hearing
<1>6. AtServer(c)'
  BY <1>1, <1>2, <1>3, <1>4, <1>5, DeliverValues DEF AtServer
<1> QED
  BY <1>6, PhaseKept

LEMMA PeerReceivesKeeps ==
    ASSUME TInv, NEW c \in Conn, Exchange(c), PeerReceives(c)
    PROVE  Exchange(c)'
<1>1. /\ turn[c] = "peer" /\ Out(c).data # <<>> /\ ~Out(c).more /\ Speak(c)
      /\ got'[c] = Append(got[c], part[c] \o Out(c).data) /\ part'[c] = <<>>
  BY DEF PeerReceives, InSession, TInv, TypeOK
<1>2. Served(c) /\ Hearing(c, <<Out(c)>> \o queue[c])
  BY <1>1, DataAreHeard
<1>3. part[c] \o Out(c).data = Last(answered[c]) /\ queue[c] = <<>>
  BY <1>1, <1>2, FragmentHeard
<1>4. answered[c] # <<>> /\ got[c] = Front(answered[c])
  BY <1>2 DEF Hearing, AllButLast
<1>5. got'[c] = answered[c]
  BY <1>1, <1>3, <1>4, SessionTypes, FrontAndLast
<1>6. \E p : Deliver(c, p)
  BY <1>1 DEF Speak
<1>7. Quiet(c)'
  BY <1>1, <1>3, <1>5, <1>6, DeliverValues DEF Quiet
<1>8. AtServer(c)'
  BY <1>1, <1>2, <1>7, Spoken DEF Hearing
<1> QED
  BY <1>8, PhaseKept

LEMMA EndpointKeeps ==
    ASSUME TInv, NEW c \in Honest, Exchange(c), Endpoint(c)
    PROVE  Exchange(c)'
<1>1. c \in Conn /\ ~Misbehave(c)
  BY ConnAssumption DEF Misbehave
<1> QED
  BY <1>1, PeerStartsKeeps, PeerSendsNextKeeps, PeerCollectsKeeps, PeerReceivesKeeps
     DEF Endpoint

-----------------------------------------------------------------------------
(* The theorems.                                                           *)

LEMMA ExchangeStep ==
    ASSUME EInv, [Next]_vars
    PROVE  EInv'
<1>1. TInv'
  BY TypeStep DEF EInv
<1>2. ASSUME NEW e \in Honest
      PROVE  Exchange(e)'
  <2>1. TInv /\ Exchange(e) /\ e \in Conn
    BY ConnAssumption DEF EInv
  <2>2. CASE UNCHANGED vars
    <3>1. Untouched(e)
      BY <2>2 DEF vars, server, link, peer, history, Untouched
    <3> QED
      BY <2>1, <3>1, UntouchedKeeps
  <2>3. CASE Next
    <3>1. PICK c \in Conn : GetConnection(c) \/ Serve(c) \/ Endpoint(c)
      BY <2>3 DEF Next
    <3>2. CASE Crash(c)
      BY <2>1, <3>2, CrashKeeps
    <3>3. CASE e = c
      BY <2>1, <3>1, <3>3, ConnectedAnew, ServerKeeps, EndpointKeeps
    <3>4. CASE e # c /\ ~Crash(c)
      BY <2>1, <3>1, <3>4, OthersUntouched, UntouchedKeeps
    <3> QED
      BY <3>2, <3>3, <3>4
  <2> QED
    BY <2>2, <2>3
<1> QED
  BY <1>1, <1>2 DEF EInv

LEMMA ExchangeInvariant == Spec => []EInv
<1>1. Init => EInv
  <2> SUFFICES ASSUME Init
               PROVE  EInv
    OBVIOUS
  <2>1. TInv
    <3>1. /\ <<>> \in Seq(Packet) /\ <<>> \in Seq(Unit) /\ <<>> \in Seq(Seq(Unit))
      OBVIOUS
    <3> HIDE DEF Packet
    <3> QED
      BY <3>1, AckIsPacket, SizeAssumption DEF Init, TInv, TypeOK
  <2>2. ASSUME NEW c \in Honest
        PROVE  Exchange(c)
    BY ConnAssumption, AckIsPacket DEF Init, Exchange, Kept, Served
  <2> QED
    BY <2>1, <2>2 DEF EInv
<1> QED
  BY <1>1, ExchangeStep, PTL DEF Spec

\* Every batch of an endpoint that follows the protocol is handed to the
\* server whole, once and in order.
THEOREM HandedOverWhole == Spec => []HandedIsSent
<1>1. EInv => HandedIsSent
  BY DEF EInv, Exchange, Kept, HandedIsSent
<1> QED
  BY <1>1, ExchangeInvariant, PTL

\* ... and it receives the server's batches so.
THEOREM ReceivedWhole == Spec => []GotIsAnswered
<1>1. EInv => GotIsAnswered
  BY DEF EInv, Exchange, Kept, GotIsAnswered
<1> QED
  BY <1>1, ExchangeInvariant, PTL

\* It is refused only when it acknowledges a complete batch.
THEOREM RefusedOnlyAtTheEnd == Spec => []HonestIsServed
<1>1. EInv => HonestIsServed
  BY DEF EInv, Exchange, Kept, Served, HonestIsServed
<1> QED
  BY <1>1, ExchangeInvariant, PTL

LEMMA FrontAndRest ==
    ASSUME NEW d \in Seq(Unit), NEW n \in 0 .. Len(d), NEW q \in Seq(Packet),
           Carries(q, d, n)
    PROVE  SubSeq(d, 1, n) \o Rest(q) = d
<1>1. Rest(q) = SubSeq(d, n + 1, Len(d))
  BY RestOfFragments
<1>2. Len(d) \in Nat /\ 1 \in 1 .. Len(d) + 1 /\ n \in 1 - 1 .. Len(d) /\ Len(d) \in n .. Len(d)
  BY LenProperties
<1>3. SubSeq(d, 1, n) \o SubSeq(d, n + 1, Len(d)) = SubSeq(d, 1, Len(d))
  BY <1>2, ConcatAdjacentSubSeq
<1> QED
  BY <1>1, <1>3, SubSeqFull

LEMMA SentConserved ==
    ASSUME TInv, NEW c \in Conn, Exchange(c), turn[c] # "off",
           Len(sent[c]) > Len(handed[c]), conState[c] = "HANDSHAKE"
    PROVE  /\ Last(sent[c]) = buffer[c].data \o OnWay(c, "server", packet[c])
                                            \o Rest(todo[c])
           /\ Begun(c) => buffer[c].total = Len(Last(sent[c]))
<1> DEFINE d == Last(sent[c])
<1>1. Len(sent[c]) \in Nat /\ todo[c] \in Seq(Packet) /\ buffer[c].data \in Seq(Unit)
  BY SessionTypes, LenProperties
<1>2. ~Resting(c)
  BY <1>1 DEF Resting
<1>3. CASE turn[c] = "server" /\ Sending(c, <<packet[c]>> \o todo[c])
  <2> DEFINE n == Len(buffer[c].data) + Len(packet[c].data)
  <2>1. /\ d \in Seq(Unit) /\ Len(d) \in Nat
        /\ Len(buffer[c].data) \in 0 .. Len(d) /\ n \in Len(buffer[c].data) + 1 .. Len(d)
        /\ Begun(c) => buffer[c].total = Len(d)
        /\ buffer[c].data \o packet[c].data = SubSeq(d, 1, n)
        /\ Carries(todo[c], d, n)
    BY <1>3, FragmentArrives DEF Joined
  <2> HIDE DEF n, d
  <2>2. n \in 0 .. Len(d)
    BY <2>1
  <2>3. SubSeq(d, 1, n) \o Rest(todo[c]) = d
    BY <1>1, <2>1, <2>2, FrontAndRest
  <2> QED
    BY <1>3, <2>1, <2>3 DEF OnWay, d
<1>4. CASE turn[c] = "peer" /\ Sending(c, todo[c])
  <2> DEFINE m == Len(buffer[c].data)
  <2>1. sent[c] \in Seq(Seq(Unit)) /\ sent[c] # <<>>
    BY <1>4, SessionTypes DEF Sending, AllButLast
  <2>2. d \in Seq(Unit)
    BY <2>1, FrontAndLast
  <2>3. Holds(buffer[c], d, m) /\ Carries(todo[c], d, m)
    BY <1>4 DEF Sending
  <2>4. /\ m \in 0 .. Len(d) /\ buffer[c].data = SubSeq(d, 1, m)
        /\ Begun(c) => buffer[c].total = Len(d)
    BY <2>3 DEF Holds, Begun
  <2>5. SubSeq(d, 1, m) \o Rest(todo[c]) = d
    <3> HIDE DEF m, d
    <3> QED
      BY <1>1, <2>2, <2>3, <2>4, FrontAndRest
  <2>6. buffer[c].data \o <<>> = buffer[c].data
    BY <1>1, ConcatEmptySeq
  <2> QED
    BY <1>4, <2>4, <2>5, <2>6 DEF OnWay
<1> QED
  BY <1>2, <1>3, <1>4 DEF Exchange, AtServer, AtPeer, Hearing

LEMMA AnsweredConserved ==
    ASSUME TInv, NEW c \in Conn, Exchange(c), turn[c] # "off",
           Len(answered[c]) > Len(got[c])
    PROVE  Last(answered[c]) = part[c] \o OnWay(c, "peer", Out(c)) \o Rest(queue[c])
<1> DEFINE d == Last(answered[c])
<1>1. Len(answered[c]) \in Nat /\ queue[c] \in Seq(Packet) /\ part[c] \in Seq(Unit)
  BY SessionTypes, LenProperties
<1>2. ~Quiet(c)
  BY <1>1 DEF Quiet
<1>3. CASE turn[c] = "peer" /\ Hearing(c, <<Out(c)>> \o queue[c])
  <2> DEFINE n == Len(part[c]) + Len(Out(c).data)
  <2>1. /\ d \in Seq(Unit) /\ n \in 0 .. Len(d)
        /\ part[c] \o Out(c).data = SubSeq(d, 1, n)
        /\ Carries(queue[c], d, n)
    BY <1>3, FragmentHeard
  <2> HIDE DEF n, d
  <2>2. SubSeq(d, 1, n) \o Rest(queue[c]) = d
    BY <1>1, <2>1, FrontAndRest
  <2> QED
    BY <1>3, <2>1, <2>2 DEF OnWay, d
<1>4. CASE Hearing(c, queue[c]) /\ OnWay(c, "peer", Out(c)) = <<>>
  <2> DEFINE m == Len(part[c])
  <2>1. answered[c] \in Seq(Seq(Unit)) /\ answered[c] # <<>>
    BY <1>4, SessionTypes DEF Hearing, AllButLast
  <2>2. d \in Seq(Unit)
    BY <2>1, FrontAndLast
  <2>3. m \in 0 .. Len(d) /\ part[c] = SubSeq(d, 1, m) /\ Carries(queue[c], d, m)
    BY <1>4 DEF Hearing
  <2>4. SubSeq(d, 1, m) \o Rest(queue[c]) = d
    <3> HIDE DEF m, d
    <3> QED
      BY <1>1, <2>2, <2>3, FrontAndRest
  <2>5. part[c] \o <<>> = part[c]
    BY <1>1, ConcatEmptySeq
  <2> QED
    BY <1>4, <2>3, <2>4, <2>5
<1>5. Out(c) = Ack \/ turn[c] = "server" => OnWay(c, "peer", Out(c)) = <<>>
  BY AckIsPacket DEF OnWay
<1> QED
  BY <1>2, <1>3, <1>4, <1>5 DEF Exchange, AtServer, AtPeer, Sending

\* No unit of a batch is lost, doubled or displaced on its way.
THEOREM NothingIsLost == Spec => []Conserved
<1>1. EInv => Conserved
  BY ConnAssumption, SentConserved, AnsweredConserved DEF EInv, Conserved
<1> QED
  BY <1>1, ExchangeInvariant, PTL
=============================================================================
