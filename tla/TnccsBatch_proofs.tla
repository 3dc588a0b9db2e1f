------------------------- MODULE TnccsBatch_proofs -------------------------
(***************************************************************************)
(* Theorems about TnccsBatch, for any IMVs, documents and bounds: the      *)
(* numbers of the two batches go in lockstep and are a conversation by     *)
(* turns; each IMV hears its share of what was taken; answers are fresh;   *)
(* and a client that keeps to the protocol is not refused.                 *)
(***************************************************************************)
EXTENDS TnccsBatch, SequenceTheorems, WellFoundedInduction, TLAPS

-----------------------------------------------------------------------------
(* Sequences.                                                              *)

\* A set of natural numbers has a least element.
LEMMA LeastElement ==
    ASSUME NEW T, T \subseteq Nat, T # {}
    PROVE  \E x \in T : \A y \in T : x <= y
<1>1. IsWellFoundedOn(OpToRel(<, Nat), Nat)
  BY NatLessThanWellFounded
<1>2. PICK x \in T : \A y \in T : <<y, x>> \notin OpToRel(<, Nat)
  BY <1>1, WFMin
<1>3. \A y, z \in T : <<y, z>> \in OpToRel(<, Nat) <=> y < z
  BY DEF OpToRel
<1>4. ASSUME NEW y \in T
      PROVE  x <= y
  <2>1. ~(y < x)
    BY <1>2, <1>3
  <2>2. x \in Nat /\ y \in Nat
    OBVIOUS
  <2> QED
    BY <2>1, <2>2
<1> QED
  BY <1>4

\* h[i] is the first i of the sequences in a row.
InARow(seqs, n, h) ==
    \A i \in 1 .. n : h[i] = IF i = 1 THEN seqs[i] ELSE h[i - 1] \o seqs[i]

\* Whoever knows the data up to each sequence knows all of them in a row.
LEMMA FlattenSeqIs ==
    ASSUME NEW n \in Nat, n > 0, NEW seqs, Len(seqs) = n,
           NEW S, NEW h \in [1 .. n -> S], InARow(seqs, n, h)
    PROVE  FlattenSeq(seqs) = h[n]
<1> DEFINE IsFlat(g) ==
             g = [i \in 1 .. n |-> IF i = 1 THEN seqs[i] ELSE g[i - 1] \o seqs[i]]
           f == CHOOSE g : IsFlat(g)
           T == {i \in 1 .. n : f[i] # h[i]}
<1>1. IsFlat(h)
  BY DEF InARow
<1>2. IsFlat(f)
  BY <1>1
<1>3. FlattenSeq(seqs) = f[n]
  BY DEF FlattenSeq
<1> HIDE DEF f
<1>4. T = {}
  <2> SUFFICES ASSUME T # {}
               PROVE  FALSE
    OBVIOUS
  <2>1. T \subseteq Nat
    OBVIOUS
  <2>2. PICK x \in T : \A y \in T : x <= y
    <3> HIDE DEF T
    <3> QED
      BY <2>1, LeastElement
  <2>3. x \in 1 .. n /\ f[x] # h[x]
    OBVIOUS
  <2>4. CASE x = 1
    BY <2>3, <2>4, <1>2 DEF InARow
  <2>5. CASE x # 1
    <3>1. f[x] = f[x - 1] \o seqs[x] /\ h[x] = h[x - 1] \o seqs[x]
      BY <2>3, <2>5, <1>2 DEF InARow
    <3>2. x - 1 \in 1 .. n /\ ~(x <= x - 1)
      BY <2>3, <2>5
    <3>3. f[x - 1] = h[x - 1]
      BY <2>2, <3>2
    <3> QED
      BY <2>3, <3>1, <3>3
  <2> QED
    BY <2>4, <2>5
<1> QED
  BY <1>3, <1>4

\* There is such a function for any sequences.
LEMMA RowExists ==
    ASSUME NEW S, NEW n \in Nat, n > 0, NEW seqs, \A i \in 1 .. n : seqs[i] \in Seq(S)
    PROVE  \E h \in [1 .. n -> Seq(S)] : InARow(seqs, n, h)
<1> DEFINE Has(k) == \E h \in [1 .. k -> Seq(S)] : InARow(seqs, k, h)
           T == {k \in 1 .. n : ~Has(k)}
<1>1. T = {}
  <2> SUFFICES ASSUME T # {}
               PROVE  FALSE
    OBVIOUS
  <2>1. T \subseteq Nat
    OBVIOUS
  <2>2. PICK x \in T : \A y \in T : x <= y
    <3> HIDE DEF T
    <3> QED
      BY <2>1, LeastElement
  <2>3. x \in 1 .. n /\ ~Has(x)
    OBVIOUS
  <2>4. CASE x = 1
    <3>1. [i \in 1 .. 1 |-> seqs[1]] \in [1 .. 1 -> Seq(S)]
      OBVIOUS
    <3>2. InARow(seqs, 1, [i \in 1 .. 1 |-> seqs[1]])
      BY DEF InARow
    <3> QED
      BY <2>3, <2>4, <3>1, <3>2
  <2>5. CASE x # 1
    <3>1. x - 1 \in 1 .. n /\ ~(x <= x - 1)
      BY <2>3, <2>5
    <3>2. PICK h \in [1 .. x - 1 -> Seq(S)] : InARow(seqs, x - 1, h)
      BY <2>2, <3>1
    <3> DEFINE g == [i \in 1 .. x |-> IF i = x THEN h[x - 1] \o seqs[x] ELSE h[i]]
    <3>3. h[x - 1] \o seqs[x] \in Seq(S)
      BY <2>3, <3>1
    <3>4. g \in [1 .. x -> Seq(S)]
      BY <2>3, <3>3
    <3>5. ASSUME NEW i \in 1 .. x
          PROVE  g[i] = IF i = 1 THEN seqs[i] ELSE g[i - 1] \o seqs[i]
      <4>1. CASE i = x
        <5>1. x \in 1 .. x /\ x - 1 \in 1 .. x /\ x - 1 # x
          BY <2>3, <2>5
        <5>2. \A j \in 1 .. x : g[j] = IF j = x THEN h[x - 1] \o seqs[x] ELSE h[j]
          OBVIOUS
        <5> HIDE DEF g
        <5>3. g[x] = h[x - 1] \o seqs[x] /\ g[x - 1] = h[x - 1]
          BY <5>1, <5>2
        <5> QED
          BY <4>1, <5>3, <2>5
      <4>2. CASE i # x
        <5>1. i \in 1 .. x - 1 /\ g[i] = h[i] /\ (i # 1 => g[i - 1] = h[i - 1])
          BY <2>3, <4>2
        <5> QED
          BY <5>1, <3>2 DEF InARow
      <4> QED
        BY <4>1, <4>2
    <3> QED
      BY <2>3, <3>4, <3>5 DEF InARow
  <2> QED
    BY <2>4, <2>5
<1> QED
  BY <1>1

\* FlattenSeq puts sequences over a set in a row.
LEMMA FlattenSeqType ==
    ASSUME NEW S, NEW n \in Nat, NEW seqs \in [1 .. n -> Seq(S)]
    PROVE  FlattenSeq(seqs) \in Seq(S)
<1>1. seqs \in Seq(Seq(S)) /\ Len(seqs) = n
  OBVIOUS
<1>2. CASE n = 0
  <2>1. FlattenSeq(seqs) = seqs
    BY <1>1, <1>2 DEF FlattenSeq
  <2>2. seqs = <<>>
    BY <1>1, <1>2
  <2> QED
    BY <2>1, <2>2
<1>3. CASE n > 0
  <2>1. PICK h \in [1 .. n -> Seq(S)] : InARow(seqs, n, h)
    BY <1>3, RowExists
  <2>2. FlattenSeq(seqs) = h[n]
    BY <1>1, <1>3, <2>1, FlattenSeqIs
  <2> QED
    BY <2>2, <1>3
<1> QED
  BY <1>2, <1>3

\* Among selects from a sequence.
LEMMA AmongType ==
    ASSUME NEW S, NEW s \in Seq(S), NEW T
    PROVE  Among(s, T) \in Seq(S)
<1> DEFINE seqs == [i \in DOMAIN s |-> IF s[i] \in T THEN <<s[i]>> ELSE <<>>]
<1>1. DOMAIN s = 1 .. Len(s) /\ Len(s) \in Nat /\ \A i \in 1 .. Len(s) : s[i] \in S
  OBVIOUS
<1>2. seqs \in [1 .. Len(s) -> Seq(S)]
  BY <1>1
<1> HIDE DEF seqs
<1>3. FlattenSeq(seqs) \in Seq(S)
  BY <1>1, <1>2, FlattenSeqType
<1> QED
  BY <1>3 DEF Among, seqs

\* Only membership of the sequence's own elements matters.
LEMMA AmongSame ==
    ASSUME NEW s, NEW T, NEW U, \A i \in DOMAIN s : s[i] \in T <=> s[i] \in U
    PROVE  Among(s, T) = Among(s, U)
<1>1. [i \in DOMAIN s |-> IF s[i] \in T THEN <<s[i]>> ELSE <<>>]
      = [i \in DOMAIN s |-> IF s[i] \in U THEN <<s[i]>> ELSE <<>>]
  OBVIOUS
<1> QED
  BY <1>1 DEF Among

\* What is kept of a sequence is its beginning.
LEMMA KeptTncc ==
    ASSUME NEW s \in Seq(Body)
    PROVE  /\ Kept(s, Unreadable) \in Seq(Body)
           /\ (\A i \in DOMAIN s : ~Unreadable(s[i])) => Kept(s, Unreadable) = s
<1> DEFINE I == {i \in 1 .. Len(s) : Unreadable(s[i])}
           first == IF I # {} THEN Min(I) ELSE 0
<1>1. Kept(s, Unreadable) = IF first = 0 THEN s ELSE SubSeq(s, 1, first - 1)
  BY DEF Kept, SelectInSeq
<1>2. I # {} => first \in 1 .. Len(s)
  <2>1. I \subseteq Nat /\ I \subseteq 1 .. Len(s)
    OBVIOUS
  <2> HIDE DEF I
  <2>2. I # {} => \E x \in I : \A y \in I : x <= y
    BY <2>1, LeastElement
  <2> QED
    BY <2>1, <2>2 DEF Min
<1>3. I = {} => first = 0
  OBVIOUS
<1>4. (\A i \in DOMAIN s : ~Unreadable(s[i])) => I = {}
  OBVIOUS
<1> HIDE DEF I, first
<1>5. I # {} => SubSeq(s, 1, first - 1) \in Seq(Body)
  BY <1>2
<1> QED
  BY <1>1, <1>2, <1>3, <1>4, <1>5

\* The same of the IMCs' messages.
LEMMA KeptImc ==
    ASSUME NEW s \in Seq(MessageType)
    PROVE  /\ Kept(s, Reserved) \in Seq(MessageType)
           /\ (\A i \in DOMAIN s : ~Reserved(s[i])) => Kept(s, Reserved) = s
<1> DEFINE I == {i \in 1 .. Len(s) : Reserved(s[i])}
           first == IF I # {} THEN Min(I) ELSE 0
<1>1. Kept(s, Reserved) = IF first = 0 THEN s ELSE SubSeq(s, 1, first - 1)
  BY DEF Kept, SelectInSeq
<1>2. I # {} => first \in 1 .. Len(s)
  <2>1. I \subseteq Nat /\ I \subseteq 1 .. Len(s)
    OBVIOUS
  <2> HIDE DEF I
  <2>2. I # {} => \E x \in I : \A y \in I : x <= y
    BY <2>1, LeastElement
  <2> QED
    BY <2>1, <2>2 DEF Min
<1>3. I = {} => first = 0
  OBVIOUS
<1>4. (\A i \in DOMAIN s : ~Reserved(s[i])) => I = {}
  OBVIOUS
<1> HIDE DEF I, first
<1>5. I # {} => SubSeq(s, 1, first - 1) \in Seq(MessageType)
  BY <1>2
<1> QED
  BY <1>1, <1>2, <1>3, <1>4, <1>5


Open == alive /\ conState = "HANDSHAKE"

\* A batch is a record of a number and two lists.
Shape(b) == b = [id |-> b.id, tncc |-> b.tncc, imc |-> b.imc]

\* Both are.
BatchesAreRecords == Shape(incoming) /\ Shape(outgoing)

\* The numbers of an open handshake count what was said in it.
NumbersCount ==
    Open => /\ incoming.id \in Nat
            /\ isFirst <=> incoming.id = 0
            /\ outgoing.id = IF incoming.id = 0 THEN 0 ELSE incoming.id + 1
            /\ talk \in Seq(Nat) /\ Len(talk) = outgoing.id

BInv == BatchesAreRecords /\ NumbersCount

-----------------------------------------------------------------------------
(* Batches.                                                                *)

\* operator= leaves a batch, with the number of a document it accepts.
LEMMA AssignedShape ==
    ASSUME NEW b, NEW d, Shape(b)
    PROVE  /\ Shape(Assigned(b, d))
           /\ Accepts(b, d) => Assigned(b, d).id = d.id
<1> DEFINE tncc == Kept(d.tncc, Unreadable)
           imc == IF tncc = d.tncc THEN Kept(d.imc, Reserved) ELSE <<>>
<1>1. CASE ~Numbered(b, d)
  <2>1. Assigned(b, d) = DeleteAllMessages(b)
    BY <1>1, Zenon DEF Assigned
  <2> QED
    BY <1>1, <2>1 DEF Shape, DeleteAllMessages, Accepts
<1>2. CASE Numbered(b, d) /\ d.recipient # "TNCS"
  <2>1. Assigned(b, d) = [DeleteAllMessages(b) EXCEPT !.id = d.id]
    BY <1>2, Zenon DEF Assigned
  <2> QED
    BY <2>1 DEF Shape, DeleteAllMessages
<1>3. CASE Numbered(b, d) /\ d.recipient = "TNCS"
  <2>1. Assigned(b, d) = [id |-> d.id, tncc |-> tncc, imc |-> imc]
    BY <1>3, Zenon DEF Assigned
  <2> HIDE DEF tncc, imc
  <2> QED
    BY <2>1 DEF Shape
<1> QED
  BY <1>1, <1>2, <1>3

\* The outgoing batch advances by 2 with each answer.
LEMMA AnswerShape ==
    ASSUME Shape(outgoing), NEW msgs, NEW t
    PROVE  /\ Shape(Filled(msgs)) /\ Shape(Counted(Filled(msgs)))
           /\ Shape(Counted([Filled(msgs) EXCEPT !.tncc = t]))
           /\ Filled(msgs).id = outgoing.id
           /\ Counted(Filled(msgs)).id = outgoing.id + 2
           /\ Counted([Filled(msgs) EXCEPT !.tncc = t]).id = outgoing.id + 2
<1>1. PICK n, x, y : outgoing = [id |-> n, tncc |-> x, imc |-> y]
  BY DEF Shape
<1>2. DeleteAllMessages(outgoing) = [id |-> n, tncc |-> <<>>, imc |-> <<>>]
  <2>1. DeleteAllMessages(outgoing) = [[outgoing EXCEPT !.tncc = <<>>] EXCEPT !.imc = <<>>]
    BY DEF DeleteAllMessages
  <2>2. [outgoing EXCEPT !.tncc = <<>>] = [id |-> n, tncc |-> <<>>, imc |-> y]
    BY <1>1
  <2> QED
    BY <2>1, <2>2
<1>3. Filled(msgs) = [id |-> n, tncc |-> <<>>, imc |-> msgs]
  BY <1>2 DEF Filled
<1>4. [Filled(msgs) EXCEPT !.tncc = t] = [id |-> n, tncc |-> t, imc |-> msgs]
  BY <1>3
<1>5. Counted(Filled(msgs)) = [id |-> n + 2, tncc |-> <<>>, imc |-> msgs]
  BY <1>3 DEF Counted
<1>6. Counted([Filled(msgs) EXCEPT !.tncc = t]) = [id |-> n + 2, tncc |-> t, imc |-> msgs]
  <2> DEFINE g == [Filled(msgs) EXCEPT !.tncc = t]
  <2> HIDE DEF g
  <2>1. g = [id |-> n, tncc |-> t, imc |-> msgs]
    BY <1>4 DEF g
  <2>2. Counted(g) = [id |-> n + 2, tncc |-> t, imc |-> msgs]
    BY <2>1 DEF Counted
  <2> QED
    BY <2>2 DEF g
<1>7. outgoing.id = n
  BY <1>1
<1> QED
  BY <1>3, <1>5, <1>6, <1>7 DEF Shape

\* What an accepted document does to the numbers.
LEMMA TakenStep ==
    ASSUME BInv, NEW m, NEW msgs, Take(m, msgs)
    PROVE  /\ Open /\ Shape(incoming') /\ ~isFirst' /\ alive' = alive
           /\ incoming'.id = Len(talk) + 1 /\ incoming'.id \in Nat
           /\ outgoing.id = Len(talk) /\ talk \in Seq(Nat)
<1>1. Open /\ Accepts(incoming, m.doc) /\ incoming' = Assigned(incoming, m.doc)
      /\ ~isFirst' /\ alive' = alive
  BY DEF Take, Arrives, Open
<1>2. Shape(incoming') /\ incoming'.id = m.doc.id
  BY <1>1, AssignedShape DEF BInv, BatchesAreRecords
<1>3. m.doc.id = IF incoming.id = 0 THEN 1 ELSE incoming.id + 2
  BY <1>1 DEF Accepts, Numbered
<1> QED
  BY <1>1, <1>2, <1>3 DEF BInv, NumbersCount

\* ... and an answer to it.
LEMMA ExchangeStep ==
    ASSUME BInv, NEW m, NEW msgs, NEW b, Take(m, msgs), SendBack(b),
           Shape(Counted(b)), Counted(b).id = outgoing.id + 2
    PROVE  /\ BInv'
           /\ Open /\ talk' = talk \o <<Len(talk) + 1, Len(talk) + 2>>
<1>1. /\ Open /\ Shape(incoming') /\ ~isFirst'
      /\ incoming'.id = Len(talk) + 1 /\ incoming'.id \in Nat
      /\ outgoing.id = Len(talk) /\ talk \in Seq(Nat)
  BY TakenStep
<1>2. outgoing' = Counted(b) /\ talk' = talk \o <<incoming'.id, outgoing'.id>>
  BY DEF SendBack
<1>3. outgoing'.id = Len(talk) + 2 /\ Len(talk) \in Nat /\ Shape(outgoing')
  BY <1>1, <1>2
<1>4. talk' = talk \o <<Len(talk) + 1, Len(talk) + 2>>
  BY <1>1, <1>2, <1>3
<1>5. talk' \in Seq(Nat) /\ Len(talk') = Len(talk) + 2
  BY <1>1, <1>3, <1>4
<1> QED
  BY <1>1, <1>3, <1>4, <1>5 DEF BInv, BatchesAreRecords, NumbersCount

-----------------------------------------------------------------------------
(* Every step keeps the invariant and is a step of the conversation.       *)

\* A step of the conversation by turns, or none of its business.
Turn == Numbers!CNext \/ UNCHANGED Numbers!cvars

LEMMA HandshakeStep ==
    ASSUME BInv, Handshake
    PROVE  BInv' /\ Turn
<1>1. /\ Shape(incoming') /\ incoming'.id = 0
      /\ Shape(outgoing') /\ outgoing'.id = 0
  BY DEF Handshake, ResetID, BInv, BatchesAreRecords, Shape
<1>2. isFirst' /\ talk' = <<>> /\ alive' /\ conState' = "HANDSHAKE"
  BY DEF Handshake
<1> QED
  BY <1>1, <1>2 DEF BInv, BatchesAreRecords, NumbersCount, Turn, Numbers!CNext, Numbers!Start

LEMMA RefuseStep ==
    ASSUME BInv, NEW m, Refuse(m)
    PROVE  BInv' /\ Turn
<1>1. Open /\ ~Open' /\ talk' = talk /\ outgoing' = outgoing
  BY DEF Refuse, Arrives, Open
<1>2. Shape(incoming')
  BY AssignedShape DEF Refuse, BInv, BatchesAreRecords
<1> QED
  BY <1>1, <1>2 DEF BInv, BatchesAreRecords, NumbersCount, Open, Turn,
     Numbers!CNext, Numbers!Break

LEMMA AnswerMessagesStep ==
    ASSUME BInv, NEW m, AnswerMessages(m)
    PROVE  BInv' /\ Turn
<1>1. PICK s \in Sayings : Take(m, Sent(s)) /\ SendBack(Filled(Sent(s)))
  BY DEF AnswerMessages
<1>2. /\ Shape(Counted(Filled(Sent(s))))
      /\ Counted(Filled(Sent(s))).id = outgoing.id + 2
  BY AnswerShape DEF BInv, BatchesAreRecords
<1>3. BInv' /\ Open /\ talk' = talk \o <<Len(talk) + 1, Len(talk) + 2>>
  BY <1>1, <1>2, ExchangeStep
<1> QED
  BY <1>3 DEF Open, Turn, Numbers!CNext, Numbers!Exchange

LEMMA AnswerRecommendationStep ==
    ASSUME BInv, NEW m, AnswerRecommendation(m)
    PROVE  BInv' /\ Turn
<1>1. PICK s \in Sayings : LET b == Filled(Sent(s)) IN
        Take(m, Sent(s)) /\ SendBack([b EXCEPT !.tncc = Append(@, "xml")])
  BY DEF AnswerRecommendation
<1> DEFINE b == Filled(Sent(s))
           c == [b EXCEPT !.tncc = Append(b.tncc, "xml")]
<1>2. Shape(Counted(c)) /\ Counted(c).id = outgoing.id + 2
  BY AnswerShape DEF BInv, BatchesAreRecords
<1>3. Take(m, Sent(s)) /\ SendBack(c)
  BY <1>1
<1> HIDE DEF c
<1>4. BInv' /\ Open /\ talk' = talk \o <<Len(talk) + 1, Len(talk) + 2>>
  BY <1>2, <1>3, ExchangeStep
<1> QED
  BY <1>4 DEF Open, Turn, Numbers!CNext, Numbers!Exchange

LEMMA NoAnswerStep ==
    ASSUME BInv, NEW m, NoAnswer(m)
    PROVE  BInv' /\ Turn
<1>1. PICK s \in Sayings :
        /\ Take(m, Sent(s))
        /\ outgoing' \in {Filled(Sent(s)), Counted(Filled(Sent(s)))}
  BY DEF NoAnswer
<1>2. ~Open' /\ talk' = Append(talk, incoming'.id)
  BY DEF NoAnswer, Open
<1>3. Shape(outgoing')
  BY <1>1, AnswerShape DEF BInv, BatchesAreRecords
<1>4. Open /\ Shape(incoming') /\ incoming'.id = Len(talk) + 1
  BY <1>1, TakenStep
<1> QED
  BY <1>2, <1>3, <1>4 DEF BInv, BatchesAreRecords, NumbersCount, Open, Turn,
     Numbers!CNext, Numbers!Break

LEMMA OtherSteps ==
    ASSUME BInv, UNCHANGED <<alive, proto, talk>>
    PROVE  BInv' /\ Turn
<1>1. UNCHANGED <<alive, conState, isFirst, incoming, outgoing, talk>>
  BY DEF proto
<1> QED
  BY <1>1 DEF BInv, BatchesAreRecords, NumbersCount, Shape, Open, Turn, Numbers!cvars

LEMMA EveryStep ==
    ASSUME BInv, [Next]_vars
    PROVE  BInv' /\ Turn
<1>1. CASE ClientSends \/ ClientReceives \/ ClientMisbehaves \/ Stopped
           \/ (\E m \in wire : TooLate(m)) \/ UNCHANGED vars
  <2>1. UNCHANGED <<alive, proto, talk>>
    BY <1>1 DEF ClientSends, ClientReceives, ClientMisbehaves, Stopped, TooLate, vars, past
  <2> QED
    BY <2>1, OtherSteps
<1> QED
  BY <1>1, HandshakeStep, RefuseStep, AnswerMessagesStep, AnswerRecommendationStep,
     NoAnswerStep DEF Next, Process

-----------------------------------------------------------------------------
(* The invariant beyond the numbers.                                       *)

\* The values of a TNCCSBatch object.
BatchObject == [id : Nat, tncc : Seq(Body), imc : Seq(MessageType)]

\* A batch that the schema, the recipient and the messages do not refuse.
AsTnccsHasIt(d) == d.valid /\ d.recipient = "TNCS" /\ Whole(d)

\* The client's side: old batches may be on their way, none of the future.
ClientOK == client \in [session : 0 .. MaxSessions, next : Nat \ {0}, mayTalk : BOOLEAN]

WireOK == \A m \in wire : /\ m \in [session : Nat, doc : Document, own : BOOLEAN]
                          /\ m.session <= client.session
                          /\ m.own => AsTnccsHasIt(m.doc)

PeerOK == ClientOK /\ WireOK /\ back \in Seq(Document)

\* The protocol object.
ServerOK == /\ alive \in BOOLEAN /\ isFirst \in BOOLEAN /\ disturbed \in BOOLEAN
            /\ conState \in ConState
            /\ incoming \in BatchObject /\ outgoing \in BatchObject

\* Two numbers for each document that was taken, or one for the last of a
\* handshake that ended without an answer.
HistoryOK == /\ taken \in Seq(Document)
             /\ Len(talk) \in {2 * Len(taken), 2 * Len(taken) - 1}
             /\ Open => Len(talk) = 2 * Len(taken)

Types == PeerOK /\ ServerOK /\ HistoryOK

\* The number that the next batch of the client must have.
Due == IF incoming.id = 0 THEN 1 ELSE incoming.id + 2

\* The client's batches of this session on their way.
Own == {m \in wire : m.own /\ m.session = client.session}

\* In an undisturbed handshake either the client is about to send the batch
\* that is due, or it is on its way, or its answer is.
ByTurns ==
    Open /\ ~disturbed =>
      /\ \A m \in Own : m.doc.id = client.next /\ back = <<>> /\ ~client.mayTalk
      /\ \A m, n \in Own : m = n
      /\ back = <<>> => client.next = Due
      /\ back # <<>> => /\ Len(back) = 1 /\ client.next = incoming.id
                        /\ Head(back).id = client.next + 1 /\ ~client.mayTalk

\* h[k] is what IMV i heard from the first k documents.
Hearing(i, h) == /\ h[0] = <<>>
                 /\ \A k \in 1 .. Len(taken) : h[k] = h[k - 1] \o Share(i, taken[k])

\* What each IMV heard is its share of each document that was taken.
Heard == /\ heard = [i \in IMV |-> heard[i]]
         /\ \A i \in IMV : \E h \in [0 .. Len(taken) -> Seq(MessageType)] :
              Hearing(i, h) /\ heard[i] = h[Len(taken)]

\* The inductive invariant.
IInv == BInv /\ Types /\ ByTurns /\ Heard

-----------------------------------------------------------------------------
(* What the operators return.                                              *)

\* The fields of a batch, and what deleting its messages leaves.
LEMMA Emptied ==
    ASSUME NEW b \in BatchObject
    PROVE  /\ b.id \in Nat /\ b.tncc \in Seq(Body) /\ b.imc \in Seq(MessageType)
           /\ DeleteAllMessages(b) = [id |-> b.id, tncc |-> <<>>, imc |-> <<>>]
<1>1. /\ b = [id |-> b.id, tncc |-> b.tncc, imc |-> b.imc]
      /\ b.id \in Nat /\ b.tncc \in Seq(Body) /\ b.imc \in Seq(MessageType)
  BY DEF BatchObject
<1>2. PICK n, x, y : b = [id |-> n, tncc |-> x, imc |-> y]
  BY <1>1
<1>3. DeleteAllMessages(b) = [[b EXCEPT !.tncc = <<>>] EXCEPT !.imc = <<>>]
  BY DEF DeleteAllMessages
<1>4. [b EXCEPT !.tncc = <<>>] = [id |-> n, tncc |-> <<>>, imc |-> y]
  BY <1>2
<1>5. DeleteAllMessages(b) = [id |-> n, tncc |-> <<>>, imc |-> <<>>]
  BY <1>3, <1>4
<1> QED
  BY <1>1, <1>2, <1>5

\* operator= leaves a batch; of an accepted document it has all messages.
LEMMA AssignedType ==
    ASSUME NEW b \in BatchObject, NEW d \in Document
    PROVE  /\ Assigned(b, d) \in BatchObject
           /\ Accepts(b, d) => Assigned(b, d).imc = d.imc /\ Assigned(b, d).id = d.id
<1> DEFINE tncc == Kept(d.tncc, Unreadable)
           kept == Kept(d.imc, Reserved)
           imc == IF tncc = d.tncc THEN kept ELSE <<>>
<1>1. DeleteAllMessages(b) = [id |-> b.id, tncc |-> <<>>, imc |-> <<>>] /\ b.id \in Nat
  BY Emptied
<1>2. CASE ~Numbered(b, d)
  <2>1. Assigned(b, d) = DeleteAllMessages(b)
    BY <1>2, Zenon DEF Assigned
  <2> QED
    BY <1>1, <1>2, <2>1 DEF BatchObject, Accepts
<1>3. CASE Numbered(b, d) /\ d.recipient # "TNCS"
  <2>1. Assigned(b, d) = [DeleteAllMessages(b) EXCEPT !.id = d.id]
    BY <1>3, Zenon DEF Assigned
  <2>2. d.id \in Nat
    BY DEF Document
  <2>3. Assigned(b, d) = [id |-> d.id, tncc |-> <<>>, imc |-> <<>>]
    BY <1>1, <2>1
  <2>4. [id |-> d.id, tncc |-> <<>>, imc |-> <<>>] \in BatchObject
    BY <2>2 DEF BatchObject
  <2>5. ~Accepts(b, d)
    BY <1>3 DEF Accepts
  <2> QED
    BY <2>3, <2>4, <2>5
<1>4. CASE Numbered(b, d) /\ d.recipient = "TNCS"
  <2>1. Assigned(b, d) = [id |-> d.id, tncc |-> tncc, imc |-> imc]
    BY <1>4, Zenon DEF Assigned
  <2>2. d.id \in Nat /\ d.tncc \in Seq(Body) /\ d.imc \in Seq(MessageType)
    BY DEF Document
  <2>3. tncc \in Seq(Body) /\ kept \in Seq(MessageType)
    BY <2>2, KeptTncc, KeptImc
  <2>4. Accepts(b, d) => tncc = d.tncc /\ kept = d.imc
    BY <2>2, KeptTncc, KeptImc DEF Accepts, Whole
  <2> HIDE DEF tncc, kept
  <2>5. imc \in Seq(MessageType) /\ (Accepts(b, d) => imc = d.imc)
    BY <2>3, <2>4
  <2> HIDE DEF imc
  <2>6. Assigned(b, d) \in BatchObject
    BY <2>1, <2>2, <2>3, <2>5 DEF BatchObject
  <2>7. Assigned(b, d).imc = imc /\ Assigned(b, d).id = d.id
    BY <2>1
  <2> QED
    BY <2>5, <2>6, <2>7
<1> QED
  BY <1>2, <1>3, <1>4

\* The outgoing batch with the IMVs' messages, or with a recommendation.
LEMMA AnswerType ==
    ASSUME outgoing \in BatchObject, NEW msgs \in Seq(MessageType), NEW t \in Seq(Body)
    PROVE  LET b == [Filled(msgs) EXCEPT !.tncc = t]
           IN /\ Filled(msgs) = [id |-> outgoing.id, tncc |-> <<>>, imc |-> msgs]
              /\ b = [id |-> outgoing.id, tncc |-> t, imc |-> msgs]
              /\ Filled(msgs) \in BatchObject /\ b \in BatchObject
<1> DEFINE b == [Filled(msgs) EXCEPT !.tncc = t]
<1>1. DeleteAllMessages(outgoing) = [id |-> outgoing.id, tncc |-> <<>>, imc |-> <<>>]
  BY Emptied
<1>2. Filled(msgs) = [id |-> outgoing.id, tncc |-> <<>>, imc |-> msgs]
  BY <1>1 DEF Filled
<1>3. b = [id |-> outgoing.id, tncc |-> t, imc |-> msgs]
  BY <1>2
<1>4. outgoing.id \in Nat
  BY DEF BatchObject
<1> HIDE DEF b
<1>5. Filled(msgs) \in BatchObject /\ b \in BatchObject
  BY <1>2, <1>3, <1>4 DEF BatchObject
<1> QED
  BY <1>2, <1>3, <1>5 DEF b

\* A document made of a batch has its messages and the next number.
LEMMA CountedType ==
    ASSUME NEW b \in BatchObject
    PROVE  /\ Counted(b) \in BatchObject /\ Counted(b).id = b.id + 2
           /\ NewTnccsData(b) \in Document /\ NewTnccsData(b).id = b.id + 2
           /\ NewTnccsData(b).tncc = b.tncc /\ NewTnccsData(b).imc = b.imc
<1>1. /\ b = [id |-> b.id, tncc |-> b.tncc, imc |-> b.imc]
      /\ b.id \in Nat /\ b.tncc \in Seq(Body) /\ b.imc \in Seq(MessageType)
  BY DEF BatchObject
<1>2. PICK n, x, y : b = [id |-> n, tncc |-> x, imc |-> y]
  BY <1>1
<1>3. Counted(b) = [id |-> n + 2, tncc |-> x, imc |-> y]
  BY <1>2 DEF Counted
<1>4. Counted(b) \in BatchObject /\ Counted(b).id = b.id + 2
  BY <1>1, <1>2, <1>3 DEF BatchObject
<1>5. b.id + 2 \in Nat
  BY <1>1
<1>6. NewTnccsData(b) \in Document
  BY <1>1, <1>5 DEF NewTnccsData, Document
<1> QED
  BY <1>4, <1>6 DEF NewTnccsData

\* What TNC_TNCS_SendMessage takes are messages.
LEMMA SentType ==
    ASSUME NEW s \in Sayings
    PROVE  Sent(s) \in Seq(MessageType)
BY DocumentAssumption, AmongType DEF Sent

\* The share of an IMV are messages.
LEMMA ShareType ==
    ASSUME NEW i, NEW d, d.imc \in Seq(MessageType)
    PROVE  Share(i, d) \in Seq(MessageType)
BY AmongType DEF Share

\* A client that keeps to TNCCS sends what operator= reads to the end.
LEMMA BatchType ==
    ASSUME NEW id \in Nat, NEW doc \in Documents
    PROVE  /\ Batch(id, doc) \in Document /\ AsTnccsHasIt(Batch(id, doc))
           /\ Batch(id, doc).id = id
<1>1. doc \in Content /\ Whole(doc)
  BY DocumentAssumption
<1>2. Whole(Batch(id, doc))
  BY <1>1 DEF Whole, Batch
<1>3. doc.tncc \in Seq(Body) /\ doc.imc \in Seq(MessageType)
  BY <1>1 DEF Content
<1>4. Batch(id, doc) \in Document
  BY <1>3 DEF Batch, Document
<1> QED
  BY <1>2, <1>4 DEF Batch, AsTnccsHasIt

-----------------------------------------------------------------------------
(* Types.                                                                  *)

\* A document that is taken, and what the IMVs say about it.
LEMMA TakenType ==
    ASSUME BInv, Types, NEW m \in wire, NEW msgs, Take(m, msgs)
    PROVE  /\ Open /\ Accepts(incoming, m.doc) /\ m.doc \in Document
           /\ incoming' \in BatchObject /\ incoming'.imc = m.doc.imc
           /\ incoming'.id = m.doc.id /\ incoming'.id = Due
           /\ taken' = Append(taken, m.doc) /\ taken' \in Seq(Document)
           /\ Len(taken) \in Nat /\ Len(taken') = Len(taken) + 1
           /\ ClientOK' /\ WireOK' /\ client' = client /\ wire' = wire \ {m}
           /\ alive' \in BOOLEAN /\ isFirst' \in BOOLEAN /\ disturbed' \in BOOLEAN
           /\ alive' = alive /\ said' = msgs
<1>1. /\ Open /\ Accepts(incoming, m.doc) /\ incoming' = Assigned(incoming, m.doc)
      /\ taken' = Append(taken, m.doc) /\ client' = client /\ wire' = wire \ {m}
      /\ isFirst' = FALSE /\ disturbed' \in BOOLEAN /\ alive' = alive /\ said' = msgs
  BY DEF Take, Arrives, Open
<1>2. m.doc \in Document /\ incoming \in BatchObject
  BY DEF Types, PeerOK, WireOK, ServerOK
<1>3. incoming' \in BatchObject /\ incoming'.imc = m.doc.imc /\ incoming'.id = m.doc.id
  BY <1>1, <1>2, AssignedType
<1>4. incoming'.id = Due
  BY <1>1, <1>3 DEF Accepts, Numbered, Due
<1>5. taken' \in Seq(Document) /\ Len(taken) \in Nat /\ Len(taken') = Len(taken) + 1
  BY <1>1, <1>2 DEF Types, HistoryOK
<1>6. ClientOK' /\ WireOK'
  BY <1>1 DEF Types, PeerOK, ClientOK, WireOK
<1>7. alive' \in BOOLEAN
  BY <1>1 DEF Types, ServerOK
<1> QED
  BY <1>1, <1>2, <1>3, <1>4, <1>5, <1>6, <1>7

\* The recommendation ends the handshake.
LEMMA NotAgain ==
    ASSUME NEW r \in Rec
    PROVE  StateOf(r) \in ConState /\ StateOf(r) # "HANDSHAKE"
<1>1. StateOf(r) \in Decided
  BY DEF StateOf, Decided
<1> QED
  BY <1>1 DEF ConState, Decided

\* An answer of either kind keeps the types and is the last document back.
LEMMA TypesAnswer ==
    ASSUME BInv, Types, NEW m \in wire, NEW s \in Sayings, NEW t \in Seq(Body),
           Take(m, Sent(s)), SendBack([Filled(Sent(s)) EXCEPT !.tncc = t]),
           conState' \in ConState
    PROVE  /\ Types'
           /\ back' = Append(back, NewTnccsData([Filled(Sent(s)) EXCEPT !.tncc = t]))
           /\ Last(back') = NewTnccsData([Filled(Sent(s)) EXCEPT !.tncc = t])
           /\ Last(back').imc = Sent(s) /\ Last(back').tncc = t
           /\ Last(back').id = outgoing.id + 2
           /\ Len(back') = Len(back) + 1
<1> DEFINE b == [Filled(Sent(s)) EXCEPT !.tncc = t]
<1>1. Sent(s) \in Seq(MessageType) /\ outgoing \in BatchObject
  BY SentType DEF Types, ServerOK
<1>2. b \in BatchObject /\ b = [id |-> outgoing.id, tncc |-> t, imc |-> Sent(s)]
  BY <1>1, AnswerType
<1> HIDE DEF b
<1>3. /\ outgoing' = Counted(b) /\ back' = Append(back, NewTnccsData(b))
      /\ talk' = talk \o <<incoming'.id, outgoing'.id>>
  BY DEF SendBack, b
<1>4. outgoing' \in BatchObject /\ NewTnccsData(b) \in Document /\ NewTnccsData(b).id = outgoing.id + 2
  BY <1>2, <1>3, CountedType
<1>5. /\ back' \in Seq(Document) /\ Len(back') = Len(back) + 1
      /\ Last(back') = NewTnccsData(b)
  <2>1. back \in Seq(Document)
    BY DEF Types, PeerOK
  <2> QED
    BY <2>1, <1>3, <1>4 DEF Last
<1>6. /\ Open /\ incoming' \in BatchObject /\ taken' \in Seq(Document) /\ ClientOK' /\ WireOK'
      /\ alive' \in BOOLEAN /\ isFirst' \in BOOLEAN /\ disturbed' \in BOOLEAN
      /\ Len(taken) \in Nat /\ Len(taken') = Len(taken) + 1
  BY TakenType
<1>7. Len(talk') = 2 * Len(taken')
  <2>1. Len(talk) = 2 * Len(taken) /\ talk \in Seq(Nat)
    BY <1>6 DEF Types, HistoryOK, BInv, NumbersCount
  <2>2. incoming'.id \in Nat /\ outgoing'.id \in Nat
    BY <1>4, <1>6 DEF BatchObject
  <2> DEFINE two == <<incoming'.id, outgoing'.id>>
  <2>3. two \in Seq(Nat) /\ Len(two) = 2
    BY <2>2
  <2> HIDE DEF two
  <2>4. Len(talk') = Len(talk) + 2
    BY <1>3, <2>1, <2>3, ConcatProperties DEF two
  <2> QED
    BY <2>1, <2>4, <1>6
<1>8. Types'
  BY <1>4, <1>5, <1>6, <1>7 DEF Types, PeerOK, ServerOK, HistoryOK
<1>9. NewTnccsData(b).imc = Sent(s) /\ NewTnccsData(b).tncc = t
  BY <1>2, CountedType
<1> QED
  BY <1>3, <1>4, <1>5, <1>8, <1>9 DEF b

\* With nothing added to it, the batch is the filled one.
LEMMA NothingAdded ==
    ASSUME outgoing \in BatchObject, NEW s \in Sayings
    PROVE  /\ [Filled(Sent(s)) EXCEPT !.tncc = <<>>] = Filled(Sent(s))
           /\ Filled(Sent(s)).tncc = <<>> /\ Filled(Sent(s)).imc = Sent(s)
           /\ <<>> \in Seq(Body) /\ Append(<<>>, "xml") \in Seq(Body)
           /\ Append(<<>>, "xml") # <<>>
<1>1. Sent(s) \in Seq(MessageType) /\ <<>> \in Seq(Body)
  BY SentType
<1>2. "xml" \in Body
  BY DEF Body
<1>3. Append(<<>>, "xml") \in Seq(Body) /\ Append(<<>>, "xml") # <<>>
  BY <1>2
<1>4. /\ Filled(Sent(s)) = [id |-> outgoing.id, tncc |-> <<>>, imc |-> Sent(s)]
      /\ [Filled(Sent(s)) EXCEPT !.tncc = <<>>]
           = [id |-> outgoing.id, tncc |-> <<>>, imc |-> Sent(s)]
  BY <1>1, AnswerType
<1>5. Filled(Sent(s)).tncc = <<>> /\ Filled(Sent(s)).imc = Sent(s)
  BY ONLY <1>4
<1> QED
  BY <1>1, <1>3, <1>4, <1>5

\* An answer with the IMVs' messages.
LEMMA MessagesAre ==
    ASSUME BInv, Types, NEW m \in wire, AnswerMessages(m)
    PROVE  /\ Types' /\ \E s \in Sayings : Take(m, Sent(s))
           /\ Len(back') = Len(back) + 1 /\ Last(back').id = outgoing.id + 2
           /\ Last(back') \in Document /\ back' = Append(back, Last(back'))
           /\ Last(back').imc = said' /\ said' # <<>> /\ Last(back').tncc = <<>>
<1>1. PICK s \in Sayings : /\ Filled(Sent(s)).imc # <<>>
                           /\ Take(m, Sent(s)) /\ SendBack(Filled(Sent(s)))
                           /\ conState' = conState
  BY DEF AnswerMessages
<1>2. outgoing \in BatchObject /\ conState' \in ConState
  BY <1>1 DEF Types, ServerOK
<1>3. /\ [Filled(Sent(s)) EXCEPT !.tncc = <<>>] = Filled(Sent(s))
      /\ Filled(Sent(s)).imc = Sent(s) /\ <<>> \in Seq(Body)
  BY <1>2, NothingAdded
<1>4. SendBack([Filled(Sent(s)) EXCEPT !.tncc = <<>>])
  BY <1>1, <1>3
<1>5. said' = Sent(s)
  BY <1>1, TakenType
<1>6. /\ Types' /\ Len(back') = Len(back) + 1 /\ Last(back').id = outgoing.id + 2
      /\ Last(back').imc = Sent(s) /\ Last(back').tncc = <<>>
      /\ back' = Append(back, Last(back'))
  BY <1>1, <1>2, <1>3, <1>4, TypesAnswer
<1>7. Last(back') \in Document
  <2>1. back \in Seq(Document) /\ back' \in Seq(Document)
    BY <1>6 DEF Types, PeerOK
  <2> QED
    BY <2>1, <1>6 DEF Last
<1> QED
  BY <1>1, <1>3, <1>5, <1>6, <1>7

\* An answer with the recommendation alone.
LEMMA RecommendationIs ==
    ASSUME BInv, Types, NEW m \in wire, AnswerRecommendation(m)
    PROVE  /\ Types' /\ ~Open' /\ \E s \in Sayings : Take(m, Sent(s))
           /\ Last(back').imc = said' /\ said' = <<>> /\ Last(back').tncc # <<>>
<1>1. PICK s \in Sayings, r \in Rec :
        LET b == Filled(Sent(s)) IN
        /\ b.imc = <<>>
        /\ Take(m, Sent(s)) /\ SendBack([b EXCEPT !.tncc = Append(b.tncc, "xml")])
        /\ conState' = StateOf(r)
  BY DEF AnswerRecommendation
<1>2. outgoing \in BatchObject
  BY DEF Types, ServerOK
<1>3. /\ Filled(Sent(s)).tncc = <<>> /\ Filled(Sent(s)).imc = Sent(s)
      /\ Append(<<>>, "xml") \in Seq(Body) /\ Append(<<>>, "xml") # <<>>
  BY <1>2, NothingAdded
<1>4. conState' \in ConState /\ ~Open'
  BY <1>1, NotAgain DEF Open
<1>5. SendBack([Filled(Sent(s)) EXCEPT !.tncc = Append(<<>>, "xml")])
  BY <1>1, <1>3
<1>6. said' = Sent(s) /\ Sent(s) = <<>>
  BY <1>1, <1>3, TakenType
<1> DEFINE t == Append(<<>>, "xml")
<1> HIDE DEF t
<1>7. t \in Seq(Body) /\ t # <<>> /\ SendBack([Filled(Sent(s)) EXCEPT !.tncc = t])
  BY <1>3, <1>5 DEF t
<1>8. Types' /\ Last(back').imc = Sent(s) /\ Last(back').tncc = t
  BY <1>1, <1>4, <1>7, TypesAnswer
<1> QED
  BY <1>1, <1>4, <1>6, <1>7, <1>8

\* No answer ends the handshake.
LEMMA NoAnswerTypes ==
    ASSUME BInv, Types, NEW m \in wire, NoAnswer(m)
    PROVE  /\ Types' /\ ~Open' /\ back' = back /\ \E s \in Sayings : Take(m, Sent(s))
<1>1. PICK s \in Sayings :
        /\ Take(m, Sent(s))
        /\ outgoing' \in {Filled(Sent(s)), Counted(Filled(Sent(s)))}
        /\ conState' = "ACCESS_NONE"
        /\ talk' = Append(talk, incoming'.id)
        /\ back' = back
  BY DEF NoAnswer
<1>2. outgoing \in BatchObject /\ Sent(s) \in Seq(MessageType) /\ <<>> \in Seq(Body)
  BY SentType DEF Types, ServerOK
<1>3. Filled(Sent(s)) \in BatchObject
  BY <1>2, AnswerType
<1>4. outgoing' \in BatchObject
  BY <1>1, <1>3, CountedType
<1>5. /\ Open /\ incoming' \in BatchObject /\ taken' \in Seq(Document) /\ ClientOK' /\ WireOK'
      /\ alive' \in BOOLEAN /\ isFirst' \in BOOLEAN /\ disturbed' \in BOOLEAN
      /\ Len(taken) \in Nat /\ Len(taken') = Len(taken) + 1
  BY <1>1, TakenType
<1>6. Len(talk) = 2 * Len(taken) /\ talk \in Seq(Nat)
  BY <1>5 DEF Types, HistoryOK, BInv, NumbersCount
<1>7. Len(talk') = Len(talk) + 1
  BY <1>1, <1>6
<1>8. Len(talk') = 2 * Len(taken') - 1
  BY <1>5, <1>6, <1>7
<1>9. conState' \in ConState /\ ~Open'
  BY <1>1 DEF ConState, Decided, Open
<1>10. back' \in Seq(Document)
  BY <1>1 DEF Types, PeerOK
<1> QED
  BY <1>1, <1>4, <1>5, <1>8, <1>9, <1>10 DEF Types, PeerOK, ServerOK, HistoryOK

\* A refused document ends the handshake or the process.
LEMMA RefuseTypes ==
    ASSUME BInv, Types, NEW m \in wire, Refuse(m)
    PROVE  Types' /\ ~Open'
<1>1. /\ incoming' = Assigned(incoming, m.doc)
      /\ client' = client /\ wire' = wire \ {m} /\ back' = back /\ isFirst' = isFirst
      /\ outgoing' = outgoing /\ taken' = taken /\ talk' = talk
      /\ disturbed' \in BOOLEAN
      /\ (alive' = FALSE /\ conState' = conState)
          \/ (alive' = alive /\ conState' = "ACCESS_NONE")
  BY DEF Refuse, Arrives
<1>2. m.doc \in Document /\ incoming \in BatchObject
  BY DEF Types, PeerOK, WireOK, ServerOK
<1>3. incoming' \in BatchObject
  BY <1>1, <1>2, AssignedType
<1>4. ~Open' /\ alive' \in BOOLEAN /\ conState' \in ConState
  BY <1>1 DEF Open, Types, ServerOK, ConState, Decided
<1>5. PeerOK'
  BY <1>1 DEF Types, PeerOK, ClientOK, WireOK
<1>6. ServerOK'
  BY <1>1, <1>3, <1>4 DEF Types, ServerOK
<1>7. HistoryOK'
  BY <1>1, <1>4 DEF Types, HistoryOK
<1> QED
  BY <1>4, <1>5, <1>6, <1>7 DEF Types

\* A new session.
LEMMA HandshakeTypes ==
    ASSUME BInv, Types, Handshake
    PROVE  Types'
<1>1. /\ client' = [session |-> client.session + 1, next |-> 1, mayTalk |-> TRUE]
      /\ client.session < MaxSessions /\ back' = <<>> /\ wire' = wire /\ alive' = alive
      /\ conState' = "HANDSHAKE" /\ isFirst' = TRUE /\ taken' = <<>> /\ talk' = <<>>
      /\ disturbed' = FALSE
      /\ incoming' = [incoming EXCEPT !.id = 0] /\ outgoing' = [outgoing EXCEPT !.id = 0]
  BY DEF Handshake, ResetID
<1>2. client.session \in 0 .. MaxSessions
  BY DEF Types, PeerOK, ClientOK
<1>3. client.session + 1 \in 0 .. MaxSessions
  BY <1>1, <1>2, BoundAssumption
<1>4. ClientOK' /\ client'.session = client.session + 1
  BY <1>1, <1>3 DEF ClientOK
<1>5. WireOK'
  <2> SUFFICES ASSUME NEW m \in wire
               PROVE  /\ m \in [session : Nat, doc : Document, own : BOOLEAN]
                      /\ m.session <= client.session + 1
                      /\ m.own => AsTnccsHasIt(m.doc)
    BY <1>1, <1>4 DEF WireOK
  <2>1. /\ m \in [session : Nat, doc : Document, own : BOOLEAN]
        /\ m.session <= client.session /\ (m.own => AsTnccsHasIt(m.doc))
    BY DEF Types, PeerOK, WireOK
  <2>2. m.session \in Nat
    BY <2>1
  <2> QED
    BY <1>2, <2>1, <2>2, BoundAssumption
<1>6. incoming' \in BatchObject /\ outgoing' \in BatchObject
  BY <1>1 DEF Types, ServerOK, BatchObject
<1>7. ServerOK'
  BY <1>1, <1>6 DEF Types, ServerOK, ConState
<1>8. PeerOK' /\ HistoryOK'
  BY <1>1, <1>4, <1>5 DEF PeerOK, HistoryOK
<1> QED
  BY <1>7, <1>8 DEF Types

\* A document more on its way.
LEMMA SendTypes ==
    ASSUME Types, NEW d \in Document, NEW own \in BOOLEAN, own => AsTnccsHasIt(d), Send(d, own),
           client'.session = client.session
    PROVE  WireOK' /\ wire' = wire \cup {[session |-> client.session, doc |-> d, own |-> own]}
<1>1. wire' = wire \cup {[session |-> client.session, doc |-> d, own |-> own]}
  BY DEF Send
<1>2. client.session \in Nat
  BY BoundAssumption DEF Types, PeerOK, ClientOK
<1> DEFINE new == [session |-> client.session, doc |-> d, own |-> own]
<1>3. /\ new \in [session : Nat, doc : Document, own : BOOLEAN]
      /\ new.session <= client.session /\ (new.own => AsTnccsHasIt(new.doc))
  BY <1>2
<1> HIDE DEF new
<1>4. wire' = wire \cup {new}
  BY <1>1 DEF new
<1>5. WireOK'
  BY <1>3, <1>4 DEF Types, PeerOK, WireOK
<1> QED
  BY <1>1, <1>5

\* The client sends the batch it is to send.
LEMMA ClientSendsTypes ==
    ASSUME Types, ClientSends
    PROVE  /\ Types' /\ client.mayTalk /\ client' = [client EXCEPT !.mayTalk = FALSE]
           /\ \E d \in Document : d.id = client.next /\
                wire' = wire \cup {[session |-> client.session, doc |-> d, own |-> TRUE]}
<1>1. PICK doc \in Documents : Send(Batch(client.next, doc), TRUE)
  BY DEF ClientSends
<1>2. /\ client.mayTalk /\ client' = [client EXCEPT !.mayTalk = FALSE]
      /\ UNCHANGED <<back, alive, conState, isFirst, incoming, outgoing, taken, talk, disturbed>>
  BY DEF ClientSends, proto, past
<1>3. client.next \in Nat /\ ClientOK
  BY DEF Types, PeerOK, ClientOK
<1>4. ClientOK' /\ client'.session = client.session
  BY <1>2, <1>3 DEF ClientOK
<1>5. /\ Batch(client.next, doc) \in Document /\ AsTnccsHasIt(Batch(client.next, doc))
      /\ Batch(client.next, doc).id = client.next
  BY <1>3, BatchType
<1>6. /\ WireOK'
      /\ wire' = wire \cup {[session |-> client.session, doc |-> Batch(client.next, doc), own |-> TRUE]}
  BY <1>1, <1>4, <1>5, SendTypes
<1>7. ServerOK' /\ HistoryOK' /\ back' \in Seq(Document)
  BY <1>2 DEF Types, PeerOK, ServerOK, HistoryOK, Open
<1>8. Types'
  BY <1>4, <1>6, <1>7 DEF Types, PeerOK
<1> QED
  BY <1>2, <1>5, <1>6, <1>8

\* The client sends something else.
LEMMA MisbehavesTypes ==
    ASSUME Types, ClientMisbehaves
    PROVE  /\ Types' /\ client' = client
           /\ \E d : wire' = wire \cup {[session |-> client.session, doc |-> d, own |-> FALSE]}
<1>1. PICK d \in Strange : Send(d, FALSE)
  BY DEF ClientMisbehaves
<1>2. UNCHANGED <<client, back, alive, conState, isFirst, incoming, outgoing, taken, talk, disturbed>>
  BY DEF ClientMisbehaves, proto, past
<1>3. d \in Document
  BY DocumentAssumption
<1>4. WireOK' /\ wire' = wire \cup {[session |-> client.session, doc |-> d, own |-> FALSE]}
  BY <1>1, <1>2, <1>3, SendTypes
<1>5. ServerOK' /\ HistoryOK' /\ back' \in Seq(Document) /\ ClientOK'
  BY <1>2 DEF Types, PeerOK, ClientOK, ServerOK, HistoryOK, Open
<1> QED
  BY <1>2, <1>4, <1>5 DEF Types, PeerOK

\* The client takes an answer.
LEMMA ReceivesTypes ==
    ASSUME Types, ClientReceives
    PROVE  /\ Types' /\ back # <<>> /\ back' = Tail(back)
           /\ Len(back') = Len(back) - 1
<1>1. /\ back # <<>> /\ back' = Tail(back)
      /\ client' = IF Head(back).id = client.next + 1
                   THEN [client EXCEPT !.next = client.next + 2, !.mayTalk = TRUE]
                   ELSE client
      /\ UNCHANGED <<wire, alive, conState, isFirst, incoming, outgoing, taken, talk, disturbed>>
  BY DEF ClientReceives, proto, past
<1>2. back \in Seq(Document) /\ ClientOK /\ client.next \in Nat \ {0}
  BY DEF Types, PeerOK, ClientOK
<1>3. back' \in Seq(Document) /\ Len(back') = Len(back) - 1
  BY <1>1, <1>2
<1>4. ClientOK' /\ client'.session = client.session
  <2>1. CASE client' = client
    BY <1>2, <2>1 DEF ClientOK
  <2>2. CASE client' = [client EXCEPT !.next = client.next + 2, !.mayTalk = TRUE]
    <3>1. client.next + 2 \in Nat \ {0}
      BY <1>2
    <3> QED
      BY <1>2, <2>2, <3>1 DEF ClientOK
  <2> QED
    BY <1>1, <2>1, <2>2
<1>5. WireOK'
  BY <1>1, <1>4 DEF Types, PeerOK, WireOK
<1>6. ServerOK' /\ HistoryOK'
  BY <1>1 DEF Types, ServerOK, HistoryOK, Open
<1> QED
  BY <1>1, <1>3, <1>4, <1>5, <1>6 DEF Types, PeerOK

\* A document after the end of the handshake.
LEMMA RestTypes ==
    ASSUME Types, NEW m \in wire, TooLate(m)
    PROVE  Types' /\ ~Open /\ ~Open' /\ client' = client /\ back' = back
<1>1. /\ wire' = wire \ {m} /\ conState # "HANDSHAKE"
      /\ UNCHANGED <<client, back, alive, conState, isFirst, incoming, outgoing, taken, talk, disturbed>>
  BY DEF TooLate, proto, past
<1>2. PeerOK'
  BY <1>1 DEF Types, PeerOK, ClientOK, WireOK
<1>3. ServerOK' /\ HistoryOK' /\ ~Open /\ ~Open'
  BY <1>1 DEF Types, ServerOK, HistoryOK, Open
<1> QED
  BY <1>1, <1>2, <1>3 DEF Types

\* Nothing happens.
LEMMA StutterTypes ==
    ASSUME Types, UNCHANGED vars
    PROVE  Types'
BY DEF vars, peer, proto, past, Types, PeerOK, ClientOK, WireOK, ServerOK, HistoryOK, Open

\* Every step keeps the types.
LEMMA TypesStep ==
    ASSUME BInv, Types, [Next]_vars
    PROVE  Types'
BY RefuseTypes, HandshakeTypes, ClientSendsTypes, MisbehavesTypes, ReceivesTypes, RestTypes,
   StutterTypes, MessagesAre, RecommendationIs, NoAnswerTypes DEF Next, Process, Stopped

-----------------------------------------------------------------------------
(* Client and server speak by turns.                                       *)

\* A new session has no batches on their way.
LEMMA ByTurnsHandshake ==
    ASSUME Types, Handshake
    PROVE  ByTurns'
<1>1. /\ client' = [session |-> client.session + 1, next |-> 1, mayTalk |-> TRUE]
      /\ back' = <<>> /\ wire' = wire /\ incoming' = [incoming EXCEPT !.id = 0]
  BY DEF Handshake, ResetID
<1>2. client'.session = client.session + 1 /\ client'.next = 1 /\ incoming'.id = 0
  BY <1>1 DEF Types, ServerOK, BatchObject
<1>3. client.session \in Nat /\ \A m \in wire : m.session \in Nat /\ m.session <= client.session
  BY BoundAssumption DEF Types, PeerOK, ClientOK, WireOK
<1>4. Own' = {}
  BY <1>1, <1>2, <1>3 DEF Own
<1> QED
  BY <1>1, <1>2, <1>4 DEF ByTurns, Due

\* The client's batch is the only one on its way.
LEMMA ByTurnsSends ==
    ASSUME Types, ByTurns, ClientSends
    PROVE  ByTurns'
<1>1. PICK d \in Document : d.id = client.next /\
        wire' = wire \cup {[session |-> client.session, doc |-> d, own |-> TRUE]}
  BY ClientSendsTypes
<1>2. client.mayTalk /\ client' = [client EXCEPT !.mayTalk = FALSE]
  BY ClientSendsTypes
<1>3. UNCHANGED <<back, alive, conState, incoming, disturbed>>
  BY DEF ClientSends, proto, past
<1>4. client'.session = client.session /\ client'.next = client.next /\ ~client'.mayTalk
  BY <1>2 DEF Types, PeerOK, ClientOK
<1> DEFINE new == [session |-> client.session, doc |-> d, own |-> TRUE]
<1>5. new.doc = d /\ wire' = wire \cup {new}
  BY <1>1
<1> HIDE DEF new
<1>6. Own' \subseteq Own \cup {new}
  BY <1>4, <1>5 DEF Own
<1> SUFFICES ASSUME Open', ~disturbed'
             PROVE  /\ \A m \in Own' : m.doc.id = client'.next /\ back' = <<>> /\ ~client'.mayTalk
                    /\ \A m, n \in Own' : m = n
                    /\ back' = <<>> => client'.next = Due'
                    /\ back' # <<>> => /\ Len(back') = 1 /\ client'.next = incoming'.id
                                       /\ Head(back').id = client'.next + 1 /\ ~client'.mayTalk
  BY DEF ByTurns
<1>7. Open /\ ~disturbed
  BY <1>3 DEF Open
<1>8. Own = {} /\ back = <<>> /\ client.next = Due
  BY <1>2, <1>7 DEF ByTurns
<1>9. Due' = Due
  BY <1>3 DEF Due
<1> QED
  BY <1>1, <1>3, <1>4, <1>5, <1>6, <1>8, <1>9

\* The answer it waits for makes the next number due.
LEMMA ByTurnsReceives ==
    ASSUME Types, ByTurns, ClientReceives
    PROVE  ByTurns'
<1>1. /\ back # <<>> /\ back' = Tail(back)
      /\ client' = IF Head(back).id = client.next + 1
                   THEN [client EXCEPT !.next = client.next + 2, !.mayTalk = TRUE]
                   ELSE client
      /\ UNCHANGED <<wire, alive, conState, incoming, disturbed>>
  BY DEF ClientReceives, proto, past
<1> SUFFICES ASSUME Open', ~disturbed'
             PROVE  /\ \A m \in Own' : m.doc.id = client'.next /\ back' = <<>> /\ ~client'.mayTalk
                    /\ \A m, n \in Own' : m = n
                    /\ back' = <<>> => client'.next = Due'
                    /\ back' # <<>> => /\ Len(back') = 1 /\ client'.next = incoming'.id
                                       /\ Head(back').id = client'.next + 1 /\ ~client'.mayTalk
  BY DEF ByTurns
<1>2. Open /\ ~disturbed
  BY <1>1 DEF Open
<1>3. /\ Own = {} /\ Len(back) = 1 /\ client.next = incoming.id
      /\ Head(back).id = client.next + 1
  BY <1>1, <1>2 DEF ByTurns
<1>4. client.next \in Nat \ {0} /\ back \in Seq(Document)
  BY DEF Types, PeerOK, ClientOK
<1>5. back' = <<>>
  BY <1>1, <1>3, <1>4
<1>6. client'.next = client.next + 2 /\ client'.session = client.session
  BY <1>1, <1>3 DEF Types, PeerOK, ClientOK
<1>7. Due' = client.next + 2
  BY <1>1, <1>3, <1>4 DEF Due
<1>8. Own' = {}
  BY <1>1, <1>3, <1>6 DEF Own
<1> QED
  BY <1>5, <1>6, <1>7, <1>8

\* Other documents are not its batches.
LEMMA ByTurnsMisbehaves ==
    ASSUME Types, ByTurns, ClientMisbehaves
    PROVE  ByTurns'
<1>1. PICK d : wire' = wire \cup {[session |-> client.session, doc |-> d, own |-> FALSE]}
  BY MisbehavesTypes
<1>2. UNCHANGED <<client, back, alive, conState, incoming, disturbed>>
  BY DEF ClientMisbehaves, proto, past
<1> DEFINE new == [session |-> client.session, doc |-> d, own |-> FALSE]
<1>3. ~new.own /\ wire' = wire \cup {new}
  BY <1>1
<1> HIDE DEF new
<1>4. Own' = Own
  BY <1>2, <1>3 DEF Own
<1> QED
  BY <1>2, <1>4 DEF ByTurns, Open, Due

\* The client's own batch is the one that is due.
LEMMA OwnIsDue ==
    ASSUME BInv, Types, ByTurns, NEW m \in wire, Arrives(m), ~disturbed'
    PROVE  /\ Open /\ ~disturbed /\ m \in Own /\ Own = {m} /\ back = <<>> /\ ~client.mayTalk
           /\ m.doc.id = client.next /\ client.next = Due
           /\ m.doc \in Document /\ AsTnccsHasIt(m.doc)
<1>1. Open /\ ~disturbed /\ Honest(m)
  BY DEF Arrives, Open
<1>2. m \in Own
  BY <1>1 DEF Honest, Own
<1>3. m.doc \in Document /\ AsTnccsHasIt(m.doc)
  BY <1>2 DEF Types, PeerOK, WireOK, Own
<1> QED
  BY <1>1, <1>2, <1>3 DEF ByTurns

\* An answer follows the batch that was due.
LEMMA ByTurnsMessages ==
    ASSUME BInv, Types, ByTurns, NEW m \in wire, AnswerMessages(m)
    PROVE  ByTurns'
<1>1. PICK s \in Sayings : Take(m, Sent(s))
  BY MessagesAre
<1>2. Len(back') = Len(back) + 1 /\ Last(back').id = outgoing.id + 2
  BY MessagesAre
<1>3. /\ wire' = wire \ {m} /\ client' = client /\ incoming'.id = m.doc.id /\ m.doc \in Document
  BY <1>1, TakenType
<1> SUFFICES ASSUME Open', ~disturbed'
             PROVE  /\ \A n \in Own' : n.doc.id = client'.next /\ back' = <<>> /\ ~client'.mayTalk
                    /\ \A n, o \in Own' : n = o
                    /\ back' = <<>> => client'.next = Due'
                    /\ back' # <<>> => /\ Len(back') = 1 /\ client'.next = incoming'.id
                                       /\ Head(back').id = client'.next + 1 /\ ~client'.mayTalk
  BY DEF ByTurns
<1>4. Arrives(m)
  BY <1>1 DEF Take
<1>5. /\ Open /\ Own = {m} /\ back = <<>> /\ ~client.mayTalk
      /\ m.doc.id = client.next /\ client.next = Due
  BY <1>4, OwnIsDue
<1>6. Own' = {}
  BY <1>3, <1>5 DEF Own
<1>7. /\ outgoing.id = (IF incoming.id = 0 THEN 0 ELSE incoming.id + 1)
      /\ incoming.id \in Nat
  BY <1>5 DEF BInv, NumbersCount
<1>8. outgoing.id + 2 = client.next + 1
  BY <1>5, <1>7 DEF Due
<1>9. Len(back') = 1
  BY <1>2, <1>5
<1>10. Head(back') = Last(back') /\ back' # <<>>
  <2>1. Head(back') = back'[1]
    <3>1. Types'
      BY MessagesAre
    <3>2. back' \in Seq(Document)
      BY <3>1 DEF Types, PeerOK
    <3> QED
      BY <1>9, <3>2
  <2>2. Last(back') = back'[1]
    BY <1>9 DEF Last
  <2>3. back' # <<>>
    BY <1>9
  <2> QED
    BY <2>1, <2>2, <2>3
<1> QED
  BY <1>2, <1>3, <1>5, <1>6, <1>8, <1>9, <1>10

\* Every step keeps the turns.
LEMMA ByTurnsStep ==
    ASSUME BInv, Types, ByTurns, [Next]_vars
    PROVE  ByTurns'
<1>1. ASSUME NEW m \in wire, Refuse(m) \/ AnswerRecommendation(m) \/ NoAnswer(m) \/ TooLate(m)
      PROVE  ByTurns'
  <2>1. ~Open'
    BY <1>1, RefuseTypes, RecommendationIs, NoAnswerTypes, RestTypes
  <2> QED
    BY <2>1 DEF ByTurns
<1>2. CASE UNCHANGED vars
  BY <1>2 DEF vars, peer, proto, past, ByTurns, Open, Due, Own
<1> QED
  BY <1>1, <1>2, ByTurnsHandshake, ByTurnsSends, ByTurnsReceives, ByTurnsMisbehaves,
     ByTurnsMessages DEF Next, Process, Stopped

-----------------------------------------------------------------------------
(* What the IMVs hear.                                                     *)

\* A document more to hear from.
LEMMA HeardTaken ==
    ASSUME BInv, Types, Heard, NEW m \in wire, NEW msgs, Take(m, msgs)
    PROVE  Heard'
<1>1. /\ incoming'.imc = m.doc.imc /\ taken' = Append(taken, m.doc)
      /\ Len(taken) \in Nat /\ Len(taken') = Len(taken) + 1 /\ m.doc \in Document
      /\ taken \in Seq(Document)
  BY TakenType DEF Types, HistoryOK
<1>2. heard' = [i \in IMV |-> heard[i] \o Share(i, incoming')]
  BY DEF Take, Deliver
<1>3. \A i \in IMV : Share(i, incoming') = Share(i, m.doc)
  BY <1>1 DEF Share
<1>4. ASSUME NEW i \in IMV
      PROVE  \E g \in [0 .. Len(taken') -> Seq(MessageType)] :
               Hearing(i, g)' /\ heard'[i] = g[Len(taken')]
  <2>1. PICK n \in Nat : n = Len(taken)
    BY <1>1
  <2>2. PICK h \in [0 .. n -> Seq(MessageType)] : Hearing(i, h) /\ heard[i] = h[n]
    BY <2>1 DEF Heard
  <2> DEFINE g == [k \in 0 .. n + 1 |-> IF k = n + 1 THEN h[n] \o Share(i, m.doc) ELSE h[k]]
  <2>3. Share(i, m.doc) \in Seq(MessageType)
    BY <1>1, ShareType DEF Document
  <2>4. g \in [0 .. n + 1 -> Seq(MessageType)]
    BY <2>2, <2>3, <2>1
  <2>5. \A k \in 0 .. n + 1 : g[k] = IF k = n + 1 THEN h[n] \o Share(i, m.doc) ELSE h[k]
    OBVIOUS
  <2> HIDE DEF g
  <2>6. g[0] = <<>>
    BY <2>2, <2>1, <2>5 DEF Hearing
  <2>7. ASSUME NEW k \in 1 .. n + 1
        PROVE  g[k] = g[k - 1] \o Share(i, taken'[k])
    <3>1. CASE k = n + 1
      <4>1. g[k] = h[n] \o Share(i, m.doc) /\ g[k - 1] = h[n]
        BY <2>1, <2>5, <3>1
      <4>2. taken'[k] = m.doc
        BY <1>1, <2>1, <3>1
      <4> QED
        BY <4>1, <4>2
    <3>2. CASE k # n + 1
      <4>1. k \in 1 .. n /\ g[k] = h[k] /\ g[k - 1] = h[k - 1]
        BY <2>1, <2>5, <3>2
      <4>2. taken'[k] = taken[k]
        BY <1>1, <2>1, <4>1
      <4>3. h[k] = h[k - 1] \o Share(i, taken[k])
        BY <2>2, <2>1, <4>1 DEF Hearing
      <4> QED
        BY <4>1, <4>2, <4>3
    <3> QED
      BY <3>1, <3>2
  <2>8. Len(taken') = n + 1
    BY <1>1, <2>1
  <2>9. Hearing(i, g)'
    BY <2>6, <2>7, <2>8 DEF Hearing
  <2>10. heard'[i] = g[n + 1]
    <3>1. heard'[i] = heard[i] \o Share(i, m.doc)
      BY <1>2, <1>3
    <3>2. g[n + 1] = h[n] \o Share(i, m.doc)
      <4>1. n + 1 \in 0 .. n + 1
        BY <2>1
      <4> QED
        BY <4>1, <2>5
    <3> QED
      BY <2>2, <3>1, <3>2
  <2> QED
    BY <2>4, <2>8, <2>9, <2>10
<1>5. heard' = [i \in IMV |-> heard'[i]]
  BY <1>2
<1> QED
  BY <1>4, <1>5 DEF Heard

\* Nothing was heard in a new handshake.
LEMMA HeardHandshake ==
    ASSUME Handshake
    PROVE  Heard'
<1>1. taken' = <<>> /\ heard' = [i \in IMV |-> <<>>]
  BY DEF Handshake
<1>2. Len(taken') = 0
  BY <1>1
<1> DEFINE g == [k \in 0 .. 0 |-> <<>>]
<1>3. g \in [0 .. 0 -> Seq(MessageType)] /\ g[0] = <<>>
  OBVIOUS
<1>4. ASSUME NEW i
      PROVE  Hearing(i, g)'
  BY <1>2 DEF Hearing
<1> HIDE DEF g
<1>5. ASSUME NEW i \in IMV
      PROVE  heard'[i] = g[0]
  BY <1>1, <1>3
<1> QED
  BY <1>1, <1>2, <1>3, <1>4, <1>5 DEF Heard

\* Nothing is heard when no document is taken.
LEMMA HeardSame ==
    ASSUME Heard, heard' = heard, taken' = taken
    PROVE  Heard'
<1>1. \A i, h : Hearing(i, h)' <=> Hearing(i, h)
  BY DEF Hearing
<1> QED
  BY <1>1 DEF Heard

\* Every step keeps what was heard.
LEMMA HeardStep ==
    ASSUME BInv, Types, Heard, [Next]_vars
    PROVE  Heard'
<1>1. ASSUME NEW m \in wire, AnswerMessages(m) \/ AnswerRecommendation(m) \/ NoAnswer(m)
      PROVE  Heard'
  <2>1. \E s \in Sayings : Take(m, Sent(s))
    BY <1>1, MessagesAre, RecommendationIs, NoAnswerTypes
  <2> QED
    BY <2>1, HeardTaken
<1>2. CASE \/ ClientSends \/ ClientReceives \/ ClientMisbehaves \/ Stopped \/ UNCHANGED vars
           \/ \E m \in wire : Refuse(m) \/ TooLate(m)
  <2>1. heard' = heard /\ taken' = taken
    BY <1>2 DEF ClientSends, ClientReceives, ClientMisbehaves, Stopped, Refuse, TooLate, vars, past
  <2> QED
    BY <2>1, HeardSame
<1> QED
  BY <1>1, <1>2, HeardHandshake DEF Next, Process

-----------------------------------------------------------------------------
(* From the invariant to the properties.                                   *)

\* Reported types stand for the types that HasMessageType finds.
LEMMA CoversIsReported ==
    ASSUME NEW i \in IMV, NEW s \in Seq(MessageType), NEW j \in DOMAIN s
    PROVE  s[j] \in {t \in Range(s) : HasMessageType(i, t)}
             <=> s[j] \in UNION {Covers(r, Range(s)) : r \in Reported[i]}
<1> DEFINE all == Range(s)
<1>1. s[j] \in MessageType /\ s[j] \in all
  BY DEF Range
<1>2. PICK x, y : s[j] = <<x, y>>
  BY <1>1, DocumentAssumption
<1>3. Vendor(s[j]) = x /\ Subtype(s[j]) = y
  BY <1>2 DEF Vendor, Subtype
<1>4. x \in {Vendor(t) : t \in all} /\ y \in {Subtype(t) : t \in all}
  BY <1>1, <1>3
<1> HIDE DEF all
<1>5. ASSUME NEW r \in Reported[i]
      PROVE  s[j] \in Covers(r, all) <=>
               Vendor(r) \in {AnyVendor, Vendor(s[j])} /\ Subtype(r) \in {AnySubtype, Subtype(s[j])}
  BY <1>2, <1>3, <1>4 DEF Covers
<1> QED
  BY <1>1, <1>5 DEF HasMessageType, all

\* The pieces in a row are what the property says.
LEMMA HeardMeans ==
    ASSUME Types, Heard
    PROVE  EachImvHearsItsShare
<1> SUFFICES ASSUME NEW i \in IMV
             PROVE  heard[i] = FlattenSeq([k \in DOMAIN taken |->
                      Among(taken[k].imc, UNION {Covers(r, Range(taken[k].imc)) : r \in Reported[i]})])
  BY DEF EachImvHearsItsShare
<1> DEFINE seqs == [k \in DOMAIN taken |->
                      Among(taken[k].imc, UNION {Covers(r, Range(taken[k].imc)) : r \in Reported[i]})]
<1>1. taken \in Seq(Document)
  BY DEF Types, HistoryOK
<1>2. PICK n \in Nat : n = Len(taken) /\ DOMAIN taken = 1 .. n
  BY <1>1
<1>3. PICK h \in [0 .. n -> Seq(MessageType)] : Hearing(i, h) /\ heard[i] = h[n]
  BY <1>2 DEF Heard
<1>4. ASSUME NEW k \in 1 .. n
      PROVE  seqs[k] = Share(i, taken[k]) /\ seqs[k] \in Seq(MessageType)
  <2>1. taken[k].imc \in Seq(MessageType)
    <3>1. taken[k] \in Document
      BY <1>1, <1>2
    <3> QED
      BY <3>1 DEF Document
  <2>2. \A j \in DOMAIN taken[k].imc :
           taken[k].imc[j] \in {t \in Range(taken[k].imc) : HasMessageType(i, t)}
             <=> taken[k].imc[j] \in UNION {Covers(r, Range(taken[k].imc)) : r \in Reported[i]}
    BY <2>1, CoversIsReported
  <2>3. Share(i, taken[k])
          = Among(taken[k].imc, UNION {Covers(r, Range(taken[k].imc)) : r \in Reported[i]})
    BY <2>2, AmongSame DEF Share
  <2>4. Share(i, taken[k]) \in Seq(MessageType)
    BY <2>1, ShareType
  <2> QED
    BY <1>2, <2>3, <2>4
<1>5. seqs \in [1 .. n -> Seq(MessageType)]
  <2>1. seqs = [k \in 1 .. n |-> seqs[k]]
    BY <1>2
  <2> HIDE DEF seqs
  <2> QED
    BY <2>1, <1>4
<1> HIDE DEF seqs
<1>6. Len(seqs) = n
  BY <1>2, <1>5
<1>7. CASE n = 0
  <2>1. FlattenSeq(seqs) = seqs
    BY <1>6, <1>7 DEF FlattenSeq
  <2>2. seqs = <<>>
    <3>1. seqs \in Seq(Seq(MessageType))
      BY <1>5
    <3> QED
      BY <3>1, <1>6, <1>7
  <2>3. heard[i] = <<>>
    BY <1>3, <1>7 DEF Hearing
  <2> QED
    BY <2>1, <2>2, <2>3 DEF seqs
<1>8. CASE n > 0
  <2> DEFINE g == [k \in 1 .. n |-> h[k]]
  <2>1. g \in [1 .. n -> Seq(MessageType)] /\ g[n] = h[n]
    BY <1>3, <1>8
  <2>2. \A k \in 1 .. n : g[k] = h[k]
    OBVIOUS
  <2> HIDE DEF g
  <2>3. ASSUME NEW k \in 1 .. n
        PROVE  g[k] = IF k = 1 THEN seqs[k] ELSE g[k - 1] \o seqs[k]
    <3>1. h[k] = h[k - 1] \o seqs[k]
      BY <1>2, <1>3, <1>4 DEF Hearing
    <3>2. CASE k = 1
      <4>1. h[k - 1] = <<>>
        BY <1>3, <3>2 DEF Hearing
      <4>2. seqs[k] \in Seq(MessageType)
        BY <1>4
      <4>3. h[k] = seqs[k]
        BY <3>1, <4>1, <4>2, ConcatEmptySeq
      <4> QED
        BY <2>2, <3>2, <4>3
    <3>3. CASE k # 1
      <4>1. k - 1 \in 1 .. n
        BY <3>3
      <4> QED
        BY <2>2, <3>1, <3>3, <4>1
    <3> QED
      BY <3>2, <3>3
  <2>4. FlattenSeq(seqs) = g[n]
    <3>1. InARow(seqs, n, g)
      BY <2>3 DEF InARow
    <3> QED
      BY <1>6, <1>8, <2>1, <3>1, FlattenSeqIs
  <2> QED
    BY <1>3, <2>1, <2>4 DEF seqs
<1> QED
  BY <1>7, <1>8

\* Only the two kinds of answer send documents back.
LEMMA FreshStep ==
    ASSUME BInv, Types, [Next]_vars, Len(back') > Len(back)
    PROVE  LET answer == Last(back')
           IN answer.imc = said' /\ (answer.tncc = <<>> <=> said' # <<>>)
<1>1. back \in Seq(Document) /\ Len(back) \in Nat
  BY DEF Types, PeerOK
<1>2. ASSUME NEW m \in wire, AnswerMessages(m) \/ AnswerRecommendation(m)
      PROVE  LET answer == Last(back')
             IN answer.imc = said' /\ (answer.tncc = <<>> <=> said' # <<>>)
  BY <1>2, MessagesAre, RecommendationIs
<1>3. CASE Handshake
  <2>1. back' = <<>>
    BY <1>3 DEF Handshake
  <2> QED
    BY <1>1, <2>1
<1>4. CASE ClientReceives
  BY <1>1, <1>4, ReceivesTypes
<1>5. CASE \/ ClientSends \/ ClientMisbehaves \/ Stopped \/ UNCHANGED vars
           \/ \E m \in wire : Refuse(m) \/ TooLate(m) \/ NoAnswer(m)
  <2>1. back' = back
    BY <1>5 DEF ClientSends, ClientMisbehaves, Stopped, Refuse, TooLate, NoAnswer, vars, peer
  <2> QED
    BY <1>1, <2>1
<1> QED
  BY <1>2, <1>3, <1>4, <1>5 DEF Next, Process

\* The batch that is due is not refused.
LEMMA HonestStep ==
    ASSUME BInv, Types, ByTurns, [Next]_vars, alive, ~disturbed', client' = client
    PROVE  alive' /\ (conState' # conState => taken' # taken)
<1>1. ASSUME NEW m \in wire, Refuse(m)
      PROVE  FALSE
  <2>1. Arrives(m) /\ ~Accepts(incoming, m.doc)
    BY <1>1 DEF Refuse
  <2>2. /\ Open /\ m.doc.id = Due /\ AsTnccsHasIt(m.doc)
    BY <2>1, OwnIsDue
  <2> QED
    BY <2>1, <2>2 DEF Accepts, Numbered, AsTnccsHasIt, Due
<1>2. ASSUME NEW m \in wire, AnswerMessages(m) \/ AnswerRecommendation(m) \/ NoAnswer(m)
      PROVE  alive' /\ (conState' # conState => taken' # taken)
  <2>1. \E s \in Sayings : Take(m, Sent(s))
    BY <1>2, MessagesAre, RecommendationIs, NoAnswerTypes
  <2>2. alive' = alive /\ Len(taken') = Len(taken) + 1 /\ Len(taken) \in Nat
    BY <2>1, TakenType
  <2> QED
    BY <2>2
<1>3. CASE Handshake
  <2>1. client'.session = client.session + 1 /\ client.session \in Nat
    BY <1>3, BoundAssumption DEF Handshake, Types, PeerOK, ClientOK
  <2> QED
    BY <2>1
<1>4. CASE \/ ClientSends \/ ClientReceives \/ ClientMisbehaves \/ Stopped \/ UNCHANGED vars
           \/ \E m \in wire : TooLate(m)
  BY <1>4 DEF ClientSends, ClientReceives, ClientMisbehaves, Stopped, TooLate, vars, proto
<1> QED
  BY <1>1, <1>2, <1>3, <1>4 DEF Next, Process

-----------------------------------------------------------------------------
(* Theorems.                                                               *)

\* The initial states.
LEMMA AtFirst == ASSUME Init PROVE BInv /\ Numbers!CInit
BY DEF Init, New, BInv, BatchesAreRecords, Shape, NumbersCount, Open, Numbers!CInit

\* BInv: batches are records, and their numbers count what was said.
THEOREM Invariance == Spec => []BInv
<1>1. Init => BInv
  BY AtFirst
<1>2. BInv /\ [Next]_vars => BInv'
  BY EveryStep
<1> QED
  BY <1>1, <1>2, PTL DEF Spec

\* Lockstep: the numbers of both batches belong together as long as a
\* handshake goes on, whatever was refused or left over before.
THEOREM NumbersInLockstep == Spec => []Lockstep
<1>1. BInv => Lockstep
  BY DEF BInv, NumbersCount, Open, Lockstep
<1> QED
  BY <1>1, Invariance, PTL

\* ImplementsConversation: client and server speak by turns.
THEOREM Implements == Spec => ImplementsConversation
<1>1. Init => Numbers!CInit
  BY AtFirst
<1>2. BInv /\ [Next]_vars => [Numbers!CNext]_(Numbers!cvars)
  BY EveryStep DEF Turn
<1> QED
  BY <1>1, <1>2, Invariance, PTL DEF Spec, ImplementsConversation, Numbers!CSpec

\* They satisfy the whole invariant.
LEMMA AtFirstAll == ASSUME Init PROVE IInv
<1>1. BInv
  BY AtFirst
<1>2. /\ client = [session |-> 0, next |-> 1, mayTalk |-> FALSE] /\ wire = {} /\ back = <<>>
      /\ alive = TRUE /\ conState = "CREATE" /\ isFirst = TRUE /\ incoming = New /\ outgoing = New
      /\ taken = <<>> /\ heard = [i \in IMV |-> <<>>] /\ talk = <<>> /\ disturbed = FALSE
  BY DEF Init
<1>3. PeerOK
  BY <1>2, BoundAssumption DEF PeerOK, ClientOK, WireOK
<1>4. New \in BatchObject
  BY DEF New, BatchObject
<1>5. ServerOK
  BY <1>2, <1>4 DEF ServerOK, ConState
<1>6. HistoryOK /\ ByTurns
  BY <1>2 DEF HistoryOK, ByTurns, Open
<1>7. Heard
  <2>1. Len(taken) = 0
    BY <1>2
  <2> DEFINE g == [k \in 0 .. 0 |-> <<>>]
  <2>2. g \in [0 .. 0 -> Seq(MessageType)] /\ g[0] = <<>>
    OBVIOUS
  <2>3. ASSUME NEW i
        PROVE  Hearing(i, g)
    BY <2>1 DEF Hearing
  <2> HIDE DEF g
  <2> QED
    BY <1>2, <2>1, <2>2, <2>3 DEF Heard
<1> QED
  BY <1>1, <1>3, <1>5, <1>6, <1>7 DEF IInv, Types

\* IInv: numbers, types, turns and what was heard, together inductive.
THEOREM FullInvariance == Spec => []IInv
<1>1. Init => IInv
  BY AtFirstAll
<1>2. IInv /\ [Next]_vars => IInv'
  BY EveryStep, TypesStep, ByTurnsStep, HeardStep DEF IInv
<1> QED
  BY <1>1, <1>2, PTL DEF Spec

\* TypeOK, with two numbers for each document that was taken.
THEOREM TypeCorrect == Spec => []TypeOK
<1>1. IInv => TypeOK
  BY DEF IInv, Types, PeerOK, ClientOK, ServerOK, HistoryOK, BatchObject, TypeOK, Content
<1> QED
  BY <1>1, FullInvariance, PTL

\* EachImvHearsItsShare: each IMV hears, in order, the messages of its types
\* from all documents that were taken and from no refused one.
THEOREM SharesAreHeard == Spec => []EachImvHearsItsShare
<1>1. IInv => EachImvHearsItsShare
  BY HeardMeans DEF IInv
<1> QED
  BY <1>1, FullInvariance, PTL

\* AnswersAreFresh: an answer has the messages that the IMVs sent about the
\* batch it answers, or the recommendation alone; nothing is left from before.
THEOREM FreshAnswers == Spec => AnswersAreFresh
<1>1. IInv /\ [Next]_vars =>
        [Len(back') > Len(back) =>
         LET answer == Last(back')
         IN answer.imc = said' /\ (answer.tncc = <<>> <=> said' # <<>>)]_vars
  BY FreshStep DEF IInv
<1> QED
  BY <1>1, FullInvariance, PTL DEF Spec, AnswersAreFresh

\* HonestIsNotRefused: a client that keeps to the protocol is refused only if
\* another document than its own came in between.
THEOREM HonestGoesOn == Spec => HonestIsNotRefused
<1>1. IInv /\ [Next]_vars =>
        [alive /\ ~disturbed' /\ client' = client =>
         alive' /\ (conState' # conState => taken' # taken)]_vars
  BY HonestStep DEF IInv
<1> QED
  BY <1>1, FullInvariance, PTL DEF Spec, HonestIsNotRefused

=============================================================================
