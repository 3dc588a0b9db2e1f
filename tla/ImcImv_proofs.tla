---------------------------- MODULE ImcImv_proofs ----------------------------
(***************************************************************************)
(* Proofs about the IMC/IMV pairs, for any endpoints and policies and any  *)
(* number of handshakes and batches: what the variables hold, the promise  *)
(* about access, the agreement of the two libraries on the round, that     *)
(* access is earned in the handshake it is given in, and that a compliant  *)
(* endpoint gets it.                                                       *)
(***************************************************************************)
EXTENDS ImcImv, FiniteSetTheorems, TLAPS

-----------------------------------------------------------------------------
(* The inductive invariants.                                               *)

IsSeq(s) == s \in Seq({s[i] : i \in DOMAIN s})

\* The server is in a handshake, of which it has accepted the first batch.
InHand == \/ turn \in {"deliver", "client", "solicit", "decide"}
          \/ turn = "arrival" /\ pos > 0

\* The functions' states have the fields their classes declare.
ImvShape(st) ==
    CASE pair = "example"     -> DOMAIN st = {"rec"} /\ st.rec \in Rec
      [] pair = "dummy"       -> /\ DOMAIN st = {"rec", "cur", "max"} /\ st.rec \in Rec
                                 /\ st.cur \in Int /\ st.max \in Int
      [] pair = "platid"      -> DOMAIN st = {"sent", "good", "cert", "nonce"}
      [] pair = "attestation" ->
           /\ DOMAIN st = {"first", "good", "cert", "mode", "current", "digest"}
           /\ st.current \in Nat
      [] pair = "clamav"      -> DOMAIN st = {"rec", "entries"} /\ st.rec \in Rec
      [] pair = "hostscanner" -> DOMAIN st = {"rec", "count", "policys"} /\ st.rec \in Rec

\* What is under way belongs to the pair: the virus scanner's function sends
\* reports only, whose versions have the numbers that the comparison knows.
Speech(m) == pair = "clamav" => m.kind = "report" /\ Clamav!Numbers(m.versions)
Said(batch) == IsSeq(batch) /\ \A i \in DOMAIN batch : Speech(batch[i])

\* An instance of the IMV is missing exactly when the IMV is erroneous, and an
\* erroneous one has no recommendation.
HInv == /\ TypeOK
        /\ imc # Absent => /\ imc = [st |-> imc.st, round |-> imc.round]
                           /\ pair = "clamav" => Clamav!Numbers(imc.st.conf)
        /\ imv # Absent => /\ imv = [st |-> imv.st, round |-> imv.round]
                           /\ ImvShape(imv.st)
        /\ error => imv = Absent
        /\ InHand => /\ access = "HANDSHAKE"
                     /\ ~error => imv # Absent
                     /\ error => given = NoRec
        /\ turn = "decide" => given # Nothing

\* Messages are where somebody is going to take them.
MInv == /\ Said(inbox) /\ IsSeq(outbox) /\ IsSeq(heard)
        /\ \A b \in sent : Said(b.batch)
        /\ turn = "arrival" /\ pos = 0 => heard = <<>>
        /\ turn = "arrival" => outbox = <<>>
        /\ turn \in {"solicit", "decide"} => inbox = <<>> /\ outbox = <<>>
        /\ turn = "deliver" /\ outbox # <<>> => heard # <<>>
        /\ InHand /\ (turn = "client" \/ pos > 0) => heard # <<>>

\* Both libraries count the batches of the handshake.
RInv == /\ clean => imc # Absent
        /\ imv # Absent =>
             /\ turn = "deliver" \/ (turn = "arrival" /\ pos > 0) => imv.round = pos
             /\ turn = "client" => imv.round = pos + 1
        /\ clean /\ turn \in {"arrival", "deliver", "client"} => imc.round = pos + 1

-----------------------------------------------------------------------------
(* What the IMV's instance has learnt in the handshake.                    *)

\* The client knows the policy, and the digest is what it is to sign.
Asked(entries) ==
    /\ imv.st.digest = Attestation!Expected(entries, imv.st.digest.nonce)
    /\ imv.st.digest.nonce[1] = shakes
    /\ imv.st.cert \in policy.aiks
    /\ \E c \in HeardOf("cert") : c.cert = imv.st.cert

\* A quote in this handshake has told the register of an entry of the policy.
Told(i) == \E q \in HeardOf("quote") :
             /\ q.key = imv.st.cert /\ q.digest.nonce[1] = shakes
             /\ policy.entries[i].index \in q.digest.mask
             /\ QuoteTells => QuotedValue(q.digest, policy.entries[i].index)
                                = policy.entries[i].value

\* Either nothing was asked of the first certificate, or the quote asked for last
\* is what is to come.
AttestationKnows ==
    /\ imv.st.first /\ imv.st.good => heard = <<>>
    /\ ~imv.st.first /\ imv.st.good =>
         \/ heard # <<>> /\ Unasked
         \/ /\ policy.quoteType = "complete" /\ imv.st.mode = policy.quoteType
            /\ Asked(policy.entries)
         \/ /\ policy.quoteType = "single" /\ imv.st.mode = policy.quoteType
            /\ imv.st.current >= 1
            /\ Asked(<<policy.entries[imv.st.current]>>)
            /\ \A i \in DOMAIN policy.entries : i < imv.st.current => Told(i)

Knows ==
    CASE pair = "example" -> imv.st.rec = "ALLOW" => Earned
      [] pair = "dummy"   ->
           /\ imv.st.rec = "ALLOW" => Earned
           /\ given # Nothing /\ turn \notin {"solicit", "decide"} =>
                given = imv.st.rec /\ imv.st.cur = imv.st.max
      [] pair = "platid"  ->
           imv.st.sent /\ imv.st.good =>
             /\ imv.st.nonce[1] = shakes
             /\ \E c \in HeardOf("cert") : c.cert = imv.st.cert
      [] pair = "attestation" -> AttestationKnows
      [] pair = "clamav"  ->
           /\ imv.st.rec = "ALLOW" => Earned
           /\ imv.st.entries = {e \in policy.entries : Clamav!Supported(e)}
      [] pair = "hostscanner" ->
           /\ imv.st.rec = "ALLOW" => Earned
           /\ imv.st.policys = policy.ports

EInv == /\ InHand /\ ~error => Knows
        /\ InHand /\ given = "ALLOW" => Earned
        /\ AccessIsEarned

-----------------------------------------------------------------------------
(* What a compliant endpoint and the server say to each other: one message *)
(* at a time, of which each is what the other side waits for.  st is the   *)
(* state of the IMV's instance, g what the server has from it.             *)

\* The IMV waits for this message.
Due(st, g, m) ==
    CASE pair = "example"     -> g = Nothing
      [] pair = "dummy"       -> m.action = "allow" /\ g \in {Nothing, "ALLOW"}
      [] pair = "platid"      ->
           /\ g = Nothing
           /\ st.good => IF st.sent THEN /\ m.kind = "sig" /\ m.key = imc.st.cert
                                         /\ m.nonce = st.nonce /\ st.cert = imc.st.cert
                         ELSE m.kind = "cert" /\ m.cert = imc.st.cert
      [] pair = "attestation" ->
           /\ st.good
           /\ IF st.first THEN m.kind = "cert" /\ m.cert = host.aik
              ELSE /\ st.mode = policy.quoteType /\ m.kind = "quote" /\ m.key = st.cert /\ m.digest = st.digest
                   /\ policy.quoteType = "single" => st.current \in DOMAIN policy.entries
                   /\ st.cert = host.aik
      [] pair = "clamav"      -> m.status = "operational" /\ m.versions = host.clamconf
      [] pair = "hostscanner" ->
           \/ st.count = 0
           \/ /\ st.count = 1 /\ m.kind = "report"
              /\ \A p \in policy.ports, q \in m.ports :
                   p.port = q.port => q.status = HostScanner!StatusOf(p, host)

\* The registers the digest is about.
Sought(st) == \/ /\ policy.quoteType = "complete"
                 /\ st.digest = Attestation!Expected(policy.entries, st.digest.nonce)
              \/ /\ policy.quoteType = "single" /\ st.current \in DOMAIN policy.entries
                 /\ st.digest = Attestation!Expected(<<policy.entries[st.current]>>,
                                                     st.digest.nonce)

\* The IMV asks for something that the IMC has.
Asking(st, g, r) ==
    CASE pair = "example"     -> g = Nothing
      [] pair = "dummy"       -> st.rec = "ALLOW" /\ g \in {Nothing, "ALLOW"}
      [] pair = "platid"      -> /\ g = Nothing /\ st.good /\ st.sent
                                 /\ st.cert = imc.st.cert /\ r.nonce = st.nonce
      [] pair = "attestation" -> /\ st.good /\ ~st.first /\ st.cert = host.aik
                                 /\ st.mode = policy.quoteType
                                 /\ r.mask = st.digest.mask /\ r.nonce = st.digest.nonce
                                 /\ Sought(st)
      [] pair = "clamav"      -> FALSE
      [] pair = "hostscanner" -> r.ports = HostScanner!Named(policy.ports)

\* The IMV has made up its mind.
Settled(st, g) ==
    CASE pair = "example" -> g = Nothing /\ st.rec = "ALLOW"
      [] pair = "dummy"   -> st.rec = "ALLOW" /\ g \in {Nothing, "ALLOW"}
      [] pair = "platid"  -> g = IF st.good THEN "ALLOW" ELSE Nothing
      [] OTHER            -> g = "ALLOW"

Verdict(st) == IF pair = "platid" /\ ~st.good THEN "NO_ACCESS" ELSE "ALLOW"

\* The host scanner's IMV counts the batches.
Counts(st, n) == pair = "hostscanner" => st.count = n

Talk == \/ /\ turn \in {"arrival", "deliver", "client"} /\ Len(inbox) = 1 /\ outbox = <<>>
           /\ Due(imv.st, given, inbox[1])
        \/ /\ turn = "deliver" /\ inbox = <<>> /\ Len(outbox) = 1
           /\ Asking(imv.st, given, outbox[1]) /\ Counts(imv.st, 0)
        \/ /\ turn = "client" /\ inbox = <<>> /\ Len(outbox) = 1
           /\ Asking(imv.st, given, outbox[1]) /\ Counts(imv.st, 1)
        \/ /\ turn \in {"deliver", "solicit"} /\ inbox = <<>> /\ outbox = <<>>
           /\ Settled(imv.st, given)
        \/ turn = "decide" /\ given = Verdict(imv.st)

\* What the IMC remembers of this endpoint.
Remembers(st) ==
    /\ pair = "dummy" /\ host = "allow" => st.action = "allow"
    /\ pair = "attestation" /\ Attestation!Loads(host) /\ host.tpm =>
         st.sent /\ st.aik = host.aik

\* The endpoint can speak at all, and what it says first.
Able == CASE pair = "platid"      -> imc.st.ready
          [] pair = "attestation" -> Attestation!Loads(host) /\ host.tpm
          [] pair = "clamav"      -> host.clamconf # <<>> /\ ~(host.wide /\ host.ending = "cld")
          [] OTHER                -> TRUE

Opens(m) ==
    CASE pair = "dummy"       -> host = "allow" => m.action = "allow"
      [] pair = "platid"      -> m.kind = "cert" /\ m.cert = imc.st.cert
      [] pair = "attestation" -> m.kind = "cert" /\ m.cert = host.aik
      [] pair = "clamav"      ->
           host.clamd = "PONG" => m.status = "operational" /\ m.versions = host.clamconf
      [] OTHER                -> TRUE

Opening == imv # Absent /\ (Able => Len(inbox) = 1 /\ outbox = <<>> /\ Opens(inbox[1]))

CInv == clean => /\ Remembers(imc.st)
                 /\ turn = "arrival" /\ pos = 0 => Opening
                 /\ InHand /\ Compliant => ~error /\ Talk
                 /\ CompliantIsAllowed

IInv == HInv /\ MInv /\ RInv /\ EInv /\ CInv

-----------------------------------------------------------------------------
(* Sequences.                                                              *)

LEMMA SeqOf == ASSUME NEW S, NEW s \in Seq(S) PROVE IsSeq(s)
<1>1. s = [i \in 1 .. Len(s) |-> s[i]] /\ Len(s) \in Nat /\ DOMAIN s = 1 .. Len(s)
  OBVIOUS
<1>2. \A i \in 1 .. Len(s) : s[i] \in {s[j] : j \in DOMAIN s}
  BY <1>1
<1>. QED  BY <1>1, <1>2 DEF IsSeq

LEMMA Short == /\ IsSeq(<<>>) /\ Len(<<>>) = 0
               /\ \A x : IsSeq(<<x>>) /\ Len(<<x>>) = 1 /\ <<x>>[1] = x
                         /\ DOMAIN <<x>> = {1}
<1>1. <<>> \in Seq({}) /\ Len(<<>>) = 0
  OBVIOUS
<1>2. ASSUME NEW x
      PROVE  <<x>> \in Seq({x}) /\ Len(<<x>>) = 1 /\ <<x>>[1] = x /\ DOMAIN <<x>> = {1}
  OBVIOUS
<1>. QED  BY <1>1, <1>2, SeqOf

LEMMA SeqParts == ASSUME NEW s, IsSeq(s)
                  PROVE  /\ Len(s) \in Nat /\ DOMAIN s = 1 .. Len(s)
                         /\ Len(s) = 0 <=> s = <<>>
  BY DEF IsSeq

LEMMA SeqTail ==
    ASSUME NEW s, IsSeq(s), s # <<>>
    PROVE  /\ IsSeq(Tail(s)) /\ Len(Tail(s)) = Len(s) - 1
           /\ \A i \in DOMAIN Tail(s) : i + 1 \in DOMAIN s /\ Tail(s)[i] = s[i + 1]
           /\ 1 \in DOMAIN s /\ Head(s) = s[1]
<1>. DEFINE S == {s[i] : i \in DOMAIN s}
<1>1. s \in Seq(S)
  BY DEF IsSeq
<1>. HIDE DEF S
<1>2. /\ Tail(s) \in Seq(S) /\ Len(Tail(s)) = Len(s) - 1 /\ Len(s) \in Nat
      /\ \A i \in 1 .. Len(s) - 1 : Tail(s)[i] = s[i + 1]
      /\ Len(s) # 0 /\ DOMAIN s = 1 .. Len(s) /\ DOMAIN Tail(s) = 1 .. Len(s) - 1
      /\ Head(s) = s[1]
  BY <1>1
<1>3. IsSeq(Tail(s))
  BY <1>2, SeqOf
<1>. QED  BY <1>2, <1>3

LEMMA SeqAppend ==
    ASSUME NEW s, IsSeq(s), NEW x
    PROVE  /\ IsSeq(Append(s, x)) /\ Len(Append(s, x)) = Len(s) + 1
           /\ Append(s, x)[Len(s) + 1] = x
           /\ \A i \in DOMAIN s : Append(s, x)[i] = s[i]
           /\ DOMAIN Append(s, x) = DOMAIN s \cup {Len(s) + 1}
           /\ \A i \in DOMAIN s : i < Len(s) + 1
<1>. DEFINE S == {s[i] : i \in DOMAIN s} \cup {x}
<1>1. s \in Seq(S)
  BY DEF IsSeq
<1>. HIDE DEF S
<1>2. x \in S
  BY DEF S
<1>3. /\ Append(s, x) \in Seq(S) /\ Len(Append(s, x)) = Len(s) + 1 /\ Len(s) \in Nat
      /\ \A i \in 1 .. Len(s) : Append(s, x)[i] = s[i]
      /\ Append(s, x)[Len(s) + 1] = x /\ DOMAIN s = 1 .. Len(s)
      /\ DOMAIN Append(s, x) = 1 .. (Len(s) + 1)
  BY <1>1, <1>2
<1>4. IsSeq(Append(s, x))
  BY <1>3, SeqOf
<1>. QED  BY <1>3, <1>4

LEMMA SeqConcat ==
    ASSUME NEW s, IsSeq(s), NEW t, IsSeq(t)
    PROVE  /\ IsSeq(s \o t) /\ Len(s \o t) = Len(s) + Len(t)
           /\ \A i \in DOMAIN (s \o t) :
                \/ i \in DOMAIN s /\ (s \o t)[i] = s[i]
                \/ i - Len(s) \in DOMAIN t /\ (s \o t)[i] = t[i - Len(s)]
<1>. DEFINE S == {s[i] : i \in DOMAIN s} \cup {t[i] : i \in DOMAIN t}
<1>1. s \in Seq(S) /\ t \in Seq(S)
  BY DEF IsSeq
<1>. HIDE DEF S
<1>2. /\ s \o t \in Seq(S) /\ Len(s \o t) = Len(s) + Len(t)
      /\ Len(s) \in Nat /\ Len(t) \in Nat
      /\ DOMAIN (s \o t) = 1 .. Len(s) + Len(t)
      /\ DOMAIN s = 1 .. Len(s) /\ DOMAIN t = 1 .. Len(t)
      /\ \A i \in 1 .. Len(s) + Len(t) :
           (s \o t)[i] = IF i <= Len(s) THEN s[i] ELSE t[i - Len(s)]
  BY <1>1
<1>3. IsSeq(s \o t)
  BY <1>2, SeqOf
<1>. QED  BY <1>2, <1>3

-----------------------------------------------------------------------------
(* The handlers' answers.                                                  *)

LEMMA Instances == /\ \A st, r : [st |-> st, round |-> r] # Absent
                   /\ \A st, r : [st |-> st, round |-> r].st = st
                   /\ \A st, r : [st |-> st, round |-> r].round = r
<1>1. ASSUME NEW st, NEW r PROVE [st |-> st, round |-> r] # Absent
  <2>1. DOMAIN [st |-> st, round |-> r] = {"st", "round"} /\ DOMAIN Absent = {"kind"}
    BY DEF Absent
  <2>. QED  BY <2>1
<1>. QED  BY <1>1

\* A message is of the pair's kind.
LEMMA Messages == Said(<<>>) /\ \A x : Speech(x) => Said(<<x>>)
  BY Short DEF Said

LEMMA ImcAnswers ==
    ASSUME TypeOK, NEW st, NEW h \in Hosts[pair], NEW m,
           pair = "clamav" => Clamav!Numbers(st.conf),
           NEW a \in ImcBegin(st, h) \cup ImcReceive(st, m)
    PROVE  Said(a.out) /\ (pair = "clamav" => Clamav!Numbers(a.st.conf))
<1>. pair \in Pairs
  BY ImcImvAssumption DEF TypeOK
<1>. USE Messages DEF ImcBegin, ImcReceive, Answer, Failure, Speech
<1>1. CASE pair = "example"
  BY <1>1 DEF Example!ImcBegin, Example!ImcReceive, Example!Answer
<1>2. CASE pair = "dummy"
  BY <1>2 DEF Dummy!ImcBegin, Dummy!ImcReceive, Dummy!Answer, Dummy!Say
<1>3. CASE pair = "platid"
  BY <1>3 DEF Platid!ImcBegin, Platid!ImcReceive, Platid!Answer, Platid!Failure
<1>4. CASE pair = "attestation"
  BY <1>4 DEF Attestation!ImcBegin, Attestation!ImcReceive, Attestation!Answer,
              Attestation!Failure
<1>5. CASE pair = "clamav"
  <2>1. PICK k \in Hosts[pair] : a \in Clamav!ImcMeasure(st, k)
    BY <1>5 DEF TypeOK
  <2>. DEFINE s == Clamav!Measured(st, k)
              r == [kind |-> "report", status |-> s.status, versions |-> s.conf]
  <2>2. Clamav!Numbers(k.clamconf)
    BY <1>5, ImcImvAssumption DEF TypeOK
  <2>3. Clamav!Numbers(s.conf)
    BY <1>5, <2>2 DEF Clamav!Measured
  <2>4. Speech(r)
    BY <2>3
  <2>5. a = Clamav!Answer(s, <<r>>) \/ a = Clamav!Failure(s, "FATAL")
    BY <2>1 DEF Clamav!ImcMeasure
  <2>. HIDE DEF s, r
  <2>. QED  BY <2>3, <2>4, <2>5 DEF Clamav!Answer, Clamav!Failure
<1>6. CASE pair = "hostscanner"
  BY <1>6 DEF HostScanner!ImcBegin, HostScanner!ImcReceive, HostScanner!Answer
<1>. QED  BY <1>1, <1>2, <1>3, <1>4, <1>5, <1>6 DEF Pairs

LEMMA AnswerFields ==
    /\ \A st, out : LET a == Answer(st, out) IN
         /\ a.st = st /\ a.out = out /\ a.give = Nothing /\ a.broken = FALSE
         /\ a.res = "SUCCESS"
    /\ \A st, rec : LET a == Voice(st, rec) IN
         /\ a.st = st /\ a.out = <<>> /\ a.give = rec /\ a.broken = FALSE
         /\ a.res = "SUCCESS"
    /\ \A st, res : LET a == Failure(st, res) IN
         /\ a.st = st /\ a.out = <<>> /\ a.give = Nothing /\ a.broken = FALSE
         /\ a.res = res
    /\ \A st : LET a == Broken(st) IN
         /\ a.st = st /\ a.out = <<>> /\ a.give = Nothing /\ a.broken = TRUE
         /\ a.res = "SUCCESS"
  BY DEF Answer, Voice, Failure, Broken
LEMMA PlatidAnswers ==
    \A st, x : /\ Platid!Answer(st, x) = Answer(st, x) /\ Platid!Voice(st, x) = Voice(st, x)
               /\ Platid!Failure(st, x) = Failure(st, x) /\ Platid!Broken(st) = Broken(st)
  BY DEF Answer, Voice, Failure, Broken, Nothing, Platid!Answer, Platid!Voice, Platid!Failure,
         Platid!Broken, Platid!Nothing
LEMMA AttestationAnswers ==
    \A st, x : /\ Attestation!Answer(st, x) = Answer(st, x)
               /\ Attestation!Voice(st, x) = Voice(st, x)
               /\ Attestation!Failure(st, x) = Failure(st, x)
               /\ Attestation!Broken(st) = Broken(st)
  BY DEF Answer, Voice, Failure, Broken, Nothing, Attestation!Answer, Attestation!Voice,
         Attestation!Failure, Attestation!Broken, Attestation!Nothing
LEMMA ClamavAnswers ==
    \A st, x : /\ Clamav!Answer(st, x) = Answer(st, x)
               /\ Clamav!Voice(st, x) = Voice(st, x)
               /\ Clamav!Failure(st, x) = Failure(st, x)
  BY DEF Answer, Voice, Failure, Nothing, Clamav!Answer, Clamav!Voice, Clamav!Failure, Clamav!Nothing
LEMMA HostScannerAnswers ==
    \A st, x : /\ HostScanner!Answer(st, x) = Answer(st, x)
               /\ HostScanner!Voice(st, x) = Voice(st, x)
               /\ HostScanner!Failure(st, x) = Failure(st, x)
  BY DEF Answer, Voice, Failure, Nothing, HostScanner!Answer, HostScanner!Voice,
         HostScanner!Failure, HostScanner!Nothing
LEMMA ExampleAnswers ==
    \A st, x : Example!Answer(st, x) = Answer(st, x)
  BY DEF Answer, Nothing, Example!Answer, Example!Nothing
LEMMA DummyAnswers ==
    \A st, x : Dummy!Answer(st, x) = Answer(st, x)
  BY DEF Answer, Nothing, Dummy!Answer, Dummy!Nothing

Brief(out) == IsSeq(out) /\ Len(out) <= 1
LEMMA EmptyIsBrief == Brief(<<>>)
  BY Short DEF Brief
LEMMA OneIsBrief == ASSUME NEW x PROVE Brief(<<x>>)
<1>1. IsSeq(<<x>>) /\ Len(<<x>>) = 1
  BY Short
<1>. QED  BY <1>1 DEF Brief

\* What the attestation IMV makes of a message: it refuses, asks nothing of the
\* first one, stays as it is, begins to ask, goes on asking, or is content.
Refuses(a) == ~a.st.good /\ a.give # "ALLOW"
Known(m, pol) == m.kind = "cert" /\ m.cert \in pol.aiks /\ pol.quoteType \in {"complete", "single"}
Declines(st, pol, m, a) ==
    /\ st.first /\ ~a.st.first /\ a.give # "ALLOW" /\ ~Known(m, pol)
    /\ a.st.good => st.good
Stays(st, a) == ~st.first /\ a.st = st /\ a.give # "ALLOW"
Asks(a, entries, nonce) ==
    /\ a.st.good /\ ~a.st.first /\ a.give = Nothing
    /\ a.st.digest = Attestation!Expected(entries, nonce)
BeginsToAsk(st, pol, m, nonce, a) ==
    /\ st.first
    /\ m.kind = "cert" /\ a.st.cert = m.cert /\ m.cert \in pol.aiks
    /\ a.st.mode = pol.quoteType
    /\ \/ pol.quoteType = "complete" /\ Asks(a, pol.entries, nonce)
       \/ /\ pol.quoteType = "single" /\ Asks(a, <<pol.entries[1]>>, nonce)
          /\ a.st.current = 1
Content(st, m) == st.good /\ ~st.first /\ Attestation!GoodQuote(st, m)
GoesOnAsking(st, pol, m, nonce, a) ==
    /\ Content(st, m) /\ st.mode \notin {"complete", Nothing}
    /\ a.st.current <= Len(pol.entries)
    /\ st.current # 0 => a.st.current = st.current + 1
    /\ Asks(a, <<pol.entries[a.st.current]>>, nonce)
    /\ a.st.cert = st.cert /\ a.st.mode = st.mode
Allows(st, pol, m, a) ==
    /\ Content(st, m) /\ a.st = st /\ a.give = "ALLOW"
    /\ \/ st.mode \in {"complete", Nothing} \/ st.current = 0
       \/ ~(st.current + 1 <= Len(pol.entries))
AttestationStep(st, pol, m, nonce, a) ==
    \/ Refuses(a) \/ Declines(st, pol, m, a) \/ Stays(st, a)
    \/ BeginsToAsk(st, pol, m, nonce, a)
    \/ GoesOnAsking(st, pol, m, nonce, a) \/ Allows(st, pol, m, a)

AttestationResult(st, pol, m, nonce, a) ==
    /\ DOMAIN a.st = DOMAIN st /\ a.st.current \in Nat /\ Brief(a.out)
    /\ a.give \in Rec \cup {Nothing} /\ a.broken \in BOOLEAN
    /\ AttestationStep(st, pol, m, nonce, a)

ImvFields == {"first", "good", "cert", "mode", "current", "digest"}

AskResult(s, asked, nonce, a) ==
    /\ a.give = Nothing /\ a.broken \in BOOLEAN /\ Brief(a.out)
    /\ DOMAIN a.st = ImvFields /\ a.st.first = s.first /\ a.st.cert = s.cert
    /\ a.st.current = s.current /\ a.st.mode = s.mode
    /\ \/ a.st.good = FALSE
       \/ a.st.good = s.good /\ a.st.digest = Attestation!Expected(asked, nonce)

LEMMA WhatAskDoes ==
    ASSUME NEW s, DOMAIN s = ImvFields, NEW asked, NEW nonce,
           NEW a \in Attestation!Ask(s, asked, nonce)
    PROVE  AskResult(s, asked, nonce, a)
<1>. DEFINE d == Attestation!Expected(asked, nonce)
            q == Attestation!Request(d.mask, nonce)
<1>1. \/ a = Answer([s EXCEPT !.digest = d], <<q>>)
      \/ a = Broken([s EXCEPT !.good = FALSE])
  BY AttestationAnswers DEF Attestation!Ask
<1>. HIDE DEF d, q
<1>2. CASE a = Answer([s EXCEPT !.digest = d], <<q>>)
  <2>1. a.st = [s EXCEPT !.digest = d] /\ a.out = <<q>> /\ a.give = Nothing /\ a.broken = FALSE
    BY <1>2, AnswerFields
  <2>2. Brief(a.out)
    BY <2>1, OneIsBrief
  <2>. QED  BY <2>1, <2>2 DEF AskResult, d, ImvFields
<1>3. CASE a = Broken([s EXCEPT !.good = FALSE])
  <2>1. a.st = [s EXCEPT !.good = FALSE] /\ a.out = <<>> /\ a.give = Nothing /\ a.broken = TRUE
    BY <1>3, AnswerFields
  <2>. QED  BY <2>1, EmptyIsBrief DEF AskResult, ImvFields
<1>. QED  BY <1>1, <1>2, <1>3

LEMMA WhatFirstMessageDoes ==
    ASSUME NEW st, NEW pol, NEW m, NEW nonce,
           DOMAIN st = ImvFields, st.current \in Nat,
           st.good, st.first,
           NEW a \in Attestation!FirstMessage(st, pol, m, nonce)
    PROVE  AttestationResult(st, pol, m, nonce, a)
<1>. DEFINE s == [st EXCEPT !.first = FALSE, !.cert = m.cert]
            t == [s EXCEPT !.mode = pol.quoteType]
            t1 == [t EXCEPT !.current = 1]
<1>1. /\ DOMAIN s = DOMAIN st /\ s.first = FALSE /\ s.cert = m.cert /\ s.good = st.good
      /\ s.current = st.current
  BY DEF ImvFields
<1>t. /\ DOMAIN t = DOMAIN st /\ t.first = FALSE /\ t.cert = m.cert /\ t.good = st.good
      /\ t.current = st.current /\ t.mode = pol.quoteType
  BY <1>1 DEF ImvFields
<1>2. /\ DOMAIN t1 = DOMAIN st /\ t1.first = FALSE /\ t1.cert = m.cert /\ t1.good = st.good
      /\ t1.current = 1 /\ t1.mode = pol.quoteType
  BY <1>t DEF ImvFields
<1>3. CASE ~Attestation!Readable(m)
  <2>1. a = Failure([st EXCEPT !.first = FALSE, !.good = FALSE], "FATAL")
    BY <1>3, AttestationAnswers DEF Attestation!FirstMessage
  <2>2. a.st = [st EXCEPT !.first = FALSE, !.good = FALSE] /\ a.out = <<>> /\ a.give = Nothing
        /\ a.broken = FALSE
    BY <2>1, AnswerFields
  <2>3. DOMAIN a.st = DOMAIN st /\ a.st.current = st.current /\ a.st.good = FALSE
    BY <2>2
  <2>4. Refuses(a)
    BY <2>2, <2>3 DEF Refuses, Nothing
  <2>. QED  BY <2>2, <2>3, <2>4, EmptyIsBrief DEF AttestationResult, AttestationStep
<1>4. CASE Attestation!Readable(m) /\ ~Attestation!CheckClientKnown(s, pol)
  <2>1. a = Voice(s, "NO_ACCESS")
    BY <1>4, AttestationAnswers DEF Attestation!FirstMessage
  <2>0. m.cert \notin pol.aiks
    BY <1>1, <1>4 DEF Attestation!CheckClientKnown
  <2>. HIDE DEF s
  <2>2. a.st = s /\ a.out = <<>> /\ a.give = "NO_ACCESS" /\ a.broken = FALSE
    BY <2>1, AnswerFields
  <2>3. Declines(st, pol, m, a)
    BY <1>1, <2>0, <2>2 DEF Declines, Known
  <2>. QED  BY <1>1, <2>2, <2>3, EmptyIsBrief DEF AttestationResult, AttestationStep, Rec
<1>5. CASE Attestation!Readable(m) /\ Attestation!CheckClientKnown(s, pol)
  <2>1. m.kind = "cert" /\ m.cert \in pol.aiks
    BY <1>1, <1>5 DEF Attestation!Readable, Attestation!CheckClientKnown
  <2>2. \/ pol.quoteType = "complete" /\ a \in Attestation!Ask(t, pol.entries, nonce)
        \/ pol.quoteType = "single" /\ a \in Attestation!Ask(t1, <<pol.entries[1]>>, nonce)
        \/ pol.quoteType \notin {"complete", "single"} /\ a = Answer(t, <<>>)
    BY <1>5, AttestationAnswers DEF Attestation!FirstMessage
  <2>. HIDE DEF s, t, t1
  <2>3. CASE pol.quoteType = "complete" /\ a \in Attestation!Ask(t, pol.entries, nonce)
    <3>1. AskResult(t, pol.entries, nonce, a)
      BY <1>t, <2>3, WhatAskDoes
    <3>2. /\ DOMAIN a.st = DOMAIN st /\ a.st.current = st.current /\ a.st.mode = pol.quoteType
          /\ a.st.cert = m.cert /\ a.st.first = FALSE
          /\ \/ a.st.good = FALSE
             \/ /\ a.st.good = st.good
                /\ a.st.digest = Attestation!Expected(pol.entries, nonce)
      BY <1>t, <3>1 DEF AskResult
    <3>3. Refuses(a) \/ BeginsToAsk(st, pol, m, nonce, a)
      BY <2>1, <2>3, <3>1, <3>2 DEF AskResult, Refuses, BeginsToAsk, Asks, Nothing
    <3>. QED  BY <3>1, <3>2, <3>3 DEF AttestationResult, AskResult, AttestationStep
  <2>4. CASE pol.quoteType = "single" /\ a \in Attestation!Ask(t1, <<pol.entries[1]>>, nonce)
    <3>1. AskResult(t1, <<pol.entries[1]>>, nonce, a)
      BY <1>2, <2>4, WhatAskDoes
    <3>2. /\ DOMAIN a.st = DOMAIN st /\ a.st.current = 1 /\ a.st.mode = pol.quoteType
          /\ a.st.cert = m.cert /\ a.st.first = FALSE
          /\ \/ a.st.good = FALSE
             \/ /\ a.st.good = st.good
                /\ a.st.digest = Attestation!Expected(<<pol.entries[1]>>, nonce)
      BY <1>2, <3>1 DEF AskResult
    <3>3. Refuses(a) \/ BeginsToAsk(st, pol, m, nonce, a)
      BY <2>1, <2>4, <3>1, <3>2 DEF AskResult, Refuses, BeginsToAsk, Asks, Nothing
    <3>. QED  BY <3>1, <3>2, <3>3 DEF AttestationResult, AskResult, AttestationStep
  <2>5. CASE pol.quoteType \notin {"complete", "single"} /\ a = Answer(t, <<>>)
    <3>1. a.st = t /\ a.out = <<>> /\ a.give = Nothing /\ a.broken = FALSE
      BY <2>5, AnswerFields
    <3>2. Declines(st, pol, m, a)
      BY <1>t, <2>5, <3>1 DEF Declines, Known, Nothing
    <3>. QED  BY <1>t, <3>1, <3>2, EmptyIsBrief DEF AttestationResult, AttestationStep
  <2>. QED  BY <2>2, <2>3, <2>4, <2>5
<1>. QED  BY <1>3, <1>4, <1>5

LEMMA WhatNextQuoteDoes ==
    ASSUME NEW st, NEW pol, NEW m, NEW nonce, Len(pol.entries) \in Nat,
           DOMAIN st = ImvFields, st.current \in Nat,
           st.good, ~st.first, st.mode # "complete",
           NEW a \in Attestation!NextQuote(st, pol, m, nonce)
    PROVE  AttestationResult(st, pol, m, nonce, a)
<1>1. CASE ~Attestation!GoodQuote(st, m)
  <2>1. a = Voice([st EXCEPT !.good = FALSE], "NO_ACCESS")
    BY <1>1, AttestationAnswers DEF Attestation!NextQuote
  <2>2. /\ a.st = [st EXCEPT !.good = FALSE]
        /\ a.out = <<>> /\ a.give = "NO_ACCESS" /\ a.broken = FALSE
    BY <2>1, AnswerFields
  <2>3. DOMAIN a.st = DOMAIN st /\ a.st.current = st.current /\ a.st.good = FALSE
    BY <2>2 DEF ImvFields
  <2>4. Refuses(a)
    BY <2>2, <2>3 DEF Refuses
  <2>. QED  BY <2>2, <2>3, <2>4, EmptyIsBrief DEF AttestationResult, AttestationStep, Rec
<1>2. CASE Attestation!GoodQuote(st, m)
  <2>. DEFINE k == Len(Attestation!AskedFor(st, pol))
  <2>0. /\ k \in Nat /\ (st.mode = Nothing => k = 0)
        /\ (st.mode # Nothing => k = Len(pol.entries))
    BY Short DEF Attestation!AskedFor, Attestation!Nothing, Nothing
  <2>1. PICK n \in Attestation!NextEntries(st, pol) :
          a \in IF n <= k
                THEN Attestation!Ask([st EXCEPT !.current = n], <<pol.entries[n]>>, nonce)
                ELSE {Voice(st, "ALLOW")}
    BY <1>2, AttestationAnswers DEF Attestation!NextQuote
  <2>2. n \in Nat /\ n >= 1 /\ (st.current # 0 => n = st.current + 1)
    BY <2>0 DEF Attestation!NextEntries
  <2>. HIDE DEF k
  <2>3. CASE ~(n <= k)
    <3>1. a.st = st /\ a.out = <<>> /\ a.give = "ALLOW" /\ a.broken = FALSE
      BY <2>1, <2>3, AnswerFields
    <3>2. Allows(st, pol, m, a)
      BY <1>2, <2>0, <2>2, <2>3, <3>1 DEF Allows, Content
    <3>. QED  BY <3>1, <3>2, EmptyIsBrief DEF AttestationResult, AttestationStep, Rec
  <2>4. CASE n <= k
    <3>. DEFINE s == [st EXCEPT !.current = n]
                one == <<pol.entries[n]>>
    <3>0. st.mode # Nothing /\ n <= Len(pol.entries)
      BY <2>0, <2>2, <2>4
    <3>1. /\ DOMAIN s = ImvFields /\ s.first = st.first /\ s.cert = st.cert /\ s.good = st.good
          /\ s.current = n /\ s.mode = st.mode
      BY DEF ImvFields
    <3>2. a \in Attestation!Ask(s, one, nonce)
      BY <2>1, <2>4
    <3>. HIDE DEF s, one
    <3>3. AskResult(s, one, nonce, a)
      BY <3>1, <3>2, WhatAskDoes
    <3>4. /\ DOMAIN a.st = DOMAIN st /\ a.st.current = n /\ a.st.mode = st.mode
          /\ a.st.cert = st.cert /\ a.st.first = st.first
          /\ \/ a.st.good = FALSE
             \/ a.st.good = st.good /\ a.st.digest = Attestation!Expected(one, nonce)
      BY <3>1, <3>3 DEF AskResult
    <3>5. Refuses(a) \/ GoesOnAsking(st, pol, m, nonce, a)
      BY <1>2, <2>2, <3>0, <3>3, <3>4
      DEF AskResult, one, Refuses, GoesOnAsking, Content, Asks, Nothing
    <3>6. a.st.current \in Nat /\ a.give \in Rec \cup {Nothing}
      BY <2>2, <3>3, <3>4 DEF AskResult
    <3>7. AttestationStep(st, pol, m, nonce, a)
      BY <3>5 DEF AttestationStep
    <3>. QED  BY <3>3, <3>4, <3>6, <3>7 DEF AttestationResult, AskResult
  <2>. QED  BY <2>3, <2>4
<1>. QED  BY <1>1, <1>2

LEMMA WhatAttestationDoes ==
    ASSUME NEW st, NEW pol, NEW m, NEW nonce, Len(pol.entries) \in Nat,
           DOMAIN st = ImvFields, st.current \in Nat,
           NEW a \in Attestation!ImvReceive(st, pol, m, nonce)
    PROVE  AttestationResult(st, pol, m, nonce, a)
<1>1. CASE ~st.good
  <2>1. a = Answer(st, <<>>)
    BY <1>1, AttestationAnswers DEF Attestation!ImvReceive
  <2>2. a.st = st /\ a.out = <<>> /\ a.give = Nothing /\ a.broken = FALSE
    BY <2>1, AnswerFields
  <2>3. Refuses(a)
    BY <1>1, <2>2 DEF Refuses, Nothing
  <2>. QED  BY <2>2, <2>3, EmptyIsBrief DEF AttestationResult, AttestationStep
<1>2. CASE st.good /\ st.first
  BY <1>2, WhatFirstMessageDoes DEF Attestation!ImvReceive
<1>3. CASE st.good /\ ~st.first /\ st.mode # "complete"
                   /\ a \in Attestation!NextQuote(st, pol, m, nonce)
  BY <1>3, WhatNextQuoteDoes
<1>4. CASE /\ st.good /\ ~st.first /\ st.mode \in {"complete", Nothing}
           /\ a = Attestation!CompleteQuote(st, m)
  <2>1. \/ Attestation!GoodQuote(st, m) /\ a = Voice(st, "ALLOW")
        \/ a = Voice(st, "NO_ACCESS")
    BY <1>4, AttestationAnswers DEF Attestation!CompleteQuote
  <2>2. /\ a.st = st /\ a.out = <<>> /\ a.broken = FALSE
        /\ \/ Attestation!GoodQuote(st, m) /\ a.give = "ALLOW"
           \/ a.give = "NO_ACCESS"
    BY <2>1, AnswerFields
  <2>3. Allows(st, pol, m, a) \/ Stays(st, a)
    BY <1>4, <2>2 DEF Allows, Content, Stays
  <2>. QED  BY <2>2, <2>3, EmptyIsBrief DEF AttestationResult, AttestationStep, Rec
<1>5. \/ ~st.good \/ st.first
      \/ st.mode \in {"complete", Nothing} /\ a = Attestation!CompleteQuote(st, m)
      \/ st.mode # "complete" /\ a \in Attestation!NextQuote(st, pol, m, nonce)
  BY DEF Attestation!ImvReceive, Attestation!Nothing, Nothing
<1>. QED  BY <1>1, <1>2, <1>3, <1>4, <1>5

AnswerOK(a) == /\ ImvShape(a.st) /\ Brief(a.out)
               /\ a.give \in Rec \cup {Nothing} /\ a.broken \in BOOLEAN

LEMMA HandshakeAnswers ==
    ASSUME TypeOK, NEW st, ImvShape(st), NEW pol \in Policies[pair],
           NEW a \in ImvHandshake(st, pol)
    PROVE  AnswerOK(a)
<1>. pair \in Pairs
  BY ImcImvAssumption DEF TypeOK
<1>1. CASE pair = "example"
  <2>1. a.out = <<>> /\ a.give = Nothing /\ a.broken = FALSE /\ a.st = Cleared(st)
    BY <1>1 DEF ImvHandshake, Answer
  <2>2. ImvShape(a.st)
    BY <1>1, <2>1 DEF ImvShape, Cleared, Rec
  <2>. QED  BY <1>1, <2>1, <2>2, EmptyIsBrief DEF AnswerOK
<1>2. CASE pair = "dummy"
  <2>1. a.out = <<>> /\ a.give = Nothing /\ a.broken = FALSE
    BY <1>2 DEF ImvHandshake, Dummy!ImvHandshake, Dummy!Answer, Dummy!Nothing, Nothing
  <2>2. a.st = [Cleared(st) EXCEPT !.cur = 0, !.max = pol]
    BY <1>2 DEF ImvHandshake, Dummy!ImvHandshake, Dummy!Answer
  <2>3. DOMAIN Cleared(st) = {"rec", "cur", "max"} /\ Cleared(st).rec = NoRec
    BY <1>2 DEF Cleared, ImvShape
  <2>4. pol \in Int
    BY <1>2, ImcImvAssumption DEF TypeOK
  <2>5. ImvShape(a.st)
    BY <1>2, <2>2, <2>3, <2>4 DEF ImvShape, Rec
  <2>. QED  BY <1>2, <2>1, <2>5, EmptyIsBrief DEF AnswerOK
<1>3. CASE pair = "platid"
  <2>1. a.out = <<>> /\ a.give = Nothing /\ a.broken = FALSE
    BY <1>3 DEF ImvHandshake, Platid!ImvHandshake, Platid!Answer, Platid!Nothing, Nothing
  <2>2. a.st \in {Platid!NewImv, st}
    BY <1>3 DEF ImvHandshake, Platid!ImvHandshake, Platid!Answer
  <2>3. ImvShape(a.st)
    BY <1>3, <2>2 DEF ImvShape, Platid!NewImv
  <2>. QED  BY <1>3, <2>1, <2>3, EmptyIsBrief DEF AnswerOK
<1>4. CASE pair = "attestation"
  <2>1. a.out = <<>> /\ a.give = Nothing /\ a.broken = FALSE
    BY <1>4 DEF ImvHandshake, Attestation!ImvHandshake, Attestation!Answer,
                Attestation!Nothing, Nothing
  <2>2. a.st = [st EXCEPT !.first = TRUE, !.good = TRUE, !.cert = Attestation!Nothing]
    BY <1>4 DEF ImvHandshake, Attestation!ImvHandshake, Attestation!Answer
  <2>3. ImvShape(a.st)
    BY <1>4, <2>2 DEF ImvShape
  <2>. QED  BY <1>4, <2>1, <2>3, EmptyIsBrief DEF AnswerOK
<1>5. CASE pair = "clamav"
  <2>1. a.out = <<>> /\ a.give = Nothing /\ a.broken = FALSE
    BY <1>5 DEF ImvHandshake, Clamav!ImvHandshake, Clamav!Answer, Clamav!Nothing, Nothing
  <2>2. a.st = [Cleared(st) EXCEPT !.entries = {e \in pol.entries : Clamav!Supported(e)}]
    BY <1>5 DEF ImvHandshake, Clamav!ImvHandshake, Clamav!Answer
  <2>3. DOMAIN Cleared(st) = {"rec", "entries"} /\ Cleared(st).rec = NoRec
    BY <1>5 DEF Cleared, ImvShape
  <2>4. ImvShape(a.st)
    BY <1>5, <2>2, <2>3 DEF ImvShape, Rec
  <2>. QED  BY <1>5, <2>1, <2>4, EmptyIsBrief DEF AnswerOK
<1>6. CASE pair = "hostscanner"
  <2>1. a.out = <<>> /\ a.give = Nothing /\ a.broken = FALSE
    BY <1>6 DEF ImvHandshake, HostScanner!ImvHandshake, HostScanner!Answer,
                HostScanner!Failure, HostScanner!Nothing, Nothing
  <2>2. DOMAIN Cleared(st) = {"rec", "count", "policys"} /\ Cleared(st).rec = NoRec
    BY <1>6 DEF Cleared, ImvShape
  <2>. DEFINE s == [Cleared(st) EXCEPT !.count = 0, !.policys = {}]
              t == [s EXCEPT !.policys = pol.ports]
  <2>3. a = Answer(t, <<>>) \/ a = Failure(s, "OTHER")
    BY <1>6, HostScannerAnswers DEF ImvHandshake, HostScanner!ImvHandshake
  <2>5. DOMAIN s = {"rec", "count", "policys"} /\ s.rec = NoRec
    BY <2>2
  <2>6. DOMAIN t = {"rec", "count", "policys"} /\ t.rec = NoRec
    BY <2>5
  <2>. HIDE DEF s, t
  <2>7. a.st \in {s, t}
    BY <2>3, AnswerFields
  <2>8. DOMAIN a.st = {"rec", "count", "policys"} /\ a.st.rec = NoRec
    BY <2>5, <2>6, <2>7
  <2>4. ImvShape(a.st)
    BY <1>6, <2>8 DEF ImvShape, Rec
  <2>. QED  BY <1>6, <2>1, <2>4, EmptyIsBrief DEF AnswerOK
<1>. QED  BY <1>1, <1>2, <1>3, <1>4, <1>5, <1>6 DEF Pairs

\* The other IMVs, in the same way.
ExampleResult(st, round, a) ==
    /\ a.give = Nothing /\ a.broken = FALSE /\ Brief(a.out) /\ DOMAIN a.st = DOMAIN st
    /\ a.st.rec = st.rec \/ (a.st.rec = "ALLOW" /\ ~(round < 1))

LEMMA WhatExampleDoes ==
    ASSUME NEW st, DOMAIN st = {"rec"}, NEW round, NEW m,
           NEW a \in Example!ImvReceive(st, round, m)
    PROVE  ExampleResult(st, round, a)
<1>1. \/ a = Answer(st, <<Example!Hello>>)
      \/ a = Answer([st EXCEPT !.rec = "ALLOW"], <<>>) /\ ~(round < 1)
  BY ExampleAnswers DEF Example!ImvReceive
<1>2. CASE a = Answer(st, <<Example!Hello>>)
  <2>1. a.st = st /\ a.out = <<Example!Hello>> /\ a.give = Nothing /\ a.broken = FALSE
    BY <1>2, AnswerFields
  <2>. QED  BY <2>1, OneIsBrief DEF ExampleResult
<1>3. CASE a = Answer([st EXCEPT !.rec = "ALLOW"], <<>>) /\ ~(round < 1)
  <2>1. a.st = [st EXCEPT !.rec = "ALLOW"] /\ a.out = <<>> /\ a.give = Nothing /\ a.broken = FALSE
    BY <1>3, AnswerFields
  <2>. QED  BY <1>3, <2>1, EmptyIsBrief DEF ExampleResult
<1>. QED  BY <1>1, <1>2, <1>3

DummyResult(st, m, a) ==
    /\ a.broken = FALSE /\ Brief(a.out) /\ DOMAIN a.st = DOMAIN st
    /\ a.st.rec = Dummy!RecOf(m.action, st.rec) /\ a.st.max = st.max
    /\ a.st.cur = IF st.cur < st.max THEN st.cur + 1 ELSE st.cur
    /\ a.give = IF a.st.cur = st.max THEN a.st.rec ELSE Nothing

LEMMA WhatDummyDoes ==
    ASSUME NEW st, DOMAIN st = {"rec", "cur", "max"}, NEW m, NEW a \in Dummy!ImvReceive(st, m)
    PROVE  DummyResult(st, m, a)
<1>. DEFINE r == Dummy!RecOf(m.action, st.rec)
            c == IF st.cur < st.max THEN st.cur + 1 ELSE st.cur
            o == IF st.cur < st.max THEN <<[kind |-> "ack"]>> ELSE <<>>
            t == [st EXCEPT !.rec = r, !.cur = c]
            g == IF c = st.max THEN r ELSE Nothing
<1>1. a = [Answer(t, o) EXCEPT !.give = g]
  BY DummyAnswers DEF Dummy!ImvReceive, Dummy!Nothing, Nothing
<1>2. Brief(o)
  BY EmptyIsBrief, OneIsBrief
<1>3. DOMAIN t = DOMAIN st /\ t.rec = r /\ t.cur = c /\ t.max = st.max
  OBVIOUS
<1>. HIDE DEF t, o
<1>4. a.st = t /\ a.out = o /\ a.give = g /\ a.broken = FALSE
  BY <1>1 DEF Answer
<1>. QED  BY <1>2, <1>3, <1>4 DEF DummyResult

PlatidResult(st, pol, m, nonce, a) ==
    /\ a.broken \in BOOLEAN /\ Brief(a.out) /\ a.give \in Rec \cup {Nothing}
    /\ DOMAIN a.st = DOMAIN st
    /\ \/ /\ a.give # "ALLOW"
          /\ \/ a.st.good = FALSE
             \/ m.kind = "cert" /\ a.st.cert = m.cert /\ a.st.nonce = nonce
             \/ a.st = st
       \/ /\ a.give = "ALLOW" /\ a.st = st /\ st.sent /\ st.good
          /\ Platid!Verified(st, pol, m)

LEMMA WhatPlatidDoes ==
    ASSUME NEW st, DOMAIN st = {"sent", "good", "cert", "nonce"}, NEW pol, NEW m, NEW nonce,
           NEW a \in Platid!ImvReceive(st, pol, m, nonce)
    PROVE  PlatidResult(st, pol, m, nonce, a)
<1>. DEFINE c == [st EXCEPT !.cert = m.cert]
            q == [c EXCEPT !.sent = TRUE, !.nonce = nonce]
            b == [c EXCEPT !.good = FALSE]
            n == [st EXCEPT !.good = FALSE]
            o == <<Platid!Nonce(nonce)>>
<1>1. \/ a = Answer(st, <<>>)
      \/ a = Voice(st, "ALLOW") /\ st.sent /\ st.good /\ Platid!Verified(st, pol, m)
      \/ a = Voice(st, "NO_ACCESS")
      \/ (a = Answer(q, o) \/ a = Broken(b)) /\ m.kind = "cert"
      \/ a = Answer(n, <<>>)
  BY PlatidAnswers DEF Platid!ImvReceive, Platid!Challenge
<1>2. /\ DOMAIN q = DOMAIN st /\ q.cert = m.cert /\ q.nonce = nonce
      /\ DOMAIN b = DOMAIN st /\ b.good = FALSE
      /\ DOMAIN n = DOMAIN st /\ n.good = FALSE
  <2>1. DOMAIN c = DOMAIN st /\ c.cert = m.cert
    OBVIOUS
  <2>. HIDE DEF c
  <2>. QED  BY <2>1
<1>3. Brief(o)
  BY OneIsBrief
<1>. HIDE DEF c, q, b, n, o
<1>4. CASE a = Answer(st, <<>>)
  <2>1. a.st = st /\ a.out = <<>> /\ a.give = Nothing /\ a.broken = FALSE
    BY <1>4, AnswerFields
  <2>. QED  BY <2>1, EmptyIsBrief DEF PlatidResult, Nothing
<1>5. CASE a = Voice(st, "ALLOW") /\ st.sent /\ st.good /\ Platid!Verified(st, pol, m)
  <2>1. a.st = st /\ a.out = <<>> /\ a.give = "ALLOW" /\ a.broken = FALSE
    BY <1>5, AnswerFields
  <2>. QED  BY <1>5, <2>1, EmptyIsBrief DEF PlatidResult, Rec
<1>6. CASE a = Voice(st, "NO_ACCESS")
  <2>1. a.st = st /\ a.out = <<>> /\ a.give = "NO_ACCESS" /\ a.broken = FALSE
    BY <1>6, AnswerFields
  <2>. QED  BY <2>1, EmptyIsBrief DEF PlatidResult, Rec
<1>7. CASE a = Answer(q, o) /\ m.kind = "cert"
  <2>1. a.st = q /\ a.out = o /\ a.give = Nothing /\ a.broken = FALSE
    BY <1>7, AnswerFields
  <2>. QED  BY <1>2, <1>3, <1>7, <2>1 DEF PlatidResult, Nothing
<1>8. CASE a = Broken(b)
  <2>1. a.st = b /\ a.out = <<>> /\ a.give = Nothing /\ a.broken = TRUE
    BY <1>8, AnswerFields
  <2>. QED  BY <1>2, <2>1, EmptyIsBrief DEF PlatidResult, Nothing
<1>9. CASE a = Answer(n, <<>>)
  <2>1. a.st = n /\ a.out = <<>> /\ a.give = Nothing /\ a.broken = FALSE
    BY <1>9, AnswerFields
  <2>. QED  BY <1>2, <2>1, EmptyIsBrief DEF PlatidResult, Nothing
<1>. QED  BY <1>1, <1>4, <1>5, <1>6, <1>7, <1>8, <1>9

\* What the virus scanner's report says of every entry it speaks of.
LocallySatisfied(entries, m) ==
    \A e \in entries : e.key \in Clamav!Lines(m) => Clamav!Satisfied(e, m)

ClamavResult(st, pol, m, a) ==
    /\ a.broken = FALSE /\ Brief(a.out) /\ a.give \in Rec \cup {Nothing}
    /\ DOMAIN a.st = DOMAIN st /\ a.st.entries = st.entries
    /\ \/ a.st = st /\ a.give = Nothing
       \/ a.st.rec = a.give /\ a.give \in Rec
    /\ a.give = "ALLOW" => pol.pdp \/ LocallySatisfied(st.entries, m)

LEMMA WhatClamavDoes ==
    ASSUME NEW st, DOMAIN st = {"rec", "entries"}, NEW pol, NEW m,
           NEW a \in Clamav!ImvReceive(st, pol, m)
    PROVE  ClamavResult(st, pol, m, a)
<1>1. ASSUME NEW r \in Rec, a = Voice([st EXCEPT !.rec = r], r),
             r = "ALLOW" => pol.pdp \/ LocallySatisfied(st.entries, m)
      PROVE  ClamavResult(st, pol, m, a)
  <2>1. a.st = [st EXCEPT !.rec = r] /\ a.out = <<>> /\ a.give = r /\ a.broken = FALSE
    BY <1>1, AnswerFields
  <2>. QED  BY <1>1, <2>1, EmptyIsBrief DEF ClamavResult
<1>2. CASE a = Failure(st, "FATAL")
  <2>1. a.st = st /\ a.out = <<>> /\ a.give = Nothing /\ a.broken = FALSE
    BY <1>2, AnswerFields
  <2>. QED  BY <2>1, EmptyIsBrief DEF ClamavResult, Nothing
<1>3. CASE a = Clamav!LocalEvaluation(st, m)
  <2>. DEFINE reported == {e \in st.entries : e.key \in Clamav!Lines(m)}
              r == IF \A e \in reported : Clamav!Satisfied(e, m) THEN "ALLOW" ELSE "ISOLATE"
  <2>1. a = Voice([st EXCEPT !.rec = r], r)
    BY <1>3, ClamavAnswers DEF Clamav!LocalEvaluation
  <2>2. r \in Rec /\ (r = "ALLOW" => LocallySatisfied(st.entries, m))
    BY DEF Rec, LocallySatisfied
  <2>. HIDE DEF r
  <2>. QED  BY <1>1, <2>1, <2>2
<1>4. CASE pol.pdp /\ \E r \in Clamav!Rec \ {Clamav!NoRec} : a = Voice([st EXCEPT !.rec = r], r)
  BY <1>1, <1>4 DEF Rec, Clamav!Rec, Clamav!NoRec, NoRec
<1>5. \/ a = Failure(st, "FATAL")
      \/ a = Clamav!LocalEvaluation(st, m)
      \/ pol.pdp /\ \E r \in Clamav!Rec \ {Clamav!NoRec} : a = Voice([st EXCEPT !.rec = r], r)
  BY ClamavAnswers DEF Clamav!ImvReceive, Clamav!XACMLEvaluation
<1>. QED  BY <1>2, <1>3, <1>4, <1>5

HostScannerResult(st, m, a) ==
    /\ a.broken = FALSE /\ Brief(a.out) /\ a.give \in Rec \cup {Nothing}
    /\ DOMAIN a.st = DOMAIN st /\ a.st.policys = st.policys
    /\ a.st.rec \in {st.rec} \cup Rec
    /\ \/ a.give # "ALLOW" /\ a.st.rec \in {st.rec, NoRec, "NO_ACCESS"}
       \/ m.kind = "report" /\ ~HostScanner!Contradicts(st.policys, m.ports)

LEMMA WhatHostScannerDoes ==
    ASSUME NEW st, DOMAIN st = {"rec", "count", "policys"}, NEW pol, NEW m,
           NEW a \in HostScanner!ImvReceive(st, pol, m)
    PROVE  HostScannerResult(st, m, a)
<1>. DEFINE o == <<HostScanner!Ports(HostScanner!Named(st.policys))>>
            f == [st EXCEPT !.rec = NoRec]
            r == IF HostScanner!Contradicts(st.policys, m.ports) THEN "NO_ACCESS" ELSE "ALLOW"
            t == [st EXCEPT !.rec = r]
<1>1. \/ a = Answer(st, o) \/ a = Answer(st, <<>>)
      \/ a = Failure(f, "OTHER")
      \/ m.kind = "report" /\ a = Voice(t, r)
  BY HostScannerAnswers
  DEF HostScanner!ImvReceive, HostScanner!Misread, HostScanner!Evaluate, HostScanner!NoRec, NoRec
<1>2. /\ DOMAIN f = DOMAIN st /\ f.rec = NoRec /\ f.policys = st.policys
      /\ DOMAIN t = DOMAIN st /\ t.rec = r /\ t.policys = st.policys
  OBVIOUS
<1>3. Brief(o)
  BY OneIsBrief
<1>. HIDE DEF o, f, t
<1>4. CASE a = Answer(st, o) \/ a = Answer(st, <<>>)
  <2>1. a.st = st /\ a.out \in {o, <<>>} /\ a.give = Nothing /\ a.broken = FALSE
    BY <1>4, AnswerFields
  <2>. QED  BY <1>3, <2>1, EmptyIsBrief DEF HostScannerResult, Nothing
<1>5. CASE a = Failure(f, "OTHER")
  <2>1. a.st = f /\ a.out = <<>> /\ a.give = Nothing /\ a.broken = FALSE
    BY <1>5, AnswerFields
  <2>. QED  BY <1>2, <2>1, EmptyIsBrief DEF HostScannerResult, Nothing, Rec
<1>6. CASE m.kind = "report" /\ a = Voice(t, r)
  <2>1. a.st = t /\ a.out = <<>> /\ a.give = r /\ a.broken = FALSE
    BY <1>6, AnswerFields
  <2>. QED  BY <1>2, <1>6, <2>1, EmptyIsBrief DEF HostScannerResult, Rec
<1>. QED  BY <1>1, <1>4, <1>5, <1>6

LEMMA ReceiveAnswers ==
    ASSUME TypeOK, NEW st, ImvShape(st), NEW m, NEW a \in ImvReceive(st, m)
    PROVE  AnswerOK(a)
<1>. pair \in Pairs
  BY ImcImvAssumption DEF TypeOK
<1>1. CASE pair = "example"
  <2>1. ExampleResult(st, imv.round, a) /\ DOMAIN st = {"rec"} /\ st.rec \in Rec
    BY <1>1, WhatExampleDoes DEF ImvReceive, ImvShape
  <2>. QED  BY <1>1, <2>1 DEF ExampleResult, AnswerOK, ImvShape, Rec
<1>2. CASE pair = "dummy"
  <2>1. /\ DummyResult(st, m, a) /\ DOMAIN st = {"rec", "cur", "max"}
        /\ st.rec \in Rec /\ st.cur \in Int /\ st.max \in Int
    BY <1>2, WhatDummyDoes DEF ImvReceive, ImvShape
  <2>2. Dummy!RecOf(m.action, st.rec) \in Rec
    BY <2>1 DEF Dummy!RecOf, Rec
  <2>3. ImvShape(a.st)
    BY <1>2, <2>1, <2>2 DEF DummyResult, ImvShape
  <2>. QED  BY <2>1, <2>2, <2>3 DEF DummyResult, AnswerOK
<1>3. CASE pair = "platid"
  <2>1. /\ PlatidResult(st, policy, m, Nonce, a)
        /\ DOMAIN st = {"sent", "good", "cert", "nonce"}
    BY <1>3, WhatPlatidDoes DEF ImvReceive, ImvShape
  <2>. QED  BY <1>3, <2>1 DEF PlatidResult, AnswerOK, ImvShape
<1>4. CASE pair = "attestation"
  <2>1. DOMAIN st = ImvFields /\ st.current \in Nat
    BY <1>4 DEF ImvShape, ImvFields
  <2>2. a \in Attestation!ImvReceive(st, policy, m, Nonce)
    BY <1>4 DEF ImvReceive
  <2>3. Len(policy.entries) \in Nat
    BY <1>4, ImcImvAssumption DEF TypeOK
  <2>4. AttestationResult(st, policy, m, Nonce, a)
    BY <2>1, <2>2, <2>3, WhatAttestationDoes
  <2>. QED  BY <1>4, <2>1, <2>4 DEF AttestationResult, AnswerOK, ImvShape, ImvFields
<1>5. CASE pair = "clamav"
  <2>1. ClamavResult(st, policy, m, a) /\ DOMAIN st = {"rec", "entries"} /\ st.rec \in Rec
    BY <1>5, WhatClamavDoes DEF ImvReceive, ImvShape
  <2>. QED  BY <1>5, <2>1 DEF ClamavResult, AnswerOK, ImvShape
<1>6. CASE pair = "hostscanner"
  <2>1. /\ HostScannerResult(st, m, a) /\ DOMAIN st = {"rec", "count", "policys"}
        /\ st.rec \in Rec
    BY <1>6, WhatHostScannerDoes DEF ImvReceive, ImvShape
  <2>. QED  BY <1>6, <2>1 DEF HostScannerResult, AnswerOK, ImvShape
<1>. QED  BY <1>1, <1>2, <1>3, <1>4, <1>5, <1>6 DEF Pairs

LEMMA NewShape == ASSUME TypeOK PROVE ImvShape(NewImv(pair))
<1>. pair \in Pairs
  BY ImcImvAssumption DEF TypeOK
<1>1. CASE pair = "example"
  BY <1>1 DEF NewImv, ImvShape, Rec, NoRec, Example!NewImv, Example!NoRec
<1>2. CASE pair = "dummy"
  BY <1>2 DEF NewImv, ImvShape, Rec, NoRec, Dummy!NewImv, Dummy!NoRec
<1>3. CASE pair = "platid"
  BY <1>3 DEF NewImv, ImvShape, Platid!NewImv
<1>4. CASE pair = "attestation"
  BY <1>4 DEF NewImv, ImvShape, Attestation!NewImv
<1>5. CASE pair = "clamav"
  BY <1>5 DEF NewImv, ImvShape, Rec, NoRec, Clamav!NewImv, Clamav!NoRec
<1>6. CASE pair = "hostscanner"
  BY <1>6 DEF NewImv, ImvShape, Rec, NoRec, HostScanner!NewImv, HostScanner!NoRec
<1>. QED  BY <1>1, <1>2, <1>3, <1>4, <1>5, <1>6 DEF Pairs


LEMMA EndingShape == ASSUME TypeOK, NEW st, ImvShape(st) PROVE ImvShape(ImvEnding(st))
<1>. pair \in Pairs
  BY ImcImvAssumption DEF TypeOK
<1>. QED
  BY DEF Pairs, ImvEnding, ImvShape, HostScanner!ImvEnding

-----------------------------------------------------------------------------
(* The variables: HInv.                                                    *)

LEMMA HInit == Init => HInv
<1>. SUFFICES ASSUME Init PROVE HInv
  OBVIOUS
<1>0. NewImv(pair) = NewImv(pair) /\ imc = Absent /\ imv = [st |-> NewImv(pair), round |-> 0]
  BY DEF Init
<1>a. imv # Absent /\ imv.round = 0
  BY <1>0, Instances
<1>b. 0 \in 0 .. MaxBatches /\ 0 \in 0 .. MaxHandshakes /\ 0 \in 0 .. MaxStrange
  BY ImcImvAssumption
<1>c. /\ loaded = FALSE /\ shut = FALSE /\ error = FALSE /\ clean = FALSE
      /\ given = Nothing /\ access = "CREATE" /\ turn = "idle" /\ pos = 0 /\ shakes = 0
      /\ strange = 0 /\ pair \in DOMAIN Hosts /\ host \in Hosts[pair] /\ policy \in Policies[pair]
  BY DEF Init
<1>1. TypeOK
  BY <1>0, <1>a, <1>b, <1>c DEF TypeOK, ConState, Turn
<1>2. imv # Absent /\ imv.st = NewImv(pair) /\ imv.round = 0 /\ ImvShape(imv.st)
  BY <1>1, Instances, NewShape DEF Init
<1>. QED  BY <1>1, <1>2 DEF Init, HInv, InHand

\* An instance of the IMC, or none.
Healthy(i) == i = Absent \/ \E st : \E r \in Nat :
                               /\ i = [st |-> st, round |-> r]
                               /\ pair = "clamav" => Clamav!Numbers(st.conf)

\* Nothing but the client's part of TypeOK and of HInv depends on the IMC.
LEMMA HClient ==
    ASSUME HInv, UNCHANGED <<pair, server>>,
           host' \in Hosts[pair], loaded' \in BOOLEAN, clean' \in BOOLEAN,
           turn' \in Turn, pos' \in 0 .. MaxBatches, shakes' \in 0 .. MaxHandshakes,
           strange' \in 0 .. MaxStrange, Healthy(imc'),
           imc' # Absent => loaded',
           InHand' => InHand, turn' = "decide" => turn = "decide"
    PROVE  HInv'
<1>1. TypeOK'
  BY Instances DEF HInv, TypeOK, server, Healthy
<1>2. imc' # Absent => /\ imc' = [st |-> imc'.st, round |-> imc'.round]
                       /\ pair = "clamav" => Clamav!Numbers(imc'.st.conf)
  BY Instances DEF Healthy
<1>3. \A st : ImvShape(st)' <=> ImvShape(st)
  BY DEF ImvShape
<1>. QED  BY <1>1, <1>2, <1>3 DEF HInv, server

\* After a call of the IMV the server knows whether its instance is still there.
LEMMA HKeep ==
    ASSUME HInv, imv # Absent, NEW a, AnswerOK(a), NEW r \in Nat, Keep(a, r),
           UNCHANGED <<pair, host, loaded, imc>>,
           policy' \in Policies[pair], access' = "HANDSHAKE", turn' = "deliver",
           pos' \in 0 .. MaxBatches, shakes' \in 0 .. MaxHandshakes,
           strange' \in 0 .. MaxStrange, given' \in Rec \cup {Nothing}, a.res # "SUCCESS" => given' = NoRec
    PROVE  HInv'
<1>1. \/ /\ a.res = "SUCCESS" /\ imv' = [st |-> a.st, round |-> r] /\ error' = FALSE
         /\ shut' = shut
      \/ /\ a.res # "SUCCESS" /\ imv' = Absent /\ error' = TRUE /\ shut' \in BOOLEAN
  BY DEF Keep, HInv, TypeOK
<1>2. clean' \in BOOLEAN
  BY DEF Keep, AnswerOK, HInv, TypeOK
<1>a. imv' # Absent => imv'.round \in Nat /\ ~shut'
  BY <1>1, Instances DEF HInv, TypeOK
<1>3. TypeOK'
  BY <1>1, <1>2, <1>a DEF HInv, TypeOK, ConState, Turn
<1>4. \A st : ImvShape(st)' <=> ImvShape(st)
  BY DEF ImvShape
<1>. QED  BY <1>1, <1>3, <1>4, Instances DEF HInv, InHand, AnswerOK

LEMMA SolicitedIsRec ==
    ASSUME TypeOK, NEW st, ImvShape(st)
    PROVE  Solicited(st) \in Rec
<1>. pair \in Pairs
  BY ImcImvAssumption DEF TypeOK
<1>1. CASE pair \in {"platid", "attestation"}
  BY <1>1 DEF Solicited, Platid!Solicited, Attestation!Solicited, Rec, Platid!NoRec,
              Attestation!NoRec, NoRec
<1>2. CASE pair \notin {"platid", "attestation"}
  BY <1>2 DEF Pairs, Solicited, ImvShape
<1>. QED  BY <1>1, <1>2

LEMMA HStep == HInv /\ [Next]_ivars => HInv'
<1>. SUFFICES ASSUME HInv, [Next]_ivars PROVE HInv'
  OBVIOUS
<1>. USE DEF net, past, client
<1>t. TypeOK
  BY DEF HInv
<1>i. Healthy(imc)
  BY DEF HInv, TypeOK, Healthy
<1>1. CASE Initialize
  BY <1>1, <1>t, <1>i, HClient DEF Initialize, TypeOK, InHand
<1>2. CASE Create
  <2>1. imc' = [st |-> NewImc, round |-> 0]
    BY <1>2 DEF Create
  <2>3. pair = "clamav" => Clamav!Numbers(NewImc.conf)
    BY Short DEF NewImc, Clamav!NewImc, Clamav!Numbers
  <2>2. Healthy(imc')
    BY <2>1, <2>3 DEF Healthy
  <2>. QED  BY <1>2, <1>t, <2>2, HClient DEF Create, TypeOK, InHand
<1>3. CASE Leave
  BY <1>3, <1>t, HClient DEF Leave, TypeOK, InHand, Healthy
<1>4. CASE HostChanges
  BY <1>4, <1>t, <1>i, HClient DEF HostChanges, TypeOK, InHand
<1>5. CASE Begin
  <2>1. Healthy(imc')
    <3>1. CASE imc = Absent
      BY <1>5, <3>1 DEF Begin, Healthy
    <3>2. CASE imc # Absent
      <4>1. PICK h \in Hosts[pair] : \E a \in ImcBegin(imc.st, h) :
                imc' = [st |-> a.st, round |-> RoundAtBegin(imc.round)]
        BY <1>5, <3>2 DEF Begin
      <4>2. PICK a \in ImcBegin(imc.st, h) : imc' = [st |-> a.st, round |-> 1]
        BY <4>1 DEF RoundAtBegin
      <4>3. pair = "clamav" => Clamav!Numbers(imc.st.conf)
        BY <3>2 DEF HInv
      <4>4. pair = "clamav" => Clamav!Numbers(a.st.conf)
        BY <1>t, <4>2, <4>3, ImcAnswers
      <4>. QED  BY <4>2, <4>4 DEF Healthy
    <3>. QED  BY <3>1, <3>2
  <2>2. host' \in Hosts[pair] /\ turn' = "arrival" /\ pos' = 0 /\ shakes' = shakes + 1
        /\ shakes < MaxHandshakes /\ UNCHANGED <<pair, loaded, server>>
        /\ clean' = (imc # Absent /\ imv # Absent)
        /\ (imc = Absent => imc' = imc) /\ strange' = strange
    BY <1>5 DEF Begin, Send
  <2>3. pos' \in 0 .. MaxBatches /\ shakes' \in 0 .. MaxHandshakes
    BY <2>2, <1>t, ImcImvAssumption DEF TypeOK
  <2>. QED  BY <2>1, <2>2, <2>3, <1>t, HClient DEF TypeOK, InHand, Turn
<1>6. CASE LateBatch
  BY <1>6, <1>t, <1>i, HClient DEF LateBatch, TypeOK, InHand
<1>16. CASE StrangeBatch
  <2>1. strange' \in 0 .. MaxStrange
    BY <1>16, <1>t, ImcImvAssumption DEF StrangeBatch, TypeOK
  <2>. QED  BY <1>16, <2>1, <1>t, <1>i, HClient DEF StrangeBatch, TypeOK, InHand
<1>7. CASE ImcGets
  <2>1. Healthy(imc')
    <3>1. CASE imc = Absent
      BY <1>7, <3>1 DEF ImcGets, Healthy
    <3>2. CASE imc # Absent
      <4>1. PICK a \in ImcReceive(imc.st, Head(outbox)) : imc' = [imc EXCEPT !.st = a.st]
        BY <1>7, <3>2 DEF ImcGets
      <4>2. PICK st : \E r \in Nat : imc = [st |-> st, round |-> r]
        BY <1>i, <3>2 DEF Healthy
      <4>r. PICK r \in Nat : imc = [st |-> st, round |-> r]
        BY <4>2
      <4>3. imc' = [st |-> a.st, round |-> r]
        BY <4>1, <4>r
      <4>4. pair = "clamav" => Clamav!Numbers(imc.st.conf)
        BY <3>2 DEF HInv
      <4>5. host \in Hosts[pair] /\ a \in ImcBegin(imc.st, host) \cup ImcReceive(imc.st, Head(outbox))
        BY <1>t, <4>1 DEF TypeOK
      <4>6. pair = "clamav" => Clamav!Numbers(a.st.conf)
        BY <1>t, <4>4, <4>5, ImcAnswers
      <4>. QED  BY <4>3, <4>6 DEF Healthy
    <3>. QED  BY <3>1, <3>2
  <2>2. UNCHANGED <<pair, host, loaded, server, turn, pos, shakes, strange, clean>>
        /\ (imc = Absent => imc' = imc)
    BY <1>7 DEF ImcGets
  <2>. QED  BY <2>1, <2>2, <1>t, HClient DEF TypeOK, InHand
<1>8. CASE ImcEnds
  <2>1. Healthy(imc')
    <3>1. CASE imc = Absent
      BY <1>8, <3>1 DEF ImcEnds, Healthy
    <3>2. CASE imc # Absent
      <4>2. PICK st : \E r \in Nat : imc = [st |-> st, round |-> r]
        BY <1>i, <3>2 DEF Healthy
      <4>r. PICK r \in Nat : imc = [st |-> st, round |-> r]
        BY <4>2
      <4>3. imc' = [st |-> st, round |-> r + 1] /\ r + 1 \in Nat
        BY <1>8, <3>2, <4>r DEF ImcEnds
      <4>4. pair = "clamav" => Clamav!Numbers(st.conf)
        BY <3>2, <4>r DEF HInv
      <4>. QED  BY <4>3, <4>4 DEF Healthy
    <3>. QED  BY <3>1, <3>2
  <2>2. UNCHANGED <<pair, host, loaded, server, strange, clean>> /\ turn = "client" /\ turn' = "arrival"
        /\ pos < MaxBatches /\ pos' = pos + 1 /\ shakes' = shakes
        /\ (imc = Absent => imc' = imc)
    BY <1>8 DEF ImcEnds, Send
  <2>3. pos' \in 0 .. MaxBatches
    BY <2>2, <1>t, ImcImvAssumption DEF TypeOK
  <2>. QED  BY <2>1, <2>2, <2>3, <1>t, HClient DEF TypeOK, InHand, Turn
<1>9. CASE Accept
  <2>0. /\ turn' = "deliver" /\ turn = "arrival" /\ pos = 0 /\ UNCHANGED <<pair, client, net>>
        /\ access' = "HANDSHAKE"
    BY <1>9 DEF Accept, AccessAtStart
  <2>1. PICK pol \in PoliciesNow :
          /\ policy' = pol
          /\ IF imv = Absent
             THEN given' = NoRec /\ error' = TRUE /\ UNCHANGED <<imv, shut, clean>>
             ELSE \E a \in ImvHandshake(imv.st, pol) :
                    /\ Keep(a, 0)
                    /\ given' = IF a.res = "SUCCESS" THEN Nothing ELSE NoRec
    BY <1>9 DEF Accept, AccessAtStart
  <2>2. pol \in Policies[pair]
    BY <1>t DEF TypeOK, PoliciesNow
  <2>3. CASE imv = Absent
    <3>1. TypeOK'
      BY <1>t, <2>0, <2>1, <2>2, <2>3
      DEF TypeOK, Rec, Turn, ConState
    <3>. QED  BY <2>0, <2>1, <2>3, <3>1 DEF HInv, InHand
  <2>4. CASE imv # Absent
    <3>1. PICK a \in ImvHandshake(imv.st, pol) :
            /\ Keep(a, 0)
            /\ given' = IF a.res = "SUCCESS" THEN Nothing ELSE NoRec
      BY <2>1, <2>4
    <3>2. AnswerOK(a)
      BY <1>t, <2>2, <2>4, <3>1, HandshakeAnswers DEF HInv
    <3>. QED  BY <1>t, <2>0, <2>1, <2>2, <2>4, <3>1, <3>2, HKeep DEF TypeOK, Turn, ConState, Rec
  <2>. QED  BY <2>3, <2>4
<1>10. CASE NextBatch
  <2>1. /\ turn = "arrival" /\ pos > 0 /\ turn' = "deliver"
        /\ UNCHANGED <<pair, client, server, net, clean>>
    BY <1>10 DEF NextBatch
  <2>. QED  BY <2>1, <1>t, <1>i, HClient DEF TypeOK, InHand, Turn
<1>11. CASE ImvGets
  <2>0. turn = "deliver" /\ ~error /\ UNCHANGED <<pair, client, policy, access, turn, pos, shakes, strange>>
    BY <1>11 DEF ImvGets
  <2>1. PICK a \in ImvReceive(imv.st, Head(inbox)) :
          /\ Keep(a, imv.round)
          /\ given' = IF a.res # "SUCCESS" THEN NoRec
                      ELSE IF a.give # Nothing THEN a.give ELSE given
    BY <1>11 DEF ImvGets
  <2>2. imv # Absent /\ ImvShape(imv.st) /\ imv.round \in Nat /\ access = "HANDSHAKE"
    BY <2>0 DEF HInv, InHand, TypeOK
  <2>3. AnswerOK(a)
    BY <1>t, <2>1, <2>2, ReceiveAnswers
  <2>4. given' \in Rec \cup {Nothing}
    BY <1>t, <2>1, <2>3 DEF AnswerOK, TypeOK, Rec
  <2>. QED  BY <1>t, <2>0, <2>1, <2>2, <2>3, <2>4, HKeep DEF TypeOK
<1>12. CASE ImvEnds
  <2>0. /\ turn = "deliver" /\ UNCHANGED <<pair, client, policy, shut, error, given, access,
                                           pos, shakes, strange, clean>>
        /\ turn' \in {"client", "solicit"}
        /\ imv' = IF error THEN imv ELSE [st |-> ImvEnding(imv.st), round |-> imv.round + 1]
    BY <1>12 DEF ImvEnds
  <2>1. InHand
    BY <2>0 DEF InHand
  <2>2. \A st : ImvShape(st)' <=> ImvShape(st)
    BY <2>0 DEF ImvShape
  <2>3. CASE error
    <3>1. imv' = imv
      BY <2>0, <2>3
    <3>. QED  BY <2>0, <2>1, <2>2, <2>3, <3>1 DEF HInv, TypeOK, InHand, Turn
  <2>4. CASE ~error
    <3>1. imv # Absent /\ ImvShape(imv.st) /\ imv.round \in Nat /\ ~shut
      BY <2>1, <2>4 DEF HInv, TypeOK
    <3>2. imv' # Absent /\ imv' = [st |-> imv'.st, round |-> imv'.round]
          /\ imv'.round \in Nat /\ imv'.st = ImvEnding(imv.st)
      BY <2>0, <2>4, <3>1, Instances
    <3>3. ImvShape(imv'.st)
      BY <1>t, <3>1, <3>2, EndingShape
    <3>. QED  BY <2>0, <2>1, <2>2, <2>4, <3>1, <3>2, <3>3 DEF HInv, TypeOK, InHand, Turn
  <2>. QED  BY <2>3, <2>4
<1>13. CASE Solicit
  <2>0. /\ turn = "solicit" /\ turn' = "decide"
        /\ given' = IF given = Nothing THEN Solicited(imv.st) ELSE given
        /\ UNCHANGED <<pair, client, policy, imv, shut, error, access, net, past>>
    BY <1>13 DEF Solicit
  <2>1. given' \in Rec
    <3>1. CASE given = Nothing
      <4>1. imv # Absent /\ ImvShape(imv.st)
        BY <2>0, <3>1 DEF HInv, InHand, Nothing, NoRec
      <4>2. Solicited(imv.st) \in Rec
        BY <1>t, <4>1, SolicitedIsRec
      <4>. QED  BY <2>0, <3>1, <4>2
    <3>. QED  BY <1>t, <2>0, <3>1 DEF TypeOK
  <2>2. \A st : ImvShape(st)' <=> ImvShape(st)
    BY <2>0 DEF ImvShape
  <2>3. TypeOK'
    BY <2>0, <2>1, <1>t DEF TypeOK, Turn
  <2>. QED  BY <2>0, <2>1, <2>2, <2>3 DEF HInv, InHand, Nothing, Rec, NoRec
<1>14. CASE Decide
  <2>0. /\ turn = "decide" /\ turn' = "idle"
        /\ access' = StateOf(PolicyOf([v \in {"imv"} |-> given]))
        /\ UNCHANGED <<pair, client, policy, imv, shut, error, given, net, past>>
    BY <1>14 DEF Decide
  <2>1. access' \in ConState
    BY <2>0 DEF StateOf, ConState, Decided
  <2>2. \A st : ImvShape(st)' <=> ImvShape(st)
    BY <2>0 DEF ImvShape
  <2>3. TypeOK'
    BY <2>0, <2>1, <1>t DEF TypeOK, Turn
  <2>. QED  BY <2>0, <2>2, <2>3 DEF HInv, InHand
<1>15. CASE UNCHANGED ivars
  BY <1>15, <1>t, <1>i, HClient DEF ivars, server, TypeOK, InHand
<1>. QED
  BY <1>1, <1>2, <1>3, <1>4, <1>5, <1>6, <1>7, <1>8, <1>9, <1>10, <1>11, <1>12, <1>13, <1>14,
     <1>15, <1>16 DEF Next, ImcStep, ServerStep

-----------------------------------------------------------------------------
(* Rounds and messages: RInv and MInv.                                     *)

LEMMA RInit == Init => RInv
  BY Instances DEF Init, RInv

LEMMA RStep == HInv /\ RInv /\ [Next]_ivars => RInv'
<1>. SUFFICES ASSUME HInv, RInv, [Next]_ivars PROVE RInv'
  OBVIOUS
<1>. USE DEF net, past, client, server
<1>t. pos \in Nat /\ (imc # Absent => imc.round \in Nat /\ imc = [st |-> imc.st, round |-> imc.round])
      /\ (imv # Absent => imv.round \in Nat)
  BY ImcImvAssumption DEF HInv, TypeOK
<1>1. CASE Initialize
  BY <1>1 DEF Initialize, RInv
<1>2. CASE Create
  BY <1>2 DEF Create, RInv
<1>3. CASE Leave
  BY <1>3 DEF Leave, RInv
<1>4. CASE HostChanges
  BY <1>4 DEF HostChanges, RInv
<1>5. CASE Begin
  <2>1. turn' = "arrival" /\ pos' = 0 /\ imv' = imv /\ (clean' => imc # Absent)
    BY <1>5 DEF Begin, Send
  <2>2. imc # Absent => imc' # Absent /\ imc'.round = 1
    <3>1. imc # Absent => \E st : imc' = [st |-> st, round |-> 1]
      BY <1>5 DEF Begin, RoundAtBegin
    <3>. QED  BY <3>1, Instances
  <2>. QED  BY <2>1, <2>2 DEF RInv
<1>6. CASE LateBatch
  BY <1>6 DEF LateBatch, RInv
<1>16. CASE StrangeBatch
  BY <1>16 DEF StrangeBatch, RInv
<1>7. CASE ImcGets
  <2>1. imc # Absent => \E st : imc' = [st |-> st, round |-> imc.round]
    <3>. SUFFICES ASSUME imc # Absent PROVE \E st : imc' = [st |-> st, round |-> imc.round]
      OBVIOUS
    <3>1. PICK a : imc' = [imc EXCEPT !.st = a.st]
      BY <1>7 DEF ImcGets
    <3>2. PICK s, r : imc = [st |-> s, round |-> r]
      BY <1>t
    <3>3. imc' = [st |-> a.st, round |-> imc.round]
      BY <3>1, <3>2
    <3>. QED  BY <3>3
  <2>2. UNCHANGED <<turn, pos, imv, clean>>
    BY <1>7 DEF ImcGets
  <2>. QED  BY <2>1, <2>2, Instances DEF RInv
<1>8. CASE ImcEnds
  <2>1. imc # Absent => imc' = [st |-> imc.st, round |-> imc.round + 1]
    <3>. SUFFICES ASSUME imc # Absent PROVE imc' = [st |-> imc.st, round |-> imc.round + 1]
      OBVIOUS
    <3>2. PICK s, r : imc = [st |-> s, round |-> r]
      BY <1>t
    <3>. QED  BY <1>8, <3>2 DEF ImcEnds
  <2>2. turn = "client" /\ turn' = "arrival" /\ pos' = pos + 1 /\ UNCHANGED <<imv, clean>>
    BY <1>8 DEF ImcEnds, Send
  <2>. QED  BY <1>t, <2>1, <2>2, Instances DEF RInv
<1>9. CASE Accept
  <2>1. turn = "arrival" /\ pos = 0 /\ turn' = "deliver" /\ UNCHANGED <<imc, pos>>
    BY <1>9 DEF Accept
  <2>2. \/ UNCHANGED <<imv, clean>> /\ imv = Absent
        \/ \E a : Keep(a, 0)
    BY <1>9 DEF Accept
  <2>3. (clean' => clean) /\ (imv' = Absent \/ imv'.round = 0)
    <3>1. ASSUME NEW a, Keep(a, 0) PROVE (clean' => clean) /\ (imv' = Absent \/ imv'.round = 0)
      BY <3>1, Instances DEF Keep
    <3>. QED  BY <2>2, <3>1
  <2>. QED  BY <2>1, <2>3 DEF RInv
<1>10. CASE NextBatch
  BY <1>10 DEF NextBatch, RInv
<1>11. CASE ImvGets
  <2>1. turn = "deliver" /\ UNCHANGED <<turn, imc, pos>> /\ ~error
    BY <1>11 DEF ImvGets
  <2>2. imv # Absent
    BY <2>1 DEF HInv, InHand
  <2>3. PICK a : Keep(a, imv.round)
    BY <1>11 DEF ImvGets
  <2>4. (clean' => clean) /\ (imv' = Absent \/ imv'.round = imv.round)
    BY <2>3, Instances DEF Keep
  <2>. QED  BY <2>1, <2>2, <2>4 DEF RInv
<1>12. CASE ImvEnds
  <2>1. /\ turn = "deliver" /\ turn' \in {"client", "solicit"} /\ UNCHANGED <<imc, pos, clean>>
        /\ IF error THEN imv' = imv ELSE imv'.round = imv.round + 1
    BY <1>12, Instances DEF ImvEnds
  <2>2. (error => imv = Absent) /\ (~error => imv # Absent)
    BY <2>1 DEF HInv, InHand
  <2>. QED  BY <1>t, <2>1, <2>2 DEF RInv
<1>13. CASE Solicit
  BY <1>13 DEF Solicit, RInv
<1>14. CASE Decide
  BY <1>14 DEF Decide, RInv
<1>15. CASE UNCHANGED ivars
  BY <1>15 DEF ivars, RInv
<1>. QED
  BY <1>1, <1>2, <1>3, <1>4, <1>5, <1>6, <1>7, <1>8, <1>9, <1>10, <1>11, <1>12, <1>13, <1>14,
     <1>15, <1>16 DEF Next, ImcStep, ServerStep

LEMMA MInit == Init => MInv
<1>1. Said(<<>>)
  BY Messages
<1>2. IsSeq(<<>>) /\ Len(<<>>) = 0
  BY Short
<1>. QED  BY <1>1, <1>2 DEF Init, MInv, InHand

LEMMA MStep == HInv /\ MInv /\ [Next]_ivars => MInv'
<1>. SUFFICES ASSUME HInv, MInv, [Next]_ivars PROVE MInv'
  OBVIOUS
<1>. USE DEF net, past, client, server
<1>t. TypeOK /\ pos \in Nat
  BY ImcImvAssumption DEF HInv, TypeOK
<1>p. pair' = pair
  BY DEF Next, ivars, Initialize, Create, Leave, HostChanges, Begin, LateBatch, StrangeBatch,
         ImcStep, ImcGets, ImcEnds, ServerStep, Accept, NextBatch, ImvGets, ImvEnds, Solicit, Decide
<1>s. \A b : Said(b)' <=> Said(b)
  BY <1>p DEF Said, Speech
<1>e. IsSeq(<<>>) /\ Len(<<>>) = 0 /\ Said(<<>>)
  BY Short, Messages
\* A client's batch leaves: nothing is left for the IMC.
<1>b. ASSUME NEW batch, NEW n, NEW k, Send(batch, n, k), Said(batch), IsSeq(heard'),
             k > 0 => heard' # <<>>, k = 0 => heard' = <<>>
      PROVE  MInv'
  <2>1. /\ inbox' = batch /\ outbox' = <<>> /\ turn' = "arrival" /\ pos' = k
        /\ sent' = sent \cup {[shake |-> n, pos |-> k, batch |-> batch]}
    BY <1>b DEF Send
  <2>2. \A b \in sent' : Said(b.batch)
    BY <1>b, <2>1 DEF MInv
  <2>. QED  BY <1>b, <1>p, <1>s, <1>e, <2>1, <2>2 DEF MInv, InHand
<1>1. CASE Initialize
  BY <1>1, <1>s DEF Initialize, MInv, InHand
<1>2. CASE Create
  BY <1>2, <1>s DEF Create, MInv, InHand
<1>3. CASE Leave
  BY <1>3, <1>s DEF Leave, MInv, InHand
<1>4. CASE HostChanges
  BY <1>4, <1>s DEF HostChanges, MInv, InHand
<1>5. CASE Begin
  <2>1. heard' = <<>>
    BY <1>5 DEF Begin
  <2>2. CASE imc = Absent
    <3>1. Send(<<>>, shakes + 1, 0)
      BY <1>5, <2>2 DEF Begin
    <3>. QED  BY <1>b, <1>e, <2>1, <3>1
  <2>3. CASE imc # Absent
    <3>1. PICK h \in Hosts[pair] : \E a \in ImcBegin(imc.st, h) : Send(a.out, shakes + 1, 0)
      BY <1>5, <2>3 DEF Begin
    <3>2. PICK a \in ImcBegin(imc.st, h) : Send(a.out, shakes + 1, 0)
      BY <3>1
    <3>3. Said(a.out)
      BY <1>t, <2>3, ImcAnswers DEF HInv
    <3>. QED  BY <1>b, <1>e, <2>1, <3>2, <3>3
  <2>. QED  BY <2>2, <2>3
<1>6. CASE LateBatch
  <2>1. /\ turn = "arrival" /\ UNCHANGED <<turn, outbox, pos, sent, heard>>
        /\ \E b \in sent : inbox' = b.batch
    BY <1>6 DEF LateBatch
  <2>2. Said(inbox') /\ outbox = <<>>
    BY <2>1 DEF MInv
  <2>. QED  BY <1>p, <1>s, <1>e, <2>1, <2>2 DEF MInv, InHand
<1>16. CASE StrangeBatch
  <2>1. /\ turn = "arrival" /\ UNCHANGED <<turn, outbox, pos, sent, heard>>
        /\ \E b \in Strange[pair] : inbox' = b
    BY <1>16 DEF StrangeBatch
  <2>2. \A b \in Strange[pair] : Said(b)
    BY <1>t, ImcImvAssumption DEF TypeOK, Said, IsSeq, Speech
  <2>3. Said(inbox') /\ outbox = <<>>
    BY <2>1, <2>2 DEF MInv
  <2>. QED  BY <1>p, <1>s, <1>e, <2>1, <2>3 DEF MInv, InHand
<1>7. CASE ImcGets
  <2>0. /\ turn = "client" /\ outbox # <<>> /\ outbox' = Tail(outbox)
        /\ UNCHANGED <<turn, pos, sent, heard>>
    BY <1>7 DEF ImcGets
  <2>1. /\ IsSeq(outbox') /\ Len(outbox') = Len(outbox) - 1 /\ Len(outbox) \in Nat
        /\ Len(outbox) > 0
    BY <2>0, SeqTail, SeqParts DEF MInv
  <2>2. CASE imc = Absent
    <3>1. inbox' = inbox
      BY <1>7, <2>2 DEF ImcGets
    <3>. QED  BY <1>p, <1>s, <2>0, <2>1, <3>1 DEF MInv, InHand
  <2>3. CASE imc # Absent
    <3>1. PICK a \in ImcReceive(imc.st, Head(outbox)) : inbox' = inbox \o a.out
      BY <1>7, <2>3 DEF ImcGets
    <3>0. host \in Hosts[pair]
          /\ a \in ImcBegin(imc.st, host) \cup ImcReceive(imc.st, Head(outbox))
      BY <1>t, <3>1 DEF TypeOK
    <3>2. Said(a.out) /\ Said(inbox)
      BY <1>t, <2>3, <3>0, ImcAnswers DEF HInv, MInv
    <3>3. IsSeq(a.out) /\ IsSeq(inbox)
      BY <3>2 DEF Said
    <3>4. /\ IsSeq(inbox')
          /\ \A i \in DOMAIN inbox' :
               \/ i \in DOMAIN inbox /\ inbox'[i] = inbox[i]
               \/ i - Len(inbox) \in DOMAIN a.out /\ inbox'[i] = a.out[i - Len(inbox)]
      BY <3>1, <3>3, SeqConcat
    <3>5. Said(inbox')
      BY <3>2, <3>4 DEF Said
    <3>. QED  BY <1>p, <1>s, <2>0, <2>1, <3>5 DEF MInv, InHand
  <2>. QED  BY <2>2, <2>3
<1>8. CASE ImcEnds
  <2>1. Send(inbox, shakes, pos + 1) /\ heard' = heard /\ turn = "client"
    BY <1>8 DEF ImcEnds
  <2>2. Said(inbox) /\ IsSeq(heard) /\ heard # <<>>
    BY <2>1 DEF MInv, InHand
  <2>. QED  BY <1>b, <1>t, <2>1, <2>2
<1>9. CASE Accept
  <2>1. turn = "arrival" /\ turn' = "deliver" /\ pos = 0
        /\ UNCHANGED <<inbox, outbox, pos, sent, heard>>
    BY <1>9 DEF Accept
  <2>. QED  BY <1>p, <1>s, <2>1 DEF MInv, InHand
<1>10. CASE NextBatch
  BY <1>10, <1>s DEF NextBatch, MInv, InHand
<1>11. CASE ImvGets
  <2>0. /\ turn = "deliver" /\ inbox # <<>> /\ ~error /\ inbox' = Tail(inbox)
        /\ heard' = Append(heard, Head(inbox)) /\ UNCHANGED <<turn, pos, sent>>
    BY <1>11 DEF ImvGets
  <2>1. PICK a \in ImvReceive(imv.st, Head(inbox)) : outbox' = outbox \o a.out
    BY <1>11 DEF ImvGets
  <2>2. AnswerOK(a)
    BY <1>t, <2>0, <2>1, ReceiveAnswers DEF HInv, InHand
  <2>3. IsSeq(a.out) /\ Len(a.out) <= 1
    BY <2>2 DEF AnswerOK, Brief
  <2>4. /\ IsSeq(outbox') /\ Len(outbox') = Len(outbox) + Len(a.out)
        /\ Len(outbox) \in Nat /\ Len(a.out) \in Nat
    BY <2>1, <2>3, SeqConcat, SeqParts DEF MInv
  <2>5. /\ IsSeq(inbox') /\ Len(inbox') = Len(inbox) - 1 /\ Len(inbox) \in Nat /\ Len(inbox) > 0
        /\ \A i \in DOMAIN inbox' : i + 1 \in DOMAIN inbox /\ inbox'[i] = inbox[i + 1]
    BY <2>0, SeqTail, SeqParts DEF MInv, Said
  <2>6. IsSeq(heard') /\ heard' # <<>>
    <3>1. IsSeq(heard') /\ Len(heard') = Len(heard) + 1 /\ Len(heard) \in Nat
      BY <2>0, SeqAppend, SeqParts DEF MInv
    <3>. QED  BY <3>1, <1>e
  <2>7. Said(inbox')
    BY <2>5 DEF MInv, Said
  <2>. QED  BY <1>p, <1>s, <2>0, <2>4, <2>6, <2>7 DEF MInv, InHand
<1>12. CASE ImvEnds
  <2>1. /\ turn = "deliver" /\ inbox' = <<>> /\ UNCHANGED <<outbox, pos, sent, heard>>
        /\ turn' = IF outbox # <<>> THEN "client" ELSE "solicit"
    BY <1>12 DEF ImvEnds
  <2>2. Len(inbox) \in Nat /\ Len(outbox) \in Nat
    BY SeqParts DEF MInv, Said
  <2>. QED  BY <1>p, <1>s, <1>e, <2>1, <2>2 DEF MInv, InHand
<1>13. CASE Solicit
  BY <1>13, <1>s DEF Solicit, MInv, InHand
<1>14. CASE Decide
  BY <1>14, <1>s DEF Decide, MInv, InHand
<1>15. CASE UNCHANGED ivars
  BY <1>15, <1>s DEF ivars, MInv, InHand
<1>. QED
  BY <1>1, <1>2, <1>3, <1>4, <1>5, <1>6, <1>7, <1>8, <1>9, <1>10, <1>11, <1>12, <1>13, <1>14,
     <1>15, <1>16 DEF Next, ImcStep, ServerStep

-----------------------------------------------------------------------------
(* What is earned.                                                         *)

\* What is earned depends on the pair, the policy, the handshake's number and
\* the messages heard in it.
LEMMA EarnedKept ==
    ASSUME UNCHANGED <<pair, policy, shakes, heard>>
    PROVE  Earned' <=> Earned
<1>1. \A k : HeardOf(k)' = HeardOf(k)
  BY DEF HeardOf
<1>2. (QuoteTells' <=> QuoteTells) /\ (Unasked' <=> Unasked)
  BY DEF QuoteTells, Unasked
<1>. QED  BY <1>1, <1>2 DEF Earned

LEMMA HeardGrows ==
    ASSUME IsSeq(heard), NEW m, heard' = Append(heard, m)
    PROVE  \A k : /\ HeardOf(k) \subseteq HeardOf(k)'
                  /\ m.kind = k => m \in HeardOf(k)'
<1>1. /\ Append(heard, m)[Len(heard) + 1] = m
      /\ \A i \in DOMAIN heard : Append(heard, m)[i] = heard[i]
      /\ DOMAIN Append(heard, m) = DOMAIN heard \cup {Len(heard) + 1}
  BY SeqAppend
<1>2. /\ heard'[Len(heard) + 1] = m
      /\ \A i \in DOMAIN heard : heard'[i] = heard[i]
      /\ DOMAIN heard' = DOMAIN heard \cup {Len(heard) + 1}
  BY <1>1
<1>. QED  BY <1>2 DEF HeardOf

LEMMA EarnedGrows ==
    ASSUME UNCHANGED <<pair, policy, shakes>>, pair \in Pairs \ {"dummy"},
           IsSeq(heard), NEW m, heard' = Append(heard, m), Earned
    PROVE  Earned'
<1>1. \A k : HeardOf(k) \subseteq HeardOf(k)'
  BY HeardGrows
<1>2. QuoteTells' <=> QuoteTells
  BY DEF QuoteTells
<1>3. CASE pair = "example"
  <2>1. Len(heard') = Len(heard) + 1 /\ Len(heard) \in Nat
    BY SeqAppend, SeqParts
  <2>. QED  BY <1>3, <2>1 DEF Earned
<1>4. CASE pair = "platid"
  BY <1>1, <1>4 DEF Earned
<1>5. CASE pair = "attestation" /\ Len(heard) > 1 /\ Unasked
  <2>1. Len(heard') = Len(heard) + 1 /\ Len(heard) \in Nat /\ DOMAIN heard = 1 .. Len(heard)
    BY SeqAppend, SeqParts
  <2>2. heard'[1] = heard[1]
    BY <1>5, <2>1, SeqAppend
  <2>3. Unasked'
    BY <1>5, <2>2 DEF Unasked
  <2>. QED  BY <1>5, <2>1, <2>3 DEF Earned
<1>8. CASE pair = "attestation" /\ ~(Len(heard) > 1 /\ Unasked)
  <2>1. PICK c \in HeardOf("cert") :
          /\ c.cert \in policy.aiks
          /\ \A i \in DOMAIN policy.entries : \E q \in HeardOf("quote") :
               LET e == policy.entries[i] IN
               /\ q.key = c.cert /\ q.digest.nonce[1] = shakes
               /\ e.index \in q.digest.mask
               /\ QuoteTells => QuotedValue(q.digest, e.index) = e.value
    BY <1>8 DEF Earned
  <2>2. c \in HeardOf("cert")' /\ HeardOf("quote") \subseteq HeardOf("quote")'
    BY <1>1
  <2>. QED  BY <1>2, <1>8, <2>1, <2>2 DEF Earned
<1>6. CASE pair = "clamav"
  <2>1. CASE policy.pdp
    BY <1>6, <2>1 DEF Earned
  <2>2. CASE ~policy.pdp
    <3>1. PICK r \in HeardOf("report") : \A e \in policy.entries : ~Excludes(e, r)
      BY <1>6, <2>2 DEF Earned
    <3>2. r \in HeardOf("report")' /\ \A e \in policy'.entries : ~Excludes(e, r)
      BY <1>1, <3>1
    <3>. QED  BY <1>6, <3>2 DEF Earned, Excludes, Below
  <2>. QED  BY <2>1, <2>2
<1>7. CASE pair = "hostscanner"
  BY <1>1, <1>7 DEF Earned
<1>. QED  BY <1>3, <1>4, <1>5, <1>6, <1>7, <1>8 DEF Pairs

LEMMA KnowsKept ==
    ASSUME TypeOK, UNCHANGED <<pair, policy, shakes, heard>>, Knows, imv'.st = imv.st,
           turn' \notin {"solicit", "decide"} =>
             turn \notin {"solicit", "decide"} /\ given' = given
    PROVE  Knows'
<1>. pair \in Pairs
  BY ImcImvAssumption DEF TypeOK
<1>1. Earned' <=> Earned
  BY EarnedKept
<1>2. CASE pair \in {"example", "clamav", "hostscanner"}
  BY <1>1, <1>2 DEF Knows
<1>3. CASE pair = "dummy"
  BY <1>1, <1>3 DEF Knows
<1>4. \A k : HeardOf(k)' = HeardOf(k)
  BY DEF HeardOf
<1>5. CASE pair = "platid"
  BY <1>4, <1>5 DEF Knows
<1>6. CASE pair = "attestation"
  <2>1. QuoteTells' <=> QuoteTells
    BY DEF QuoteTells
  <2>2. \A i : Told(i)' <=> Told(i)
    BY <1>4, <2>1 DEF Told
  <2>3. \A entries : Asked(entries)' <=> Asked(entries)
    BY <1>4 DEF Asked
  <2>4. Unasked' <=> Unasked
    BY DEF Unasked
  <2>. QED  BY <1>6, <2>2, <2>3, <2>4 DEF Knows, AttestationKnows
<1>. QED  BY <1>2, <1>3, <1>5, <1>6 DEF Pairs

-----------------------------------------------------------------------------
(* What each IMV learns from a message.                                    *)

\* The IMV's instance answers a message of the batch.
Hears(m, a) ==
    /\ turn = "deliver" /\ InHand /\ ~error /\ UNCHANGED <<pair, policy, shakes, turn, pos>>
    /\ heard' = Append(heard, m)
    /\ a \in ImvReceive(imv.st, m) /\ imv'.st = a.st
    /\ given' = IF a.give # Nothing THEN a.give ELSE given

LEMMA ExampleLearns ==
    ASSUME HInv, MInv, RInv, EInv, NEW m, NEW a, Hears(m, a), pair = "example"
    PROVE  Knows' /\ (given' = "ALLOW" => Earned')
<1>1. imv # Absent /\ DOMAIN imv.st = {"rec"} /\ Knows
  BY DEF HInv, ImvShape, Hears, EInv
<1>2. ExampleResult(imv.st, imv.round, a)
  BY <1>1, WhatExampleDoes DEF Hears, ImvReceive
<1>3. IsSeq(heard) /\ imv.round = pos /\ pos \in Nat
  BY <1>1, ImcImvAssumption DEF MInv, RInv, Hears, HInv, TypeOK
<1>4. Earned => Earned'
  BY <1>3, EarnedGrows DEF Hears, Pairs
<1>5. ~(imv.round < 1) => Earned'
  <2>. SUFFICES ASSUME ~(imv.round < 1) PROVE Earned'
    OBVIOUS
  <2>1. heard # <<>>
    BY <1>3 DEF MInv, Hears
  <2>2. Len(heard') = Len(heard) + 1 /\ Len(heard) \in Nat /\ Len(heard) # 0
    BY <1>3, <2>1, SeqAppend, SeqParts DEF Hears
  <2>. QED  BY <2>2 DEF Earned, Hears
<1>6. given' = given /\ imv'.st = a.st
  BY <1>2 DEF Hears, ExampleResult
<1>7. given = "ALLOW" => Earned
  BY DEF EInv, Hears
<1>8. imv.st.rec = "ALLOW" => Earned
  BY <1>1 DEF Knows
<1>9. imv'.st.rec = "ALLOW" => Earned'
  BY <1>2, <1>4, <1>5, <1>6, <1>8 DEF ExampleResult
<1>. QED  BY <1>4, <1>6, <1>7, <1>9 DEF Knows, Hears

\* The last word counts, and the instance goes on voicing it.
LEMMA DummyLearns ==
    ASSUME HInv, MInv, EInv, NEW m, NEW a, Hears(m, a), pair = "dummy"
    PROVE  Knows' /\ (given' = "ALLOW" => Earned')
<1>1. /\ imv # Absent /\ DOMAIN imv.st = {"rec", "cur", "max"} /\ Knows
      /\ imv.st.rec \in Rec /\ imv.st.cur \in Int /\ imv.st.max \in Int
  BY DEF HInv, ImvShape, Hears, EInv
<1>2. DummyResult(imv.st, m, a)
  BY <1>1, WhatDummyDoes DEF Hears, ImvReceive
<1>3. IsSeq(heard)
  BY DEF MInv
<1>4. /\ heard'[Len(heard) + 1] = m /\ Len(heard) \in Nat
      /\ \A i \in DOMAIN heard : heard'[i] = heard[i] /\ i < Len(heard) + 1
      /\ DOMAIN heard' = DOMAIN heard \cup {Len(heard) + 1}
  BY <1>3, SeqAppend, SeqParts DEF Hears
<1>5. m.action = "allow" => Earned'
  <2>1. DOMAIN heard = 1 .. Len(heard)
    BY <1>3, SeqParts
  <2>. QED  BY <1>4, <2>1 DEF Earned, Hears
<1>6. m.action \notin Dummy!Word /\ Earned => Earned'
  <2>. SUFFICES ASSUME m.action \notin Dummy!Word, Earned PROVE Earned'
    OBVIOUS
  <2>1. PICK i \in DOMAIN heard :
          /\ heard[i].action = "allow"
          /\ \A j \in DOMAIN heard : j > i => heard[j].action \notin Dummy!Word
    BY DEF Earned, Hears
  <2>2. /\ i \in DOMAIN heard' /\ heard'[i].action = "allow"
        /\ \A j \in DOMAIN heard' : j > i => heard'[j].action \notin Dummy!Word
    BY <1>4, <2>1
  <2>. QED  BY <2>2 DEF Earned, Hears
<1>7. a.st.rec = "ALLOW" => m.action = "allow" \/ (m.action \notin Dummy!Word /\ imv.st.rec = "ALLOW")
  BY <1>2 DEF DummyResult, Dummy!RecOf, Dummy!Word
<1>8. imv'.st.rec = "ALLOW" => Earned'
  BY <1>1, <1>5, <1>6, <1>7 DEF Knows, Hears
<1>9. given' # Nothing => given' = imv'.st.rec /\ imv'.st.cur = imv'.st.max
  <2>1. a.st.rec \in Rec /\ a.st.max = imv.st.max /\ imv'.st = a.st
    BY <1>1, <1>2 DEF DummyResult, Dummy!RecOf, Rec, Hears
  <2>2. CASE a.st.cur = imv.st.max
    BY <1>2, <2>1, <2>2 DEF DummyResult, Hears, Rec, Nothing, NoRec
  <2>3. CASE a.st.cur # imv.st.max
    <3>1. given' = given
      BY <1>2, <2>3 DEF DummyResult, Hears
    <3>2. imv.st.cur # imv.st.max
      BY <1>1, <1>2, <2>3 DEF DummyResult
    <3>3. given = Nothing
      BY <1>1, <3>2 DEF Knows, Hears
    <3>. QED  BY <3>1, <3>3
  <2>. QED  BY <2>2, <2>3
<1>10. given' = "ALLOW" => Earned'
  BY <1>8, <1>9 DEF Nothing
<1>. QED  BY <1>8, <1>9, <1>10 DEF Knows, Hears

LEMMA PlatidLearns ==
    ASSUME HInv, MInv, EInv, NEW m, NEW a, Hears(m, a), pair = "platid"
    PROVE  Knows' /\ (given' = "ALLOW" => Earned')
<1>1. imv # Absent /\ DOMAIN imv.st = {"sent", "good", "cert", "nonce"} /\ Knows
  BY DEF HInv, ImvShape, Hears, EInv
<1>2. PlatidResult(imv.st, policy, m, Nonce, a)
  BY <1>1, WhatPlatidDoes DEF Hears, ImvReceive
<1>3. IsSeq(heard)
  BY DEF MInv
<1>4. Earned => Earned'
  BY <1>3, EarnedGrows DEF Hears, Pairs
<1>5. \A k : HeardOf(k) \subseteq HeardOf(k)' /\ (m.kind = k => m \in HeardOf(k)')
  BY <1>3, HeardGrows DEF Hears
<1>6. imv'.st = a.st /\ shakes' = shakes /\ pair' = "platid" /\ policy' = policy
  BY DEF Hears
<1>n. Nonce[1] = shakes
  BY DEF Nonce
<1>k. imv.st.sent /\ imv.st.good => /\ imv.st.nonce[1] = shakes
                                    /\ \E c \in HeardOf("cert") : c.cert = imv.st.cert
  BY <1>1 DEF Knows
<1>7. Knows'
  <2>1. CASE a.st.good = FALSE
    BY <1>6, <2>1 DEF Knows
  <2>2. CASE m.kind = "cert" /\ a.st.cert = m.cert /\ a.st.nonce = Nonce
    <3>1. m \in HeardOf("cert")'
      BY <1>5, <2>2
    <3>2. imv'.st.nonce[1] = shakes' /\ \E c \in HeardOf("cert")' : c.cert = imv'.st.cert
      BY <1>6, <1>n, <2>2, <3>1
    <3>. QED  BY <1>6, <3>2 DEF Knows
  <2>3. CASE a.st = imv.st
    <3>1. HeardOf("cert") \subseteq HeardOf("cert")'
      BY <1>5
    <3>2. imv'.st.sent /\ imv'.st.good =>
            /\ imv'.st.nonce[1] = shakes'
            /\ \E c \in HeardOf("cert")' : c.cert = imv'.st.cert
      BY <1>6, <1>k, <2>3, <3>1
    <3>. QED  BY <1>6, <3>2 DEF Knows
  <2>. QED  BY <1>2, <2>1, <2>2, <2>3 DEF PlatidResult
<1>8. a.give = "ALLOW" => Earned'
  <2>. SUFFICES ASSUME a.give = "ALLOW" PROVE Earned'
    OBVIOUS
  <2>1. imv.st.sent /\ imv.st.good /\ Platid!Verified(imv.st, policy, m)
    BY <1>2 DEF PlatidResult
  <2>2. /\ imv.st.cert \in policy /\ m.kind = "sig" /\ m.key = imv.st.cert
        /\ m.nonce = imv.st.nonce
    BY <2>1 DEF Platid!Verified
  <2>3. m \in HeardOf("sig")' /\ HeardOf("cert") \subseteq HeardOf("cert")'
    BY <1>5, <2>2
  <2>4. PICK c \in HeardOf("cert") : c.cert = imv.st.cert
    BY <1>k, <2>1
  <2>5. c \in HeardOf("cert")' /\ c.cert \in policy' /\ m.key = c.cert /\ m.nonce[1] = shakes'
    BY <1>6, <1>k, <2>1, <2>2, <2>3, <2>4
  <2>. QED  BY <1>6, <2>3, <2>5 DEF Earned
<1>9. given = "ALLOW" => Earned
  BY DEF EInv, Hears
<1>. QED  BY <1>4, <1>7, <1>8, <1>9 DEF Hears

\* Among numbers of as many digits the comparison of strings is that of numbers.
LEMMA DigitsOrder ==
    ASSUME NEW v \in 0 .. 99, NEW w \in 0 .. 99, v < w,
           Len(Clamav!Digits(v)) = Len(Clamav!Digits(w))
    PROVE  Clamav!StringLess(v, w)
<1>1. \A x, y : Len(<<x>>) = 1 /\ Len(<<x, y>>) = 2
  OBVIOUS
<1>2. CASE v < 10 /\ w < 10
  <2>1. Clamav!Digits(v) = <<v>> /\ Clamav!Digits(w) = <<w>>
    BY <1>2 DEF Clamav!Digits
  <2>. QED  BY <2>1 DEF Clamav!StringLess
<1>3. CASE ~(v < 10) /\ ~(w < 10)
  <2>1. /\ Clamav!Digits(v) = <<v \div 10, v % 10>>
        /\ Clamav!Digits(w) = <<w \div 10, w % 10>>
    BY <1>3 DEF Clamav!Digits
  <2>2. \/ v \div 10 < w \div 10
        \/ v \div 10 = w \div 10 /\ v % 10 < w % 10
    OBVIOUS
  <2>. QED  BY <1>1, <2>1, <2>2 DEF Clamav!StringLess
<1>4. CASE ~(v < 10 <=> w < 10)
  BY <1>1, <1>4 DEF Clamav!Digits
<1>. QED  BY <1>2, <1>3, <1>4

\* A report that satisfies the entries the IMV has contains nothing that the
\* policy excludes.
LEMMA NothingExcluded ==
    ASSUME TypeOK, pair = "clamav", NEW m, Clamav!Numbers(m.versions),
           LocallySatisfied({e \in policy.entries : Clamav!Supported(e)}, m),
           NEW e \in policy.entries
    PROVE  ~Excludes(e, m)
<1>. SUFFICES ASSUME Excludes(e, m) PROVE FALSE
  OBVIOUS
<1>1. e.key \in Clamav!Lines(m)
  BY DEF Excludes
<1>2. Clamav!Supported(e) => Clamav!Satisfied(e, m)
  BY <1>1 DEF LocallySatisfied
<1>3. CASE e.key = Clamav!StatusKey
  <2>1. Clamav!Supported(e) /\ (e.op = "=" \/ e.op = "!=")
    BY <1>3 DEF Excludes, Clamav!Supported
  <2>. QED  BY <1>2, <1>3, <2>1 DEF Excludes, Clamav!Satisfied
<1>4. CASE e.key # Clamav!StatusKey
  <2>. DEFINE v == m.versions[e.key]
  <2>1. e.op \in {"=", ">", ">="} /\ Below(v, e.value)
    BY <1>4 DEF Excludes
  <2>2. Clamav!CompareVersionStrings(v, e.value)
    BY <1>2, <1>4, <2>1 DEF Clamav!Supported, Clamav!Satisfied
  <2>3. e.key \in DOMAIN m.versions
    BY <1>1, <1>4 DEF Clamav!Lines
  <2>4. Clamav!Number(v) /\ Clamav!Number(e.value)
    BY <1>4, <2>3, ImcImvAssumption DEF TypeOK, Clamav!Numbers
  <2>5. PICK k \in DOMAIN v \cap DOMAIN e.value :
          v[k] < e.value[k] /\ Len(Clamav!Digits(v[k])) = Len(Clamav!Digits(e.value[k]))
    BY <2>1 DEF Below
  <2>6. v[k] \in 0 .. 99 /\ e.value[k] \in 0 .. 99
    BY <2>4, <2>5 DEF Clamav!Number
  <2>7. Clamav!StringLess(v[k], e.value[k])
    BY <2>5, <2>6, DigitsOrder
  <2>. QED  BY <2>2, <2>5, <2>7 DEF Clamav!CompareVersionStrings
<1>. QED  BY <1>3, <1>4

LEMMA ClamavLearns ==
    ASSUME HInv, MInv, EInv, NEW m, m.kind = "report", Clamav!Numbers(m.versions),
           NEW a, Hears(m, a), pair = "clamav"
    PROVE  Knows' /\ (given' = "ALLOW" => Earned')
<1>1. imv # Absent /\ DOMAIN imv.st = {"rec", "entries"} /\ Knows
  BY DEF HInv, ImvShape, Hears, EInv
<1>2. ClamavResult(imv.st, policy, m, a)
  BY <1>1, WhatClamavDoes DEF Hears, ImvReceive
<1>3. IsSeq(heard)
  BY DEF MInv
<1>4. Earned => Earned'
  BY <1>3, EarnedGrows DEF Hears, Pairs
<1>5. m \in HeardOf("report")'
  BY <1>3, HeardGrows DEF Hears
<1>6. imv'.st = a.st /\ pair' = "clamav" /\ policy' = policy
  BY DEF Hears
<1>7. imv.st.entries = {e \in policy.entries : Clamav!Supported(e)}
  BY <1>1 DEF Knows
<1>8. a.give = "ALLOW" => Earned'
  <2>. SUFFICES ASSUME a.give = "ALLOW" PROVE Earned'
    OBVIOUS
  <2>1. CASE policy.pdp
    BY <1>6, <2>1 DEF Earned
  <2>2. CASE LocallySatisfied(imv.st.entries, m)
    <3>1. \A e \in policy.entries : ~Excludes(e, m)
      BY <1>7, <2>2, NothingExcluded DEF HInv
    <3>2. \A e \in policy'.entries : ~Excludes(e, m)'
      BY <1>6, <3>1 DEF Excludes, Below
    <3>. QED  BY <1>5, <1>6, <3>2 DEF Earned
  <2>. QED  BY <1>2, <2>1, <2>2 DEF ClamavResult
<1>9. given = "ALLOW" => Earned
  BY DEF EInv, Hears
<1>10. imv.st.rec = "ALLOW" => Earned
  BY <1>1 DEF Knows
<1>11. a.st.rec = "ALLOW" => Earned'
  BY <1>2, <1>4, <1>8, <1>10 DEF ClamavResult
<1>12. imv'.st.entries = {e \in policy'.entries : Clamav!Supported(e)}
  BY <1>2, <1>6, <1>7 DEF ClamavResult
<1>13. Knows'
  BY <1>6, <1>11, <1>12 DEF Knows
<1>. QED  BY <1>4, <1>8, <1>9, <1>13 DEF Hears

LEMMA HostScannerLearns ==
    ASSUME HInv, MInv, EInv, NEW m, NEW a, Hears(m, a), pair = "hostscanner"
    PROVE  Knows' /\ (given' = "ALLOW" => Earned')
<1>1. imv # Absent /\ DOMAIN imv.st = {"rec", "count", "policys"} /\ Knows
  BY DEF HInv, ImvShape, Hears, EInv
<1>2. HostScannerResult(imv.st, m, a)
  BY <1>1, WhatHostScannerDoes DEF Hears, ImvReceive
<1>3. IsSeq(heard)
  BY DEF MInv
<1>4. Earned => Earned'
  BY <1>3, EarnedGrows DEF Hears, Pairs
<1>5. m.kind = "report" => m \in HeardOf("report")'
  BY <1>3, HeardGrows DEF Hears
<1>6. imv'.st = a.st /\ pair' = "hostscanner" /\ policy' = policy
  BY DEF Hears
<1>7. imv.st.policys = policy.ports /\ (imv.st.rec = "ALLOW" => Earned)
  BY <1>1 DEF Knows
<1>8. m.kind = "report" /\ ~HostScanner!Contradicts(imv.st.policys, m.ports) => Earned'
  BY <1>5, <1>6, <1>7 DEF Earned
<1>9. given = "ALLOW" => Earned
  BY DEF EInv, Hears
<1>10. a.st.rec = "ALLOW" \/ a.give = "ALLOW" => Earned'
  BY <1>2, <1>4, <1>7, <1>8 DEF HostScannerResult, NoRec
<1>11. Knows'
  BY <1>2, <1>6, <1>7, <1>10 DEF Knows, HostScannerResult
<1>. QED  BY <1>4, <1>9, <1>10, <1>11 DEF Hears


-----------------------------------------------------------------------------
(* The attestation IMV's quotes.                                           *)

\* What a quote of one register says of it.
LEMMA QuoteOfOne ==
    ASSUME NEW e, e.index \in Nat, NEW n
    PROVE  LET d == Attestation!Expected(<<e>>, n) IN
           /\ d.nonce = n /\ e.index \in d.mask /\ QuotedValue(d, e.index) = e.value
<1>. DEFINE d == Attestation!Expected(<<e>>, n)
<1>1. DOMAIN <<e>> = {1} /\ <<e>>[1] = e
  OBVIOUS
<1>2. /\ d.mask = {<<e>>[i].index : i \in DOMAIN <<e>>} /\ d.nonce = n
      /\ d.values = [i \in DOMAIN <<e>> |-> <<e>>[i].value]
  BY DEF Attestation!Expected
<1>3. d.mask = {e.index} /\ d.values = [i \in {1} |-> e.value]
  BY <1>1, <1>2
<1>. HIDE DEF d
<1>4. {j \in d.mask : j <= e.index} = {e.index}
  BY <1>3
<1>5. Cardinality({j \in d.mask : j <= e.index}) = 1
  BY <1>4, FS_Singleton
<1>6. d.values[1] = e.value
  BY <1>3
<1>7. QuotedValue(d, e.index) = e.value
  BY <1>5, <1>6 DEF QuotedValue
<1>. QED  BY <1>2, <1>3, <1>7 DEF d

Tells(entries, n, i) ==
    LET d == Attestation!Expected(entries, n) IN
    /\ d.nonce = n /\ entries[i].index \in d.mask
    /\ ByIndex(entries) => QuotedValue(d, entries[i].index) = entries[i].value

\* What a quote of all registers of a policy in ascending order says of each.
LEMMA QuoteOfAll ==
    ASSUME NEW entries, IsSeq(entries), \A i \in DOMAIN entries : entries[i].index \in Nat,
           NEW n, NEW i \in DOMAIN entries
    PROVE  Tells(entries, n, i)
<1>. DEFINE d == Attestation!Expected(entries, n)
            below == {j \in d.mask : j <= entries[i].index}
            f == [k \in 1 .. i |-> entries[k].index]
<1>1. /\ d.mask = {entries[k].index : k \in DOMAIN entries} /\ d.nonce = n
      /\ d.values = [k \in DOMAIN entries |-> entries[k].value]
  BY DEF Attestation!Expected
<1>. HIDE DEF d
<1>2. DOMAIN entries = 1 .. Len(entries) /\ Len(entries) \in Nat /\ i \in Nat
  BY SeqParts
<1>3. ASSUME ByIndex(entries) PROVE f \in Bijection(1 .. i, below)
  <2>1. \A j, k \in DOMAIN entries : j < k => entries[j].index < entries[k].index
    BY <1>3 DEF ByIndex
  <2>2. \A k \in 1 .. i : k \in DOMAIN entries /\ (k = i \/ k < i)
    BY <1>2
  <2>3. \A k \in 1 .. i : f[k] = entries[k].index /\ f[k] \in below
    BY <1>1, <1>2, <2>1, <2>2
  <2>4. ASSUME NEW j \in 1 .. i, NEW k \in 1 .. i, f[j] = f[k] PROVE j = k
    <3>1. entries[j].index = entries[k].index /\ entries[j].index \in Nat
          /\ j \in DOMAIN entries /\ k \in DOMAIN entries
      BY <2>2, <2>3, <2>4
    <3>2. ~(j < k) /\ ~(k < j)
      BY <2>1, <3>1
    <3>. QED  BY <3>2
  <2>5. ASSUME NEW x \in below PROVE \E k \in 1 .. i : f[k] = x
    <3>1. PICK k \in DOMAIN entries : entries[k].index = x
      BY <1>1
    <3>2. ~(i < k)
      BY <2>1, <3>1
    <3>3. k \in 1 .. i
      BY <1>2, <3>2
    <3>. QED  BY <2>3, <3>1, <3>3
  <2>6. f \in [1 .. i -> below]
    BY <2>3
  <2>. HIDE DEF f, below
  <2>. QED  BY <2>4, <2>5, <2>6 DEF Bijection, Injection, Surjection, IsInjective
<1>4. ByIndex(entries) => Cardinality(below) = i
  <2>. SUFFICES ASSUME ByIndex(entries) PROVE Cardinality(below) = i
    OBVIOUS
  <2>1. ExistsBijection(1 .. i, below)
    BY <1>3 DEF ExistsBijection
  <2>2. IsFiniteSet(1 .. i) /\ Cardinality(1 .. i) = i
    BY <1>2, FS_Interval
  <2>. QED  BY <1>2, <2>1, <2>2, FS_Bijection
<1>. QED  BY <1>1, <1>4 DEF d, QuotedValue, Tells


LEMMA PolicyEntries ==
    ASSUME TypeOK, pair = "attestation"
    PROVE  IsSeq(policy.entries) /\ \A i \in DOMAIN policy.entries : policy.entries[i].index \in Nat
<1>1. "attestation" \in DOMAIN Policies /\ policy \in Policies["attestation"]
  BY ImcImvAssumption DEF TypeOK
<1>. QED  BY <1>1, ImcImvAssumption DEF IsSeq

LEMMA ToldGrows ==
    ASSUME UNCHANGED <<policy, shakes>>, HeardOf("quote") \subseteq HeardOf("quote")',
           imv'.st.cert = imv.st.cert, NEW i, Told(i)
    PROVE  Told(i)'
<1>1. QuoteTells' <=> QuoteTells
  BY DEF QuoteTells
<1>. QED  BY <1>1 DEF Told

LEMMA AskedGrows ==
    ASSUME UNCHANGED <<policy, shakes>>, HeardOf("cert") \subseteq HeardOf("cert")',
           imv'.st.cert = imv.st.cert, imv'.st.digest = imv.st.digest, NEW entries, Asked(entries)
    PROVE  Asked(entries)'
  BY DEF Asked

\* With every register of the policy told, the endpoint has earned access.
LEMMA AllTold ==
    ASSUME pair' = "attestation", imv'.st.cert \in policy'.aiks,
           \E c \in HeardOf("cert")' : c.cert = imv'.st.cert,
           \A i \in DOMAIN policy'.entries : Told(i)'
    PROVE  Earned'
<1>1. PICK c \in HeardOf("cert")' : c.cert = imv'.st.cert
  OBVIOUS
<1>2. \A i \in DOMAIN policy'.entries :
        \E q \in HeardOf("quote")' :
          LET e == policy'.entries[i] IN
          /\ q.key = c.cert /\ q.digest.nonce[1] = shakes'
          /\ e.index \in q.digest.mask
          /\ QuoteTells' => QuotedValue(q.digest, e.index) = e.value
  BY <1>1 DEF Told
<1>. QED  BY <1>1, <1>2 DEF Earned

LEMMA AttestationLearns ==
    ASSUME HInv, MInv, EInv, NEW m, NEW a, Hears(m, a), pair = "attestation"
    PROVE  Knows' /\ (given' = "ALLOW" => Earned')
<1>. DEFINE st == imv.st
            nonce == Nonce
            entries == policy.entries
<1>1. /\ imv # Absent /\ DOMAIN st = ImvFields /\ st.current \in Nat
      /\ AttestationKnows
  BY DEF HInv, ImvShape, ImvFields, Hears, EInv, Knows
<1>2. AttestationResult(st, policy, m, nonce, a)
  <2>1. a \in Attestation!ImvReceive(st, policy, m, nonce)
    BY DEF Hears, ImvReceive
  <2>2. Len(entries) \in Nat
    BY PolicyEntries, SeqParts DEF HInv
  <2>. HIDE DEF st, nonce
  <2>. QED  BY <1>1, <2>1, <2>2, WhatAttestationDoes
<1>3. IsSeq(heard)
  BY DEF MInv
<1>4. Earned => Earned'
  BY <1>3, EarnedGrows DEF Hears, Pairs
<1>5. \A k : HeardOf(k) \subseteq HeardOf(k)' /\ (m.kind = k => m \in HeardOf(k)')
  BY <1>3, HeardGrows DEF Hears
<1>6. /\ imv'.st = a.st /\ shakes' = shakes /\ pair' = "attestation" /\ policy' = policy
      /\ turn = "deliver" /\ turn' = "deliver" /\ nonce[1] = shakes
  BY DEF Hears, Nonce
<1>7. given = "ALLOW" => Earned
  BY DEF EInv, Hears
<1>8. /\ IsSeq(entries) /\ Len(entries) \in Nat /\ DOMAIN entries = 1 .. Len(entries)
      /\ \A i \in DOMAIN entries : entries[i].index \in Nat
  BY PolicyEntries, SeqParts DEF HInv
\* The first message decides for good whether anything is asked.
<1>9. /\ heard' # <<>> /\ (heard = <<>> => heard'[1] = m)
      /\ heard # <<>> /\ Unasked => Unasked' /\ Earned'
  <2>1. /\ IsSeq(heard') /\ Len(heard') = Len(heard) + 1 /\ Len(heard) \in Nat
        /\ heard'[Len(heard) + 1] = m /\ \A i \in DOMAIN heard : heard'[i] = heard[i]
        /\ DOMAIN heard = 1 .. Len(heard)
    BY <1>3, SeqAppend, SeqParts DEF Hears
  <2>2. heard' # <<>>
    BY <2>1, SeqParts, Short
  <2>3. heard = <<>> => heard'[1] = m
    BY <2>1, Short
  <2>4. ASSUME heard # <<>>, Unasked PROVE Unasked' /\ Earned'
    <3>1. Len(heard) # 0
      BY <1>3, <2>4, SeqParts
    <3>2. heard'[1] = heard[1] /\ Len(heard') > 1
      BY <2>1, <3>1
    <3>3. Unasked'
      BY <1>6, <2>4, <3>2 DEF Unasked
    <3>. QED  BY <1>6, <3>2, <3>3 DEF Earned
  <2>. QED  BY <2>2, <2>3, <2>4
<1>. HIDE DEF nonce
\* What was known before: it has been asked for all registers or for one.
<1>10. ASSUME Content(st, m), ~(heard # <<>> /\ Unasked)
       PROVE  /\ \/ /\ policy.quoteType = "complete" /\ st.mode = "complete"
                    /\ Asked(entries)
                 \/ /\ policy.quoteType = "single" /\ st.mode = "single" /\ st.current >= 1
                    /\ Asked(<<entries[st.current]>>)
                    /\ \A i \in DOMAIN entries : i < st.current => Told(i)
              /\ m \in HeardOf("quote")' /\ m.key = st.cert /\ m.digest = st.digest
              /\ m.digest.nonce[1] = shakes
  <2>1. st.good /\ ~st.first /\ m.kind = "quote" /\ m.key = st.cert /\ m.digest = st.digest
    BY <1>10 DEF Content, Attestation!GoodQuote
  <2>2. \/ policy.quoteType = "complete" /\ st.mode = "complete" /\ Asked(entries)
        \/ /\ policy.quoteType = "single" /\ st.mode = "single" /\ st.current >= 1
           /\ Asked(<<entries[st.current]>>)
           /\ \A i \in DOMAIN entries : i < st.current => Told(i)
    BY <1>1, <1>10, <2>1 DEF AttestationKnows
  <2>3. st.digest.nonce[1] = shakes
    BY <2>2 DEF Asked
  <2>. QED  BY <1>5, <2>1, <2>2, <2>3
\* The quote tells the register asked for last.
<1>11. ASSUME Content(st, m), ~(heard # <<>> /\ Unasked), a.st.cert = st.cert, policy.quoteType = "single"
       PROVE  \A i \in DOMAIN entries : i <= st.current => Told(i)'
  <2>1. ASSUME NEW i \in DOMAIN entries, i < st.current PROVE Told(i)'
    BY <1>5, <1>6, <1>10, <1>11, <2>1, ToldGrows
  <2>2. ASSUME NEW i \in DOMAIN entries, i = st.current PROVE Told(i)'
    <3>. DEFINE e == entries[i]
    <3>1. e.index \in Nat
      BY <1>8, <2>2
    <3>2. m.digest = Attestation!Expected(<<e>>, st.digest.nonce)
      BY <1>10, <1>11, <2>2 DEF Asked
    <3>. HIDE DEF e
    <3>3. e.index \in m.digest.mask /\ QuotedValue(m.digest, e.index) = e.value
      BY <3>1, <3>2, QuoteOfOne
    <3>4. m \in HeardOf("quote")' /\ m.key = imv'.st.cert /\ m.digest.nonce[1] = shakes'
      BY <1>6, <1>10, <1>11
    <3>5. e = policy'.entries[i]
      BY <1>6 DEF e
    <3>. QED  BY <3>3, <3>4, <3>5 DEF Told
  <2>3. \A i \in DOMAIN entries : i <= st.current => i < st.current \/ i = st.current
    BY <1>1, <1>8
  <2>. QED  BY <2>1, <2>2, <2>3
\* The quote of all registers tells each of them.
<1>12. ASSUME Content(st, m), ~(heard # <<>> /\ Unasked), a.st.cert = st.cert, policy.quoteType = "complete"
       PROVE  \A i \in DOMAIN entries : Told(i)'
  <2>1. PICK n : m.digest = Attestation!Expected(entries, n)
    BY <1>10, <1>12 DEF Asked
  <2>2. QuoteTells' => ByIndex(entries)
    BY <1>6, <1>12 DEF QuoteTells
  <2>3. entries = policy'.entries
    BY <1>6
  <2>. HIDE DEF entries
  <2>4. ASSUME NEW i \in DOMAIN entries
        PROVE  /\ entries[i].index \in m.digest.mask
               /\ ByIndex(entries) => QuotedValue(m.digest, entries[i].index) = entries[i].value
    <3>1. Tells(entries, n, i)
      BY <1>8, QuoteOfAll
    <3>. QED  BY <2>1, <3>1 DEF Tells
  <2>5. m \in HeardOf("quote")' /\ m.key = imv'.st.cert /\ m.digest.nonce[1] = shakes'
    BY <1>6, <1>10, <1>12
  <2>. QED  BY <2>2, <2>3, <2>4, <2>5 DEF Told
<1>13. CASE Refuses(a)
  <2>1. Knows'
    BY <1>6, <1>13 DEF Refuses, Knows, AttestationKnows
  <2>. QED  BY <1>4, <1>7, <1>13, <2>1 DEF Refuses, Hears
<1>14. CASE Declines(st, policy, m, a)
  <2>1. a.st.good => Unasked'
    <3>. SUFFICES ASSUME a.st.good PROVE Unasked'
      OBVIOUS
    <3>1. st.good => heard = <<>>
      BY <1>1, <1>14 DEF Declines, AttestationKnows
    <3>2. CASE st.good
      BY <1>6, <1>9, <1>14, <3>1, <3>2 DEF Declines, Known, Unasked
    <3>. QED  BY <1>14, <3>2 DEF Declines
  <2>2. Knows'
    BY <1>6, <1>9, <1>14, <2>1 DEF Declines, Knows, AttestationKnows
  <2>. QED  BY <1>4, <1>7, <1>14, <2>2 DEF Declines, Hears
<1>18. CASE Stays(st, a)
  <2>0. a.st = st /\ ~st.first
    BY <1>18 DEF Stays
  <2>1. \A asked : Asked(asked) => Asked(asked)'
    BY <1>5, <1>6, <2>0, AskedGrows
  <2>2. \A i : Told(i) => Told(i)'
    BY <1>5, <1>6, <2>0, ToldGrows
  <2>3. AttestationKnows'
    <3>1. CASE ~st.good \/ (heard # <<>> /\ Unasked)
      BY <1>6, <1>9, <2>0, <3>1 DEF AttestationKnows
    <3>2. CASE policy.quoteType = "complete" /\ st.mode = policy.quoteType /\ Asked(entries)
      BY <1>6, <2>0, <2>1, <3>2 DEF AttestationKnows
    <3>3. CASE /\ policy.quoteType = "single" /\ st.mode = policy.quoteType
               /\ st.current >= 1 /\ Asked(<<entries[st.current]>>)
               /\ \A i \in DOMAIN entries : i < st.current => Told(i)
      <4>1. Asked(<<policy.entries[imv.st.current]>>)'
        BY <1>6, <2>0, <2>1, <3>3 DEF Asked
      <4>2. \A i \in DOMAIN policy'.entries : i < imv'.st.current => Told(i)'
        BY <1>6, <2>0, <2>2, <3>3
      <4>. QED  BY <1>6, <2>0, <3>3, <4>1, <4>2 DEF AttestationKnows
    <3>. QED  BY <1>1, <2>0, <3>1, <3>2, <3>3 DEF AttestationKnows
  <2>. QED  BY <1>4, <1>6, <1>7, <1>18, <2>3 DEF Knows, Stays, Hears
<1>15. CASE BeginsToAsk(st, policy, m, nonce, a)
  <2>1. ASSUME NEW asked, Asks(a, asked, nonce) PROVE Asked(asked)'
    <3>1. a.st.digest = Attestation!Expected(asked, nonce)
      BY <2>1 DEF Asks
    <3>2. a.st.digest.nonce = nonce
      BY <3>1 DEF Attestation!Expected
    <3>3. m \in HeardOf("cert")' /\ m.cert = a.st.cert /\ m.cert \in policy'.aiks
      BY <1>5, <1>6, <1>15 DEF BeginsToAsk
    <3>. QED  BY <1>6, <3>1, <3>2, <3>3 DEF Asked
  <2>2. a.give = Nothing /\ AttestationKnows'
    <3>1. CASE policy.quoteType = "complete" /\ Asks(a, entries, nonce)
      <4>1. Asked(entries)'
        BY <1>6, <2>1, <3>1 DEF Asked
      <4>. QED  BY <1>6, <1>15, <3>1, <4>1 DEF AttestationKnows, Asks, BeginsToAsk
    <3>2. CASE policy.quoteType = "single" /\ Asks(a, <<entries[1]>>, nonce) /\ a.st.current = 1
      <4>2. Asked(<<policy.entries[imv.st.current]>>)'
        BY <1>6, <2>1, <3>2 DEF Asked
      <4>3. \A i \in DOMAIN policy'.entries : ~(i < imv'.st.current)
        BY <1>6, <1>8, <3>2
      <4>. QED  BY <1>6, <1>15, <3>2, <4>2, <4>3 DEF AttestationKnows, Asks, BeginsToAsk
    <3>. QED  BY <1>15, <3>1, <3>2 DEF BeginsToAsk
  <2>. QED  BY <1>4, <1>6, <1>7, <2>2 DEF Knows, Hears
<1>16. CASE GoesOnAsking(st, policy, m, nonce, a) /\ heard # <<>> /\ Unasked
  BY <1>4, <1>6, <1>7, <1>9, <1>16 DEF GoesOnAsking, Asks, Knows, AttestationKnows, Hears
<1>19. CASE GoesOnAsking(st, policy, m, nonce, a) /\ ~(heard # <<>> /\ Unasked)
  <2>0. /\ Content(st, m) /\ st.mode # "complete" /\ a.give = Nothing
        /\ a.st.cert = st.cert /\ a.st.mode = st.mode
    BY <1>19 DEF GoesOnAsking, Asks
  <2>2. /\ policy.quoteType = "single" /\ st.mode = "single" /\ st.current >= 1
        /\ Asked(<<entries[st.current]>>)
    BY <1>10, <1>19, <2>0
  <2>1. /\ Content(st, m) /\ a.give = Nothing
        /\ a.st.current = st.current + 1 /\ a.st.cert = st.cert /\ ~a.st.first
        /\ a.st.digest = Attestation!Expected(<<entries[st.current + 1]>>, nonce)
    BY <1>1, <1>19, <2>2 DEF GoesOnAsking, Asks
  <2>3. \A i \in DOMAIN entries : i < a.st.current => Told(i)'
    BY <1>1, <1>8, <1>11, <1>19, <2>1, <2>2
  <2>4. a.st.digest.nonce = nonce
    BY <2>1 DEF Attestation!Expected
  <2>5. /\ a.st.cert \in policy'.aiks
        /\ \E c \in HeardOf("cert")' : c.cert = a.st.cert
    BY <1>5, <1>6, <2>1, <2>2 DEF Asked
  <2>6. Asked(<<policy.entries[imv.st.current]>>)'
    BY <1>6, <2>1, <2>4, <2>5 DEF Asked
  <2>7. imv'.st.current >= 1
    BY <1>1, <1>6, <2>1
  <2>8. AttestationKnows'
    BY <1>6, <2>0, <2>1, <2>2, <2>3, <2>6, <2>7 DEF AttestationKnows
  <2>. QED  BY <1>4, <1>6, <1>7, <2>1, <2>8 DEF Knows, Hears
<1>17. CASE Allows(st, policy, m, a) /\ heard # <<>> /\ Unasked
  BY <1>6, <1>9, <1>17 DEF Allows, Content, Knows, AttestationKnows
<1>20. CASE Allows(st, policy, m, a) /\ ~(heard # <<>> /\ Unasked)
  <2>1. Content(st, m) /\ a.st = st /\ ~st.first
    BY <1>20 DEF Allows, Content
  <2>k. \/ policy.quoteType = "complete" /\ st.mode = "complete" /\ Asked(entries)
        \/ /\ policy.quoteType = "single" /\ st.mode = "single" /\ st.current >= 1
           /\ Asked(<<entries[st.current]>>)
    BY <1>10, <1>20, <2>1
  <2>a. policy.quoteType = "complete" \/ ~(st.current + 1 <= Len(entries))
    BY <1>1, <1>20, <2>k DEF Allows, Nothing
  <2>2. st.cert \in policy.aiks /\ \E c \in HeardOf("cert") : c.cert = st.cert
    BY <2>k DEF Asked
  <2>3. \A i \in DOMAIN entries : Told(i)'
    <3>1. CASE policy.quoteType = "complete"
      BY <1>12, <1>20, <2>1, <3>1
    <3>2. CASE policy.quoteType # "complete"
      <4>1. policy.quoteType = "single" /\ ~(st.current + 1 <= Len(entries))
        BY <2>a, <2>k, <3>2
      <4>2. \A i \in DOMAIN entries : i <= st.current
        BY <1>1, <1>8, <4>1
      <4>. QED  BY <1>11, <1>20, <2>1, <4>1, <4>2
    <3>. QED  BY <3>1, <3>2
  <2>4. imv'.st.cert \in policy'.aiks /\ \E c \in HeardOf("cert")' : c.cert = imv'.st.cert
    BY <1>5, <1>6, <2>1, <2>2
  <2>5. Earned'
    BY <1>6, <2>3, <2>4, AllTold
  <2>6. \A asked : Asked(asked) => Asked(asked)'
    BY <1>5, <1>6, <2>1, AskedGrows
  <2>7. AttestationKnows'
    <3>1. CASE policy.quoteType = "complete" /\ st.mode = "complete" /\ Asked(entries)
      BY <1>6, <2>1, <2>6, <3>1 DEF AttestationKnows
    <3>2. CASE /\ policy.quoteType = "single" /\ st.mode = "single" /\ st.current >= 1
               /\ Asked(<<entries[st.current]>>)
      <4>1. Asked(<<policy.entries[imv.st.current]>>)'
        BY <1>6, <2>1, <2>6, <3>2 DEF Asked
      <4>. QED  BY <1>6, <2>1, <2>3, <3>2, <4>1 DEF AttestationKnows
    <3>. QED  BY <2>k, <3>1, <3>2
  <2>. QED  BY <1>6, <2>5, <2>7 DEF Knows
<1>. QED
  BY <1>2, <1>13, <1>14, <1>15, <1>16, <1>17, <1>18, <1>19, <1>20 DEF AttestationResult, AttestationStep

-----------------------------------------------------------------------------
(* Access is earned: EInv.                                                 *)

LEMMA EInit == Init => EInv
  BY DEF Init, EInv, InHand, AccessIsEarned

\* Steps that neither bring the IMV a message nor begin or decide a handshake.
LEMMA EKept ==
    ASSUME HInv, EInv, UNCHANGED <<pair, policy, shakes, heard, error>>, imv'.st = imv.st,
           InHand' => InHand,
           turn' \notin {"solicit", "decide"} =>
             turn \notin {"solicit", "decide"} /\ given' = given,
           InHand' /\ given' = "ALLOW" => Earned,
           turn' = "idle" => turn = "idle" /\ access' = access
    PROVE  EInv'
<1>1. Earned' <=> Earned
  BY EarnedKept
<1>2. InHand' /\ ~error' => Knows'
  BY KnowsKept DEF HInv, EInv
<1>3. AccessIsEarned'
  BY <1>1 DEF EInv, AccessIsEarned
<1>. QED  BY <1>1, <1>2, <1>3 DEF EInv

\* The first batch of a handshake is accepted: nothing is known yet.
LEMMA EAccept == HInv /\ MInv /\ EInv /\ Accept => EInv'
<1>. SUFFICES ASSUME HInv, MInv, EInv, Accept PROVE EInv'
  OBVIOUS
<1>1. turn' = "deliver" /\ pair' = pair /\ pair \in Pairs /\ heard' = <<>>
  BY ImcImvAssumption DEF Accept, HInv, MInv, TypeOK
<1>2. PICK pol \in PoliciesNow :
        /\ policy' = pol
        /\ IF imv = Absent
           THEN given' = NoRec /\ error' = TRUE
           ELSE \E a \in ImvHandshake(imv.st, pol) :
                  /\ Keep(a, 0)
                  /\ given' = IF a.res = "SUCCESS" THEN Nothing ELSE NoRec
  BY DEF Accept, AccessAtStart
<1>3. given' # "ALLOW" /\ AccessIsEarned'
  BY <1>1, <1>2 DEF Nothing, NoRec, AccessIsEarned
<1>4. ASSUME ~error' PROVE Knows'
  <2>1. imv # Absent /\ ImvShape(imv.st)
    BY <1>2, <1>4 DEF HInv
  <2>2. PICK a \in ImvHandshake(imv.st, pol) :
          Keep(a, 0) /\ given' = IF a.res = "SUCCESS" THEN Nothing ELSE NoRec
    BY <1>2, <2>1
  <2>3. a.res = "SUCCESS" /\ imv'.st = a.st /\ given' = Nothing
    BY <1>4, <2>2, Instances DEF Keep
  <2>4. CASE pair = "example"
    <3>1. a.st.rec = NoRec
      BY <2>1, <2>2, <2>4, AnswerFields DEF ImvHandshake, Cleared, ImvShape
    <3>. QED  BY <1>1, <2>3, <2>4, <3>1 DEF Knows, NoRec
  <2>5. CASE pair = "dummy"
    <3>1. DOMAIN Cleared(imv.st) = {"rec", "cur", "max"} /\ Cleared(imv.st).rec = NoRec
      BY <2>1, <2>5 DEF Cleared, ImvShape
    <3>2. a.st = [Cleared(imv.st) EXCEPT !.cur = 0, !.max = pol]
      BY <2>2, <2>5 DEF ImvHandshake, Dummy!ImvHandshake, Dummy!Answer
    <3>3. a.st.rec = NoRec
      BY <3>1, <3>2
    <3>. QED  BY <1>1, <2>3, <2>5, <3>3 DEF Knows, NoRec
  <2>6. CASE pair = "platid"
    <3>1. a.st = IF imv.st.sent THEN Platid!NewImv ELSE imv.st
      BY <2>2, <2>6 DEF ImvHandshake, Platid!ImvHandshake, Platid!Answer
    <3>2. ~a.st.sent
      BY <3>1 DEF Platid!NewImv
    <3>. QED  BY <1>1, <2>3, <2>6, <3>2 DEF Knows
  <2>7. CASE pair = "attestation"
    <3>1. a.st = [imv.st EXCEPT !.first = TRUE, !.good = TRUE, !.cert = Attestation!Nothing]
      BY <2>2, <2>7 DEF ImvHandshake, Attestation!ImvHandshake, Attestation!Answer
    <3>2. a.st.first
      BY <2>1, <2>7, <3>1 DEF ImvShape
    <3>. QED  BY <1>1, <2>3, <2>7, <3>2 DEF Knows, AttestationKnows
  <2>8. CASE pair = "clamav"
    <3>1. DOMAIN Cleared(imv.st) = {"rec", "entries"} /\ Cleared(imv.st).rec = NoRec
      BY <2>1, <2>8 DEF Cleared, ImvShape
    <3>2. a.st = [Cleared(imv.st) EXCEPT !.entries = {e \in pol.entries : Clamav!Supported(e)}]
      BY <2>2, <2>8 DEF ImvHandshake, Clamav!ImvHandshake, Clamav!Answer
    <3>3. a.st.rec = NoRec /\ a.st.entries = {e \in pol.entries : Clamav!Supported(e)}
      BY <3>1, <3>2
    <3>. QED  BY <1>1, <1>2, <2>3, <2>8, <3>3 DEF Knows, NoRec
  <2>9. CASE pair = "hostscanner"
    <3>. DEFINE s == [Cleared(imv.st) EXCEPT !.count = 0, !.policys = {}]
                t == [s EXCEPT !.policys = pol.ports]
    <3>1. DOMAIN Cleared(imv.st) = {"rec", "count", "policys"} /\ Cleared(imv.st).rec = NoRec
      BY <2>1, <2>9 DEF Cleared, ImvShape
    <3>2. DOMAIN s = {"rec", "count", "policys"} /\ s.rec = NoRec
      BY <3>1
    <3>3. t.rec = NoRec /\ t.policys = pol.ports
      BY <3>2
    <3>4. a = Answer(t, <<>>) \/ a = Failure(s, "OTHER")
      BY <2>2, <2>9, HostScannerAnswers DEF ImvHandshake, HostScanner!ImvHandshake
    <3>. HIDE DEF s, t
    <3>5. a.st = t
      BY <2>3, <3>4, AnswerFields
    <3>. QED  BY <1>1, <1>2, <2>3, <2>9, <3>3, <3>5 DEF Knows, NoRec
  <2>. QED  BY <1>1, <2>4, <2>5, <2>6, <2>7, <2>8, <2>9 DEF Pairs
<1>. QED  BY <1>3, <1>4 DEF EInv

LEMMA EImvGets == HInv /\ MInv /\ RInv /\ EInv /\ ImvGets => EInv'
<1>. SUFFICES ASSUME HInv, MInv, RInv, EInv, ImvGets PROVE EInv'
  OBVIOUS
<1>. DEFINE m == Head(inbox)
<1>1. /\ turn = "deliver" /\ inbox # <<>> /\ ~error /\ inbox' = Tail(inbox)
      /\ heard' = Append(heard, m)
      /\ UNCHANGED <<pair, policy, access, turn, pos, shakes>>
  BY DEF ImvGets
<1>2. PICK a \in ImvReceive(imv.st, m) :
        /\ Keep(a, imv.round)
        /\ outbox' = outbox \o a.out
        /\ given' = IF a.res # "SUCCESS" THEN NoRec
                    ELSE IF a.give # Nothing THEN a.give ELSE given
  BY DEF ImvGets
<1>3. AccessIsEarned'
  BY <1>1 DEF AccessIsEarned
<1>4. CASE a.res # "SUCCESS"
  <2>1. error' /\ given' = NoRec
    BY <1>2, <1>4 DEF Keep
  <2>. QED  BY <1>3, <2>1 DEF EInv, NoRec
<1>5. CASE a.res = "SUCCESS"
  <2>1. imv'.st = a.st /\ given' = IF a.give # Nothing THEN a.give ELSE given
    BY <1>2, <1>5, Instances DEF Keep
  <2>2. Hears(m, a)
    BY <1>1, <1>2, <2>1 DEF Hears, InHand
  <2>3. pair \in Pairs
    BY ImcImvAssumption DEF HInv, TypeOK
  <2>4. pair = "clamav" => m.kind = "report" /\ Clamav!Numbers(m.versions)
    BY <1>1, SeqTail DEF MInv, Said, Speech
  <2>. HIDE DEF m
  <2>5. Knows' /\ (given' = "ALLOW" => Earned')
    BY <1>1, <1>2, <2>2, <2>3, <2>4, ExampleLearns, DummyLearns, PlatidLearns, AttestationLearns,
       ClamavLearns, HostScannerLearns DEF Pairs
  <2>. QED  BY <1>3, <2>5 DEF EInv
<1>. QED  BY <1>4, <1>5

\* batchEnding of the host scanner only counts.
LEMMA EImvEnds == HInv /\ MInv /\ EInv /\ ImvEnds => EInv'
<1>. SUFFICES ASSUME HInv, MInv, EInv, ImvEnds PROVE EInv'
  OBVIOUS
<1>1. /\ turn = "deliver" /\ inbox' = <<>>
      /\ turn' = IF outbox # <<>> THEN "client" ELSE "solicit"
      /\ imv' = IF error THEN imv
                ELSE [st |-> ImvEnding(imv.st), round |-> imv.round + 1]
      /\ UNCHANGED <<pair, policy, shakes, heard, error, given, access, outbox>>
  BY DEF ImvEnds, past
<1>2. InHand /\ (given = "ALLOW" => Earned) /\ (~error => Knows)
  BY <1>1 DEF InHand, EInv
<1>3. CASE error \/ pair # "hostscanner"
  <2>1. imv'.st = imv.st
    BY <1>1, <1>3, Instances DEF ImvEnding
  <2>. QED  BY <1>1, <1>2, <2>1, EKept
<1>4. CASE ~error /\ pair = "hostscanner"
  <2>1. DOMAIN imv.st = {"rec", "count", "policys"}
    BY <1>2, <1>4 DEF HInv, ImvShape
  <2>2. imv'.st = [imv.st EXCEPT !.count = @ + 1]
    BY <1>1, <1>4, Instances DEF ImvEnding, HostScanner!ImvEnding
  <2>3. imv'.st.rec = imv.st.rec /\ imv'.st.policys = imv.st.policys
    BY <2>1, <2>2
  <2>4. Earned' <=> Earned
    BY <1>1, EarnedKept
  <2>5. Knows'
    BY <1>1, <1>2, <1>4, <2>3, <2>4 DEF Knows
  <2>6. AccessIsEarned'
    BY <1>1 DEF AccessIsEarned
  <2>. QED  BY <1>1, <1>2, <2>4, <2>5, <2>6 DEF EInv
<1>. QED  BY <1>3, <1>4

\* Only the functions with a stored recommendation have one to be asked for.
LEMMA ESolicit == HInv /\ EInv /\ Solicit => EInv'
<1>. SUFFICES ASSUME HInv, EInv, Solicit PROVE EInv'
  OBVIOUS
<1>1. /\ turn = "solicit" /\ turn' = "decide"
      /\ given' = IF given = Nothing THEN Solicited(imv.st) ELSE given
      /\ UNCHANGED <<pair, policy, imv, error, access, shakes, heard, inbox, outbox>>
  BY DEF Solicit, net, past
<1>2. InHand /\ (given = "ALLOW" => Earned)
  BY <1>1 DEF InHand, EInv
<1>3. given' = "ALLOW" => Earned
  <2>. SUFFICES ASSUME given' = "ALLOW", given = Nothing PROVE Earned
    BY <1>1, <1>2
  <2>1. ~error /\ Solicited(imv.st) = "ALLOW"
    BY <1>1, <1>2 DEF HInv, Nothing, NoRec
  <2>2. Knows /\ pair \in Pairs
    BY <1>2, <2>1, ImcImvAssumption DEF EInv, HInv, TypeOK
  <2>3. pair \notin {"platid", "attestation"} /\ imv.st.rec = "ALLOW"
    BY <2>1, <2>2 DEF Pairs, Solicited, Platid!Solicited, Attestation!Solicited, Platid!NoRec,
       Attestation!NoRec
  <2>. QED  BY <2>2, <2>3 DEF Knows, Pairs
<1>. QED  BY <1>1, <1>2, <1>3, EKept

LEMMA EDecide == HInv /\ EInv /\ Decide => EInv'
<1>. SUFFICES ASSUME HInv, EInv, Decide PROVE EInv'
  OBVIOUS
<1>1. /\ turn = "decide" /\ turn' = "idle"
      /\ access' = StateOf(PolicyOf([v \in {"imv"} |-> given]))
      /\ UNCHANGED <<pair, policy, shakes, heard>>
  BY DEF Decide, net, past
<1>2. access' = "ACCESS_ALLOWED" => given = "ALLOW"
  BY <1>1 DEF StateOf, PolicyOf
<1>3. Earned' <=> Earned
  BY <1>1, EarnedKept
<1>. QED  BY <1>1, <1>2, <1>3 DEF EInv, InHand, AccessIsEarned

LEMMA EStep == HInv /\ MInv /\ RInv /\ EInv /\ [Next]_ivars => EInv'
<1>. SUFFICES ASSUME HInv, MInv, RInv, EInv, [Next]_ivars PROVE EInv'
  OBVIOUS
<1>. USE DEF net, past, client, server
<1>g. InHand /\ given = "ALLOW" => Earned
  BY DEF EInv
<1>1. CASE Initialize
  BY <1>1, <1>g, EKept DEF Initialize, InHand
<1>2. CASE Create
  BY <1>2, <1>g, EKept DEF Create, InHand
<1>3. CASE Leave
  BY <1>3, <1>g, EKept DEF Leave, InHand
<1>4. CASE HostChanges
  BY <1>4, <1>g, EKept DEF HostChanges, InHand
<1>5. CASE Begin
  <2>1. turn' = "arrival" /\ pos' = 0
    BY <1>5 DEF Begin, Send
  <2>. QED  BY <2>1 DEF EInv, InHand, AccessIsEarned
<1>6. CASE LateBatch
  BY <1>6, <1>g, EKept DEF LateBatch, InHand
<1>16. CASE StrangeBatch
  BY <1>16, <1>g, EKept DEF StrangeBatch, InHand
<1>7. CASE ImcGets
  BY <1>7, <1>g, EKept DEF ImcGets, InHand
<1>8. CASE ImcEnds
  BY <1>8, <1>g, EKept DEF ImcEnds, Send, InHand
<1>9. CASE Accept
  BY <1>9, EAccept
<1>10. CASE NextBatch
  BY <1>10, <1>g, EKept DEF NextBatch, InHand
<1>11. CASE ImvGets
  BY <1>11, EImvGets
<1>12. CASE ImvEnds
  BY <1>12, EImvEnds
<1>13. CASE Solicit
  BY <1>13, ESolicit
<1>14. CASE Decide
  BY <1>14, EDecide
<1>15. CASE UNCHANGED ivars
  BY <1>15, <1>g, EKept DEF ivars, InHand
<1>. QED
  BY <1>1, <1>2, <1>3, <1>4, <1>5, <1>6, <1>7, <1>8, <1>9, <1>10, <1>11, <1>12, <1>13, <1>14,
     <1>15, <1>16 DEF Next, ImcStep, ServerStep


-----------------------------------------------------------------------------
(* The IMV's side of it.                                                   *)

\* What the IMV makes of a message it waited for.
Replies(a) ==
    LET g == IF a.give # Nothing THEN a.give ELSE given IN
    /\ a.res = "SUCCESS"
    /\ \/ a.out = <<>> /\ Settled(a.st, g)
       \/ \E r : a.out = <<r>> /\ Asking(a.st, g, r) /\ Counts(a.st, 0)

LEMMA ExampleReplies ==
    ASSUME pair = "example", DOMAIN imv.st = {"rec"}, NEW m, Due(imv.st, given, m),
           NEW a \in ImvReceive(imv.st, m)
    PROVE  Replies(a)
<1>1. given = Nothing
  BY DEF Due
<1>2. \/ a = Answer(imv.st, <<Example!Hello>>)
      \/ a = Answer([imv.st EXCEPT !.rec = "ALLOW"], <<>>)
  BY ExampleAnswers DEF ImvReceive, Example!ImvReceive
<1>3. CASE a = Answer(imv.st, <<Example!Hello>>)
  <2>1. a.st = imv.st /\ a.out = <<Example!Hello>> /\ a.give = Nothing /\ a.res = "SUCCESS"
    BY <1>3, AnswerFields
  <2>. QED  BY <1>1, <2>1 DEF Replies, Asking, Counts
<1>4. CASE a = Answer([imv.st EXCEPT !.rec = "ALLOW"], <<>>)
  <2>1. /\ a.st = [imv.st EXCEPT !.rec = "ALLOW"] /\ a.out = <<>> /\ a.give = Nothing
        /\ a.res = "SUCCESS"
    BY <1>4, AnswerFields
  <2>. QED  BY <1>1, <2>1 DEF Replies, Settled
<1>. QED  BY <1>2, <1>3, <1>4

LEMMA DummyReplies ==
    ASSUME pair = "dummy", DOMAIN imv.st = {"rec", "cur", "max"}, NEW m, Due(imv.st, given, m),
           NEW a \in ImvReceive(imv.st, m)
    PROVE  Replies(a)
<1>. DEFINE st == imv.st
            r == Dummy!RecOf(m.action, st.rec)
            c == IF st.cur < st.max THEN st.cur + 1 ELSE st.cur
            ack == [kind |-> "ack"]
            o == IF st.cur < st.max THEN <<ack>> ELSE <<>>
            t == [st EXCEPT !.rec = r, !.cur = c]
            g == IF c = st.max THEN r ELSE Nothing
<1>1. m.action = "allow" /\ given \in {Nothing, "ALLOW"}
  BY DEF Due
<1>2. r = "ALLOW"
  BY <1>1 DEF Dummy!RecOf
<1>3. a = [Answer(t, o) EXCEPT !.give = g]
  BY DummyAnswers DEF ImvReceive, Dummy!ImvReceive, Dummy!Nothing, Nothing
<1>4. t.rec = r
  OBVIOUS
<1>5. o = <<>> \/ o = <<ack>>
  OBVIOUS
<1>6. g \in {Nothing, r}
  OBVIOUS
<1>. HIDE DEF t, o, g, r, ack
<1>7. a.st = t /\ a.out = o /\ a.give = g /\ a.res = "SUCCESS"
  BY <1>3 DEF Answer
<1>. QED  BY <1>1, <1>2, <1>4, <1>5, <1>6, <1>7 DEF Replies, Settled, Asking, Counts

LEMMA PlatidReplies ==
    ASSUME TypeOK, pair = "platid", DOMAIN imv.st = {"sent", "good", "cert", "nonce"}, Compliant,
           NEW m, Due(imv.st, given, m), NEW a \in ImvReceive(imv.st, m), ~a.broken
    PROVE  Replies(a)
<1>. DEFINE st == imv.st
            nonce == Nonce
            c == [st EXCEPT !.cert = m.cert]
            q == [c EXCEPT !.sent = TRUE, !.nonce = nonce]
<1>1. imc.st.cert \in policy /\ imc.st.cert # "garbage" /\ given = Nothing
  <2>1. imc.st.cert \in policy /\ given = Nothing
    BY DEF Compliant, Due
  <2>2. policy \in Policies["platid"]
    BY DEF TypeOK
  <2>. QED  BY <2>1, <2>2, ImcImvAssumption DEF TypeOK
<1>2. a \in Platid!ImvReceive(st, policy, m, nonce)
  BY DEF ImvReceive
<1>3. CASE ~st.good
  <2>1. a = Answer(st, <<>>)
    BY <1>2, <1>3, PlatidAnswers DEF Platid!ImvReceive
  <2>2. a.st = st /\ a.out = <<>> /\ a.give = Nothing /\ a.res = "SUCCESS"
    BY <2>1, AnswerFields
  <2>. QED  BY <1>1, <1>3, <2>2 DEF Replies, Settled
<1>4. CASE st.good /\ st.sent
  <2>1. Platid!Verified(st, policy, m)
    BY <1>1, <1>4 DEF Due, Platid!Verified
  <2>2. a = Voice(st, "ALLOW")
    BY <1>2, <1>4, <2>1, PlatidAnswers DEF Platid!ImvReceive
  <2>3. a.st = st /\ a.out = <<>> /\ a.give = "ALLOW" /\ a.res = "SUCCESS"
    BY <2>2, AnswerFields
  <2>. QED  BY <1>4, <2>3 DEF Replies, Settled, Nothing
<1>5. CASE st.good /\ ~st.sent
  <2>1. m.kind = "cert" /\ m.cert = imc.st.cert
    BY <1>5 DEF Due
  <2>2. a = Answer(q, <<Platid!Nonce(nonce)>>)
    <3>1. a \in Platid!Challenge(c, nonce)
      BY <1>1, <1>2, <1>5, <2>1 DEF Platid!ImvReceive
    <3>2. \E x : a = Broken(x) \/ a = Answer(q, <<Platid!Nonce(nonce)>>)
      BY <3>1, PlatidAnswers DEF Platid!Challenge
    <3>. HIDE DEF q, c
    <3>. QED  BY <3>2, AnswerFields
  <2>3. DOMAIN c = DOMAIN st /\ c.cert = m.cert /\ c.good = st.good
    OBVIOUS
  <2>4. q.cert = m.cert /\ q.good = st.good /\ q.sent = TRUE /\ q.nonce = nonce
    <3>. HIDE DEF c
    <3>. QED  BY <2>3
  <2>. DEFINE n == Platid!Nonce(nonce)
  <2>5. n.nonce = nonce
    BY DEF Platid!Nonce
  <2>. HIDE DEF q, c, n, nonce
  <2>6. a.st = q /\ a.out = <<n>> /\ a.give = Nothing /\ a.res = "SUCCESS"
    BY <2>2, AnswerFields DEF n
  <2>7. Asking(q, given, n) /\ Counts(q, 0)
    BY <1>1, <1>5, <2>1, <2>4, <2>5 DEF Asking, Counts
  <2>. QED  BY <2>6, <2>7 DEF Replies
<1>. QED  BY <1>3, <1>4, <1>5

LEMMA ClamavReplies ==
    ASSUME pair = "clamav", DOMAIN imv.st = {"rec", "entries"}, Compliant, Knows,
           NEW m, Due(imv.st, given, m), NEW a \in ImvReceive(imv.st, m)
    PROVE  Replies(a)
<1>. DEFINE st == imv.st
            reported == {e \in st.entries : e.key \in Clamav!Lines(m)}
<1>1. /\ ~policy.pdp /\ m.status = "operational" /\ m.versions = host.clamconf
      /\ \A e \in policy.entries :
           IF e.key = Clamav!StatusKey
           THEN e.op = "=" /\ e.value = "operational"
           ELSE Clamav!CompareVersionStrings(host.clamconf[e.key], e.value)
      /\ st.entries \subseteq policy.entries
  BY DEF Compliant, Due, Knows
<1>2. ASSUME NEW e \in reported PROVE Clamav!Satisfied(e, m)
  <2>1. e \in policy.entries
    BY <1>1
  <2>2. CASE e.key = Clamav!StatusKey
    <3>1. e.op = "=" /\ e.value = "operational" /\ m.status = "operational"
      BY <1>1, <2>1, <2>2
    <3>. QED  BY <2>2, <3>1 DEF Clamav!Satisfied
  <2>3. CASE e.key # Clamav!StatusKey
    <3>1. Clamav!CompareVersionStrings(m.versions[e.key], e.value)
      BY <1>1, <2>1, <2>3
    <3>. QED  BY <2>3, <3>1 DEF Clamav!Satisfied
  <2>. QED  BY <2>2, <2>3
<1>3. a = Voice([st EXCEPT !.rec = "ALLOW"], "ALLOW")
  BY <1>1, <1>2, ClamavAnswers DEF ImvReceive, Clamav!ImvReceive, Clamav!LocalEvaluation
<1>4. a.out = <<>> /\ a.give = "ALLOW" /\ a.res = "SUCCESS"
  BY <1>3, AnswerFields
<1>. QED  BY <1>4 DEF Replies, Settled, Nothing

LEMMA HostScannerReplies ==
    ASSUME pair = "hostscanner", DOMAIN imv.st = {"rec", "count", "policys"}, Compliant, Knows,
           NEW m, Due(imv.st, given, m), NEW a \in ImvReceive(imv.st, m)
    PROVE  Replies(a)
<1>. DEFINE st == imv.st
            r == HostScanner!Ports(HostScanner!Named(st.policys))
<1>1. /\ ~policy.errno /\ st.policys = policy.ports
      /\ \A p \in policy.ports : p.status \in {"whatever", HostScanner!StatusOf(p, host)}
  BY DEF Compliant, Knows
<1>2. CASE st.count = 0
  <2>1. a = Answer(st, <<r>>)
    BY <1>2, HostScannerAnswers DEF ImvReceive, HostScanner!ImvReceive
  <2>2. r.ports = HostScanner!Named(policy.ports)
    BY <1>1 DEF HostScanner!Ports
  <2>. HIDE DEF r
  <2>3. a.st = st /\ a.out = <<r>> /\ a.give = Nothing /\ a.res = "SUCCESS"
    BY <2>1, AnswerFields
  <2>4. Asking(st, given, r) /\ Counts(st, 0)
    BY <1>2, <2>2 DEF Asking, Counts
  <2>. QED  BY <2>3, <2>4 DEF Replies
<1>3. CASE st.count # 0
  <2>1. /\ st.count = 1 /\ m.kind = "report"
        /\ \A p \in policy.ports, q \in m.ports :
             p.port = q.port => q.status = HostScanner!StatusOf(p, host)
    BY <1>3 DEF Due
  <2>2. ~HostScanner!Contradicts(st.policys, m.ports)
    BY <1>1, <2>1 DEF HostScanner!Contradicts
  <2>3. a = Voice([st EXCEPT !.rec = "ALLOW"], "ALLOW")
    BY <1>1, <2>1, <2>2, HostScannerAnswers
    DEF ImvReceive, HostScanner!ImvReceive, HostScanner!Misread, HostScanner!Evaluate
  <2>4. a.out = <<>> /\ a.give = "ALLOW" /\ a.res = "SUCCESS"
    BY <2>3, AnswerFields
  <2>. QED  BY <2>4 DEF Replies, Settled, Nothing
<1>. QED  BY <1>2, <1>3

\* What the attestation IMV asks a compliant endpoint for is there.
LEMMA AskReplies ==
    ASSUME pair = "attestation", NEW s, DOMAIN s = ImvFields,
           s.good, ~s.first, s.cert = host.aik, s.mode = policy.quoteType,
           NEW asked, NEW nonce,
           \/ policy.quoteType = "complete" /\ asked = policy.entries
           \/ /\ policy.quoteType = "single" /\ s.current \in DOMAIN policy.entries
              /\ asked = <<policy.entries[s.current]>>,
           NEW a \in Attestation!Ask(s, asked, nonce), ~a.broken
    PROVE  Replies(a)
<1>. DEFINE d == Attestation!Expected(asked, nonce)
            q == Attestation!Request(d.mask, nonce)
            t == [s EXCEPT !.digest = d]
<1>1. a = Answer(t, <<q>>) \/ a = Broken([s EXCEPT !.good = FALSE])
  BY AttestationAnswers DEF Attestation!Ask
<1>2. d.nonce = nonce
  BY DEF Attestation!Expected
<1>3. q.mask = d.mask /\ q.nonce = nonce
  BY DEF Attestation!Request
<1>4. t.good = s.good /\ t.first = s.first /\ t.cert = s.cert /\ t.current = s.current
      /\ t.digest = d /\ t.mode = s.mode
  BY DEF ImvFields
<1>. HIDE DEF q, t
<1>5. a.st = t /\ a.out = <<q>> /\ a.give = Nothing /\ a.res = "SUCCESS"
  BY <1>1, AnswerFields
<1>6. Sought(t)
  BY <1>2, <1>4 DEF Sought
<1>7. Asking(t, given, q)
  BY <1>2, <1>3, <1>4, <1>6 DEF Asking
<1>8. Counts(t, 0)
  BY DEF Counts
<1>. QED  BY <1>5, <1>7, <1>8 DEF Replies

LEMMA AttestationReplies ==
    ASSUME TypeOK, pair = "attestation", DOMAIN imv.st = ImvFields, imv.st.current \in Nat,
           Compliant, NEW m, Due(imv.st, given, m), NEW a \in ImvReceive(imv.st, m), ~a.broken
    PROVE  Replies(a)
<1>. DEFINE st == imv.st
            nonce == Nonce
            s == [st EXCEPT !.first = FALSE, !.cert = m.cert]
            t == [s EXCEPT !.mode = policy.quoteType]
            t1 == [t EXCEPT !.current = 1]
            s2 == [st EXCEPT !.current = st.current + 1]
<1>1. /\ host.aik \in policy.aiks
      /\ policy.quoteType \in {"single", "complete"}
  BY DEF Compliant
<1>2. policy \in Policies["attestation"] /\ "attestation" \in DOMAIN Policies
  BY ImcImvAssumption DEF TypeOK
<1>3. /\ host.aik # "garbage"
      /\ policy.quoteType = "single" => policy.entries # <<>>
  BY <1>1, <1>2, ImcImvAssumption
<1>4. IsSeq(policy.entries)
  BY PolicyEntries
<1>5. Len(policy.entries) \in Nat /\ DOMAIN policy.entries = 1 .. Len(policy.entries)
      /\ (policy.quoteType = "single" => 1 \in DOMAIN policy.entries)
  BY <1>3, <1>4, SeqParts
<1>6. a \in Attestation!ImvReceive(st, policy, m, nonce)
  BY DEF ImvReceive
<1>7. st.good
  BY DEF Due
<1>8. CASE st.first
  <2>1. m.kind = "cert" /\ m.cert = host.aik
    BY <1>8 DEF Due
  <2>2. /\ DOMAIN s = ImvFields /\ s.first = FALSE /\ s.cert = m.cert /\ s.good = st.good
    BY DEF ImvFields
  <2>t. /\ DOMAIN t = ImvFields /\ t.first = FALSE /\ t.cert = m.cert /\ t.good = st.good
        /\ t.mode = policy.quoteType
    <3>. HIDE DEF s
    <3>. QED  BY <2>2 DEF ImvFields
  <2>3. /\ DOMAIN t1 = ImvFields /\ t1.first = FALSE /\ t1.cert = m.cert /\ t1.good = st.good
        /\ t1.current = 1 /\ t1.mode = policy.quoteType
    <3>. HIDE DEF t
    <3>. QED  BY <2>t DEF ImvFields
  <2>4. Attestation!Readable(m) /\ Attestation!CheckClientKnown(s, policy)
    BY <1>1, <1>3, <2>1, <2>2 DEF Attestation!Readable, Attestation!CheckClientKnown
  <2>5. \/ policy.quoteType = "complete" /\ a \in Attestation!Ask(t, policy.entries, nonce)
        \/ policy.quoteType = "single" /\ a \in Attestation!Ask(t1, <<policy.entries[1]>>, nonce)
    BY <1>1, <1>6, <1>7, <1>8, <2>4 DEF Attestation!ImvReceive, Attestation!FirstMessage
  <2>. HIDE DEF s, t, t1, nonce
  <2>. QED  BY <1>5, <1>7, <2>1, <2>t, <2>3, <2>5, AskReplies
<1>9. CASE ~st.first
  <2>1. /\ m.kind = "quote" /\ m.key = st.cert /\ m.digest = st.digest
        /\ policy.quoteType = "single" => st.current \in DOMAIN policy.entries
        /\ st.cert = host.aik /\ st.mode = policy.quoteType
    BY <1>9 DEF Due
  <2>2. Attestation!GoodQuote(st, m)
    BY <2>1 DEF Attestation!GoodQuote
  <2>3. CASE a = Voice(st, "ALLOW")
    <3>1. a.out = <<>> /\ a.give = "ALLOW" /\ a.res = "SUCCESS"
      BY <2>3, AnswerFields
    <3>. QED  BY <3>1 DEF Replies, Settled, Nothing
  <2>4. CASE /\ policy.quoteType = "single" /\ st.current < Len(policy.entries)
             /\ a \in Attestation!Ask(s2, <<policy.entries[st.current + 1]>>, nonce)
    <3>1. /\ DOMAIN s2 = ImvFields /\ s2.first = st.first /\ s2.cert = st.cert /\ s2.good = st.good
          /\ s2.current = st.current + 1 /\ s2.mode = st.mode
      BY DEF ImvFields
    <3>2. s2.current \in DOMAIN policy.entries
      BY <1>5, <2>4, <3>1
    <3>. HIDE DEF s2, nonce
    <3>. QED  BY <1>7, <1>9, <2>1, <2>4, <3>1, <3>2, AskReplies
  <2>5. \/ a = Voice(st, "ALLOW")
        \/ /\ policy.quoteType = "single" /\ st.current < Len(policy.entries)
           /\ a \in Attestation!Ask(s2, <<policy.entries[st.current + 1]>>, nonce)
    <3>1. CASE policy.quoteType = "complete"
      <4>1. a = Attestation!CompleteQuote(st, m)
        BY <1>6, <1>7, <1>9, <2>1, <3>1 DEF Attestation!ImvReceive, Attestation!Nothing
      <4>. QED  BY <2>2, <4>1, AttestationAnswers DEF Attestation!CompleteQuote
    <3>2. CASE policy.quoteType = "single"
      <4>1. a \in Attestation!NextQuote(st, policy, m, nonce)
        BY <1>6, <1>7, <1>9, <2>1, <3>2 DEF Attestation!ImvReceive, Attestation!Nothing
      <4>2. /\ Attestation!AskedFor(st, policy) = policy.entries
            /\ Attestation!NextEntries(st, policy) = {st.current + 1}
        BY <1>5, <2>1, <3>2
        DEF Attestation!AskedFor, Attestation!NextEntries, Attestation!Nothing
      <4>3. a \in IF st.current + 1 <= Len(policy.entries)
                  THEN Attestation!Ask(s2, <<policy.entries[st.current + 1]>>, nonce)
                  ELSE {Voice(st, "ALLOW")}
        BY <2>2, <4>1, <4>2, AttestationAnswers DEF Attestation!NextQuote
      <4>. HIDE DEF s2
      <4>. QED  BY <1>5, <3>2, <4>3
    <3>. QED  BY <1>1, <3>1, <3>2
  <2>. QED  BY <2>3, <2>4, <2>5
<1>. QED  BY <1>8, <1>9

LEMMA ImvReplies ==
    ASSUME HInv, imv # Absent, Compliant, Knows, NEW m, Due(imv.st, given, m),
           NEW a \in ImvReceive(imv.st, m), ~a.broken
    PROVE  Replies(a)
<1>1. TypeOK /\ ImvShape(imv.st) /\ pair \in Pairs
  BY ImcImvAssumption DEF HInv, TypeOK
<1>. QED
  BY <1>1, ExampleReplies, DummyReplies, PlatidReplies, AttestationReplies, ClamavReplies,
     HostScannerReplies DEF ImvShape, ImvFields, Pairs

-----------------------------------------------------------------------------
(* The IMC's side of it.                                                   *)

\* There is one way to count a set of numbers in ascending order.
LEMMA LeastElement ==
    ASSUME NEW T, T \subseteq Nat, T # {}
    PROVE  \E x \in T : \A y \in T : ~(y < x)
<1>1. IsWellFoundedOn(OpToRel(<, Nat), Nat)
  BY NatLessThanWellFounded
<1>2. PICK x \in T : \A y \in T : <<y, x>> \notin OpToRel(<, Nat)
  BY <1>1, WFMin
<1>3. \A y, z \in T : <<y, z>> \in OpToRel(<, Nat) <=> y < z
  BY DEF OpToRel
<1>. QED  BY <1>2, <1>3

LEMMA OneOrder ==
    ASSUME NEW n \in Nat, NEW S, S \subseteq Nat,
           NEW f \in Bijection(1 .. n, S), \A i, j \in 1 .. n : i < j => f[i] < f[j],
           NEW s \in [1 .. n -> S], \A i, j \in 1 .. n : i < j => s[i] < s[j]
    PROVE  s = f
<1>1. f \in [1 .. n -> S] /\ f \in Injection(1 .. n, S)
  BY DEF Bijection, Injection
<1>n. \A i \in 1 .. n : f[i] \in Nat /\ s[i] \in Nat /\ i \in Nat
  <2>1. ASSUME NEW i \in 1 .. n PROVE f[i] \in Nat /\ s[i] \in Nat
    <3>1. f[i] \in S /\ s[i] \in S
      BY <1>1
    <3>. QED  BY <3>1
  <2>2. \A i \in 1 .. n : i \in Nat
    OBVIOUS
  <2>. QED  BY <2>1, <2>2
<1>2. s \in Injection(1 .. n, S)
  <2>1. ASSUME NEW i \in 1 .. n, NEW j \in 1 .. n, s[i] = s[j] PROVE i = j
    <3>1. ~(s[i] < s[j]) /\ ~(s[j] < s[i])
      BY <1>n, <2>1
    <3>2. ~(i < j) /\ ~(j < i)
      BY <3>1
    <3>. QED  BY <1>n, <3>2
  <2>. QED  BY <2>1 DEF Injection, IsInjective
<1>3. s \in Surjection(1 .. n, S)
  <2>1. IsFiniteSet(1 .. n) /\ Cardinality(1 .. n) = n
    BY FS_Interval
  <2>2. IsFiniteSet(S) /\ Cardinality(S) = Cardinality(1 .. n)
    BY <2>1, FS_Bijection DEF ExistsBijection
  <2>. QED  BY <1>2, <2>2, FS_Injection
<1>4. ASSUME s # f PROVE FALSE
  <2>. DEFINE T == {i \in 1 .. n : s[i] # f[i]}
  <2>1. T # {}
    BY <1>1, <1>4
  <2>2. T \subseteq Nat
    OBVIOUS
  <2>3. PICK k \in T : \A y \in T : ~(y < k)
    <3>. HIDE DEF T
    <3>. QED  BY <2>1, <2>2, LeastElement
  <2>4. /\ k \in 1 .. n /\ s[k] # f[k]
        /\ \A y \in 1 .. n : y < k => s[y] = f[y]
    BY <2>3
  <2>5. PICK j \in 1 .. n : s[j] = f[k]
    BY <1>1, <1>3 DEF Surjection
  <2>6. PICK l \in 1 .. n : f[l] = s[k]
    BY <1>1 DEF Bijection, Surjection
  <2>7. k < j
    <3>1. ~(j < k)
      <4>. SUFFICES ASSUME j < k PROVE FALSE
        OBVIOUS
      <4>1. s[j] = f[j] /\ f[j] < f[k]
        BY <2>4
      <4>. QED  BY <1>n, <2>4, <2>5, <4>1
    <3>2. j # k
      BY <2>4, <2>5
    <3>. QED  BY <1>n, <2>4, <3>1, <3>2
  <2>8. f[l] < f[k]
    BY <2>4, <2>5, <2>6, <2>7
  <2>9. l < k
    <3>1. ~(f[k] < f[l]) /\ f[l] # f[k]
      BY <1>n, <2>4, <2>8
    <3>2. ~(k < l) /\ l # k
      BY <2>4, <3>1
    <3>. QED  BY <1>n, <2>4, <3>2
  <2>10. s[l] = f[l] /\ s[l] < s[k]
    BY <2>4, <2>9
  <2>. QED  BY <1>n, <2>6, <2>10
<1>. QED  BY <1>4

Indices(entries) == [i \in DOMAIN entries |-> entries[i].index]

\* The TPM takes the registers of a policy in ascending order in this order.
LEMMA InOrderIs ==
    ASSUME NEW entries, IsSeq(entries), \A i \in DOMAIN entries : entries[i].index \in Nat,
           ByIndex(entries)
    PROVE  Attestation!InOrder({entries[i].index : i \in DOMAIN entries}) = Indices(entries)
<1>. DEFINE n == Len(entries)
            S == {entries[i].index : i \in DOMAIN entries}
            f == Indices(entries)
            o == Attestation!InOrder(S)
<1>1. n \in Nat /\ DOMAIN entries = 1 .. n /\ S \subseteq Nat
  BY SeqParts
<1>2. f \in [1 .. n -> S] /\ \A i \in 1 .. n : f[i] = entries[i].index
  BY <1>1 DEF Indices
<1>3. \A i, j \in 1 .. n : i < j => f[i] < f[j]
  BY <1>1, <1>2 DEF ByIndex
<1>4. \A x \in S : \E i \in 1 .. n : f[i] = x
  BY <1>1, <1>2
<1>. HIDE DEF n, S, f
<1>5. f \in Bijection(1 .. n, S)
  <2>1. ASSUME NEW i \in 1 .. n, NEW j \in 1 .. n, f[i] = f[j] PROVE i = j
    <3>1. f[i] \in Nat /\ ~(i < j) /\ ~(j < i)
      BY <1>1, <1>2, <1>3, <2>1
    <3>. QED  BY <1>1, <3>1
  <2>. QED  BY <1>2, <1>4, <2>1 DEF Bijection, Injection, Surjection, IsInjective
<1>6. Cardinality(S) = n
  <2>1. IsFiniteSet(1 .. n) /\ Cardinality(1 .. n) = n
    BY <1>1, FS_Interval
  <2>2. ExistsBijection(1 .. n, S)
    BY <1>5 DEF ExistsBijection
  <2>. QED  BY <2>1, <2>2, FS_Bijection
<1>7. f \in [1 .. Cardinality(S) -> S] /\ \A i, j \in DOMAIN f : i < j => f[i] < f[j]
  BY <1>2, <1>3, <1>6
<1>9. o \in [1 .. Cardinality(S) -> S] /\ \A i, j \in DOMAIN o : i < j => o[i] < o[j]
  <2>1. \E s \in [1 .. Cardinality(S) -> S] : \A i, j \in DOMAIN s : i < j => s[i] < s[j]
    BY <1>7
  <2>2. o = CHOOSE s \in [1 .. Cardinality(S) -> S] :
              \A i, j \in DOMAIN s : i < j => s[i] < s[j]
    <3>1. Attestation!Cardinality(S) = Cardinality(S)
      BY DEF Attestation!Cardinality, Cardinality
    <3>. QED  BY <3>1 DEF Attestation!InOrder
  <2>. HIDE DEF o
  <2>. QED  BY <2>1, <2>2, Zenon
<1>10. o \in [1 .. n -> S] /\ \A i, j \in 1 .. n : i < j => o[i] < o[j]
  BY <1>6, <1>9
<1>. HIDE DEF o
<1>11. o = f
  BY <1>1, <1>3, <1>5, <1>10, OneOrder
<1>. QED  BY <1>11 DEF o, S, f

\* The quote of registers with the values the policy wants of them.
Quoted(mask, nonce) ==
    LET order == Attestation!InOrder(mask)
    IN Attestation!Quote(host.aik, mask, [i \in DOMAIN order |-> host.pcr[order[i]]], nonce)

Agree(asked) == /\ IsSeq(asked) /\ ByIndex(asked)
                /\ \A i \in DOMAIN asked :
                     /\ asked[i].index \in Nat /\ asked[i].index \in DOMAIN host.pcr
                     /\ host.pcr[asked[i].index] = asked[i].value

LEMMA QuoteIsExpected ==
    ASSUME NEW asked, Agree(asked), NEW nonce
    PROVE  LET d == Attestation!Expected(asked, nonce)
               q == Quoted(d.mask, nonce)
           IN /\ d.mask \subseteq DOMAIN host.pcr
              /\ q.kind = "quote" /\ q.key = host.aik /\ q.digest = d
<1>. DEFINE d == Attestation!Expected(asked, nonce)
            mask == {asked[i].index : i \in DOMAIN asked}
            order == Attestation!InOrder(mask)
            values == [i \in DOMAIN order |-> host.pcr[order[i]]]
            q == Quoted(d.mask, nonce)
<1>1. d = [mask |-> mask, values |-> [i \in DOMAIN asked |-> asked[i].value], nonce |-> nonce]
  BY DEF Attestation!Expected
<1>2. d.mask = mask
  BY <1>1
<1>3. order = [i \in DOMAIN asked |-> asked[i].index]
  BY InOrderIs DEF Agree, Indices
<1>4. values = [i \in DOMAIN asked |-> asked[i].value]
  <2>. HIDE DEF order
  <2>1. DOMAIN order = DOMAIN asked
    BY <1>3
  <2>2. \A i \in DOMAIN asked : host.pcr[order[i]] = asked[i].value
    BY <1>3 DEF Agree
  <2>. QED  BY <2>1, <2>2
<1>5. mask \subseteq DOMAIN host.pcr
  BY DEF Agree
<1>6. q = Attestation!Quote(host.aik, mask, values, nonce)
  BY <1>2 DEF Quoted
<1>. HIDE DEF values, q, mask, d
<1>7. q.kind = "quote" /\ q.key = host.aik
      /\ q.digest = [mask |-> mask, values |-> values, nonce |-> nonce]
  BY <1>6 DEF Attestation!Quote
<1>8. q.digest = d
  BY <1>1, <1>4, <1>7
<1>. QED  BY <1>2, <1>5, <1>7, <1>8 DEF d, q

\* The message a compliant endpoint's IMC answers with.
Responds(a) == /\ a.st = imc.st
               /\ \E m : a.out = <<m>> /\ (Counts(imv.st, 1) => Due(imv.st, given, m))

LEMMA AttestationResponds ==
    ASSUME TypeOK, pair = "attestation", Compliant, Remembers(imc.st),
           NEW r, Asking(imv.st, given, r), NEW a \in ImcReceive(imc.st, r)
    PROVE  Responds(a)
<1>. DEFINE st == imv.st
            e == policy.entries
            nonce == st.digest.nonce
            m == Quoted(r.mask, r.nonce)
<1>1. /\ Attestation!Loads(host) /\ host.tpm /\ imc.st.sent /\ imc.st.aik = host.aik
      /\ \A i \in DOMAIN e : e[i].index \in DOMAIN host.pcr /\ host.pcr[e[i].index] = e[i].value
      /\ policy.quoteType = "single" \/ (policy.quoteType = "complete" /\ ByIndex(e))
  BY DEF Compliant, Remembers
<1>2. /\ st.good /\ ~st.first /\ st.cert = host.aik /\ st.mode = policy.quoteType
      /\ r.mask = st.digest.mask /\ r.nonce = nonce /\ Sought(st)
  BY DEF Asking
<1>3. IsSeq(e) /\ \A i \in DOMAIN e : e[i].index \in Nat
  BY PolicyEntries
<1>4. PICK asked : Agree(asked) /\ st.digest = Attestation!Expected(asked, nonce)
  <2>1. CASE policy.quoteType = "complete" /\ st.digest = Attestation!Expected(e, nonce)
    BY <1>1, <1>3, <2>1 DEF Agree
  <2>2. CASE /\ policy.quoteType = "single" /\ st.current \in DOMAIN e
             /\ st.digest = Attestation!Expected(<<e[st.current]>>, nonce)
    <3>. DEFINE x == e[st.current]
    <3>1. x.index \in Nat /\ x.index \in DOMAIN host.pcr /\ host.pcr[x.index] = x.value
      BY <1>1, <1>3, <2>2
    <3>. HIDE DEF x
    <3>2. IsSeq(<<x>>) /\ <<x>>[1] = x /\ DOMAIN <<x>> = {1}
      BY Short
    <3>3. Agree(<<x>>)
      BY <3>1, <3>2 DEF Agree, ByIndex
    <3>. QED  BY <2>2, <3>3 DEF x
  <2>. QED  BY <1>2, <2>1, <2>2 DEF Sought
<1>5. r.mask \subseteq DOMAIN host.pcr /\ m.kind = "quote" /\ m.key = host.aik
      /\ m.digest = st.digest
  BY <1>2, <1>4, QuoteIsExpected
<1>6. a = Answer(imc.st, <<m>>)
  <2>1. a \in Attestation!ImcReceive(imc.st, r, host)
    BY DEF ImcReceive
  <2>2. a = Attestation!Answer(imc.st, <<m>>)
    BY <1>1, <1>5, <2>1 DEF Attestation!ImcReceive, Attestation!TpmReady, Quoted
  <2>. QED  BY <2>2, AttestationAnswers
<1>7. policy.quoteType = "single" => st.current \in DOMAIN e
  BY <1>2 DEF Sought
<1>. HIDE DEF m
<1>8. a.st = imc.st /\ a.out = <<m>>
  BY <1>6, AnswerFields
<1>9. Due(st, given, m)
  BY <1>2, <1>5, <1>7 DEF Due
<1>. QED  BY <1>8, <1>9 DEF Responds

LEMMA HostScannerResponds ==
    ASSUME pair = "hostscanner", Compliant, NEW r, Asking(imv.st, given, r),
           NEW a \in ImcReceive(imc.st, r)
    PROVE  Responds(a)
<1>. DEFINE T == {[proto |-> p.proto, port |-> p.port,
                   status |-> HostScanner!StatusOf(p, host)] : p \in r.ports}
            m == HostScanner!Report(T)
<1>1. host.sockets /\ r.ports = HostScanner!Named(policy.ports)
  BY DEF Compliant, Asking
<1>2. a = Answer(imc.st, <<m>>)
  <2>1. a \in HostScanner!ImcReceive(imc.st, r, host)
    BY DEF ImcReceive
  <2>2. a = HostScanner!Answer(imc.st, <<m>>)
    BY <1>1, <2>1 DEF HostScanner!ImcReceive
  <2>. QED  BY <2>2, HostScannerAnswers
<1>3. m.kind = "report" /\ m.ports = T
  BY DEF HostScanner!Report
<1>4. ASSUME NEW p \in policy.ports, NEW q \in T, p.port = q.port
      PROVE  q.status = HostScanner!StatusOf(p, host)
  <2>1. PICK s \in r.ports : q = [proto |-> s.proto, port |-> s.port,
                                  status |-> HostScanner!StatusOf(s, host)]
    OBVIOUS
  <2>2. q.port = s.port /\ q.status = HostScanner!StatusOf(s, host)
    BY <2>1
  <2>. QED  BY <1>4, <2>2 DEF HostScanner!StatusOf
<1>. HIDE DEF m, T
<1>5. a.st = imc.st /\ a.out = <<m>>
  BY <1>2, AnswerFields
<1>6. Counts(imv.st, 1) => Due(imv.st, given, m)
  BY <1>3, <1>4 DEF Counts, Due
<1>. QED  BY <1>5, <1>6 DEF Responds

LEMMA ImcResponds ==
    ASSUME TypeOK, Compliant, Remembers(imc.st), NEW r, Asking(imv.st, given, r),
           NEW a \in ImcReceive(imc.st, r)
    PROVE  Responds(a)
<1>. pair \in Pairs
  BY ImcImvAssumption DEF TypeOK
<1>1. CASE pair = "example"
  <2>1. a = Answer(imc.st, <<Example!Hello>>)
    BY <1>1, ExampleAnswers DEF ImcReceive, Example!ImcReceive
  <2>2. a.st = imc.st /\ a.out = <<Example!Hello>>
    BY <2>1, AnswerFields
  <2>3. Due(imv.st, given, Example!Hello)
    BY <1>1 DEF Asking, Due
  <2>. QED  BY <2>2, <2>3 DEF Responds
<1>2. CASE pair = "dummy"
  <2>. DEFINE m == [kind |-> "action", action |-> imc.st.action]
  <2>1. a = Answer(imc.st, <<m>>)
    BY <1>2, DummyAnswers DEF ImcReceive, Dummy!ImcReceive, Dummy!Say
  <2>2. m.action = "allow"
    BY <1>2 DEF Compliant, Remembers
  <2>. HIDE DEF m
  <2>3. a.st = imc.st /\ a.out = <<m>>
    BY <2>1, AnswerFields
  <2>4. Due(imv.st, given, m)
    BY <1>2, <2>2 DEF Asking, Due
  <2>. QED  BY <2>3, <2>4 DEF Responds
<1>3. CASE pair = "platid"
  <2>. DEFINE m == Platid!Sig(imc.st.key, r.nonce)
  <2>1. imc.st.ready /\ imc.st.key = imc.st.cert
    BY <1>3 DEF Compliant
  <2>2. a = Answer(imc.st, <<m>>)
    BY <1>3, <2>1, PlatidAnswers DEF ImcReceive, Platid!ImcReceive
  <2>3. m.kind = "sig" /\ m.key = imc.st.key /\ m.nonce = r.nonce
    BY DEF Platid!Sig
  <2>. HIDE DEF m
  <2>4. a.st = imc.st /\ a.out = <<m>>
    BY <2>2, AnswerFields
  <2>5. Due(imv.st, given, m)
    BY <1>3, <2>1, <2>3 DEF Asking, Due
  <2>. QED  BY <2>4, <2>5 DEF Responds
<1>4. CASE pair = "clamav"
  BY <1>4 DEF Asking
<1>. QED  BY <1>1, <1>2, <1>3, <1>4, AttestationResponds, HostScannerResponds DEF Pairs

-----------------------------------------------------------------------------
(* A compliant endpoint is let in: CInv.                                   *)

LEMMA CInit == Init => CInv
  BY DEF Init, CInv

\* Whether the endpoint complies depends on its state and the policy, for
\* platid on what the IMC has loaded.
LEMMA CompliantKept ==
    ASSUME UNCHANGED <<pair, host, policy>>, imc # Absent, imc' # Absent,
           pair = "platid" => imc'.st = imc.st
    PROVE  Compliant' <=> Compliant
<1>1. Attestation!Loads(host)' <=> Attestation!Loads(host)
  OBVIOUS
<1>2. \A p : HostScanner!StatusOf(p, host)' = HostScanner!StatusOf(p, host)
  OBVIOUS
<1>. QED  BY <1>1, <1>2 DEF Compliant

LEMMA TalkParts ==
    ASSUME UNCHANGED <<pair, host, policy>>, pair = "platid" => imc'.st = imc.st,
           NEW st, NEW g, NEW m
    PROVE  /\ Due(st, g, m)' <=> Due(st, g, m)
           /\ Asking(st, g, m)' <=> Asking(st, g, m)
           /\ Settled(st, g)' <=> Settled(st, g)
           /\ Verdict(st)' = Verdict(st)
           /\ \A n : Counts(st, n)' <=> Counts(st, n)
<1>1. \A p : HostScanner!StatusOf(p, host)' = HostScanner!StatusOf(p, host)
  OBVIOUS
<1>2. Due(st, g, m)' <=> Due(st, g, m)
  BY <1>1 DEF Due
<1>3. Sought(st)' <=> Sought(st)
  BY DEF Sought
<1>4. Asking(st, g, m)' <=> Asking(st, g, m)
  BY <1>3 DEF Asking
<1>5. Settled(st, g)' <=> Settled(st, g)
  BY DEF Settled
<1>. QED  BY <1>2, <1>4, <1>5 DEF Verdict, Counts

\* Steps that have no part in the handshake.
LEMMA CKept ==
    ASSUME CInv, UNCHANGED <<pair, host, policy, imc, imv, error, given, access, turn, inbox,
                             outbox, pos, clean>>
    PROVE  CInv'
  BY DEF CInv, Remembers, Opening, Able, Opens, InHand, Compliant, Talk, Due, Asking, Sought,
         Settled, Verdict, Counts, CompliantIsAllowed

LEMMA OneMessage ==
    ASSUME NEW s, IsSeq(s), Len(s) = 1
    PROVE  s # <<>> /\ Head(s) = s[1] /\ Tail(s) = <<>>
<1>1. s # <<>>
  BY Short
<1>2. IsSeq(Tail(s)) /\ Len(Tail(s)) = 0 /\ Head(s) = s[1]
  BY <1>1, SeqTail
<1>. QED  BY <1>1, <1>2, SeqParts

LEMMA JoinOne == \A x : /\ <<>> \o <<x>> = <<x>> /\ Len(<<x>>) = 1 /\ <<x>>[1] = x
                        /\ <<x>> # <<>> /\ IsSeq(<<x>>)
<1>1. ASSUME NEW x PROVE <<>> \o <<x>> = <<x>>
  OBVIOUS
<1>. QED  BY <1>1, Short

LEMMA JoinNone == <<>> \o <<>> = <<>> /\ Len(<<>>) = 0
  OBVIOUS

\* What a compliant endpoint's IMC says first.
Says(st, h, a) ==
    /\ pair = "dummy" /\ h = "allow" => a.st.action = "allow"
    /\ pair = "attestation" /\ Attestation!Loads(h) /\ h.tpm =>
         a.st.sent /\ a.st.aik = h.aik
    /\ (CASE pair = "platid"      -> a.st.ready
          [] pair = "attestation" -> Attestation!Loads(h) /\ h.tpm
          [] pair = "clamav"      -> h.clamconf # <<>> /\ ~(h.wide /\ h.ending = "cld")
          [] OTHER                -> TRUE)
       => \E m :
            /\ a.out = <<m>>
            /\ CASE pair = "dummy"       -> h = "allow" => m.action = "allow"
                 [] pair = "platid"      -> m.kind = "cert" /\ m.cert = a.st.cert
                 [] pair = "attestation" -> m.kind = "cert" /\ m.cert = h.aik
                 [] pair = "clamav"      ->
                      h.clamd = "PONG" => m.status = "operational" /\ m.versions = h.clamconf
                 [] OTHER                -> TRUE

LEMMA ImcSays ==
    ASSUME TypeOK, NEW st, NEW h, NEW a \in ImcBegin(st, h)
    PROVE  Says(st, h, a)
<1>. pair \in Pairs
  BY ImcImvAssumption DEF TypeOK
<1>1. CASE pair = "example"
  <2>1. a = Answer(st, <<Example!Hello>>)
    BY <1>1, ExampleAnswers DEF ImcBegin, Example!ImcBegin
  <2>2. a.out = <<Example!Hello>>
    BY <2>1, AnswerFields
  <2>. QED  BY <1>1, <2>2 DEF Says
<1>2. CASE pair = "dummy"
  <2>. DEFINE w == IF h \in Dummy!Word THEN h ELSE "isolate"
              s == [action |-> w]
              m == [kind |-> "action", action |-> w]
  <2>1. a = Answer(s, <<m>>)
    BY <1>2, DummyAnswers DEF ImcBegin, Dummy!ImcBegin, Dummy!Say
  <2>2. s.action = w /\ m.action = w /\ (h = "allow" => w = "allow")
    BY DEF Dummy!Word
  <2>. HIDE DEF s, m, w
  <2>3. a.st = s /\ a.out = <<m>>
    BY <2>1, AnswerFields
  <2>. QED  BY <1>2, <2>2, <2>3 DEF Says
<1>3. CASE pair = "platid"
  <2>. DEFINE m == Platid!Cert(st.cert)
  <2>1. m.kind = "cert" /\ m.cert = st.cert
    BY DEF Platid!Cert
  <2>2. IF st.ready THEN a = Answer(st, <<m>>) ELSE a = Failure(st, "FATAL")
    BY <1>3, PlatidAnswers DEF ImcBegin, Platid!ImcBegin
  <2>. HIDE DEF m
  <2>3. a.st = st /\ (st.ready => a.out = <<m>>)
    BY <2>2, AnswerFields
  <2>. QED  BY <1>3, <2>1, <2>3 DEF Says
<1>4. CASE pair = "attestation"
  <2>. DEFINE m == Attestation!Cert(h.aik)
              s == [sent |-> TRUE, aik |-> h.aik]
  <2>1. m.kind = "cert" /\ m.cert = h.aik /\ s.sent /\ s.aik = h.aik
    BY DEF Attestation!Cert
  <2>2. Attestation!Loads(h) /\ h.tpm => a = Answer(s, <<m>>)
    BY <1>4, AttestationAnswers DEF ImcBegin, Attestation!ImcBegin, Attestation!TpmReady
  <2>. HIDE DEF m, s
  <2>3. Attestation!Loads(h) /\ h.tpm => a.st = s /\ a.out = <<m>>
    BY <2>2, AnswerFields
  <2>. QED  BY <1>4, <2>1, <2>3 DEF Says
<1>5. CASE pair = "clamav"
  <2>. DEFINE s == Clamav!Measured(st, h)
              m == [kind |-> "report", status |-> s.status, versions |-> s.conf]
  <2>1. /\ h.clamconf # <<>> => s.conf = h.clamconf /\ s.ending = h.ending
        /\ h.clamd = "PONG" => s.status = "operational"
    BY DEF Clamav!Measured, Clamav!StatusAfter
  <2>2. a = IF s.conf # <<>> /\ s.ending = "cld" /\ h.wide THEN Failure(s, "FATAL")
            ELSE Answer(s, <<m>>)
    BY <1>5, ClamavAnswers DEF ImcBegin, Clamav!ImcMeasure
  <2>3. m.status = s.status /\ m.versions = s.conf
    OBVIOUS
  <2>. HIDE DEF s, m
  <2>4. h.clamconf # <<>> /\ ~(h.wide /\ h.ending = "cld") => a.out = <<m>>
    BY <2>1, <2>2, AnswerFields
  <2>5. h.clamconf # <<>> /\ h.clamd = "PONG" => m.status = "operational" /\ m.versions = h.clamconf
    BY <2>1, <2>3
  <2>. QED  BY <1>5, <2>4, <2>5 DEF Says
<1>6. CASE pair = "hostscanner"
  <2>1. a = Answer(st, <<HostScanner!Active>>)
    BY <1>6, HostScannerAnswers DEF ImcBegin, HostScanner!ImcBegin
  <2>2. a.out = <<HostScanner!Active>>
    BY <2>1, AnswerFields
  <2>. QED  BY <1>6, <2>2 DEF Says
<1>. QED  BY <1>1, <1>2, <1>3, <1>4, <1>5, <1>6 DEF Pairs

LEMMA CBegin == HInv /\ CInv /\ Begin => CInv'
<1>. SUFFICES ASSUME HInv, Begin, clean' PROVE CInv'
  BY DEF CInv
<1>1. imc # Absent /\ imv # Absent /\ imv' = imv /\ pair' = pair /\ turn' = "arrival" /\ pos' = 0
  BY DEF Begin, Send, server
<1>2. PICK h, a : /\ a \in ImcBegin(imc.st, h) /\ host' = h
                  /\ imc' = [st |-> a.st, round |-> RoundAtBegin(imc.round)]
                  /\ inbox' = a.out /\ outbox' = <<>>
  BY <1>1 DEF Begin, Send
<1>3. imc'.st = a.st
  BY <1>2, Instances
<1>4. Says(imc.st, host', a)
  BY <1>2, ImcSays DEF HInv
<1>5. Remembers(imc.st)'
  BY <1>1, <1>3, <1>4 DEF Says, Remembers
<1>6. Opening'
  <2>. SUFFICES ASSUME Able' PROVE Len(inbox') = 1 /\ outbox' = <<>> /\ Opens(inbox[1])'
    BY <1>1 DEF Opening
  <2>1. PICK m : /\ a.out = <<m>>
                 /\ CASE pair = "dummy"       -> host' = "allow" => m.action = "allow"
                      [] pair = "platid"      -> m.kind = "cert" /\ m.cert = a.st.cert
                      [] pair = "attestation" -> m.kind = "cert" /\ m.cert = host'.aik
                      [] pair = "clamav"      -> host'.clamd = "PONG" =>
                           m.status = "operational" /\ m.versions = host'.clamconf
                      [] OTHER                -> TRUE
    BY <1>1, <1>3, <1>4 DEF Says, Able
  <2>2. Len(inbox') = 1 /\ inbox'[1] = m
    BY <1>2, <2>1, JoinOne
  <2>. QED  BY <1>1, <1>2, <1>3, <2>1, <2>2 DEF Opens
<1>. QED  BY <1>1, <1>5, <1>6 DEF CInv, InHand, CompliantIsAllowed

\* The first message is what the IMV waits for.
LEMMA FirstIsDue ==
    ASSUME TypeOK, imv # Absent, ImvShape(imv.st), imc # Absent, UNCHANGED <<pair, host, imc>>,
           policy' \in PoliciesNow, NEW m, Opens(m), Compliant',
           NEW a \in ImvHandshake(imv.st, policy')
    PROVE  /\ a.res = "SUCCESS" /\ Able
           /\ Due(a.st, Nothing, m)'
<1>. pair \in Pairs
  BY ImcImvAssumption DEF TypeOK
<1>1. CASE pair = "example"
  <2>1. a = Answer(Cleared(imv.st), <<>>)
    BY <1>1 DEF ImvHandshake
  <2>. QED  BY <1>1, <2>1, AnswerFields DEF Able, Due
<1>2. CASE pair = "dummy"
  <2>1. a.res = "SUCCESS"
    BY <1>2, DummyAnswers, AnswerFields DEF ImvHandshake, Dummy!ImvHandshake
  <2>2. m.action = "allow"
    BY <1>2 DEF Compliant, Opens
  <2>. QED  BY <1>2, <2>1, <2>2 DEF Able, Due
<1>3. CASE pair = "platid"
  <2>1. a = Answer(IF imv.st.sent THEN Platid!NewImv ELSE imv.st, <<>>)
    BY <1>3, PlatidAnswers DEF ImvHandshake, Platid!ImvHandshake
  <2>2. a.res = "SUCCESS" /\ ~a.st.sent
    BY <2>1, AnswerFields DEF Platid!NewImv
  <2>3. imc.st.ready /\ m.kind = "cert" /\ m.cert = imc.st.cert
    BY <1>3 DEF Compliant, Opens
  <2>. QED  BY <1>3, <2>2, <2>3 DEF Able, Due
<1>4. CASE pair = "attestation"
  <2>. DEFINE s == [imv.st EXCEPT !.first = TRUE, !.good = TRUE, !.cert = Attestation!Nothing]
  <2>1. a = Answer(s, <<>>)
    BY <1>4, AttestationAnswers DEF ImvHandshake, Attestation!ImvHandshake
  <2>2. s.first /\ s.good
    BY <1>4 DEF ImvShape
  <2>. HIDE DEF s
  <2>3. a.res = "SUCCESS" /\ a.st.first /\ a.st.good
    BY <2>1, <2>2, AnswerFields
  <2>4. Attestation!Loads(host) /\ host.tpm
    BY <1>4 DEF Compliant
  <2>5. m.kind = "cert" /\ m.cert = host.aik
    BY <1>4 DEF Opens
  <2>. QED  BY <1>4, <2>3, <2>4, <2>5 DEF Able, Due
<1>5. CASE pair = "clamav"
  <2>1. a.res = "SUCCESS"
    BY <1>5, ClamavAnswers, AnswerFields DEF ImvHandshake, Clamav!ImvHandshake
  <2>2. /\ host.clamd = "PONG" /\ host.clamconf # <<>>
        /\ ~(host.wide /\ host.ending = "cld")
    BY <1>5 DEF Compliant
  <2>3. m.status = "operational" /\ m.versions = host.clamconf
    BY <1>5, <2>2 DEF Opens
  <2>. QED  BY <1>5, <2>1, <2>2, <2>3 DEF Able, Due
<1>6. CASE pair = "hostscanner"
  <2>. DEFINE s == [Cleared(imv.st) EXCEPT !.count = 0, !.policys = {}]
              t == [s EXCEPT !.policys = policy'.ports]
  <2>1. policy'.readable
    BY <1>6 DEF Compliant
  <2>2. a = Answer(t, <<>>)
    BY <1>6, <2>1, HostScannerAnswers DEF ImvHandshake, HostScanner!ImvHandshake
  <2>3. DOMAIN Cleared(imv.st) = {"rec", "count", "policys"}
    BY <1>6 DEF Cleared, ImvShape
  <2>4. DOMAIN s = {"rec", "count", "policys"} /\ s.count = 0
    BY <2>3
  <2>5. t.count = 0
    <3>. HIDE DEF s
    <3>. QED  BY <2>4
  <2>. HIDE DEF t
  <2>6. a.res = "SUCCESS" /\ a.st.count = 0
    BY <2>2, <2>5, AnswerFields
  <2>. QED  BY <1>6, <2>6 DEF Able, Due
<1>. QED  BY <1>1, <1>2, <1>3, <1>4, <1>5, <1>6 DEF Pairs

LEMMA CAccept == HInv /\ RInv /\ CInv /\ Accept => CInv'
<1>. SUFFICES ASSUME HInv, RInv, CInv, Accept, clean' PROVE CInv'
  BY DEF CInv
<1>1. /\ turn = "arrival" /\ pos = 0 /\ turn' = "deliver"
      /\ UNCHANGED <<pair, host, imc, inbox, outbox>>
  BY DEF Accept, client, net
<1>2. PICK pol \in PoliciesNow :
        /\ policy' = pol
        /\ IF imv = Absent THEN UNCHANGED <<imv, clean>>
           ELSE \E a \in ImvHandshake(imv.st, pol) :
                  /\ Keep(a, 0)
                  /\ a.res = "SUCCESS" => given' = Nothing
  BY DEF Accept, AccessAtStart
<1>3. clean
  BY <1>2 DEF Keep
<1>4. imv # Absent /\ Opening /\ Remembers(imc.st) /\ imc # Absent
  BY <1>1, <1>3 DEF CInv, Opening, RInv
<1>5. PICK a \in ImvHandshake(imv.st, policy') :
        Keep(a, 0) /\ (a.res = "SUCCESS" => given' = Nothing)
  BY <1>2, <1>4
<1>6. Remembers(imc.st)'
  BY <1>1, <1>4 DEF Remembers
<1>7. ASSUME Compliant' PROVE ~error' /\ Talk'
  <2>1. TypeOK /\ ImvShape(imv.st)
    BY <1>4 DEF HInv
  <2>2. ASSUME NEW m, Opens(m)
        PROVE  a.res = "SUCCESS" /\ Able /\ Due(a.st, Nothing, m)'
    BY <1>1, <1>2, <1>4, <1>5, <1>7, <2>1, <2>2, FirstIsDue
  <2>3. Able
    BY <1>1, <1>7 DEF Able, Compliant
  <2>4. Len(inbox) = 1 /\ outbox = <<>> /\ Opens(inbox[1])
    BY <1>4, <2>3 DEF Opening
  <2>5. a.res = "SUCCESS" /\ Due(a.st, Nothing, inbox[1])'
    BY <1>1, <2>2, <2>4
  <2>6. imv'.st = a.st /\ ~error' /\ given' = Nothing
    BY <1>5, <2>5, Instances DEF Keep
  <2>. QED  BY <1>1, <2>4, <2>5, <2>6 DEF Talk
<1>. QED  BY <1>1, <1>6, <1>7 DEF CInv, CompliantIsAllowed

LEMMA CImvGets == HInv /\ MInv /\ RInv /\ EInv /\ CInv /\ ImvGets => CInv'
<1>. SUFFICES ASSUME HInv, MInv, RInv, EInv, CInv, ImvGets, clean' PROVE CInv'
  BY DEF CInv
<1>1. /\ turn = "deliver" /\ inbox # <<>> /\ ~error /\ inbox' = Tail(inbox) /\ turn' = turn
      /\ UNCHANGED <<pair, host, policy, imc>>
  BY DEF ImvGets, client
<1>2. PICK a \in ImvReceive(imv.st, Head(inbox)) :
        /\ Keep(a, imv.round)
        /\ outbox' = outbox \o a.out
        /\ a.res = "SUCCESS" => given' = IF a.give # Nothing THEN a.give ELSE given
  BY DEF ImvGets
<1>3. clean /\ ~a.broken
  BY <1>2 DEF Keep
<1>4. InHand /\ Knows /\ imv # Absent /\ imc # Absent /\ Remembers(imc.st)
  BY <1>1, <1>3 DEF InHand, EInv, HInv, RInv, CInv
<1>5. Remembers(imc.st)'
  BY <1>1, <1>4 DEF Remembers
<1>6. ASSUME Compliant' PROVE ~error' /\ Talk'
  <2>1. Compliant
    BY <1>1, <1>4, <1>6, CompliantKept
  <2>2. Talk
    BY <1>3, <1>4, <2>1 DEF CInv
  <2>3. Len(inbox) = 1 /\ outbox = <<>> /\ Due(imv.st, given, inbox[1])
    BY <1>1, <2>2 DEF Talk
  <2>4. Head(inbox) = inbox[1] /\ inbox' = <<>>
    BY <1>1, <2>3, OneMessage DEF MInv, Said
  <2>5. Replies(a)
    BY <1>2, <1>3, <1>4, <2>1, <2>3, <2>4, ImvReplies
  <2>. DEFINE g == IF a.give # Nothing THEN a.give ELSE given
  <2>6. /\ a.res = "SUCCESS" /\ given' = g
        /\ \/ a.out = <<>> /\ Settled(a.st, g)
           \/ \E r : a.out = <<r>> /\ Asking(a.st, g, r) /\ Counts(a.st, 0)
    BY <1>2, <2>5 DEF Replies
  <2>7. imv'.st = a.st /\ ~error'
    BY <1>2, <2>6, Instances DEF Keep
  <2>. HIDE DEF g
  <2>8. CASE a.out = <<>> /\ Settled(a.st, g)
    <3>1. outbox' = <<>>
      BY <1>2, <2>3, <2>8, JoinNone
    <3>2. Settled(imv.st, given)'
      BY <1>1, <2>6, <2>7, <2>8 DEF Settled
    <3>. QED  BY <1>1, <2>4, <2>7, <3>1, <3>2 DEF Talk
  <2>9. CASE \E r : a.out = <<r>> /\ Asking(a.st, g, r) /\ Counts(a.st, 0)
    <3>1. PICK r : a.out = <<r>> /\ Asking(a.st, g, r) /\ Counts(a.st, 0)
      BY <2>9
    <3>2. Len(outbox') = 1 /\ outbox'[1] = r
      BY <1>2, <2>3, <3>1, JoinOne
    <3>3. Asking(imv.st, given, outbox[1])' /\ Counts(imv.st, 0)'
      BY <1>1, <2>6, <2>7, <3>1, <3>2, TalkParts
    <3>. QED  BY <1>1, <2>4, <2>7, <3>2, <3>3 DEF Talk
  <2>. QED  BY <2>6, <2>8, <2>9
<1>. QED  BY <1>1, <1>5, <1>6 DEF CInv, CompliantIsAllowed

\* The IMCs change their state when a handshake begins, the virus scanner's
\* with every message.
LEMMA ImcStateKept ==
    ASSUME TypeOK, pair # "clamav", NEW st, NEW m, NEW a \in ImcReceive(st, m)
    PROVE  a.st = st
<1>. pair \in Pairs
  BY ImcImvAssumption DEF TypeOK
<1>1. \E out : \/ a = Answer(st, out)
               \/ \E res : a = Failure(st, res)
  BY ExampleAnswers, DummyAnswers, PlatidAnswers, AttestationAnswers, HostScannerAnswers
  DEF Pairs, ImcReceive, Example!ImcReceive, Dummy!ImcReceive, Platid!ImcReceive,
      Attestation!ImcReceive, HostScanner!ImcReceive
<1>. QED  BY <1>1, AnswerFields

LEMMA CImcGets == HInv /\ MInv /\ RInv /\ CInv /\ ImcGets => CInv'
<1>. SUFFICES ASSUME HInv, MInv, RInv, CInv, ImcGets, clean' PROVE CInv'
  BY DEF CInv
<1>1. /\ turn = "client" /\ outbox # <<>> /\ outbox' = Tail(outbox) /\ turn' = turn
      /\ clean /\ UNCHANGED <<pair, host, policy, imv, error, given>>
  BY DEF ImcGets, server, past
<1>2. imc # Absent /\ imc = [st |-> imc.st, round |-> imc.round] /\ Remembers(imc.st)
      /\ InHand /\ TypeOK
  BY <1>1 DEF RInv, HInv, CInv, InHand
<1>3. PICK a \in ImcReceive(imc.st, Head(outbox)) :
        imc' = [imc EXCEPT !.st = a.st] /\ inbox' = inbox \o a.out
  BY <1>2 DEF ImcGets
<1>4. imc' # Absent /\ imc'.st = a.st
  <2>1. imc' = [st |-> a.st, round |-> imc.round]
    BY <1>2, <1>3
  <2>. QED  BY <2>1, Instances
<1>5. pair # "clamav" => imc'.st = imc.st
  BY <1>2, <1>3, <1>4, ImcStateKept
<1>6. Remembers(imc.st)'
  BY <1>1, <1>2, <1>5 DEF Remembers
<1>7. ASSUME Compliant' PROVE ~error' /\ Talk'
  <2>1. Compliant
    BY <1>1, <1>2, <1>4, <1>5, <1>7, CompliantKept
  <2>2. ~error /\ Talk
    BY <1>1, <1>2, <2>1 DEF CInv
  <2>3. /\ inbox = <<>> /\ Len(outbox) = 1
        /\ Asking(imv.st, given, outbox[1]) /\ Counts(imv.st, 1)
    BY <1>1, <2>2 DEF Talk
  <2>4. outbox' = <<>> /\ Head(outbox) = outbox[1]
    BY <1>1, <2>3, OneMessage DEF MInv
  <2>5. Responds(a)
    BY <1>2, <1>3, <2>1, <2>3, <2>4, ImcResponds
  <2>6. PICK m : a.out = <<m>> /\ Due(imv.st, given, m)
    BY <2>3, <2>5 DEF Responds
  <2>7. Len(inbox') = 1 /\ inbox'[1] = m
    BY <1>3, <2>3, <2>6, JoinOne
  <2>8. Due(imv.st, given, inbox[1])'
    BY <1>1, <1>4, <2>5, <2>6, <2>7, TalkParts DEF Responds
  <2>. QED  BY <1>1, <2>2, <2>4, <2>7, <2>8 DEF Talk
<1>. QED  BY <1>1, <1>6, <1>7 DEF CInv, CompliantIsAllowed

LEMMA CImcEnds == HInv /\ RInv /\ CInv /\ ImcEnds => CInv'
<1>. SUFFICES ASSUME HInv, RInv, CInv, ImcEnds, clean' PROVE CInv'
  BY DEF CInv
<1>1. /\ turn = "client" /\ outbox = <<>> /\ outbox' = <<>> /\ turn' = "arrival"
      /\ inbox' = inbox /\ pos' = pos + 1 /\ clean
      /\ UNCHANGED <<pair, host, policy, imv, error, given>>
  BY DEF ImcEnds, Send, server
<1>2. imc # Absent /\ imc = [st |-> imc.st, round |-> imc.round] /\ Remembers(imc.st)
      /\ InHand /\ pos \in Nat
  BY <1>1, ImcImvAssumption DEF RInv, HInv, CInv, InHand, TypeOK
<1>3. imc' # Absent /\ imc'.st = imc.st
  <2>1. imc' = [imc EXCEPT !.round = @ + 1]
    BY <1>2 DEF ImcEnds
  <2>2. imc' = [st |-> imc.st, round |-> imc.round + 1]
    BY <1>2, <2>1
  <2>. QED  BY <2>2, Instances
<1>4. Remembers(imc.st)'
  BY <1>1, <1>2, <1>3 DEF Remembers
<1>5. ASSUME Compliant' PROVE ~error' /\ Talk'
  <2>1. ~error /\ Talk
    BY <1>1, <1>2, <1>3, <1>5, CompliantKept DEF CInv
  <2>2. Len(inbox) = 1 /\ Due(imv.st, given, inbox[1])
    BY <1>1, <2>1, JoinNone DEF Talk
  <2>3. Due(imv.st, given, inbox[1])'
    BY <1>1, <1>3, <2>2, TalkParts
  <2>. QED  BY <1>1, <2>1, <2>2, <2>3 DEF Talk
<1>6. pos' # 0
  BY <1>1, <1>2
<1>. QED  BY <1>1, <1>4, <1>5, <1>6 DEF CInv, CompliantIsAllowed

LEMMA CNextBatch == RInv /\ CInv /\ NextBatch => CInv'
<1>. SUFFICES ASSUME RInv, CInv, NextBatch, clean' PROVE CInv'
  BY DEF CInv
<1>1. /\ turn = "arrival" /\ pos > 0 /\ turn' = "deliver" /\ clean
      /\ UNCHANGED <<pair, host, policy, imc, imv, error, given, inbox, outbox>>
  BY DEF NextBatch, client, server, net, past
<1>2. imc # Absent /\ Remembers(imc.st) /\ InHand
  BY <1>1 DEF RInv, CInv, InHand
<1>3. Remembers(imc.st)'
  BY <1>1, <1>2 DEF Remembers
<1>4. ASSUME Compliant' PROVE ~error' /\ Talk'
  <2>1. ~error /\ Talk
    BY <1>1, <1>2, <1>4, CompliantKept DEF CInv
  <2>2. Len(inbox) = 1 /\ outbox = <<>> /\ Due(imv.st, given, inbox[1])
    BY <1>1, <2>1 DEF Talk
  <2>3. Due(imv.st, given, inbox[1])'
    BY <1>1, <2>2, TalkParts
  <2>. QED  BY <1>1, <2>1, <2>2, <2>3 DEF Talk
<1>. QED  BY <1>1, <1>3, <1>4 DEF CInv, CompliantIsAllowed

LEMMA CImvEnds == HInv /\ RInv /\ CInv /\ ImvEnds => CInv'
<1>. SUFFICES ASSUME HInv, RInv, CInv, ImvEnds, clean' PROVE CInv'
  BY DEF CInv
<1>1. /\ turn = "deliver" /\ inbox' = <<>> /\ clean
      /\ turn' = IF outbox # <<>> THEN "client" ELSE "solicit"
      /\ imv' = IF error THEN imv ELSE [st |-> ImvEnding(imv.st), round |-> imv.round + 1]
      /\ UNCHANGED <<pair, host, policy, imc, error, given, outbox>>
  BY DEF ImvEnds, client, past
<1>2. imc # Absent /\ Remembers(imc.st) /\ InHand
  BY <1>1 DEF RInv, CInv, InHand
<1>3. Remembers(imc.st)'
  BY <1>1, <1>2 DEF Remembers
<1>4. ASSUME Compliant' PROVE ~error' /\ Talk'
  <2>1. ~error /\ Talk
    BY <1>1, <1>2, <1>4, CompliantKept DEF CInv
  <2>2. imv'.st = ImvEnding(imv.st) /\ ImvShape(imv.st)
    BY <1>1, <1>2, <2>1, Instances DEF HInv
  <2>3. inbox = <<>>
    BY <2>1 DEF ImvEnds
  <2>4. CASE outbox = <<>>
    <3>1. turn' = "solicit" /\ outbox' = <<>> /\ Settled(imv.st, given)
      BY <1>1, <2>1, <2>3, <2>4, JoinNone DEF Talk
    <3>2. Settled(imv.st, given)'
      BY <1>1, <2>2, <3>1 DEF Settled, ImvEnding
    <3>. QED  BY <1>1, <2>1, <3>1, <3>2 DEF Talk
  <2>5. CASE outbox # <<>>
    <3>1. /\ turn' = "client" /\ Len(outbox) = 1
          /\ Asking(imv.st, given, outbox[1]) /\ Counts(imv.st, 0)
      BY <1>1, <2>1, <2>3, <2>5, JoinNone DEF Talk
    <3>2. Counts(imv.st, 1)'
      BY <1>1, <2>2, <3>1 DEF Counts, ImvEnding, HostScanner!ImvEnding, ImvShape
    <3>3. Asking(imv'.st, given, outbox[1])
      BY <2>2, <3>1 DEF Asking, ImvEnding
    <3>4. Asking(imv.st, given, outbox[1])'
      BY <1>1, <3>3, TalkParts
    <3>. QED  BY <1>1, <2>1, <3>1, <3>2, <3>4 DEF Talk
  <2>. QED  BY <2>4, <2>5
<1>. QED  BY <1>1, <1>3, <1>4 DEF CInv, CompliantIsAllowed

LEMMA CSolicit == RInv /\ CInv /\ Solicit => CInv'
<1>. SUFFICES ASSUME RInv, CInv, Solicit, clean' PROVE CInv'
  BY DEF CInv
<1>1. /\ turn = "solicit" /\ turn' = "decide" /\ clean
      /\ given' = IF given = Nothing THEN Solicited(imv.st) ELSE given
      /\ UNCHANGED <<pair, host, policy, imc, imv, error>>
  BY DEF Solicit, client, past
<1>2. imc # Absent /\ Remembers(imc.st) /\ InHand
  BY <1>1 DEF RInv, CInv, InHand
<1>3. Remembers(imc.st)'
  BY <1>1, <1>2 DEF Remembers
<1>4. ASSUME Compliant' PROVE ~error' /\ Talk'
  <2>1. ~error /\ Talk
    BY <1>1, <1>2, <1>4, CompliantKept DEF CInv
  <2>2. Settled(imv.st, given)
    BY <1>1, <2>1 DEF Talk
  <2>3. given' = Verdict(imv.st)
    BY <1>1, <2>2 DEF Settled, Verdict, Solicited, Platid!Solicited, Nothing
  <2>4. Verdict(imv.st)' = Verdict(imv.st)
    BY <1>1 DEF Verdict
  <2>. QED  BY <1>1, <2>1, <2>3, <2>4 DEF Talk
<1>. QED  BY <1>1, <1>3, <1>4 DEF CInv, CompliantIsAllowed

LEMMA CDecide == RInv /\ CInv /\ Decide => CInv'
<1>. SUFFICES ASSUME RInv, CInv, Decide, clean' PROVE CInv'
  BY DEF CInv
<1>1. /\ turn = "decide" /\ turn' = "idle" /\ clean
      /\ access' = StateOf(PolicyOf([v \in {"imv"} |-> given]))
      /\ UNCHANGED <<pair, host, policy, imc, imv>>
  BY DEF Decide, client, past
<1>2. imc # Absent /\ Remembers(imc.st) /\ InHand
  BY <1>1 DEF RInv, CInv, InHand
<1>3. Remembers(imc.st)'
  BY <1>1, <1>2 DEF Remembers
<1>4. access' = "ACCESS_ALLOWED" <=> given = "ALLOW"
  BY <1>1 DEF StateOf, PolicyOf
<1>5. CompliantIsAllowed'
  <2>. SUFFICES ASSUME Compliant'
                PROVE  access' = "ACCESS_ALLOWED" <=> (pair = "platid" => imv.st.good)
    BY <1>1 DEF CompliantIsAllowed
  <2>1. Talk
    BY <1>1, <1>2, CompliantKept DEF CInv
  <2>2. given = Verdict(imv.st)
    BY <1>1, <2>1 DEF Talk
  <2>. QED  BY <1>4, <2>2 DEF Verdict
<1>. QED  BY <1>1, <1>3, <1>5 DEF CInv, InHand

LEMMA CStep == HInv /\ MInv /\ RInv /\ EInv /\ CInv /\ [Next]_ivars => CInv'
<1>. SUFFICES ASSUME HInv, MInv, RInv, EInv, CInv, [Next]_ivars PROVE CInv'
  OBVIOUS
<1>1. CASE Initialize \/ UNCHANGED ivars
  BY <1>1, CKept DEF Initialize, ivars, client, server, net, past
<1>2. CASE Create
  <2>1. ~clean'
    BY <1>2 DEF Create, RInv, past
  <2>. QED  BY <2>1 DEF CInv
<1>3. CASE Leave \/ HostChanges \/ LateBatch \/ StrangeBatch
  BY <1>3 DEF Leave, HostChanges, LateBatch, StrangeBatch, CInv
<1>. QED
  BY <1>1, <1>2, <1>3, CBegin, CImcGets, CImcEnds, CAccept, CNextBatch, CImvGets, CImvEnds,
     CSolicit, CDecide DEF Next, ImcStep, ServerStep

-----------------------------------------------------------------------------
(* The promise about access.                                               *)

\* What the server is taken to have heard from the IMV.
Heard(g) == IF g = Nothing THEN NoRec ELSE g

LEMMA PInit == Init => Decision!AInit
<1>. SUFFICES ASSUME Init PROVE Decision!AInit
  OBVIOUS
<1>1. access = "CREATE" /\ given = Nothing
  BY DEF Init
<1>. QED  BY <1>1 DEF Decision!AInit, Decision!NoRec, NoRec

LEMMA PKept == UNCHANGED <<access, given>> => UNCHANGED Decision!avars
  BY DEF Decision!avars

LEMMA PStep == HInv /\ [Next]_ivars => [Decision!ANext]_Decision!avars
<1>. SUFFICES ASSUME HInv, [Next]_ivars PROVE [Decision!ANext]_Decision!avars
  OBVIOUS
<1>1. CASE Accept
  <2>1. access' = "HANDSHAKE" /\ Heard(given') = NoRec
    BY <1>1 DEF Accept, AccessAtStart, Heard
  <2>2. \A p \in {"con"} \X {"imv"} : p[1] = "con"
    OBVIOUS
  <2>3. Decision!Begin("con")
    BY <2>1, <2>2 DEF Decision!Begin, Decision!NoRec, Heard, NoRec
  <2>. QED  BY <2>3 DEF Decision!ANext
<1>2. CASE ImvGets \/ Solicit
  <2>1. access' = access /\ Heard(given') \in Rec
    <3>1. access' = access /\ given' \in Rec \cup {Nothing}
      BY <1>2, HStep DEF ImvGets, Solicit, HInv, TypeOK
    <3>. QED  BY <3>1 DEF Heard, Rec
  <2>2. Decision!Speak("con", "imv")
    <3>1. \A p \in {"con"} \X {"imv"} : p = <<"con", "imv">>
      OBVIOUS
    <3>. QED  BY <2>1, <3>1 DEF Decision!Speak, Decision!Rec, Decision!NoRec, Rec, NoRec, Heard
  <2>. QED  BY <2>2 DEF Decision!ANext
<1>3. CASE Decide
  <2>1. /\ access = "HANDSHAKE" /\ given # Nothing /\ given' = given
        /\ access' = StateOf(PolicyOf([v \in {"imv"} |-> given]))
    BY <1>3 DEF Decide, HInv, InHand
  <2>2. Decision!Voices("con") = [v \in {"imv"} |-> given]
    BY <2>1 DEF Decision!Voices
  <2>3. Decision!StateOf(Decision!PolicyOf(Decision!Voices("con"))) = access'
    BY <2>1, <2>2 DEF Decision!StateOf, Decision!PolicyOf, StateOf, PolicyOf
  <2>4. Decision!DecideByPolicy("con")
    BY <2>1, <2>3 DEF Decision!DecideByPolicy, Decision!Settle
  <2>. QED  BY <2>4 DEF Decision!ANext
<1>4. CASE \/ Initialize \/ Create \/ Leave \/ HostChanges \/ Begin \/ LateBatch
           \/ StrangeBatch \/ ImcStep \/ NextBatch \/ ImvEnds \/ UNCHANGED ivars
  <2>1. UNCHANGED <<access, given>>
    BY <1>4 DEF Initialize, Create, Leave, HostChanges, Begin, LateBatch, StrangeBatch, ImcStep,
                ImcGets, ImcEnds, NextBatch, ImvEnds, ivars, server
  <2>. QED  BY <2>1, PKept
<1>. QED  BY <1>1, <1>2, <1>3, <1>4 DEF Next, ServerStep

-----------------------------------------------------------------------------
(* The theorems.                                                           *)

\* The five invariants of the pairs' handshakes hold together: IMCLibrary's,
\* IMVLibrary's and the functions' own variables, the batches between them and
\* what the server has heard.
THEOREM Invariance == Spec => []IInv
<1>1. Init => IInv
  BY HInit, MInit, RInit, EInit, CInit DEF IInv
<1>2. IInv /\ [Next]_ivars => IInv'
  BY HStep, MStep, RStep, EStep, CStep DEF IInv
<1>. QED  BY <1>1, <1>2, PTL DEF Spec

\* The variables hold values of their types, whichever function is installed:
\* a library that the server has terminated has no instance left.
THEOREM TypeCorrect == Spec => []TypeOK
<1>1. IInv => TypeOK
  BY DEF IInv, HInv
<1>. QED  BY <1>1, Invariance, PTL

\* The rounds that IMCLibrary and IMVLibrary count apart agree while a batch is
\* under way, after any number of handshakes of which any were broken off.
THEOREM RoundsAreOne == Spec => []RoundsAgree
<1>1. IInv => RoundsAgree
  <2>. SUFFICES ASSUME IInv PROVE RoundsAgree
    OBVIOUS
  <2>1. RInv /\ pos \in Nat
    BY ImcImvAssumption DEF IInv, HInv, TypeOK
  <2>. QED  BY <2>1 DEF RInv, RoundsAgree
<1>. QED  BY <1>1, Invariance, PTL

\* Whatever the endpoint is like, whichever batches its functions or others send,
\* whichever come late and whatever earlier handshakes left in the instances,
\* access is given only for what was said in this handshake: AbstractIMV's
\* recommendation, platid's verifySignature, attestation's quotes, the comparisons
\* of the others.  The exceptions are those of Earned: an attestation client of
\* which nothing was asked, and numbers of versions that differ in their digits.
THEOREM AccessEarned == Spec => []AccessIsEarned
<1>1. IInv => AccessIsEarned
  BY DEF IInv, EInv
<1>. QED  BY <1>1, Invariance, PTL

\* A compliant endpoint whose batches arrive is let in, after any handshakes:
\* the functions' handlers leave nothing in their instances that would refuse
\* it, but for a platid instance that failed before it sent a nonce.
THEOREM CompliantAllowed == Spec => []CompliantIsAllowed
<1>1. IInv => CompliantIsAllowed
  BY DEF IInv, CInv, CompliantIsAllowed
<1>. QED  BY <1>1, Invariance, PTL

\* With each of the pairs the connection's state changes as TNCS promises:
\* a handshake forgets what was said before, and it is decided once, by the
\* local policy over what the IMV said in it.
THEOREM PromiseKept == Spec => KeepsThePromise
<1>1. IInv => HInv
  BY DEF IInv
<1>. QED  BY <1>1, Invariance, PInit, PStep, PTL DEF Spec, KeepsThePromise, Decision!ASpec

=============================================================================
