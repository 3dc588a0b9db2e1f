------------------------------- MODULE ImcImv -------------------------------
(***************************************************************************)
(* One of the repository's IMC/IMV pairs on a connection of a TNC client   *)
(* and a TNC server: the client's IMCLibrary with its instance, the        *)
(* batches between the two, the server's IMVLibrary with its instance and  *)
(* what the server does with the instance's answers (the module Tncs has   *)
(* the server in full; here it serves one connection with one IMV).        *)
(*                                                                         *)
(* TNCCS numbers the batches of a handshake alike, so that a batch of an   *)
(* earlier handshake may be taken for the one of the same number.          *)
(***************************************************************************)
EXTENDS ImUnit, Integers, FiniteSets

CONSTANTS Hosts,          \* pair -> states of the endpoint it measures
          Policies,       \* pair -> policies of the server
          Strange,        \* pair -> batches that other functions may send
          MaxHandshakes,  \* bound: handshakes of the connection
          MaxBatches,     \* bound: batches of the client in a handshake
          MaxStrange      \* bound: batches of other functions

Pairs == {"example", "dummy", "platid", "attestation", "clamav", "hostscanner"}

Example     == INSTANCE ExamplePair
Dummy       == INSTANCE DummyPair
Platid      == INSTANCE PlatidPair
Attestation == INSTANCE AttestationPair
Clamav      == INSTANCE ClamavPair
HostScanner == INSTANCE HostScannerPair

\* dummyimv.policy holds a number; attestationimv.policy lists registers by number,
\* at least one where single quotes are asked for (checkFirstMessage takes the first
\* unseen). What does not parse as a certificate is on no list of certificates.
\* What other functions send are messages of the pair's form; the numbers of a
\* version are those whose comparison ClamavPair knows.
ASSUME ImcImvAssumption ==
    /\ DOMAIN Hosts \subseteq Pairs
    /\ DOMAIN Policies = DOMAIN Hosts /\ DOMAIN Strange = DOMAIN Hosts
    /\ \A p \in DOMAIN Strange : \A b \in Strange[p] : b \in Seq({b[i] : i \in DOMAIN b})
    /\ "clamav" \in DOMAIN Hosts =>
         /\ \A h \in Hosts["clamav"] : Clamav!Numbers(h.clamconf)
         /\ \A b \in Strange["clamav"] : \A i \in DOMAIN b :
              b[i].kind = "report" /\ Clamav!Numbers(b[i].versions)
         /\ \A p \in Policies["clamav"] : \A e \in p.entries :
              e.key # Clamav!StatusKey => Clamav!Number(e.value)
    /\ MaxHandshakes \in Nat /\ MaxBatches \in Nat /\ MaxStrange \in Nat
    /\ "dummy" \in DOMAIN Policies => Policies["dummy"] \subseteq Int
    /\ "attestation" \in DOMAIN Policies =>
         \A p \in Policies["attestation"] :
           /\ p.entries \in Seq({p.entries[i] : i \in DOMAIN p.entries})
           /\ \A i \in DOMAIN p.entries : p.entries[i].index \in Nat
           /\ p.quoteType = "single" => p.entries # <<>>
           /\ "garbage" \notin p.aiks
    /\ "platid" \in DOMAIN Policies => \A p \in Policies["platid"] : "garbage" \notin p

VARIABLES
    pair,      \* which IMC and IMV are installed
    host,      \* the endpoint's state
    policy,    \* the IMV's policy
    loaded,    \* IMUnitLibrary::isIMUnitLibraryInitialized of the IMC
    imc, imv,  \* Absent or [st, round]: the library's instance for the connection
    shut,      \* the IMV library was terminated after a fatal error
    error,     \* IMV::error
    given,     \* the recommendation the server has from the IMV, or Nothing
    access,    \* the connection's state
    turn,      \* who is at work: see Turn
    inbox,     \* messages for the IMV
    outbox,    \* messages for the IMC
    pos,       \* batches of the client before the current one in this handshake
    shakes,    \* handshakes begun
    strange,   \* batches of other functions so far
    sent,      \* history: batches of the client, by handshake and number
    heard,     \* history: messages the IMV got in this handshake
    clean      \* history: nothing but the two functions had a part in it

client == <<host, loaded, imc>>
server == <<policy, imv, shut, error, given, access>>
net    == <<inbox, outbox, pos, shakes, strange>>
past   == <<sent, heard, clean>>
ivars  == <<pair, client, server, turn, net, past>>

Turn == {"idle", "arrival", "deliver", "solicit", "decide", "client"}
Absent == [kind |-> "absent"]

-----------------------------------------------------------------------------
(* The pairs' handlers.                                                    *)

NewImc == CASE pair = "example"     -> Example!NewImc
            [] pair = "dummy"       -> Dummy!NewImc
            [] pair = "platid"      -> Platid!NewImc(host)
            [] pair = "attestation" -> Attestation!NewImc
            [] pair = "clamav"      -> Clamav!NewImc
            [] pair = "hostscanner" -> HostScanner!NewImc

ImcBegin(st, h) == CASE pair = "example"     -> Example!ImcBegin(st)
                     [] pair = "dummy"       -> Dummy!ImcBegin(st, h)
                     [] pair = "platid"      -> Platid!ImcBegin(st)
                     [] pair = "attestation" -> Attestation!ImcBegin(st, h)
                     [] pair = "clamav"      -> Clamav!ImcMeasure(st, h)
                     [] pair = "hostscanner" -> HostScanner!ImcBegin(st)

ImcReceive(st, m) == CASE pair = "example"     -> Example!ImcReceive(st, m)
                       [] pair = "dummy"       -> Dummy!ImcReceive(st, m)
                       [] pair = "platid"      -> Platid!ImcReceive(st, m)
                       [] pair = "attestation" -> Attestation!ImcReceive(st, m, host)
                       [] pair = "clamav"      -> Clamav!ImcMeasure(st, host)
                       [] pair = "hostscanner" -> HostScanner!ImcReceive(st, m, host)

NewImv(p) == CASE p = "example"     -> Example!NewImv
               [] p = "dummy"       -> Dummy!NewImv
               [] p = "platid"      -> Platid!NewImv
               [] p = "attestation" -> Attestation!NewImv
               [] p = "clamav"      -> Clamav!NewImv
               [] p = "hostscanner" -> HostScanner!NewImv

\* AbstractIMV::notifyConnectionChange forgets the recommendation; platid and
\* attestation override it and keep none.
Cleared(st) == [st EXCEPT !.rec = NoRec]

ImvHandshake(st, pol) ==
    CASE pair = "example"     -> {Answer(Cleared(st), <<>>)}
      [] pair = "dummy"       -> Dummy!ImvHandshake(Cleared(st), pol)
      [] pair = "platid"      -> Platid!ImvHandshake(st)
      [] pair = "attestation" -> Attestation!ImvHandshake(st)
      [] pair = "clamav"      -> Clamav!ImvHandshake(Cleared(st), pol)
      [] pair = "hostscanner" -> HostScanner!ImvHandshake(Cleared(st), pol)

\* A nonce is drawn for one message of one batch.
Nonce == <<shakes, pos, Len(inbox)>>

ImvReceive(st, m) ==
    CASE pair = "example"     -> Example!ImvReceive(st, imv.round, m)
      [] pair = "dummy"       -> Dummy!ImvReceive(st, m)
      [] pair = "platid"      -> Platid!ImvReceive(st, policy, m, Nonce)
      [] pair = "attestation" -> Attestation!ImvReceive(st, policy, m, Nonce)
      [] pair = "clamav"      -> Clamav!ImvReceive(st, policy, m)
      [] pair = "hostscanner" -> HostScanner!ImvReceive(st, policy, m)

ImvEnding(st) == IF pair = "hostscanner" THEN HostScanner!ImvEnding(st) ELSE st

\* AbstractIMV::solicitRecommendation provides what is stored.
Solicited(st) == CASE pair = "platid"      -> Platid!Solicited(st)
                   [] pair = "attestation" -> Attestation!Solicited(st)
                   [] OTHER                -> st.rec

\* platid and attestation read their policy when the library is loaded, the
\* others with every handshake.
PoliciesNow == IF pair \in {"platid", "attestation"} THEN {policy}
               ELSE Policies[pair]

-----------------------------------------------------------------------------
(* The client: TNCC, which is not part of the repository, calls IMCLibrary. *)

Init == /\ pair \in DOMAIN Hosts
        /\ host \in Hosts[pair] /\ policy \in Policies[pair]
        /\ loaded = FALSE /\ imc = Absent
        /\ imv = [st |-> NewImv(pair), round |-> 0]
        /\ shut = FALSE /\ error = FALSE /\ given = Nothing
        /\ access = "CREATE" /\ turn = "idle"
        /\ inbox = <<>> /\ outbox = <<>> /\ pos = 0 /\ shakes = 0 /\ strange = 0
        /\ sent = {} /\ heard = <<>> /\ clean = FALSE

\* TNC_IMC_Initialize and TNC_IMC_ProvideBindFunction.
Initialize == /\ ~loaded /\ loaded' = TRUE
              /\ UNCHANGED <<pair, host, imc, server, turn, net, past>>

\* CREATE is refused with ILLEGAL_OPERATION if there is an instance.
Create == /\ loaded /\ imc = Absent
          /\ imc' = [st |-> NewImc, round |-> 0]
          /\ UNCHANGED <<pair, host, loaded, server, turn, net, past>>

\* TNC_IMC_Terminate deletes all instances, DELETE the connection's.
Leave == /\ imc # Absent
         /\ imc' = Absent
         /\ loaded' \in BOOLEAN
         /\ clean' = FALSE
         /\ UNCHANGED <<pair, host, server, turn, net, sent, heard>>

\* The endpoint changes while its IMC is about to look at it again.
HostChanges == /\ turn = "client" /\ clean
               /\ host' \in Hosts[pair] \ {host}
               /\ clean' = FALSE
               /\ UNCHANGED <<pair, loaded, imc, server, turn, net, sent, heard>>

Send(batch, n, k) == /\ inbox' = batch
                     /\ sent' = sent \cup {[shake |-> n, pos |-> k, batch |-> batch]}
                     /\ pos' = k /\ shakes' = n /\ outbox' = <<>>
                     /\ turn' = "arrival"

\* Faulty variant: IMCLibrary counts the handshakes' rounds through.
RoundAtBeginNoReset(r) == r + 1

\* HANDSHAKE sets the round to 0, beginHandshake counts it, even if it throws.
RoundAtBegin(r) == 1

\* A handshake starts: the HANDSHAKE notification and beginHandshake.  What was
\* under way is abandoned.  Without an instance the IMC has no part in it.
Begin == /\ turn \in {"idle", "client", "arrival"} /\ shakes < MaxHandshakes
         /\ \E h \in Hosts[pair] :
              /\ host' = h
              /\ IF imc = Absent
                 THEN Send(<<>>, shakes + 1, 0) /\ UNCHANGED imc
                 ELSE \E a \in ImcBegin(imc.st, h) :
                        /\ imc' = [st |-> a.st, round |-> RoundAtBegin(imc.round)]
                        /\ Send(a.out, shakes + 1, 0)
         /\ heard' = <<>>
         /\ clean' = (imc # Absent /\ imv # Absent)
         /\ UNCHANGED <<pair, loaded, server, strange>>

ImcGets == /\ turn = "client" /\ outbox # <<>>
           /\ outbox' = Tail(outbox)
           /\ IF imc = Absent THEN UNCHANGED <<imc, inbox>>
              ELSE \E a \in ImcReceive(imc.st, Head(outbox)) :
                     /\ imc' = [imc EXCEPT !.st = a.st]
                     /\ inbox' = inbox \o a.out
           /\ UNCHANGED <<pair, host, loaded, server, turn, pos, shakes, strange, past>>

\* batchEnding counts the round; TNCC sends what the IMC left with it.
ImcEnds == /\ turn = "client" /\ outbox = <<>> /\ pos < MaxBatches
           /\ imc' = IF imc = Absent THEN imc ELSE [imc EXCEPT !.round = @ + 1]
           /\ Send(inbox, shakes, pos + 1)
           /\ UNCHANGED <<pair, host, loaded, server, strange, heard, clean>>

-----------------------------------------------------------------------------
(* The server.                                                             *)

\* The batch with this number of an earlier handshake comes, the new one not.
LateBatch == /\ turn = "arrival"
             /\ \E b \in sent : /\ b.pos = pos /\ b.shake < shakes
                                /\ inbox' = b.batch
             /\ inbox' # inbox
             /\ clean' = FALSE
             /\ UNCHANGED <<pair, client, server, turn, outbox, pos, shakes, strange,
                            sent, heard>>

\* The nonce a message is about, if it is about one, has been drawn.
Drawn(n) == n[1] < shakes \/ (n[1] = shakes /\ n[2] < pos)
Sayable(m) == CASE m.kind = "sig"   -> Drawn(m.nonce)
                [] m.kind = "quote" -> Drawn(m.digest.nonce)
                [] OTHER            -> TRUE

\* An endpoint with other functions sends something else, of any length.
StrangeBatch == /\ turn = "arrival" /\ strange < MaxStrange
                /\ strange' = strange + 1
                /\ \E b \in Strange[pair] :
                     /\ \A i \in DOMAIN b : Sayable(b[i])
                     /\ inbox' = b
                /\ inbox' # inbox
                /\ clean' = FALSE
                /\ UNCHANGED <<pair, client, server, turn, outbox, pos, shakes, sent, heard>>

\* Faulty variant: the recommendation of the last handshake is kept.
AccessAtStartKeeping == /\ access' = "HANDSHAKE"
                        /\ given' = given

AccessAtStart == /\ access' = "HANDSHAKE"
                 /\ given' = Nothing

\* What the server does with the result of a call: OTHER and INVALID_PARAMETER
\* delete the instance, FATAL the library; both make the IMV an erroneous one
\* with no recommendation.
Keep(a, r) == /\ imv' = IF a.res = "SUCCESS" THEN [st |-> a.st, round |-> r]
                        ELSE Absent
              /\ shut' = (shut \/ a.res = "FATAL")
              /\ error' = (a.res # "SUCCESS")
              /\ clean' = (clean /\ ~a.broken)

\* The first batch: the HANDSHAKE notification, refused without an instance;
\* IMVLibrary sets the round to 0 after the instance's method.
Accept == /\ turn = "arrival" /\ pos = 0
          /\ turn' = "deliver"
          /\ \E pol \in PoliciesNow :
               /\ policy' = pol
               /\ IF imv = Absent
                  THEN /\ access' = "HANDSHAKE" /\ given' = NoRec
                       /\ error' = TRUE /\ UNCHANGED <<imv, shut, clean>>
                  ELSE \E a \in ImvHandshake(imv.st, pol) :
                         /\ Keep(a, 0)
                         /\ IF a.res = "SUCCESS" THEN AccessAtStart
                            ELSE access' = "HANDSHAKE" /\ given' = NoRec
          /\ UNCHANGED <<pair, client, net, sent, heard>>

NextBatch == /\ turn = "arrival" /\ pos > 0
             /\ turn' = "deliver"
             /\ UNCHANGED <<pair, client, server, net, past>>

ImvGets == /\ turn = "deliver" /\ inbox # <<>> /\ ~error
           /\ inbox' = Tail(inbox)
           /\ heard' = Append(heard, Head(inbox))
           /\ \E a \in ImvReceive(imv.st, Head(inbox)) :
                /\ Keep(a, imv.round)
                /\ outbox' = outbox \o a.out
                /\ given' = IF a.res # "SUCCESS" THEN NoRec
                            ELSE IF a.give # Nothing THEN a.give ELSE given
           /\ UNCHANGED <<pair, client, policy, access, turn, pos, shakes, strange, sent>>

\* Faulty variant: the server waits for the client until the IMV has spoken.
ImvEndsWaiting == /\ turn = "deliver" /\ (inbox = <<>> \/ error)
                  /\ imv' = IF error THEN imv
                            ELSE [st |-> ImvEnding(imv.st), round |-> imv.round + 1]
                  /\ inbox' = <<>>
                  /\ turn' = IF outbox # <<>> \/ given = Nothing THEN "client" ELSE "solicit"
                  /\ UNCHANGED <<pair, client, policy, shut, error, given, access,
                                 outbox, pos, shakes, strange, past>>

\* batchEnding, unless the IMV is erroneous; then the server answers with the
\* messages it has or finishes the handshake.
ImvEnds == /\ turn = "deliver" /\ (inbox = <<>> \/ error)
           /\ imv' = IF error THEN imv
                     ELSE [st |-> ImvEnding(imv.st), round |-> imv.round + 1]
           /\ inbox' = <<>>
           /\ turn' = IF outbox # <<>> THEN "client" ELSE "solicit"
           /\ UNCHANGED <<pair, client, policy, shut, error, given, access,
                          outbox, pos, shakes, strange, past>>

Solicit == /\ turn = "solicit"
           /\ given' = IF given = Nothing THEN Solicited(imv.st) ELSE given
           /\ turn' = "decide"
           /\ UNCHANGED <<pair, client, policy, imv, shut, error, access, net, past>>

Decide == /\ turn = "decide"
          /\ access' = StateOf(PolicyOf([v \in {"imv"} |-> given]))
          /\ turn' = "idle"
          /\ UNCHANGED <<pair, client, policy, imv, shut, error, given, net, past>>

ImcStep == ImcGets \/ ImcEnds
ServerStep == Accept \/ NextBatch \/ ImvGets \/ ImvEnds \/ Solicit \/ Decide

Next == \/ Initialize \/ Create \/ Leave \/ HostChanges \/ Begin
        \/ LateBatch \/ StrangeBatch \/ ImcStep \/ ServerStep

\* The server works on what it has; the client answers every batch.
Fairness == WF_ivars(ServerStep) /\ WF_ivars(ImcStep)

Spec == Init /\ [][Next]_ivars /\ Fairness

-----------------------------------------------------------------------------
(* Properties.                                                             *)

\* The values of the variables that the handlers do not own.
TypeOK == /\ pair \in DOMAIN Hosts
          /\ host \in Hosts[pair] /\ policy \in Policies[pair]
          /\ {loaded, shut, error, clean} \subseteq BOOLEAN
          /\ given \in Rec \cup {Nothing} /\ access \in ConState
          /\ turn \in Turn
          /\ pos \in 0 .. MaxBatches /\ shakes \in 0 .. MaxHandshakes
          /\ strange \in 0 .. MaxStrange
          /\ (imc # Absent => loaded /\ imc.round \in Nat)
          /\ (imv # Absent => ~shut /\ imv.round \in Nat)

HeardOf(k) == {heard[i] : i \in {j \in DOMAIN heard : heard[j].kind = k}}

\* The value a quote gives for a register: the TPM lists them by index.
QuotedValue(d, index) == d.values[Cardinality({j \in d.mask : j <= index})]

\* The IMV computes the digest over the values in the order of its policy file.
\* Of several registers in another order a quote says nothing about each.
ByIndex(entries) ==
    \A i, j \in DOMAIN entries : i < j => entries[i].index < entries[j].index

QuoteTells == policy.quoteType = "single" \/ ByIndex(policy.entries)

\* Nothing was asked of the first certificate heard, because it is on no list or
\* the policy asks for no quotes: a further message of the batch is then compared
\* with the digest of an earlier request.
Unasked == ~(/\ heard[1].kind = "cert" /\ heard[1].cert \in policy.aiks
             /\ policy.quoteType \in {"complete", "single"})

\* A line of a report that the policy's entry excludes.  Numbers with different
\* numbers of digits are left out: the code compares them as strings.
Below(v, w) == /\ \A k \in DOMAIN v \cap DOMAIN w :
                    Len(Clamav!Digits(v[k])) = Len(Clamav!Digits(w[k]))
               /\ \E k \in DOMAIN v \cap DOMAIN w :
                    v[k] < w[k] /\ \A j \in 1 .. k - 1 : v[j] = w[j]
Excludes(e, r) ==
    /\ e.key \in Clamav!Lines(r)
    /\ IF e.key = Clamav!StatusKey
       THEN \/ e.op = "="  /\ r.status # e.value
            \/ e.op = "!=" /\ r.status = e.value
       ELSE e.op \in {"=", ">", ">="} /\ Below(r.versions[e.key], e.value)

\* What a client must have said in this handshake to be let in.
Earned ==
    CASE pair = "example" -> Len(heard) >= 2
      [] pair = "dummy" ->
           \E i \in DOMAIN heard :
             /\ heard[i].action = "allow"
             /\ \A j \in DOMAIN heard : j > i => heard[j].action \notin Dummy!Word
      [] pair = "platid" ->
           \E c \in HeardOf("cert"), s \in HeardOf("sig") :
             c.cert \in policy /\ s.key = c.cert /\ s.nonce[1] = shakes
      [] pair = "attestation" ->
           \/ Len(heard) > 1 /\ Unasked
           \/ \E c \in HeardOf("cert") :
                /\ c.cert \in policy.aiks
                /\ \A i \in DOMAIN policy.entries :
                     \E q \in HeardOf("quote") :
                       LET e == policy.entries[i] IN
                       /\ q.key = c.cert /\ q.digest.nonce[1] = shakes
                       /\ e.index \in q.digest.mask
                       /\ QuoteTells => QuotedValue(q.digest, e.index) = e.value
      [] pair = "clamav" ->
           \/ policy.pdp
           \/ \E r \in HeardOf("report") : \A e \in policy.entries : ~Excludes(e, r)
      [] pair = "hostscanner" ->
           \E r \in HeardOf("report") : ~HostScanner!Contradicts(policy.ports, r.ports)

\* An endpoint gets access only for what was said in this very handshake, about
\* the policy of this handshake and for its nonces, whichever functions it has and
\* whatever earlier handshakes left in the instance or on the way; but for an
\* attestation client of which nothing was asked (Unasked) and for numbers of
\* versions with different numbers of digits (Below).
AccessIsEarned == turn = "idle" /\ access = "ACCESS_ALLOWED" => Earned

\* What the endpoint must be like; platid's IMC knows what it loaded.
Compliant ==
    CASE pair = "example" -> TRUE
      [] pair = "dummy" -> host = "allow"
      [] pair = "platid" -> /\ imc # Absent /\ imc.st.ready
                            /\ imc.st.key = imc.st.cert
                            /\ imc.st.cert \in policy
      [] pair = "attestation" ->
           LET e == policy.entries IN
           /\ Attestation!Loads(host) /\ host.tpm /\ host.aik \in policy.aiks
           /\ \A i \in DOMAIN e : e[i].index \in DOMAIN host.pcr
                                    /\ host.pcr[e[i].index] = e[i].value
           /\ \/ policy.quoteType = "single"
              \/ policy.quoteType = "complete" /\ ByIndex(e)
      [] pair = "clamav" ->
           /\ ~policy.pdp /\ host.clamd = "PONG"
           /\ host.clamconf # <<>> /\ ~(host.wide /\ host.ending = "cld")
           /\ \A e \in policy.entries :
                IF e.key = Clamav!StatusKey
                THEN e.op = "=" /\ e.value = "operational"
                ELSE e.key \in DOMAIN host.clamconf
                       /\ Clamav!CompareVersionStrings(host.clamconf[e.key], e.value)
      [] pair = "hostscanner" ->
           /\ policy.readable /\ ~policy.errno /\ host.sockets
           /\ \A p \in policy.ports : p.status \in {"whatever", HostScanner!StatusOf(p, host)}

\* A compliant endpoint whose batches arrive is let in, whatever happened in
\* the handshakes before, except that a platid instance which failed before it
\* sent a nonce refuses the connection from then on.
CompliantIsAllowed ==
    turn = "idle" /\ clean /\ Compliant =>
      (access = "ACCESS_ALLOWED" <=> (pair = "platid" => imv.st.good))

\* The two libraries, which count apart, agree on the round while a batch is
\* under way, whoever failed to answer before.
RoundsAgree ==
    clean /\ imv # Absent => /\ turn = "client"  => imc.round = imv.round
                             /\ turn = "deliver" => imc.round = imv.round + 1

\* The pairs keep what the server promises about access.
Decision == INSTANCE AccessDecision
              WITH Conn <- {"con"}, IMV <- {"imv"},
                   state <- [c \in {"con"} |-> access],
                   voice <- [p \in {"con"} \X {"imv"} |->
                               IF given = Nothing THEN NoRec ELSE given],
                   named <- {}
KeepsThePromise == Decision!ASpec

\* With a client that answers, every handshake ends after finitely many
\* batches, whatever its IMC says and whichever functions are installed.
HandshakeEnds == turn = "arrival" ~> turn = "idle"

-----------------------------------------------------------------------------
(* What the documentation says and the code does not keep.                 *)

\* A version at least as high as another one.
AtLeast(v, w) == \/ v = w
                 \/ \E k \in DOMAIN v \cap DOMAIN w :
                      v[k] > w[k] /\ \A j \in 1 .. k - 1 : v[j] = w[j]

Desired(r, e) == IF e.key = Clamav!StatusKey THEN r.status = e.value
                 ELSE /\ e.key \in DOMAIN r.versions
                      /\ e.op = ">=" => AtLeast(r.versions[e.key], e.value)

\* "If the data received from the clamavimc matches the desired values in the
\* policy, an 'ALLOW' recommendation is provided" (doc/tncfhh.tex).
DesiredValuesAreAllowed ==
    pair = "clamav" /\ turn = "idle" /\ clean /\ ~policy.pdp
      /\ (\E r \in HeardOf("report") : \A e \in policy.entries : Desired(r, e))
      => access = "ACCESS_ALLOWED"

=============================================================================
