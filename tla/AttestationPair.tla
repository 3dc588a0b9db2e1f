-------------------------- MODULE AttestationPair --------------------------
(***************************************************************************)
(* The attestation IMC and IMV: an attestation identity key (AIK) and      *)
(* quotes of platform configuration registers (PCRs) over fresh nonces,    *)
(* of all registers of the policy at once or of one after the other.       *)
(*                                                                         *)
(* host: [files, tpm, aik, pcr]: which of the configuration, the           *)
(* certificate's file and the key's file are there, whether the TPM        *)
(* answers, the certificate ("garbage" is none), the registers' contents.  *)
(* policy: [aiks, entries, quoteType]: the known certificates, a sequence  *)
(* of [index, value] and "complete", "single" or, when the file does not   *)
(* say, what the uninitialised member of the policy manager happens to be. *)
(***************************************************************************)
EXTENDS ImUnit, Naturals, FiniteSets

Cert(c) == [kind |-> "cert", cert |-> c]

\* The indices PcrSelection reads from the bit mask the IMV built.
Request(mask, nonce) == [kind |-> "request", mask |-> mask, nonce |-> nonce]

\* A signature over TCPA_QUOTE_INFO: the registers selected, their contents
\* (a composite in which the TPM lists them by index) and the nonce.
Quote(key, mask, values, nonce) ==
    [kind |-> "quote", key |-> key,
     digest |-> [mask |-> mask, values |-> values, nonce |-> nonce]]

\* The elements of a set of indices in ascending order, as the TPM takes them.
InOrder(mask) == CHOOSE s \in [1 .. Cardinality(mask) -> mask] :
                   \A i, j \in DOMAIN s : i < j => s[i] < s[j]

-----------------------------------------------------------------------------
(* AttestationIMC                                                          *)

NewImc == [sent |-> FALSE, aik |-> Nothing]

\* loadConfigFile, loadX509Certificate and loadAikBlob.
Loads(host) == {"config", "certificate", "key"} \subseteq host.files

\* initTpmStuff and setNumberOfPcrs.
TpmReady(host) == host.tpm

\* Everything is loaded anew; certificateSent is never taken back.  A buffer
\* that could not be loaded anew is deleted once more by the next attempt or
\* the destructor, which may end the client: ImcImv!Leave.
ImcBegin(st, host) == IF Loads(host) /\ TpmReady(host)
                      THEN {Answer([sent |-> TRUE, aik |-> host.aik], <<Cert(host.aik)>>)}
                      ELSE {Failure(st, "FATAL")}

\* The TPM signs with the key beginHandshake loaded.  A request it cannot serve
\* is refused or, in doQuote, left unanswered.
ImcReceive(st, m, host) ==
    IF ~st.sent THEN {Failure(st, "FATAL")}
    ELSE IF ~(m.mask \subseteq DOMAIN host.pcr)
    THEN {Failure(st, "INVALID_PARAMETER")}
    ELSE IF ~TpmReady(host) THEN {Answer(st, <<>>)}
    ELSE LET order == InOrder(m.mask)
         IN {Answer(st, <<Quote(st.aik, m.mask,
                                [i \in DOMAIN order |-> host.pcr[order[i]]],
                                m.nonce)>>)}

-----------------------------------------------------------------------------
(* AttestationIMV: firstMessage, nothingWrong, the certificate, quoteType, *)
(* currentEntry and quoteDigest.  The constructor leaves the last three to *)
(* what the memory holds, and no member takes them back.                   *)

NewImv == [first |-> TRUE, good |-> TRUE, cert |-> Nothing,
           mode |-> Nothing, current |-> 0,
           digest |-> [mask |-> {}, values |-> <<>>, nonce |-> Undrawn]]

\* The digest is computed over the reference values in the policy's order.
Expected(asked, nonce) ==
    [mask |-> {asked[i].index : i \in DOMAIN asked},
     values |-> [i \in DOMAIN asked |-> asked[i].value],
     nonce |-> nonce]

\* sendQuoteRequest: OpenSSL may have no entropy.
Ask(st, asked, nonce) ==
    LET digest == Expected(asked, nonce)
    IN {Answer([st EXCEPT !.digest = digest],
               <<Request(digest.mask, nonce)>>),
        Broken([st EXCEPT !.good = FALSE])}

ImvHandshake(st) == {Answer([st EXCEPT !.first = TRUE, !.good = TRUE,
                                       !.cert = Nothing], <<>>)}

\* RSA_verify of the quote with the key of the certificate.
GoodQuote(st, m) ==
    m.kind = "quote" /\ m.key = st.cert /\ m.digest = st.digest

\* isASN1, d2i_X509 and the extraction of the RSA key.
Readable(m) == m.kind = "cert" /\ m.cert # "garbage"

\* The fingerprint is one of the policy's.
CheckClientKnown(st, policy) == st.cert \in policy.aiks

\* A client that is not known is refused, but nothingWrong stays as it is.
FirstMessage(st, policy, m, nonce) ==
    LET s == [st EXCEPT !.first = FALSE, !.cert = m.cert]
        t == [s EXCEPT !.mode = policy.quoteType] IN
    IF ~Readable(m)
    THEN {Failure([st EXCEPT !.first = FALSE, !.good = FALSE], "FATAL")}
    ELSE IF ~CheckClientKnown(s, policy) THEN {Voice(s, "NO_ACCESS")}
    ELSE CASE policy.quoteType = "complete" -> Ask(t, policy.entries, nonce)
           [] policy.quoteType = "single"   ->
                Ask([t EXCEPT !.current = 1], <<policy.entries[1]>>, nonce)
           [] OTHER -> {Answer(t, <<>>)}

CompleteQuote(st, m) == Voice(st, IF GoodQuote(st, m) THEN "ALLOW" ELSE "NO_ACCESS")

\* entries is empty until a known client has come, currentEntry anything until
\* single quotes have been asked for.
AskedFor(st, policy) == IF st.mode = Nothing THEN <<>> ELSE policy.entries
NextEntries(st, policy) == IF st.current = 0 THEN 1 .. Len(AskedFor(st, policy)) + 1
                           ELSE {st.current + 1}

\* Faulty variant: the last register of the policy is not asked for.
NextQuoteShort(st, policy, m, nonce) ==
    IF ~GoodQuote(st, m) THEN {Voice([st EXCEPT !.good = FALSE], "NO_ACCESS")}
    ELSE UNION {IF n < Len(AskedFor(st, policy))
                THEN Ask([st EXCEPT !.current = n], <<policy.entries[n]>>, nonce)
                ELSE {Voice(st, "ALLOW")} : n \in NextEntries(st, policy)}

NextQuote(st, policy, m, nonce) ==
    IF ~GoodQuote(st, m) THEN {Voice([st EXCEPT !.good = FALSE], "NO_ACCESS")}
    ELSE UNION {IF n <= Len(AskedFor(st, policy))
                THEN Ask([st EXCEPT !.current = n], <<policy.entries[n]>>, nonce)
                ELSE {Voice(st, "ALLOW")} : n \in NextEntries(st, policy)}

\* What follows the first message is a quote for the digest of the last request,
\* whichever handshake that was in.  Without one quoteType may be "complete".
ImvReceive(st, policy, m, nonce) ==
    IF ~st.good THEN {Answer(st, <<>>)}
    ELSE IF st.first THEN FirstMessage(st, policy, m, nonce)
    ELSE CASE st.mode = "complete" -> {CompleteQuote(st, m)}
           [] st.mode = Nothing    -> {CompleteQuote(st, m)}
                                        \cup NextQuote(st, policy, m, nonce)
           [] OTHER                -> NextQuote(st, policy, m, nonce)

Solicited(st) == IF st.good THEN NoRec ELSE "NO_ACCESS"

=============================================================================
