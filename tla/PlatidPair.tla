----------------------------- MODULE PlatidPair -----------------------------
(***************************************************************************)
(* The platform identification IMC and IMV: certificate, nonce, signature. *)
(*                                                                         *)
(* host: [config, engine, key, cert]: whether the configuration names both *)
(* files; the TPM's engine for OpenSSL: "absent", "works", or "refused" as *)
(* the default for RSA; the private key and the certificate, or "missing". *)
(* policy: the set of certificates whose issuer and fingerprint            *)
(* platidimv.certs lists.  "garbage" is no certificate.                    *)
(***************************************************************************)
EXTENDS ImUnit

Cert(c)   == [kind |-> "cert", cert |-> c]
Nonce(n)  == [kind |-> "nonce", nonce |-> n]
Sig(k, n) == [kind |-> "sig", key |-> k, nonce |-> n]

\* initializeEngine: without the engine the key is used in software.
EngineStarts(host) == host.engine # "refused"

\* loadRsa and loadCertificate.
KeyLoads(host) == host.key # "missing"
CertificateLoads(host) == host.cert # "missing"

\* PlatidIMC loads everything in its constructor, nothing later.
NewImc(host) ==
    [ready |-> /\ host.config /\ EngineStarts(host)
               /\ KeyLoads(host) /\ CertificateLoads(host),
     cert |-> host.cert, key |-> host.key]

ImcBegin(st) == IF st.ready THEN {Answer(st, <<Cert(st.cert)>>)}
                ELSE {Failure(st, "FATAL")}

\* A key other than the certificate's may have another size, which the nonce
\* does not fit; the failure is only logged.
ImcReceive(st, m) ==
    IF ~st.ready THEN {Answer(st, <<>>)}
    ELSE {Answer(st, <<Sig(st.key, m.nonce)>>)}
           \cup (IF st.key = st.cert THEN {} ELSE {Answer(st, <<>>)})

\* PlatidIMV: nonceSent, nothingWrong, x509Cert and randNonce.
NewImv == [sent |-> FALSE, good |-> TRUE, cert |-> Nothing, nonce |-> Undrawn]

\* PlatidIMV overrides the notification of AbstractIMV and starts afresh only
\* if the handshake before got as far as a nonce.
ImvHandshake(st) == {Answer(IF st.sent THEN NewImv ELSE st, <<>>)}

\* generateAndSendNonce: OpenSSL may have no entropy.
Challenge(st, nonce) ==
    {Answer([st EXCEPT !.sent = TRUE, !.nonce = nonce], <<Nonce(nonce)>>),
     Broken([st EXCEPT !.good = FALSE])}

\* verifySignature: what does not decrypt to the nonce is refused.
Verified(st, policy, m) == /\ st.cert \in policy
                           /\ m.kind = "sig"
                           /\ m.key = st.cert /\ m.nonce = st.nonce

ImvReceive(st, policy, m, nonce) ==
    IF ~st.good THEN {Answer(st, <<>>)}
    ELSE IF st.sent
    THEN {Voice(st, IF Verified(st, policy, m) THEN "ALLOW" ELSE "NO_ACCESS")}
    ELSE IF m.kind = "cert" /\ m.cert # "garbage"
    THEN Challenge([st EXCEPT !.cert = m.cert], nonce)
    ELSE {Answer([st EXCEPT !.good = FALSE], <<>>)}

Solicited(st) == IF st.good THEN NoRec ELSE "NO_ACCESS"

=============================================================================
