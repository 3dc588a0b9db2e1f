----------------------------- MODULE ClamavPair -----------------------------
(***************************************************************************)
(* The ClamAV IMC and IMV: the client reports the state of its virus       *)
(* scanner, the server compares it with its policy or has an XACML policy  *)
(* decision point (PDP) compare it.                                        *)
(*                                                                         *)
(* host: [clamd, clamconf, ending, wide]: what the daemon answers ("PONG", *)
(* "other", or "down"), the versions clamconf prints ("fails" if it cannot *)
(* be run), the ending of its database files, and whether size_t is wider  *)
(* than unsigned int, so that a truncated npos no longer equals npos.      *)
(* policy: [entries, pdp, wide]: records [key, op, value] and whether the  *)
(* user's name is there to ask the PDP with.                               *)
(*                                                                         *)
(* A version is the sequence of its numbers.                               *)
(***************************************************************************)
EXTENDS ImUnit, Naturals

StatusKey == "OperationalStatus"

-----------------------------------------------------------------------------
(* ClamavIMC: resultOperationalStatus and resultClamconf ("" at first).    *)

NewImc == [status |-> "unknown", conf |-> <<>>, ending |-> "cvd"]

\* checkOperationalStatus returns early when clamd cannot be reached: the
\* result of an earlier measurement stays.
StatusAfter(st, host) == CASE host.clamd = "PONG"  -> "operational"
                           [] host.clamd = "other" -> "installed_not_operational"
                           [] OTHER                -> st.status

\* So does, in checkClamconf, the output of an earlier run.
Measured(st, host) ==
    [status |-> StatusAfter(st, host),
     conf   |-> IF host.clamconf = <<>> THEN st.conf ELSE host.clamconf,
     ending |-> IF host.clamconf = <<>> THEN st.ending ELSE host.ending]

\* parseResults looks for *.cld if there is no *.cvd, but compares the position,
\* an unsigned int, with npos: where the types differ substr throws.
ImcMeasure(st, host) ==
    LET s == Measured(st, host) IN
    IF s.conf # <<>> /\ s.ending = "cld" /\ host.wide THEN {Failure(s, "FATAL")}
    ELSE {Answer(s, <<[kind |-> "report", status |-> s.status,
                       versions |-> s.conf]>>)}

-----------------------------------------------------------------------------
(* ClamavIMV                                                               *)

NewImv == [rec |-> NoRec, entries |-> {}]

\* savePolicyEntry drops what it does not know.
Supported(e) == IF e.key = StatusKey THEN e.op \in {"=", "!="}
                ELSE e.op \in {"=", "!=", ">", "<", ">=", "<="}

\* Faulty variant: the policy is read once.
ImvHandshakeOnce(st, policy) ==
    {Answer([st EXCEPT !.entries = IF @ # {} THEN @
                                   ELSE {e \in policy.entries : Supported(e)}], <<>>)}

ImvHandshake(st, policy) ==
    {Answer([st EXCEPT !.entries = {e \in policy.entries : Supported(e)}], <<>>)}

\* std::string's < on decimal numbers below 100.
Number(v) == \A k \in DOMAIN v : v[k] \in 0 .. 99
Numbers(versions) == \A key \in DOMAIN versions : Number(versions[key])
Digits(n) == IF n < 10 THEN <<n>> ELSE <<n \div 10, n % 10>>
StringLess(a, b) ==
    LET x == Digits(a)  y == Digits(b) IN
    \/ x[1] < y[1]
    \/ x[1] = y[1] /\ Len(x) < Len(y)
    \/ x[1] = y[1] /\ Len(x) = 2 /\ Len(y) = 2 /\ x[2] < y[2]

\* compareVersionStrings: no number of the report is below the policy's.
CompareVersionStrings(in, value) ==
    \A k \in DOMAIN in \cap DOMAIN value : ~StringLess(in[k], value[k])

\* For a version the comparison of the strings replaces the operator's result.
Satisfied(e, m) ==
    IF e.key # StatusKey THEN CompareVersionStrings(m.versions[e.key], e.value)
    ELSE IF e.op = "=" THEN m.status = e.value
    ELSE m.status # e.value

\* What the lines of a message are about.
Lines(m) == DOMAIN m.versions \cup (IF m.status = Nothing THEN {} ELSE {StatusKey})

\* doLocalEvaluation: an entry without a measurement is not missed.
LocalEvaluation(st, m) ==
    LET reported == {e \in st.entries : e.key \in Lines(m)}
        rec == IF \A e \in reported : Satisfied(e, m) THEN "ALLOW" ELSE "ISOLATE"
    IN Voice([st EXCEPT !.rec = rec], rec)

\* doXACMLEvaluation: a Version is split at its dots by a loop that compares a
\* position with npos, too.  The PDP may have no answer; one whose host is not
\* found makes a string of a null pointer, which throws.
XACMLEvaluation(st, policy, m) ==
    {Failure(st, "FATAL")}
      \cup (IF policy.wide /\ "Version" \in DOMAIN m.versions THEN {}
            ELSE {LocalEvaluation(st, m)}
                   \cup {Voice([st EXCEPT !.rec = r], r) : r \in Rec \ {NoRec}})

\* Without the user's name, or an answer, the local evaluation decides.
ImvReceive(st, policy, m) == IF policy.pdp THEN XACMLEvaluation(st, policy, m)
                             ELSE {LocalEvaluation(st, m)}

=============================================================================
