-------------------------- MODULE HostScannerPair --------------------------
(***************************************************************************)
(* The host scanner: the IMV sends the ports of its policy, the IMC tries  *)
(* to connect to each and reports which are open.                          *)
(*                                                                         *)
(* host: [open, sockets]: the port numbers a TCP connection to which is    *)
(* accepted, and whether ports can be tried at all.  policy: [readable,    *)
(* ports, errno], ports a set of [proto, port, status]; a file is not      *)
(* readable if it is missing, has an unknown word, or errno still says     *)
(* ERANGE or EINVAL from an earlier call when a number is read.  errno:    *)
(* whether it does so when the numbers of a report are read.               *)
(***************************************************************************)
EXTENDS ImUnit, Naturals

Active == [kind |-> "active"]
Ports(S) == [kind |-> "ports", ports |-> S]
Report(S) == [kind |-> "report", ports |-> S]

\* HostScannerIMC
NewImc == [kind |-> "hostscanner"]
ImcBegin(st) == {Answer(st, <<Active>>)}

\* A port is left out without a socket, or when errno is stale; UDP is tried
\* as TCP.
StatusOf(p, host) == IF p.port \in host.open THEN "open" ELSE "close"
ImcReceive(st, m, host) ==
    {Answer(st, <<Report(IF host.sockets
                         THEN {[proto |-> p.proto, port |-> p.port,
                                status |-> StatusOf(p, host)] : p \in m.ports}
                         ELSE {})>>)}

-----------------------------------------------------------------------------
(* HostScannerIMV: policys and count.                                      *)

NewImv == [rec |-> NoRec, count |-> 0, policys |-> {}]

\* An unreadable policy throws ResultException with TNC_RESULT_OTHER.
ImvHandshake(st, policy) ==
    LET s == [st EXCEPT !.count = 0, !.policys = {}]
    IN IF policy.readable THEN {Answer([s EXCEPT !.policys = policy.ports], <<>>)}
       ELSE {Failure(s, "OTHER")}

Named(S) == {[proto |-> p.proto, port |-> p.port] : p \in S}

\* A port of the policy is reported with another status than it wants; a port
\* that is not reported contradicts nothing.
Contradicts(S, T) == \E p \in S, q \in T :
                       /\ p.proto = q.proto /\ p.port = q.port
                       /\ p.status # "whatever" /\ p.status # q.status

Evaluate(st, m) ==
    LET rec == IF Contradicts(st.policys, m.ports) THEN "NO_ACCESS" ELSE "ALLOW"
    IN Voice([st EXCEPT !.rec = rec], rec)

\* clientError
Misread(policy, m) == m.kind # "report" \/ (policy.errno /\ m.ports # {})

\* In the second batch anything but a readable report is a client's error.
ImvReceive(st, policy, m) ==
    CASE st.count = 0 -> {Answer(st, <<Ports(Named(st.policys))>>)}
      [] st.count = 1 -> IF Misread(policy, m)
                         THEN {Failure([st EXCEPT !.rec = NoRec], "OTHER")}
                         ELSE {Evaluate(st, m)}
      [] OTHER        -> {Answer(st, <<>>)}

ImvEnding(st) == [st EXCEPT !.count = @ + 1]

=============================================================================
