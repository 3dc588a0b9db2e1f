------------------------------ MODULE MCImcImv ------------------------------
(***************************************************************************)
(* Endpoints and policies on both sides of every condition of the pairs.   *)
(***************************************************************************)
EXTENDS ImcImv, Integers, TLC

Regs(a, b) == (0 :> a) @@ (2 :> b)
Entry(i, v) == [index |-> i, value |-> v]
Scanner(v, m) == [Version |-> v, main |-> m]
Policy(k, op, v) == [key |-> k, op |-> op, value |-> v]
Port(proto, n, s) == [proto |-> proto, port |-> n, status |-> s]

PlatidHost(e, c, k) == [config |-> TRUE, engine |-> e, cert |-> c, key |-> k]
PlatidHosts == {PlatidHost("absent", c, "c1") : c \in {"c1", "c2", "garbage"}}
               \cup {PlatidHost("works", "c1", "c1"), PlatidHost("refused", "c1", "c1"),
                     PlatidHost("absent", "c1", "c2"), PlatidHost("works", "c1", "missing"),
                     [PlatidHost("works", "c1", "c1") EXCEPT !.config = FALSE]}

Files == {"config", "certificate", "key"}
AttestationHosts == {[files |-> Files, tpm |-> TRUE, aik |-> "a1", pcr |-> r] :
                       r \in {Regs("x", "y"), Regs("x", "z"), Regs("y", "x")}}
                    \cup {[files |-> Files, tpm |-> TRUE, aik |-> "a2",
                           pcr |-> Regs("x", "y")],
                          [files |-> Files \ {"key"}, tpm |-> TRUE, aik |-> "a1",
                           pcr |-> Regs("x", "y")],
                          [files |-> Files, tpm |-> FALSE, aik |-> "a1",
                           pcr |-> Regs("x", "y")],
                          [files |-> Files, tpm |-> TRUE, aik |-> "garbage",
                           pcr |-> Regs("x", "y")],
                          [files |-> Files, tpm |-> TRUE, aik |-> "a1",
                           pcr |-> 0 :> "x"]}

ClamavHosts == {[clamd |-> d, clamconf |-> Scanner(v, <<51>>),
                 ending |-> "cvd", wide |-> TRUE] :
                  d \in {"PONG", "other", "down"}, v \in {<<1, 5>>, <<2, 0>>}}
               \cup {[clamd |-> "PONG", clamconf |-> <<>>, ending |-> "cvd",
                      wide |-> TRUE]}
               \cup {[clamd |-> "PONG", clamconf |-> Scanner(<<1, 5>>, <<51>>),
                      ending |-> "cld", wide |-> w] : w \in BOOLEAN}

HostsOf == ("example" :> {"any"})
           @@ ("dummy" :> {"allow", "none", "other"})
           @@ ("platid" :> PlatidHosts)
           @@ ("attestation" :> AttestationHosts)
           @@ ("clamav" :> ClamavHosts)
           @@ ("hostscanner" :> {[open |-> o, sockets |-> TRUE] :
                                   o \in {{}, {22}, {631}}}
                                \cup {[open |-> {}, sockets |-> FALSE]})

PoliciesOf ==
    ("example" :> {"any"})
    @@ ("dummy" :> {-1, 0, 1})
    @@ ("platid" :> {{"c1"}, {}})
    @@ ("attestation" :>
          {[aiks |-> {"a1"}, entries |-> <<Entry(0, "x"), Entry(2, "y")>>,
            quoteType |-> q] : q \in {"complete", "unset"}}
          \cup {[aiks |-> {"a1"}, entries |-> <<Entry(2, "y"), Entry(0, "x")>>,
                 quoteType |-> q] : q \in {"complete", "single"}})
    @@ ("clamav" :>
          {[entries |-> {Policy("OperationalStatus", "=", "operational"),
                         Policy("Version", ">=", v)}, pdp |-> FALSE, wide |-> TRUE] :
             v \in {<<1, 5>>, <<1, 10>>}}
          \cup {[entries |-> {Policy("OperationalStatus", "=", "operational")},
                 pdp |-> FALSE, wide |-> TRUE]}
          \cup {[entries |-> {Policy("OperationalStatus", "=", "operational"),
                              Policy("main", ">=", <<52>>)},
                 pdp |-> TRUE, wide |-> w] : w \in BOOLEAN})
    @@ ("hostscanner" :>
          {[readable |-> FALSE, ports |-> {}, errno |-> FALSE],
           [readable |-> TRUE, errno |-> TRUE,
            ports |-> {Port("TCP", 22, "close")}],
           [readable |-> TRUE, errno |-> FALSE,
            ports |-> {Port("TCP", 22, "close"), Port("UDP", 631, "whatever")}],
           [readable |-> TRUE, errno |-> FALSE,
            ports |-> {Port("TCP", 22, "open"), Port("UDP", 631, "close")}]})

\* What other functions send: two messages of the pair's forms in a batch, signed
\* with an old nonce or none, about registers and ports that are as they should be.
Registers(mask, values, nonce) == [mask |-> mask, values |-> values, nonce |-> nonce]
Status(s, v) == [kind |-> "report", status |-> s, versions |-> v]
Action(a) == [kind |-> "action", action |-> a]

StrangeOf ==
    ("example" :> {<<Example!Hello, Example!Hello>>})
    @@ ("dummy" :> {<<Action("allow"), Action(a)>> : a \in {"none", "other"}})
    @@ ("platid" :> {<<Platid!Cert("c1"), Platid!Sig("c1", <<1, 0, 1>>)>>})
    @@ ("attestation" :>
          {<<Attestation!Cert("a2"), [kind |-> "quote", key |-> "a2", digest |-> d]>> :
             d \in {Registers({0, 2}, <<"x", "y">>, <<1, 0, 1>>),
                   Registers({2}, <<"y">>, <<1, 1, 1>>),
                   Registers({}, <<>>, Undrawn)}})
    @@ ("clamav" :> {<<Status("operational", <<>>),
                       Status(Nothing, Scanner(<<v, 4>>, <<51>>))>> : v \in {1, 2}})
    @@ ("hostscanner" :>
          {<<HostScanner!Active, HostScanner!Report({Port("TCP", 22, "close")})>>})

\* The virus scanner's pair alone.
ClamavHost == [p \in {"clamav"} |-> ClamavHosts]
ClamavPolicy == [p \in {"clamav"} |-> PoliciesOf[p]]
NothingStrange == [p \in {"clamav"} |-> {}]

=============================================================================
