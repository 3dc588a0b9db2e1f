--------------------------- MODULE NaaVpn_proofs ---------------------------
(***************************************************************************)
(* What is proved of the VPN scenario: that its variables keep their       *)
(* types, and that what the enforcement points know is what PepGate        *)
(* promises, for every set of clients, table of networks and bounds.       *)
(*                                                                         *)
(* The heart of the invariant is about decisions under way: an envelope    *)
(* with a recommendation that a client has not read yet says what was      *)
(* decided in its newest session, since a new connection begins with an    *)
(* empty stream and a session that was overtaken cannot write.             *)
(***************************************************************************)
EXTENDS NaaVpn, SequenceTheorems, WellFoundedInduction, TLAPS

Current(c) == [client |-> c, n |-> client[c].n]

\* Sessions are served once, and none is newer than its client knows.
Sessions ==
    /\ session # NoSession => /\ session.n <= client[session.client].n
                              /\ session \notin Range(queue)
    /\ \A i \in DOMAIN queue : queue[i].n <= client[queue[i].client].n
    /\ \A i, j \in DOMAIN queue : queue[i] = queue[j] => i = j

\* Where the handler is, what it has to tell and what was decided.
Turn ==
    /\ session = NoSession => phase = "negotiation" /\ reply = "none" /\ up = <<>>
    /\ phase = "last" => reply \in Recommendation /\ decided[session.client] = reply
    /\ phase # "last" => reply \notin Recommendation
    /\ phase \in {"notifying", "stalled"} => con[session.client].state \in Recommendation
    /\ session # NoSession /\ phase # "last" => decided[session.client] = Undecided

\* A recommendation on its way is the decision of the newest session.
OnTheWay(c) ==
    \A i \in DOMAIN down[c] : down[c][i] \in Recommendation =>
        /\ decided[c] = down[c][i]
        /\ Current(c) \notin Range(queue)

\* A vpnclient gets the version once, as the first envelope, while it waits
\* for it.
VersionFirst(c) ==
    LET pc == client[c].pc IN
    /\ Current(c) \in Range(queue) => pc \in {"off", "connecting"}
    /\ pc = "connecting" => ~Mine(c)
    /\ pc \in {"connecting", "greeting"} => down[c] = <<>>
    /\ pc = "greeting" /\ Mine(c) => phase = "negotiation" /\ up = <<>>
    /\ pc = "negotiating" => \A i \in DOMAIN down[c] : down[c][i] = "version" => i = 1
    /\ pc = "negotiating" /\ Mine(c) /\ phase = "negotiation" => down[c] = <<>>
    /\ pc \in {"writing", "reading"} => \A i \in DOMAIN down[c] : down[c][i] # "version"
    /\ pc \in {"writing", "reading"} /\ Mine(c) => phase # "negotiation"

VInv == /\ TypeOK /\ Sessions /\ Turn
        /\ \A c \in Client : OnTheWay(c)
        /\ \A c \in Client \ Foreign : VersionFirst(c)
-----------------------------------------------------------------------------
(* Networks.                                                               *)

\* A set of natural numbers has a least element.
LEMMA LeastElement ==
    ASSUME NEW T, T \subseteq Nat, T # {}
    PROVE  \E x \in T : \A y \in T : x <= y
<1>1. IsWellFoundedOn(OpToRel(<, Nat), Nat)
  BY NatLessThanWellFounded
<1>2. PICK x \in T : \A y \in T : <<y, x>> \notin OpToRel(<, Nat)
  BY <1>1, WFMin
<1>3. \A y, z \in T : <<y, z>> \in OpToRel(<, Nat) <=> y < z
  BY DEF OpToRel
<1>4. \A y \in T : ~(y < x) /\ x \in Nat /\ y \in Nat
  BY <1>2, <1>3
<1> QED
  BY <1>4

\* An address without its low bits, and the addresses that differ in them.
Cleared(a, size) == a - (a % size)
Near(net, size, a) == net % size = 0 /\ \E host \in 0 .. size - 1 : a = net + host

\* Clearing the low bits of an address gives a network without low bits that
\* is at most a host's number away, and there is only one such network.
LEMMA LowBits ==
    ASSUME NEW a \in Nat, NEW net \in Nat, NEW size \in Nat \ {0}
    PROVE  Cleared(a, size) = net <=> Near(net, size, a)
<1>1. a % size \in 0 .. size - 1
  OBVIOUS
<1>2. ASSUME a - (a % size) = net
      PROVE  net % size = 0
  BY <1>2
<1>3. ASSUME net % size = 0, NEW host \in 0 .. size - 1, a = net + host
      PROVE  a % size = host
  BY <1>3
<1>4. ASSUME a - (a % size) = net
      PROVE  a = net + (a % size)
  BY <1>1, <1>4
<1> QED
  BY <1>1, <1>2, <1>3, <1>4 DEF Cleared, Near

LEMMA ClientIsAddress ==
    /\ \A c \in Client : c \in Nat
    /\ NoSession.client \notin Client
<1> DEFINE e == 2 ^ AddressBits
<1>1. AddressBits \in Nat /\ Client \subseteq 0 .. e - 1 /\ NoSession.client = e
  BY AddressAssumption DEF NoSession
<1>2. e \in Int
  BY <1>1, Z3
<1> HIDE DEF e
<1> QED
  BY <1>1, <1>2

LEMMA MaskedIsHeld ==
    ASSUME NEW c \in Client, NEW i \in DOMAIN Mapping
    PROVE  Masked(c, Mapping[i].bits) = Mapping[i].net <=> Holds(Mapping[i], c)
<1> DEFINE m == Mapping[i]
           k == AddressBits - m.bits
           size == IF m.bits = 0 THEN 1 ELSE 2 ^ k
<1>1. m.net \in Nat /\ m.bits \in 0 .. AddressBits /\ AddressBits \in Nat /\ c \in Nat
  BY MappingAssumption, AddressAssumption, ClientIsAddress
<1>2. k \in 0 .. AddressBits
  BY <1>1
<1>3. 2 ^ k > 0 /\ 2 ^ k \in Int
  <2>1. k \in Nat
    BY <1>1
  <2> HIDE DEF k
  <2>2. 2 ^ k \in Int
    BY <2>1, Z3
  <2> QED
    BY <1>2, <2>2, PowerAssumption
<1>4. size \in Nat \ {0}
  BY <1>3
<1>5. Masked(c, m.bits) = Cleared(c, size)
  BY <1>1 DEF Masked, Cleared
<1>6. Holds(m, c) <=> Near(m.net, size, c)
  BY DEF Holds, Near
<1> HIDE DEF size, k, m
<1>7. Cleared(c, size) = m.net <=> Near(m.net, size, c)
  BY <1>1, <1>4, LowBits
<1>8. Masked(c, m.bits) = m.net <=> Holds(m, c)
  BY <1>5, <1>6, <1>7
<1> QED
  BY <1>8 DEF m

\* The masks of the code find the network that is responsible.
LEMMA MasksFindThePep ==
    ASSUME NEW c \in Client
    PROVE  PepForEndpoint(c) = ResponsiblePep(c)
<1> DEFINE all == {i \in DOMAIN Mapping : Holds(Mapping[i], c)}
           I == {i \in 1 .. Len(Mapping) : Masked(c, Mapping[i].bits) = Mapping[i].net}
           least == CHOOSE i \in all : \A j \in all : i <= j
<1>1. Len(Mapping) \in Nat /\ DOMAIN Mapping = 1 .. Len(Mapping)
  BY MappingAssumption
<1>2. I = all
  BY <1>1, MaskedIsHeld
<1>3. PepForEndpoint(c) = IF (IF I # {} THEN Min(I) ELSE 0) = 0 THEN Nobody
                          ELSE Mapping[IF I # {} THEN Min(I) ELSE 0].pep
  BY DEF PepForEndpoint, SelectInSeq
<1>4. ResponsiblePep(c) = IF all = {} THEN Nobody ELSE Mapping[least].pep
  BY DEF ResponsiblePep
<1> HIDE DEF I
<1>5. Min(I) = least
  BY <1>2 DEF Min
<1>6. CASE all = {}
  BY <1>2, <1>3, <1>4, <1>6
<1>7. CASE all # {}
  <2>1. all \subseteq Nat /\ 0 \notin all
    BY <1>1
  <2>2. \E i \in all : \A j \in all : i <= j
    <3> HIDE DEF all
    <3> QED
      BY <2>1, <1>7, LeastElement
  <2>3. least \in all
    BY <2>2
  <2>4. least # 0
    BY <2>1, <2>3
  <2> HIDE DEF least, all
  <2> QED
    BY <1>2, <1>3, <1>4, <1>5, <1>7, <2>4
<1> QED
  BY <1>6, <1>7

-----------------------------------------------------------------------------
(* Streams and queues.                                                     *)

Conn == [client : Client, n : 1 .. MaxSessions]
ToClient == {"version", "batch"} \cup Recommendation
ToServer == {"request", "versions", "batch", "junk", "other"}

LEMMA TailIs ==
    ASSUME NEW S, NEW s \in Seq(S), s # <<>>
    PROVE  /\ Head(s) \in S /\ Tail(s) \in Seq(S) /\ Head(s) = s[1] /\ 1 \in DOMAIN s
           /\ \A i \in DOMAIN Tail(s) :
                /\ i \in Nat \ {0} /\ i + 1 \in DOMAIN s
                /\ Tail(s)[i] = s[i + 1]
           /\ Range(Tail(s)) \subseteq Range(s)
<1>1. /\ Head(s) \in S /\ Tail(s) \in Seq(S) /\ Head(s) = s[1]
      /\ Len(s) \in Nat /\ DOMAIN s = 1 .. Len(s) /\ Len(s) # 0
      /\ Len(Tail(s)) = Len(s) - 1 /\ DOMAIN Tail(s) = 1 .. Len(Tail(s))
  OBVIOUS
<1>2. \A i \in 1 .. Len(s) - 1 : Tail(s)[i] = s[i + 1]
  OBVIOUS
<1>3. 1 \in DOMAIN s /\ \A i \in DOMAIN Tail(s) : i \in Nat \ {0} /\ i + 1 \in DOMAIN s
  BY <1>1
<1> QED
  BY <1>1, <1>2, <1>3 DEF Range

LEMMA AppendIs ==
    ASSUME NEW S, NEW s \in Seq(S), NEW e \in S
    PROVE  /\ Append(s, e) \in Seq(S)
           /\ Range(Append(s, e)) = Range(s) \cup {e}
           /\ \A i \in DOMAIN Append(s, e) :
                \/ i \in DOMAIN s /\ Append(s, e)[i] = s[i]
                \/ i = Len(s) + 1 /\ Append(s, e)[i] = e
<1> DEFINE t == Append(s, e)
<1>1. /\ t \in Seq(S) /\ Len(t) = Len(s) + 1 /\ t[Len(s) + 1] = e
      /\ \A i \in 1 .. Len(s) : t[i] = s[i]
  BY AppendProperties
<1> HIDE DEF t
<1>2. Len(s) \in Nat /\ DOMAIN s = 1 .. Len(s) /\ DOMAIN t = 1 .. Len(s) + 1
  BY <1>1
<1>3. Range(t) = Range(s) \cup {e}
  BY <1>1, <1>2 DEF Range
<1> QED
  BY <1>1, <1>2, <1>3 DEF t

\* The session that is served is one of a client.
LEMMA Served ==
    ASSUME TypeOK
    PROVE  /\ session # NoSession => session \in Conn /\ session.client \in Client
           /\ \A c \in Client : Mine(c) => session # NoSession /\ session.client = c
           /\ Connected(session) => Mine(session.client) /\ session # NoSession
  BY ClientIsAddress DEF TypeOK, Conn, Mine, Connected

\* What a client has still to read after it has read an envelope, or none, or
\* has thrown them away.
Shorter(new, old) == \/ new = old
                     \/ new = <<>>
                     \/ old # <<>> /\ new = Tail(old)

LEMMA ShorterIs ==
    ASSUME NEW old \in Seq(ToClient), NEW new, Shorter(new, old)
    PROVE  /\ new \in Seq(ToClient)
           /\ \A i \in DOMAIN new : \E j \in DOMAIN old :
                new[i] = old[j] /\ i <= j /\ j \in Nat /\ i \in Nat \ {0}
           /\ old = <<>> => new = <<>>
<1>1. CASE new = old
  BY <1>1
<1>2. CASE new = <<>>
  BY <1>2
<1>3. CASE old # <<>> /\ new = Tail(old)
  <2>1. new \in Seq(ToClient)
    BY <1>3, TailIs
  <2>2. ASSUME NEW i \in DOMAIN new
        PROVE  /\ i \in Nat \ {0} /\ i + 1 \in DOMAIN old
               /\ new[i] = old[i + 1]
    BY <1>3, TailIs
  <2> QED
    BY <1>3, <2>1, <2>2
<1> QED
  BY <1>1, <1>2, <1>3 DEF Shorter

LEMMA OnTheWayKept ==
    ASSUME TypeOK, NEW c \in Client, OnTheWay(c), Shorter(down'[c], down[c]),
           client'[c].n = client[c].n, decided'[c] = decided[c],
           Range(queue') \subseteq Range(queue)
    PROVE  OnTheWay(c)'
<1>1. down[c] \in Seq(ToClient)
  BY DEF TypeOK, ToClient
<1>2. \A i \in DOMAIN down'[c] : \E j \in DOMAIN down[c] : down'[c][i] = down[c][j]
  BY <1>1, ShorterIs
<1>3. Current(c)' = Current(c)
  BY DEF Current
<1> QED
  BY <1>2, <1>3 DEF OnTheWay

LEMMA VersionFirstKept ==
    ASSUME TypeOK, NEW c \in Client, VersionFirst(c), Shorter(down'[c], down[c]),
           client'[c].n = client[c].n, client'[c].pc = client[c].pc,
           Range(queue') \subseteq Range(queue),
           Mine(c)' => Mine(c) /\ phase' = phase /\ (client[c].pc = "greeting" => up' = up)
    PROVE  VersionFirst(c)'
<1>1. down[c] \in Seq(ToClient)
  BY DEF TypeOK, ToClient
<1>2. /\ \A i \in DOMAIN down'[c] : \E j \in DOMAIN down[c] :
             down'[c][i] = down[c][j] /\ i <= j /\ j \in Nat /\ i \in Nat \ {0}
      /\ down[c] = <<>> => down'[c] = <<>>
  BY <1>1, ShorterIs
<1>3. Current(c)' = Current(c)
  BY DEF Current
<1>4. (\A i \in DOMAIN down[c] : down[c][i] = "version" => i = 1) =>
        (\A i \in DOMAIN down'[c] : down'[c][i] = "version" => i = 1)
  BY <1>2
<1>5. (\A i \in DOMAIN down[c] : down[c][i] # "version") =>
        (\A i \in DOMAIN down'[c] : down'[c][i] # "version")
  BY <1>2
<1> QED
  BY <1>2, <1>3, <1>4, <1>5 DEF VersionFirst

\* The server's write to a client that is there.
LEMMA Wrote ==
    ASSUME TypeOK, session # NoSession, NEW e \in ToClient, Written(e)
    PROVE  LET c == session.client IN
           /\ c \in Client /\ Mine(c) /\ client[c].pc # "off" /\ Current(c) = session
           /\ down' \in [Client -> Seq(ToClient)]
           /\ \A d \in Client \ {c} : down'[d] = down[d]
           /\ \A i \in DOMAIN down'[c] :
                \/ i \in DOMAIN down[c] /\ down'[c][i] = down[c][i]
                \/ i = Len(down[c]) + 1 /\ down'[c][i] = e
<1> DEFINE c == session.client
<1>1. c \in Client /\ Mine(c) /\ client[c].pc # "off" /\ session = Current(c)
  BY Served DEF Written, Connected, Mine, Current
<1>2. down \in [Client -> Seq(ToClient)]
  BY DEF TypeOK, ToClient
<1>3. down' = [down EXCEPT ![c] = Append(down[c], e)]
  BY DEF Written
<1> HIDE DEF c
<1>4. /\ Append(down[c], e) \in Seq(ToClient)
      /\ \A i \in DOMAIN Append(down[c], e) :
            \/ i \in DOMAIN down[c] /\ Append(down[c], e)[i] = down[c][i]
            \/ i = Len(down[c]) + 1 /\ Append(down[c], e)[i] = e
  BY <1>1, <1>2, AppendIs
<1>5. down'[c] = Append(down[c], e) /\ \A d \in Client \ {c} : down'[d] = down[d]
  BY <1>1, <1>2, <1>3
<1>6. down' \in [Client -> Seq(ToClient)]
  BY <1>1, <1>2, <1>3, <1>4
<1> QED
  BY <1>1, <1>4, <1>5, <1>6 DEF c

-----------------------------------------------------------------------------
(* The steps of the server.                                                *)

\* A session ends, whatever the reason, with or without a last envelope.
LEMMA SessionEnds ==
    ASSUME VInv, SessionOver, alive' \in BOOLEAN, queue' \in {queue, <<>>},
           con' \in [Client -> [state : ConState, first : BOOLEAN]],
           UNCHANGED <<client, gate, heard>>,
           \/ UNCHANGED down
           \/ session # NoSession /\ phase = "last" /\ Written(reply)
    PROVE  VInv'
<1>1. TypeOK /\ Sessions /\ Turn
  BY DEF VInv
<1>2. phase = "last" => reply \in Recommendation
  BY <1>1 DEF Turn
<1>3. down' \in [Client -> Seq(ToClient)]
  <2>1. CASE UNCHANGED down
    BY <2>1, <1>1 DEF TypeOK, ToClient
  <2>2. CASE session # NoSession /\ phase = "last" /\ Written(reply)
    BY <2>2, <1>1, <1>2, Wrote DEF ToClient
  <2> QED
    BY <2>1, <2>2
<1>4. Range(queue') \subseteq Range(queue)
  BY DEF Range
<1>5. \A c \in Client : ~Mine(c)'
  BY ClientIsAddress DEF Mine, SessionOver
<1>6. TypeOK'
  <2>1. queue' \in Seq([client : Client, n : 1 .. MaxSessions])
    <3>1. queue \in Seq(Conn)
      BY <1>1 DEF TypeOK, Conn
    <3>2. queue' = queue \/ queue' = <<>>
      OBVIOUS
    <3>3. queue' \in Seq(Conn)
      BY ONLY <3>1, <3>2, EmptySeq
    <3> QED
      BY <3>3 DEF Conn
  <2>2. /\ session' \in {NoSession} \cup [client : Client, n : 1 .. MaxSessions]
        /\ phase' \in {"negotiation", "loop", "notifying", "last"} /\ wantRead' \in BOOLEAN
        /\ reply' \in {"none", "batch"} \cup Recommendation
        /\ rounds' \in 0 .. MaxRounds
        /\ up' \in Seq({"request", "versions", "batch", "junk", "other"})
    BY BoundAssumption DEF SessionOver
  <2> QED
    BY <1>1, <1>3, <2>1, <2>2 DEF TypeOK, ToClient, gate
<1>7. Sessions'
  BY <1>1 DEF Sessions, SessionOver
<1>8. Turn'
  BY DEF Turn, SessionOver, Recommendation
<1>9. ASSUME NEW c \in Client
      PROVE  OnTheWay(c)'
  <2>1. OnTheWay(c)
    BY DEF VInv
  <2>2. CASE down'[c] = down[c]
    BY <2>1, <2>2, <1>1, <1>4, OnTheWayKept DEF Shorter, gate
  <2>3. CASE session # NoSession /\ phase = "last" /\ Written(reply) /\ c = session.client
    <3>1. /\ Current(c) = session
          /\ \A i \in DOMAIN down'[c] :
               \/ i \in DOMAIN down[c] /\ down'[c][i] = down[c][i]
               \/ i = Len(down[c]) + 1 /\ down'[c][i] = reply
      BY <2>3, <1>1, <1>2, Wrote DEF ToClient
    <3>2. decided'[c] = reply
      BY <2>3, <1>1 DEF Turn, gate
    <3>3. Current(c)' = Current(c) /\ Current(c) \notin Range(queue')
      BY <2>3, <3>1, <1>1, <1>4 DEF Sessions, Current
    <3> QED
      BY <3>1, <3>2, <3>3, <2>1 DEF OnTheWay, gate
  <2>4. CASE session # NoSession /\ phase = "last" /\ Written(reply) /\ c # session.client
    BY <2>2, <2>4, <1>1, <1>2, Wrote DEF ToClient
  <2> QED
    BY <2>2, <2>3, <2>4
<1>10. ASSUME NEW c \in Client \ Foreign
       PROVE  VersionFirst(c)'
  <2>1. VersionFirst(c) /\ c \in Client
    BY DEF VInv
  <2>2. CASE down'[c] = down[c]
    BY <2>1, <2>2, <1>1, <1>4, <1>5, VersionFirstKept DEF Shorter
  <2>3. CASE session # NoSession /\ phase = "last" /\ Written(reply) /\ c = session.client
    <3>1. /\ Mine(c) /\ client[c].pc # "off"
          /\ \A i \in DOMAIN down'[c] :
               \/ i \in DOMAIN down[c] /\ down'[c][i] = down[c][i]
               \/ i = Len(down[c]) + 1 /\ down'[c][i] = reply
      BY <2>3, <1>1, <1>2, Wrote DEF ToClient
    <3>2. Current(c)' = Current(c) /\ Current(c)' \notin Range(queue')
      BY <2>3, <3>1, <1>1, <1>4 DEF Sessions, Current, Mine
    <3>3. reply # "version"
      BY <2>3, <1>2 DEF Recommendation
    <3>4. client[c].pc \notin {"connecting", "greeting"}
      BY <2>1, <2>3, <3>1 DEF VersionFirst
    <3> QED
      BY <3>1, <3>2, <3>3, <3>4, <2>1, <1>5 DEF VersionFirst
  <2>4. CASE session # NoSession /\ phase = "last" /\ Written(reply) /\ c # session.client
    BY <2>1, <2>2, <2>4, <1>1, <1>2, Wrote DEF ToClient
  <2> QED
    BY <2>2, <2>3, <2>4
<1> QED
  BY <1>6, <1>7, <1>8, <1>9, <1>10 DEF VInv

LEMMA StepProcessEnds == VInv /\ ProcessEnds => VInv'
<1> SUFFICES ASSUME VInv, ProcessEnds PROVE VInv'
  OBVIOUS
<1>1. con \in [Client -> [state : ConState, first : BOOLEAN]]
  BY DEF VInv, TypeOK
<1> QED
  BY <1>1, SessionEnds DEF ProcessEnds

\* The con of a handshake that an exception has ended.
LEMMA SetCon ==
    ASSUME TypeOK, NEW c \in Client, NEW v \in [state : ConState, first : BOOLEAN],
           con' = [con EXCEPT ![c] = v]
    PROVE  con' \in [Client -> [state : ConState, first : BOOLEAN]]
  BY DEF TypeOK

LEMMA StepSessionEnds ==
    VInv /\ (RefuseVersion \/ Broken \/ BreakHandshake \/ SendLast) => VInv'
<1> SUFFICES ASSUME VInv, RefuseVersion \/ Broken \/ BreakHandshake \/ SendLast
             PROVE  VInv'
  OBVIOUS
<1>1. TypeOK /\ alive \in BOOLEAN /\ con \in [Client -> [state : ConState, first : BOOLEAN]]
  BY DEF VInv, TypeOK
<1>2. CASE RefuseVersion
  BY <1>1, <1>2, SessionEnds DEF RefuseVersion
<1>3. CASE Broken
  BY <1>1, <1>3, SessionEnds DEF Broken
<1>4. CASE BreakHandshake
  <2>1. session.client \in Client
    BY <1>1, <1>4, Served DEF BreakHandshake, Reading, InSession
  <2>2. con' \in [Client -> [state : ConState, first : BOOLEAN]]
    BY <1>1, <1>4, <2>1, SetCon DEF BreakHandshake, ConState, Decided
  <2> QED
    BY <1>1, <1>4, <2>2, SessionEnds DEF BreakHandshake
<1>5. CASE SendLast
  BY <1>1, <1>5, SessionEnds DEF SendLast, InSession, LostWrite
<1> QED
  BY <1>2, <1>3, <1>4, <1>5

\* A turn of the loop that does not end the handshake.
LEMMA TurnOfLoop ==
    ASSUME VInv, session # NoSession, phase = "loop",
           UNCHANGED <<alive, queue, session, phase, client, gate, heard>>,
           wantRead' \in BOOLEAN, reply' \in {"none", "batch"}, rounds' \in 0 .. MaxRounds,
           con' \in [Client -> [state : ConState, first : BOOLEAN]],
           up' \in Seq(ToServer),
           UNCHANGED down \/ Written("batch")
    PROVE  VInv'
<1>1. TypeOK /\ Sessions /\ Turn /\ "batch" \in ToClient /\ "batch" \notin Recommendation
  BY DEF VInv, ToClient, Recommendation
<1>2. down' \in [Client -> Seq(ToClient)]
  <2>1. CASE UNCHANGED down
    BY <2>1, <1>1 DEF TypeOK, ToClient
  <2>2. CASE Written("batch")
    BY <2>2, <1>1, Wrote
  <2> QED
    BY <2>1, <2>2
<1>3. TypeOK'
  BY <1>1, <1>2 DEF TypeOK, ToClient, ToServer, gate
<1>4. Sessions'
  BY <1>1 DEF Sessions
<1>5. Turn'
  BY <1>1 DEF Turn, Recommendation, gate
<1>6. \A c \in Client : Mine(c)' = Mine(c) /\ Current(c)' = Current(c)
  BY DEF Mine, Current
<1>7. ASSUME NEW c \in Client
      PROVE  \/ down'[c] = down[c]
             \/ \A i \in DOMAIN down'[c] :
                  \/ i \in DOMAIN down[c] /\ down'[c][i] = down[c][i]
                  \/ down'[c][i] = "batch" /\ Mine(c)
  <2>1. CASE Written("batch") /\ c = session.client
    BY <2>1, <1>1, Wrote
  <2>2. CASE Written("batch") /\ c # session.client
    BY <2>2, <1>1, Wrote
  <2> QED
    BY <2>1, <2>2
<1>8. ASSUME NEW c \in Client
      PROVE  OnTheWay(c)'
  <2>1. OnTheWay(c)
    BY DEF VInv
  <2> QED
    BY <2>1, <1>1, <1>6, <1>7 DEF OnTheWay, gate
<1>9. ASSUME NEW c \in Client \ Foreign
      PROVE  VersionFirst(c)'
  <2>1. VersionFirst(c)
    BY DEF VInv
  <2>2. Mine(c) => client[c].pc \notin {"connecting", "greeting"}
    BY <2>1 DEF VersionFirst
  <2>3. CASE down'[c] = down[c]
    BY <2>1, <2>2, <2>3, <1>6 DEF VersionFirst
  <2>4. CASE \A i \in DOMAIN down'[c] :
               \/ i \in DOMAIN down[c] /\ down'[c][i] = down[c][i]
               \/ down'[c][i] = "batch" /\ Mine(c)
    <3>1. client[c].pc \in {"connecting", "greeting"} => down'[c] = <<>>
      <4>1. SUFFICES ASSUME client[c].pc \in {"connecting", "greeting"}
                     PROVE  down'[c] = <<>>
        OBVIOUS
      <4>2. ~Mine(c) /\ down[c] = <<>>
        BY <2>1, <2>2, <4>1 DEF VersionFirst
      <4>3. DOMAIN down'[c] = {} /\ down'[c] \in Seq(ToClient)
        BY <2>4, <4>2, <1>2
      <4> DEFINE s == down'[c]
      <4>4. s \in Seq(ToClient) /\ DOMAIN s = {}
        BY <4>3
      <4> HIDE DEF s
      <4>5. s = <<>>
        BY ONLY <4>4, EmptySeq
      <4> QED
        BY <4>5 DEF s
    <3> QED
      BY <2>1, <2>2, <2>4, <3>1, <1>6 DEF VersionFirst
  <2> QED
    BY <2>3, <2>4, <1>7
<1> QED
  BY <1>3, <1>4, <1>5, <1>8, <1>9 DEF VInv

LEMMA StepLoop ==
    VInv /\ (IgnoreEnvelope \/ AnswerBatch \/ SendReply \/ SendNothing) => VInv'
<1> SUFFICES ASSUME VInv, IgnoreEnvelope \/ AnswerBatch \/ SendReply \/ SendNothing
             PROVE  VInv'
  OBVIOUS
<1>1. /\ TypeOK /\ Turn /\ up \in Seq(ToServer) /\ rounds \in 0 .. MaxRounds
      /\ con \in [Client -> [state : ConState, first : BOOLEAN]]
      /\ reply \in {"none", "batch"} \cup Recommendation
  BY DEF VInv, TypeOK, ToServer
<1>2. CASE IgnoreEnvelope
  <2>1. up' \in Seq(ToServer)
    BY <1>1, <1>2, TailIs DEF IgnoreEnvelope, Received
  <2> QED
    BY <1>1, <1>2, <2>1, TurnOfLoop DEF IgnoreEnvelope, Reading, InSession, Done
<1>3. CASE AnswerBatch
  <2>1. up' \in Seq(ToServer)
    BY <1>1, <1>3, TailIs DEF AnswerBatch, Received
  <2>2. session # NoSession /\ session.client \in Client
    BY <1>1, <1>3, Served DEF AnswerBatch, Reading, InSession
  <2>3. con' \in [Client -> [state : ConState, first : BOOLEAN]]
    BY <1>1, <1>3, <2>2 DEF AnswerBatch
  <2>4. rounds' \in 0 .. MaxRounds
    BY <1>1, <1>3, BoundAssumption DEF AnswerBatch
  <2> QED
    BY <1>1, <1>3, <2>1, <2>2, <2>3, <2>4, TurnOfLoop
       DEF AnswerBatch, Reading, InSession, Done
<1>4. CASE SendReply
  <2>1. reply = "batch"
    BY <1>1, <1>4 DEF SendReply, InSession, Turn
  <2> QED
    BY <1>1, <1>4, <2>1, TurnOfLoop DEF SendReply, InSession, Done, LostWrite
<1>5. CASE SendNothing
  <2>1. CASE ProcessEnds
    BY <2>1, StepProcessEnds
  <2>2. CASE ~ProcessEnds
    BY <1>1, <1>5, <2>2, TurnOfLoop DEF SendNothing, InSession, Done, streams
  <2> QED
    BY <2>1, <2>2
<1> QED
  BY <1>2, <1>3, <1>4, <1>5

LEMMA StepExpectVersion == VInv /\ ExpectVersion => VInv'
<1> SUFFICES ASSUME VInv, ExpectVersion PROVE VInv'
  OBVIOUS
<1>1. /\ TypeOK /\ Sessions /\ Turn
      /\ "version" \in ToClient /\ "version" \notin Recommendation
      /\ session # NoSession /\ phase = "negotiation" /\ phase' = "loop"
      /\ up # <<>> /\ UNCHANGED <<queue, session, client, gate>>
      /\ Written("version") \/ UNCHANGED down
  BY DEF VInv, ToClient, Recommendation, ExpectVersion, InSession, LostWrite
<1>2. down' \in [Client -> Seq(ToClient)]
  <2>1. CASE UNCHANGED down
    BY <2>1, <1>1 DEF TypeOK, ToClient
  <2>2. CASE Written("version")
    BY <2>2, <1>1, Wrote
  <2> QED
    BY <1>1, <2>1, <2>2
<1>3. TypeOK'
  <2>1. up' \in Seq(ToServer)
    BY <1>1, TailIs DEF TypeOK, ToServer, ExpectVersion
  <2> QED
    BY <1>1, <1>2, <2>1 DEF TypeOK, ToClient, ToServer, gate, ExpectVersion
<1>4. Sessions'
  BY <1>1 DEF Sessions
<1>5. Turn'
  BY <1>1 DEF Turn, Recommendation, gate, ExpectVersion
<1>6. \A c \in Client : Mine(c)' = Mine(c) /\ Current(c)' = Current(c)
  BY <1>1 DEF Mine, Current
<1>7. ASSUME NEW c \in Client
      PROVE  \/ down'[c] = down[c]
             \/ /\ Mine(c) /\ client[c].pc # "off"
                /\ \A i \in DOMAIN down'[c] :
                     \/ i \in DOMAIN down[c] /\ down'[c][i] = down[c][i]
                     \/ i = Len(down[c]) + 1 /\ down'[c][i] = "version"
  <2>1. CASE Written("version") /\ c = session.client
    BY <2>1, <1>1, Wrote
  <2>2. CASE Written("version") /\ c # session.client
    BY <2>2, <1>1, Wrote
  <2> QED
    BY <1>1, <2>1, <2>2
<1>8. ASSUME NEW c \in Client
      PROVE  OnTheWay(c)'
  <2>1. OnTheWay(c)
    BY DEF VInv
  <2> QED
    BY <2>1, <1>1, <1>6, <1>7 DEF OnTheWay, gate
<1>9. ASSUME NEW c \in Client \ Foreign
      PROVE  VersionFirst(c)'
  <2>1. VersionFirst(c)
    BY DEF VInv
  <2>2. Mine(c) => client[c].pc \notin {"connecting", "greeting", "writing", "reading"}
    BY <1>1, <2>1 DEF VersionFirst
  <2>3. CASE down'[c] = down[c]
    BY <2>1, <2>2, <2>3, <1>1, <1>6 DEF VersionFirst
  <2>4. CASE /\ Mine(c) /\ client[c].pc # "off"
             /\ \A i \in DOMAIN down'[c] :
                  \/ i \in DOMAIN down[c] /\ down'[c][i] = down[c][i]
                  \/ i = Len(down[c]) + 1 /\ down'[c][i] = "version"
    <3>1. client[c].pc = "negotiating"
      BY <2>2, <2>4, <1>1 DEF TypeOK
    <3>2. down[c] = <<>>
      BY <2>1, <2>4, <3>1, <1>1 DEF VersionFirst
    <3>3. Len(down[c]) = 0 /\ DOMAIN down[c] = {}
      BY <3>2
    <3>4. \A i \in DOMAIN down'[c] : i = 1
      BY <2>4, <3>3
    <3> QED
      BY <2>1, <2>2, <3>1, <3>4, <1>1, <1>6 DEF VersionFirst
  <2> QED
    BY <2>3, <2>4, <1>7
<1> QED
  BY <1>3, <1>4, <1>5, <1>8, <1>9 DEF VInv

PcSet == {"off", "connecting", "greeting", "negotiating", "writing", "reading"}
ClientType == [pc : PcSet, n : 0 .. MaxSessions, refused : BOOLEAN,
               lost : SUBSET (0 .. MaxSessions)]

\* A client goes on.
LEMMA SetPc ==
    ASSUME TypeOK, NEW c \in Client, NEW pc \in PcSet,
           client' = [client EXCEPT ![c].pc = pc]
    PROVE  /\ client' \in [Client -> ClientType]
           /\ client'[c].pc = pc
           /\ \A d \in Client : client'[d].n = client[d].n
           /\ \A d \in Client \ {c} : client'[d] = client[d]
<1>1. client \in [Client -> ClientType]
  BY DEF TypeOK, PcSet, ClientType
<1>2. client[c] \in ClientType
  BY <1>1
<1> DEFINE r == [client[c] EXCEPT !.pc = pc]
<1>3. r \in ClientType /\ r.pc = pc /\ r.n = client[c].n
  BY <1>2 DEF ClientType
<1>4. client' = [client EXCEPT ![c] = r]
  OBVIOUS
<1> HIDE DEF r
<1>5. client'[c] = r /\ \A d \in Client \ {c} : client'[d] = client[d]
  BY <1>1, <1>4
<1>6. client' \in [Client -> ClientType]
  BY <1>1, <1>3, <1>4
<1> QED
  BY <1>3, <1>5, <1>6

LEMMA StepAccept == VInv /\ Accept => VInv'
<1> SUFFICES ASSUME VInv, Accept PROVE VInv'
  OBVIOUS
<1> DEFINE c == session'.client
<1>1. TypeOK /\ Sessions /\ Turn /\ queue \in Seq(Conn) /\ queue # <<>>
  BY DEF VInv, TypeOK, Conn, Accept
<1>2. /\ session' = queue[1] /\ 1 \in DOMAIN queue /\ session' \in Conn
      /\ queue' \in Seq(Conn) /\ Range(queue') \subseteq Range(queue)
      /\ \A i \in DOMAIN queue' :
           i \in Nat \ {0} /\ i + 1 \in DOMAIN queue /\ queue'[i] = queue[i + 1]
  BY <1>1, TailIs DEF Accept
<1>3. c \in Client /\ client[c].n = session'.n /\ client[c].pc # "off"
  BY <1>2 DEF Conn, Accept, Connected
<1>4. session' = Current(c) /\ session' \in Range(queue) /\ session' # NoSession
  <2>1. session' = Current(c)
    BY <1>2, <1>3 DEF Conn, Current
  <2> QED
    BY <2>1, <1>2, <1>3, ClientIsAddress DEF Range, NoSession
<1>5. session' \notin Range(queue')
  BY <1>1, <1>2 DEF Range, Sessions
<1>6. /\ client' = [client EXCEPT ![c].pc = "greeting"]
      /\ decided' = [decided EXCEPT ![c] = Undecided]
      /\ con' = [con EXCEPT ![c] = [state |-> "HANDSHAKE", first |-> TRUE]]
      /\ session = NoSession
      /\ UNCHANGED <<alive, handler, up, down, reachable, verdict, heard>>
  BY DEF Accept, streams
<1> HIDE DEF c
<1>7. /\ client' \in [Client -> ClientType]
      /\ client'[c].pc = "greeting" /\ \A d \in Client : client'[d].n = client[d].n
      /\ \A d \in Client \ {c} : client'[d] = client[d] /\ decided'[d] = decided[d]
      /\ decided'[c] = Undecided
  <2>1. /\ client' \in [Client -> ClientType]
        /\ client'[c].pc = "greeting" /\ \A d \in Client : client'[d].n = client[d].n
        /\ \A d \in Client \ {c} : client'[d] = client[d]
    BY <1>1, <1>3, <1>6, SetPc DEF PcSet
  <2>2. decided'[c] = Undecided /\ \A d \in Client \ {c} : decided'[d] = decided[d]
    BY <1>1, <1>3, <1>6 DEF TypeOK
  <2> QED
    BY <2>1, <2>2
<1>8. TypeOK'
  <2>1. decided' \in [Client -> {Undecided} \cup Recommendation]
    BY <1>1, <1>3, <1>6 DEF TypeOK
  <2>2. con' \in [Client -> [state : ConState, first : BOOLEAN]]
    BY <1>1, <1>3, <1>6 DEF TypeOK, ConState
  <2> QED
    BY <1>1, <1>2, <1>6, <1>7, <2>1, <2>2 DEF TypeOK, Conn, handler, PcSet, ClientType
<1>9. Sessions'
  <2>1. session'.n <= client'[c].n /\ session' \notin Range(queue')
    BY <1>1, <1>2, <1>3, <1>5, <1>7 DEF TypeOK, Conn
  <2>2. \A i \in DOMAIN queue' : queue'[i] \in Conn
    BY <1>2
  <2>3. ASSUME NEW i \in DOMAIN queue'
        PROVE  queue'[i].n <= client'[queue'[i].client].n
    <3>1. queue'[i] = queue[i + 1] /\ i + 1 \in DOMAIN queue
      BY <1>2
    <3>2. queue[i + 1].n <= client[queue[i + 1].client].n
      BY <1>1, <3>1 DEF Sessions
    <3>3. queue'[i].client \in Client
      BY <2>2 DEF Conn
    <3> QED
      BY <1>7, <3>1, <3>2, <3>3
  <2>4. \A i, j \in DOMAIN queue' : queue'[i] = queue'[j] => i = j
    <3>1. SUFFICES ASSUME NEW i \in DOMAIN queue', NEW j \in DOMAIN queue',
                          queue'[i] = queue'[j]
                   PROVE  i = j
      OBVIOUS
    <3>2. i + 1 = j + 1
      BY <1>1, <1>2, <3>1 DEF Sessions
    <3> QED
      BY <1>2, <3>2
  <2> QED
    BY <2>1, <2>3, <2>4 DEF Sessions, c
<1>10. Turn'
  BY <1>1, <1>4, <1>6, <1>7 DEF Turn, handler, Recommendation, c
<1>11. ASSUME NEW d \in Client
       PROVE  OnTheWay(d)'
  <2>1. OnTheWay(d) /\ down'[d] = down[d] /\ Current(d)' = Current(d)
    BY <1>6, <1>7 DEF VInv, Current
  <2>2. CASE d = c
    BY <2>1, <2>2, <1>4 DEF OnTheWay
  <2>3. CASE d # c
    BY <2>1, <2>3, <1>2, <1>7 DEF OnTheWay
  <2> QED
    BY <2>2, <2>3
<1>12. ASSUME NEW d \in Client \ Foreign
       PROVE  VersionFirst(d)'
  <2>1. VersionFirst(d) /\ down'[d] = down[d] /\ Current(d)' = Current(d)
    BY <1>6, <1>7 DEF VInv, Current
  <2>2. CASE d = c
    <3>1. client[c].pc = "connecting" /\ down[c] = <<>>
      BY <2>1, <2>2, <1>3, <1>4 DEF VersionFirst
    <3>2. Current(c) \notin Range(queue')
      BY <1>4, <1>5
    <3>3. phase' = "negotiation" /\ up' = <<>>
      BY <1>1, <1>6 DEF Turn, handler
    <3> QED
      BY <2>1, <2>2, <3>1, <3>2, <3>3, <1>7 DEF VersionFirst
  <2>3. CASE d # c
    <3>1. ~Mine(d)'
      BY <2>3 DEF Mine, c
    <3> QED
      BY <2>1, <2>3, <3>1, <1>1, <1>2, <1>7, VersionFirstKept DEF Shorter
  <2> QED
    BY <2>2, <2>3
<1> QED
  BY <1>8, <1>9, <1>10, <1>11, <1>12 DEF VInv

\* What a notification does, when it has an effect.
LEMMA NotifyIs ==
    ASSUME TypeOK, NEW c \in Client, NEW d \in Recommendation, Notify(c, d)
    PROVE  verdict' = IF ResponsiblePep(c) \in reachable /\ d # "ACCESS_ISOLATED"
                      THEN [verdict EXCEPT ![ResponsiblePep(c)][c] =
                              IF d = "ACCESS_ALLOWED" THEN "Y" ELSE "N"]
                      ELSE verdict
<1>1. PepForEndpoint(c) = ResponsiblePep(c)
  BY MasksFindThePep
<1>2. d \in {"ACCESS_ALLOWED", "ACCESS_ISOLATED", "ACCESS_NONE"}
  BY DEF Recommendation
<1> QED
  BY <1>1, <1>2 DEF Notify, SendRecommendation

LEMMA StepDecide == VInv /\ DecideAccess => VInv'
<1> SUFFICES ASSUME VInv, DecideAccess PROVE VInv'
  OBVIOUS
<1> DEFINE c == session.client
<1>1. TypeOK /\ Sessions /\ Turn /\ session # NoSession /\ phase = "loop"
  BY DEF VInv, DecideAccess, Reading, InSession
<1>2. c \in Client
  BY <1>1, Served
<1>3. PICK d \in Recommendation : con' = [con EXCEPT ![c] = [state |-> d, first |-> FALSE]]
  BY DEF DecideAccess
<1>4. /\ phase' = "notifying" /\ reply' = "none"
      /\ UNCHANGED <<alive, queue, session, wantRead, rounds, down, client, gate, heard>>
      /\ up # <<>> /\ up' = Tail(up)
  BY DEF DecideAccess, Received
<1>5. con'[c].state = d
  BY <1>1, <1>2, <1>3 DEF TypeOK
<1>6. TypeOK'
  <2>1. up' \in Seq(ToServer)
    BY <1>1, <1>4, TailIs DEF TypeOK, ToServer
  <2>2. con' \in [Client -> [state : ConState, first : BOOLEAN]]
    BY <1>1, <1>2, <1>3 DEF TypeOK, ConState, Decided, Recommendation
  <2> QED
    BY <1>1, <1>4, <2>1, <2>2 DEF TypeOK, ToServer, gate
<1>7. Sessions'
  BY <1>1, <1>4 DEF Sessions
<1>8. Turn'
  BY <1>1, <1>4, <1>5 DEF Turn, gate, Recommendation
<1>9. \A e \in Client : OnTheWay(e)'
  BY <1>4 DEF VInv, OnTheWay, Current, gate
<1>10. ASSUME NEW e \in Client \ Foreign
       PROVE  VersionFirst(e)'
  <2>1. VersionFirst(e) /\ Current(e)' = Current(e) /\ Mine(e)' = Mine(e)
    BY <1>4 DEF VInv, Current, Mine
  <2> QED
    BY <2>1, <1>1, <1>4 DEF VersionFirst
<1> QED
  BY <1>6, <1>7, <1>8, <1>9, <1>10 DEF VInv

LEMMA StepStalls == VInv /\ CallStalls => VInv'
<1> SUFFICES ASSUME VInv, CallStalls PROVE VInv'
  OBVIOUS
<1>1. TypeOK /\ Sessions /\ Turn /\ session # NoSession /\ phase = "notifying"
  BY DEF VInv, CallStalls, InSession
<1>2. /\ phase' = "stalled"
      /\ UNCHANGED <<alive, queue, session, wantRead, reply, rounds, con, streams, client,
                     gate, heard>>
  BY DEF CallStalls
<1>3. TypeOK' /\ Sessions' /\ Turn'
  BY <1>1, <1>2 DEF TypeOK, Sessions, Turn, gate, streams
<1>4. \A c \in Client : OnTheWay(c) => OnTheWay(c)'
  BY <1>2 DEF OnTheWay, Current, gate, streams
<1>5. \A c \in Client : VersionFirst(c) => VersionFirst(c)'
  BY <1>1, <1>2 DEF VersionFirst, Current, Mine, streams
<1> QED
  BY <1>3, <1>4, <1>5 DEF VInv

LEMMA StepNotify == VInv /\ NotifyPep => VInv'
<1> SUFFICES ASSUME VInv, NotifyPep PROVE VInv'
  OBVIOUS
<1> DEFINE c == session.client
           d == con[c].state
<1>1. TypeOK /\ Sessions /\ Turn /\ session # NoSession /\ phase \in {"notifying", "stalled"}
  BY DEF VInv, NotifyPep, InSession
<1>2. c \in Client /\ d \in Recommendation
  BY <1>1, Served DEF Turn
<1>3. /\ decided' = [decided EXCEPT ![c] = d]
      /\ Notify(c, d)
      /\ reply' = d
  BY DEF NotifyPep
<1>4. /\ phase' = "last" /\ wantRead' = FALSE
      /\ UNCHANGED <<alive, queue, session, rounds, con, up, down, client, reachable,
                     heard>>
  BY DEF NotifyPep, streams
<1> HIDE DEF d
<1>5. /\ decided[c] = Undecided /\ decided'[c] = d
      /\ \A e \in Client \ {c} : decided'[e] = decided[e]
  BY <1>1, <1>2, <1>3 DEF Turn, TypeOK
<1>6. TypeOK'
  <2>1. verdict' \in [Pep -> [Client -> {"none", "Y", "N"}]]
    <3> DEFINE p == ResponsiblePep(c)
               f == IF d = "ACCESS_ALLOWED" THEN "Y" ELSE "N"
    <3>1. /\ verdict \in [Pep -> [Client -> {"none", "Y", "N"}]]
          /\ reachable \subseteq Pep /\ f \in {"none", "Y", "N"}
      BY <1>1 DEF TypeOK
    <3>2. \/ verdict' = verdict
          \/ p \in reachable /\ verdict' = [verdict EXCEPT ![p][c] = f]
      BY <1>1, <1>2, <1>3, NotifyIs
    <3> HIDE DEF p, f, c
    <3> QED
      BY <1>2, <3>1, <3>2
  <2>2. decided' \in [Client -> {Undecided} \cup Recommendation]
    BY <1>1, <1>2, <1>3 DEF TypeOK
  <2> QED
    BY <1>1, <1>2, <1>3, <1>4, <2>1, <2>2 DEF TypeOK
<1>7. Sessions'
  BY <1>1, <1>4 DEF Sessions
<1>8. Turn'
  BY <1>1, <1>2, <1>3, <1>4, <1>5 DEF Turn
<1>9. ASSUME NEW e \in Client
      PROVE  OnTheWay(e)'
  <2>1. OnTheWay(e) /\ Current(e)' = Current(e)
    BY <1>4 DEF VInv, Current
  <2>2. CASE e = c
    BY <2>1, <2>2, <1>4, <1>5 DEF OnTheWay, Undecided, Recommendation
  <2>3. CASE e # c
    BY <2>1, <2>3, <1>4, <1>5 DEF OnTheWay
  <2> QED
    BY <2>2, <2>3
<1>10. ASSUME NEW e \in Client \ Foreign
       PROVE  VersionFirst(e)'
  <2>1. VersionFirst(e) /\ Current(e)' = Current(e) /\ Mine(e)' = Mine(e)
    BY <1>4 DEF VInv, Current, Mine
  <2> QED
    BY <2>1, <1>1, <1>4 DEF VersionFirst
<1> QED
  BY <1>6, <1>7, <1>8, <1>9, <1>10 DEF VInv

-----------------------------------------------------------------------------
(* The steps of the clients.                                               *)

\* A client goes on, and reads or sends an envelope at most.
LEMMA ClientMoves ==
    ASSUME VInv, NEW c \in Client,
           UNCHANGED <<alive, queue, session, handler, con, gate>>,
           client' \in [Client -> ClientType],
           \A d \in Client : client'[d].n = client[d].n,
           \A d \in Client \ {c} : client'[d] = client[d],
           down' \in [Client -> Seq(ToClient)],
           \A d \in Client \ {c} : down'[d] = down[d],
           Shorter(down'[c], down[c]),
           up' \in Seq(ToServer), up' # up => Mine(c),
           heard' \in [Client -> {Undecided} \cup Recommendation],
           c \notin Foreign => VersionFirst(c)'
    PROVE  VInv'
<1>1. TypeOK /\ Sessions /\ Turn
  BY DEF VInv
<1>2. TypeOK'
  BY <1>1 DEF TypeOK, handler, gate, ClientType, PcSet, ToClient, ToServer
<1>3. Sessions'
  <2>1. \A i \in DOMAIN queue : queue[i].client \in Client
    <3>1. queue \in Seq(Conn)
      BY <1>1 DEF TypeOK, Conn
    <3>2. \A i \in DOMAIN queue : queue[i] \in Conn
      BY <3>1
    <3> QED
      BY <3>2 DEF Conn
  <2>2. session # NoSession => session.client \in Client
    BY <1>1, Served
  <2> QED
    BY <1>1, <2>1, <2>2 DEF Sessions
<1>4. Turn'
  <2>1. session = NoSession => up' = <<>>
    BY <1>1, Served DEF Turn
  <2> QED
    BY <1>1, <2>1 DEF Turn, handler, gate
<1>5. ASSUME NEW d \in Client
      PROVE  OnTheWay(d)'
  <2>1. OnTheWay(d) /\ Shorter(down'[d], down[d])
    BY DEF VInv, Shorter
  <2> QED
    BY <2>1, <1>1, OnTheWayKept DEF gate
<1>6. ASSUME NEW d \in Client \ Foreign
      PROVE  VersionFirst(d)'
  <2>1. CASE d = c
    BY <2>1
  <2>2. CASE d # c
    <3>1. VersionFirst(d) /\ Shorter(down'[d], down[d]) /\ client'[d] = client[d]
      BY <2>2 DEF VInv, Shorter
    <3>2. Mine(d)' <=> Mine(d)
      BY DEF Mine
    <3>3. Mine(d) => up' = up
      BY <2>2, <1>1, Served
    <3> QED
      BY <3>1, <3>2, <3>3, <1>1, VersionFirstKept DEF handler
  <2> QED
    BY <2>1, <2>2
<1> QED
  BY <1>2, <1>3, <1>4, <1>5, <1>6 DEF VInv

\* A client that has ended satisfies what is required of a vpnclient.
LEMMA EndedIsFine ==
    ASSUME NEW c \in Client, client'[c].pc = "off"
    PROVE  VersionFirst(c)'
  BY DEF VersionFirst

LEMMA PutIs ==
    ASSUME TypeOK, NEW c \in Client, NEW e \in ToServer, NEW pc \in PcSet, Put(c, e, pc)
    PROVE  /\ client' \in [Client -> ClientType]
           /\ client'[c].pc \in {pc, "off"}
           /\ \A d \in Client : client'[d].n = client[d].n
           /\ \A d \in Client \ {c} : client'[d] = client[d]
           /\ up' \in Seq(ToServer)
           /\ up' # up => Mine(c)
<1>1. up \in Seq(ToServer) /\ "off" \in PcSet
  BY DEF TypeOK, ToServer, PcSet
<1>2. PICK p \in {pc, "off"} : client' = [client EXCEPT ![c].pc = p]
  BY DEF Put, To
<1>3. up' = up \/ (Mine(c) /\ up' = Append(up, e))
  BY DEF Put
<1>4. up' \in Seq(ToServer)
  BY <1>1, <1>3, AppendIs
<1> QED
  BY <1>1, <1>2, <1>3, <1>4, SetPc

LEMMA StepPut ==
    ASSUME VInv, NEW c \in Client \ Foreign, StartVersionNegotiation(c) \/ SendBatch(c)
    PROVE  VInv'
<1>1. /\ TypeOK /\ VersionFirst(c) /\ c \in Client
      /\ UNCHANGED <<alive, queue, session, handler, con, gate, down, heard>>
      /\ down' \in [Client -> Seq(ToClient)]
      /\ heard' \in [Client -> {Undecided} \cup Recommendation]
      /\ \A d \in Client : Shorter(down'[d], down[d]) /\ down'[d] = down[d]
  BY DEF VInv, TypeOK, StartVersionNegotiation, SendBatch, server, Shorter, ToClient
<1>2. CASE StartVersionNegotiation(c)
  <2>1. /\ client' \in [Client -> ClientType]
        /\ client'[c].pc \in {"negotiating", "off"}
        /\ \A d \in Client : client'[d].n = client[d].n
        /\ \A d \in Client \ {c} : client'[d] = client[d]
        /\ up' \in Seq(ToServer) /\ (up' # up => Mine(c))
    BY <1>1, <1>2, PutIs DEF StartVersionNegotiation, ToServer, PcSet
  <2>2. down'[c] = <<>> /\ Current(c) \notin Range(queue) /\ Current(c)' = Current(c)
    BY <1>1, <1>2, <2>1 DEF VersionFirst, StartVersionNegotiation, Current
  <2>3. VersionFirst(c)'
    BY <1>1, <2>1, <2>2, EndedIsFine DEF VersionFirst
  <2> QED
    BY <1>1, <2>1, <2>3, ClientMoves
<1>3. CASE SendBatch(c)
  <2>1. /\ client' \in [Client -> ClientType]
        /\ client'[c].pc \in {"reading", "off"}
        /\ \A d \in Client : client'[d].n = client[d].n
        /\ \A d \in Client \ {c} : client'[d] = client[d]
        /\ up' \in Seq(ToServer) /\ (up' # up => Mine(c))
    BY <1>1, <1>3, PutIs DEF SendBatch, ToServer, PcSet
  <2>2. Current(c) \notin Range(queue) /\ Current(c)' = Current(c) /\ Mine(c)' = Mine(c)
    BY <1>1, <1>3, <2>1 DEF VersionFirst, SendBatch, Current, Mine
  <2>3. VersionFirst(c)'
    BY <1>1, <1>3, <2>1, <2>2, EndedIsFine DEF VersionFirst, SendBatch, handler
  <2> QED
    BY <1>1, <2>1, <2>3, ClientMoves
<1> QED
  BY <1>2, <1>3

\* A client reads an envelope.
LEMMA ReadIs ==
    ASSUME TypeOK, NEW c \in Client, down[c] # <<>>,
           down' = [down EXCEPT ![c] = Tail(@)]
    PROVE  /\ down' \in [Client -> Seq(ToClient)] /\ down'[c] = Tail(down[c])
           /\ \A d \in Client \ {c} : down'[d] = down[d]
           /\ Shorter(down'[c], down[c])
           /\ 1 \in DOMAIN down[c] /\ Head(down[c]) = down[c][1] /\ Head(down[c]) \in ToClient
           /\ \A i \in DOMAIN down'[c] :
                /\ i \in Nat \ {0} /\ i + 1 \in DOMAIN down[c]
                /\ down'[c][i] = down[c][i + 1]
<1>1. down \in [Client -> Seq(ToClient)]
  BY DEF TypeOK, ToClient
<1>2. down'[c] = Tail(down[c]) /\ \A d \in Client \ {c} : down'[d] = down[d]
  BY <1>1
<1>3. Tail(down[c]) \in Seq(ToClient)
  BY <1>1, TailIs
<1>4. down' \in [Client -> Seq(ToClient)]
  BY <1>1, <1>3
<1> QED
  BY <1>1, <1>2, <1>4, TailIs DEF Shorter

LEMMA StepBeginSession ==
    ASSUME VInv, NEW c \in Client \ Foreign, BeginSession(c)
    PROVE  VInv'
<1>1. /\ TypeOK /\ VersionFirst(c) /\ c \in Client
      /\ client[c].pc = "negotiating" /\ down[c] # <<>>
      /\ down' = [down EXCEPT ![c] = Tail(@)]
      /\ UNCHANGED <<alive, queue, session, handler, con, gate, up, heard>>
      /\ up' \in Seq(ToServer)
      /\ heard' \in [Client -> {Undecided} \cup Recommendation]
  BY DEF VInv, TypeOK, BeginSession, server, ToServer
<1>2. PICK p \in {"writing", "off"} : client' = [client EXCEPT ![c].pc = p]
  BY DEF BeginSession, To
<1>3. /\ client' \in [Client -> ClientType] /\ client'[c].pc = p
      /\ \A d \in Client : client'[d].n = client[d].n
      /\ \A d \in Client \ {c} : client'[d] = client[d]
  BY <1>1, <1>2, SetPc DEF PcSet
<1>4. VersionFirst(c)'
  <2>1. CASE p = "off"
    BY <2>1, <1>3, EndedIsFine
  <2>2. CASE p = "writing"
    <3>1. /\ Current(c) \notin Range(queue) /\ Current(c)' = Current(c)
          /\ Mine(c)' = Mine(c) /\ (Mine(c) => phase # "negotiation")
      BY <1>1, <1>3 DEF VersionFirst, Current, Mine
    <3>2. \A i \in DOMAIN down'[c] : down'[c][i] # "version"
      <4>1. \A i \in DOMAIN down[c] : down[c][i] = "version" => i = 1
        BY <1>1 DEF VersionFirst
      <4>2. \A i \in DOMAIN down'[c] :
              i \in Nat \ {0} /\ i + 1 \in DOMAIN down[c] /\ down'[c][i] = down[c][i + 1]
        BY <1>1, ReadIs
      <4> QED
        BY <4>1, <4>2
    <3> QED
      BY <2>2, <3>1, <3>2, <1>1, <1>3 DEF VersionFirst, handler
  <2> QED
    BY <2>1, <2>2
<1>5. /\ down' \in [Client -> Seq(ToClient)] /\ Shorter(down'[c], down[c])
      /\ \A d \in Client \ {c} : down'[d] = down[d]
  BY <1>1, ReadIs
<1> QED
  BY <1>1, <1>3, <1>4, <1>5, ClientMoves

\* A client that has its version reads on.
LEMMA ReadsOn ==
    ASSUME TypeOK, NEW c \in Client, VersionFirst(c), client[c].pc = "reading",
           down[c] # <<>>, down' = [down EXCEPT ![c] = Tail(@)],
           client'[c].pc \in {"writing", "reading"}, client'[c].n = client[c].n,
           UNCHANGED <<queue, session, phase>>
    PROVE  VersionFirst(c)'
<1>1. /\ Current(c) \notin Range(queue) /\ Current(c)' = Current(c)
      /\ Mine(c)' = Mine(c) /\ (Mine(c) => phase # "negotiation")
  BY DEF VersionFirst, Current, Mine
<1>2. \A i \in DOMAIN down[c] : down[c][i] # "version"
  BY DEF VersionFirst
<1>3. \A i \in DOMAIN down'[c] : i + 1 \in DOMAIN down[c] /\ down'[c][i] = down[c][i + 1]
  BY ReadIs
<1>4. \A i \in DOMAIN down'[c] : down'[c][i] # "version"
  BY <1>2, <1>3
<1> QED
  BY <1>1, <1>4 DEF VersionFirst

LEMMA StepPutData ==
    ASSUME VInv, NEW c \in Client \ Foreign, PutData(c)
    PROVE  VInv'
<1> DEFINE batch == Head(down[c])
<1>1. /\ TypeOK /\ VersionFirst(c) /\ c \in Client
      /\ client[c].pc = "reading" /\ down[c] # <<>>
      /\ down' = [down EXCEPT ![c] = Tail(@)]
      /\ UNCHANGED <<alive, queue, session, handler, con, gate, up>>
      /\ up' \in Seq(ToServer)
      /\ heard \in [Client -> {Undecided} \cup Recommendation]
  BY DEF VInv, TypeOK, PutData, server, ToServer
<1>2. batch \in {"batch"} \cup Recommendation
  <2>1. 1 \in DOMAIN down[c] /\ batch = down[c][1] /\ batch \in ToClient
    BY <1>1, ReadIs
  <2>2. down[c][1] # "version"
    BY <1>1, <2>1 DEF VersionFirst
  <2> QED
    BY <2>1, <2>2 DEF ToClient
<1>3. heard' \in [Client -> {Undecided} \cup Recommendation]
  <2>1. heard' = heard \/ (batch # "batch" /\ heard' = [heard EXCEPT ![c] = batch])
    BY DEF PutData
  <2> HIDE DEF batch
  <2> QED
    BY <1>1, <1>2, <2>1
<1>4. /\ client' \in [Client -> ClientType]
      /\ client'[c].pc \in {"writing", "off", "reading"}
      /\ \A d \in Client : client'[d].n = client[d].n
      /\ \A d \in Client \ {c} : client'[d] = client[d]
  <2>1. CASE \E p \in {"writing", "off"} : client' = [client EXCEPT ![c].pc = p]
    BY <1>1, <2>1, SetPc DEF PcSet
  <2>2. CASE client' = [client EXCEPT ![c].refused = TRUE]
    <3>1. client \in [Client -> ClientType]
      BY <1>1 DEF TypeOK, ClientType, PcSet
    <3>2. client[c].pc \in {"writing", "off", "reading"}
      BY <1>1
    <3> QED
      BY <1>1, <2>2, <3>1, <3>2 DEF ClientType
  <2> QED
    BY <2>1, <2>2 DEF PutData, To
<1>5. VersionFirst(c)'
  BY <1>1, <1>4, ReadsOn, EndedIsFine DEF handler
<1>6. /\ down' \in [Client -> Seq(ToClient)] /\ Shorter(down'[c], down[c])
      /\ \A d \in Client \ {c} : down'[d] = down[d]
  BY <1>1, ReadIs
<1> QED
  BY <1>1, <1>3, <1>4, <1>5, <1>6, ClientMoves

LEMMA StepEnd ==
    ASSUME VInv, NEW c \in Client, EndOfStream(c) \/ Quit(c)
    PROVE  VInv'
<1>1. /\ TypeOK
      /\ UNCHANGED <<alive, queue, session, handler, con, gate, up, heard>>
      /\ up' \in Seq(ToServer)
      /\ heard' \in [Client -> {Undecided} \cup Recommendation]
      /\ down \in [Client -> Seq(ToClient)]
  BY DEF VInv, TypeOK, EndOfStream, Quit, server, streams, ToServer, ToClient
<1>2. /\ client' \in [Client -> ClientType] /\ client'[c].pc = "off"
      /\ \A d \in Client : client'[d].n = client[d].n
      /\ \A d \in Client \ {c} : client'[d] = client[d]
  <2>1. CASE EndOfStream(c)
    BY <1>1, <2>1, SetPc DEF EndOfStream, To, PcSet
  <2>2. CASE Quit(c)
    <3>1. client' = [client EXCEPT ![c].pc = "off", ![c].refused = FALSE]
      BY <2>2 DEF Quit
    <3>2. client \in [Client -> ClientType]
      BY <1>1 DEF TypeOK, ClientType, PcSet
    <3> QED
      BY <3>1, <3>2 DEF ClientType, PcSet
  <2> QED
    BY <2>1, <2>2
<1>3. /\ down' \in [Client -> Seq(ToClient)] /\ Shorter(down'[c], down[c])
      /\ \A d \in Client \ {c} : down'[d] = down[d]
  <2>1. down' = down \/ down' = [down EXCEPT ![c] = <<>>]
    BY DEF EndOfStream, Quit, streams
  <2>2. <<>> \in Seq(ToClient)
    BY EmptySeq
  <2> QED
    BY <1>1, <2>1, <2>2 DEF Shorter
<1> QED
  BY <1>1, <1>2, <1>3, EndedIsFine, ClientMoves

LEMMA StepHostFails ==
    ASSUME VInv, NEW c \in Client, HostFails(c)
    PROVE  VInv'
<1>1. /\ TypeOK
      /\ UNCHANGED <<alive, queue, session, handler, con, gate, heard>>
      /\ heard' \in [Client -> {Undecided} \cup Recommendation]
      /\ down \in [Client -> Seq(ToClient)]
      /\ up \in Seq(ToServer)
  BY DEF VInv, TypeOK, HostFails, server, ToServer, ToClient
<1>2. /\ client' \in [Client -> ClientType] /\ client'[c].pc = "off"
      /\ \A d \in Client : client'[d].n = client[d].n
      /\ \A d \in Client \ {c} : client'[d] = client[d]
  <2> DEFINE r == [pc |-> "off", n |-> client[c].n, refused |-> FALSE,
                  lost |-> client[c].lost \cup {client[c].n}]
  <2>1. client' = [client EXCEPT ![c] = r]
    BY DEF HostFails
  <2>2. client \in [Client -> ClientType]
    BY <1>1 DEF TypeOK, ClientType, PcSet
  <2>3. r \in ClientType /\ r.pc = "off" /\ r.n = client[c].n
    BY <2>2 DEF ClientType, PcSet
  <2> HIDE DEF r
  <2> QED
    BY <2>1, <2>2, <2>3
<1>3. /\ down' \in [Client -> Seq(ToClient)] /\ Shorter(down'[c], down[c])
      /\ \A d \in Client \ {c} : down'[d] = down[d]
  <2>1. down' = [down EXCEPT ![c] = <<>>]
    BY DEF HostFails
  <2>2. <<>> \in Seq(ToClient)
    BY EmptySeq
  <2> QED
    BY <1>1, <2>1, <2>2 DEF Shorter
<1>4. up' \in Seq(ToServer) /\ (up' # up => Mine(c))
  <2>1. CASE up' = up
    BY <2>1, <1>1
  <2>2. CASE Mine(c) /\ \E k \in 0 .. Len(up) - 1 : up' = SubSeq(up, 1, k)
    <3>1. PICK k \in 0 .. Len(up) - 1 : up' = SubSeq(up, 1, k)
      BY <2>2
    <3>2. Len(up) \in Nat /\ k \in Nat /\ \A i \in 1 .. k : up[i] \in ToServer
      BY <1>1, <3>1
    <3>3. SubSeq(up, 1, k) \in Seq(ToServer)
      BY ONLY <1>1, <3>2, SubSeqProperties
    <3> QED
      BY <2>2, <3>1, <3>3
  <2> QED
    BY <2>1, <2>2 DEF HostFails
<1> QED
  BY <1>1, <1>2, <1>3, <1>4, EndedIsFine, ClientMoves

LEMMA StepForeign ==
    ASSUME VInv, NEW c \in Foreign, ForeignStep(c)
    PROVE  VInv'
<1>1. /\ TypeOK /\ c \in Client
      /\ UNCHANGED <<alive, queue, session, handler, con, gate, client>>
      /\ client' \in [Client -> ClientType]
      /\ up \in Seq(ToServer)
      /\ heard \in [Client -> {Undecided} \cup Recommendation]
      /\ down \in [Client -> Seq(ToClient)]
  BY AddressAssumption
     DEF VInv, TypeOK, ForeignStep, ForeignSends, ForeignReads, server, ToServer, ToClient,
         ClientType, PcSet
<1>2. CASE ForeignSends(c)
  <2>1. PICK e \in ToServer : up' = Append(up, e)
    BY <1>2 DEF ForeignSends, ToServer
  <2>2. up' \in Seq(ToServer)
    BY <1>1, <2>1, AppendIs
  <2> QED
    BY <1>1, <1>2, <2>2, ClientMoves DEF ForeignSends, Shorter
<1>3. CASE ForeignReads(c)
  <2>1. /\ down' \in [Client -> Seq(ToClient)] /\ Shorter(down'[c], down[c])
        /\ \A d \in Client \ {c} : down'[d] = down[d]
    BY <1>1, <1>3, ReadIs DEF ForeignReads
  <2>2. heard' \in [Client -> {Undecided} \cup Recommendation]
    BY <1>1, <1>3 DEF ForeignReads
  <2> QED
    BY <1>1, <1>3, <2>1, <2>2, ClientMoves DEF ForeignReads
<1> QED
  BY <1>2, <1>3 DEF ForeignStep

LEMMA StepConnect ==
    ASSUME VInv, NEW c \in Client, Connect(c)
    PROVE  VInv'
<1> DEFINE new == [client |-> c, n |-> client[c].n + 1]
<1>1. /\ TypeOK /\ Sessions /\ Turn /\ queue \in Seq(Conn)
      /\ client \in [Client -> ClientType]
      /\ UNCHANGED <<alive, session, handler, con, up, gate>>
      /\ client[c].n < IF c \in Foreign THEN MaxForeign ELSE MaxSessions
  BY DEF VInv, TypeOK, Connect, Conn, ClientType, PcSet
<1>2. client[c].n \in Nat /\ client[c].n < MaxSessions /\ new \in Conn
  <2>1. client[c].n \in Nat /\ client[c].n < MaxSessions
    BY <1>1, BoundAssumption DEF ClientType
  <2> QED
    BY <2>1, BoundAssumption DEF Conn
<1>3. /\ queue' = Append(queue, new)
      /\ down' = [down EXCEPT ![c] = <<>>]
      /\ heard' = [heard EXCEPT ![c] = Undecided]
  BY DEF Connect
<1>4. /\ client' \in [Client -> ClientType]
      /\ client'[c].pc = "connecting" /\ client'[c].n = client[c].n + 1
      /\ \A d \in Client \ {c} : client'[d] = client[d]
  <2> DEFINE r == [pc |-> "connecting", n |-> client[c].n + 1, refused |-> FALSE,
                  lost |-> client[c].lost]
  <2>1. client' = [client EXCEPT ![c] = r]
    BY DEF Connect
  <2>2. r \in ClientType /\ r.pc = "connecting" /\ r.n = client[c].n + 1
    BY <1>1, <1>2, BoundAssumption DEF ClientType, PcSet
  <2> HIDE DEF r
  <2> QED
    BY <1>1, <2>1, <2>2
<1> HIDE DEF new
<1>5. /\ queue' \in Seq(Conn) /\ Range(queue') = Range(queue) \cup {new}
      /\ \A i \in DOMAIN queue' :
           \/ i \in DOMAIN queue /\ queue'[i] = queue[i]
           \/ i = Len(queue) + 1 /\ queue'[i] = new
  BY <1>1, <1>2, <1>3, AppendIs
<1>6. /\ down' \in [Client -> Seq(ToClient)] /\ down'[c] = <<>>
      /\ \A d \in Client \ {c} : down'[d] = down[d]
  BY <1>1, <1>3 DEF TypeOK, ToClient
<1>7. TypeOK'
  <2>1. heard' \in [Client -> {Undecided} \cup Recommendation]
    BY <1>1, <1>3 DEF TypeOK
  <2> QED
    BY <1>1, <1>4, <1>5, <1>6, <2>1
       DEF TypeOK, Conn, handler, gate, ClientType, PcSet, ToClient
<1>8. \A i \in DOMAIN queue : queue[i].client \in Client /\ queue[i] # new
  <2>1. \A i \in DOMAIN queue : queue[i] \in Conn
    BY <1>1
  <2>2. \A i \in DOMAIN queue : queue[i].n <= client[queue[i].client].n
    BY <1>1 DEF Sessions
  <2> QED
    BY <1>2, <2>1, <2>2 DEF new, Conn
<1>9. session # NoSession =>
        session \in Conn /\ session.n <= client[session.client].n /\ session # new
  BY <1>1, <1>2, Served DEF Sessions, new, Conn
<1>10. Sessions'
  <2>1. session # NoSession => session.n <= client'[session.client].n
    BY <1>1, <1>2, <1>4, <1>9 DEF Conn
  <2>2. \A i \in DOMAIN queue' : queue'[i].n <= client'[queue'[i].client].n
    <3>1. SUFFICES ASSUME NEW i \in DOMAIN queue'
                   PROVE  queue'[i].n <= client'[queue'[i].client].n
      OBVIOUS
    <3>2. CASE queue'[i] = new
      BY <3>2, <1>2, <1>4 DEF new
    <3>3. CASE i \in DOMAIN queue /\ queue'[i] = queue[i]
      <4>1. queue[i] \in Conn /\ queue[i].n <= client[queue[i].client].n
        BY <3>3, <1>1 DEF Sessions
      <4> QED
        BY <3>3, <4>1, <1>2, <1>4 DEF Conn
    <3> QED
      BY <3>2, <3>3, <1>5
  <2>3. \A i, j \in DOMAIN queue' : queue'[i] = queue'[j] => i = j
    BY <1>1, <1>5, <1>8 DEF Sessions
  <2>4. session # NoSession => session \notin Range(queue')
    BY <1>1, <1>5, <1>9 DEF Sessions
  <2> QED
    BY <1>1, <2>1, <2>2, <2>3, <2>4 DEF Sessions
<1>11. Turn'
  BY <1>1 DEF Turn, handler, gate
<1>12. \A d \in Client \ {c} :
         Current(d)' = Current(d) /\ (Current(d) \in Range(queue') <=> Current(d) \in Range(queue))
  BY <1>4, <1>5 DEF Current, new
<1>13. ASSUME NEW d \in Client
       PROVE  OnTheWay(d)'
  <2>1. CASE d = c
    BY <2>1, <1>6 DEF OnTheWay
  <2>2. CASE d # c
    BY <2>2, <1>1, <1>6, <1>12 DEF OnTheWay, VInv, gate
  <2> QED
    BY <2>1, <2>2
<1>14. ASSUME NEW d \in Client \ Foreign
       PROVE  VersionFirst(d)'
  <2>1. CASE d = c
    <3>1. ~Mine(c)'
      <4>1. Mine(c)' => session = new
        BY <1>1, <1>4 DEF Mine, new
      <4>2. new # NoSession
        BY ClientIsAddress DEF new
      <4> QED
        BY <1>9, <4>1, <4>2
    <3> QED
      BY <2>1, <3>1, <1>4, <1>6 DEF VersionFirst
  <2>2. CASE d # c
    <3>1. /\ VersionFirst(d) /\ client'[d] = client[d] /\ down'[d] = down[d]
          /\ UNCHANGED <<phase, up, session>>
          /\ Current(d)' \in Range(queue') <=> Current(d) \in Range(queue)
      BY <2>2, <1>1, <1>4, <1>6, <1>12 DEF VInv, handler
    <3>2. Mine(d)' <=> Mine(d)
      BY <3>1 DEF Mine
    <3> QED
      BY <3>1, <3>2 DEF VersionFirst
  <2> QED
    BY <2>1, <2>2
<1> QED
  BY <1>7, <1>10, <1>11, <1>13, <1>14 DEF VInv

LEMMA StepElse == VInv /\ (PepsChange \/ UNCHANGED vars) => VInv'
<1> SUFFICES ASSUME VInv, PepsChange \/ UNCHANGED vars PROVE VInv'
  OBVIOUS
<1>1. /\ UNCHANGED <<server, streams, client, verdict, decided, heard>>
      /\ TypeOK => reachable' \subseteq Pep
  BY DEF PepsChange, vars, gate, TypeOK
<1>2. TypeOK' /\ Sessions' /\ Turn'
  BY <1>1 DEF VInv, TypeOK, Sessions, Turn, server, streams, handler
<1>3. \A c \in Client : OnTheWay(c) => OnTheWay(c)'
  BY <1>1 DEF OnTheWay, Current, server, streams
<1>4. \A c \in Client : VersionFirst(c) => VersionFirst(c)'
  BY <1>1 DEF VersionFirst, Current, Mine, server, streams, handler
<1> QED
  BY <1>2, <1>3, <1>4 DEF VInv

-----------------------------------------------------------------------------
(* The theorems.                                                           *)

LEMMA InitVInv == Init => VInv
<1> SUFFICES ASSUME Init PROVE VInv
  OBVIOUS
<1>1. TypeOK
  <2>1. /\ queue \in Seq([client : Client, n : 1 .. MaxSessions])
        /\ up \in Seq({"request", "versions", "batch", "junk", "other"})
    BY EmptySeq DEF Init
  <2>2. down \in [Client -> Seq({"version", "batch"} \cup Recommendation)]
    BY EmptySeq DEF Init
  <2>3. client \in [Client ->
           [pc : {"off", "connecting", "greeting", "negotiating", "writing", "reading"},
            n : 0 .. MaxSessions, refused : BOOLEAN, lost : SUBSET (0 .. MaxSessions)]]
    BY BoundAssumption DEF Init
  <2>4. con \in [Client -> [state : ConState, first : BOOLEAN]]
    BY DEF Init, ConState
  <2>5. /\ reachable \subseteq Pep
        /\ verdict \in [Pep -> [Client -> {"none", "Y", "N"}]]
        /\ decided \in [Client -> {Undecided} \cup Recommendation]
        /\ heard \in [Client -> {Undecided} \cup Recommendation]
    BY DEF Init
  <2> QED
    BY <2>1, <2>2, <2>3, <2>4, <2>5, BoundAssumption DEF Init, TypeOK
<1>2. Sessions /\ Turn
  BY DEF Init, Sessions, Turn, Recommendation
<1>3. \A c \in Client : OnTheWay(c)
  BY DEF Init, OnTheWay
<1>4. \A c \in Client : VersionFirst(c)
  BY DEF Init, VersionFirst
<1> QED
  BY <1>1, <1>2, <1>3, <1>4 DEF VInv

LEMMA NextVInv == VInv /\ [Next]_vars => VInv'
<1> SUFFICES ASSUME VInv, [Next]_vars PROVE VInv'
  OBVIOUS
<1>1. CASE Operation
  <2>1. CASE ExpectVersion
    BY <2>1, StepExpectVersion
  <2>2. CASE RefuseVersion \/ BreakHandshake \/ SendLast
    BY <2>2, StepSessionEnds
  <2>3. CASE IgnoreEnvelope \/ AnswerBatch \/ SendReply \/ SendNothing
    BY <2>3, StepLoop
  <2>4. CASE DecideAccess \/ CallStalls \/ NotifyPep
    BY <2>4, StepDecide, StepStalls, StepNotify
  <2>5. CASE FirstIsNoBatch
    BY <2>5, StepProcessEnds DEF FirstIsNoBatch
  <2> QED
    BY <1>1, <2>1, <2>2, <2>3, <2>4, <2>5 DEF Operation
<1>2. CASE Accept \/ AcceptFails \/ Broken
  BY <1>2, StepAccept, StepSessionEnds, StepProcessEnds DEF AcceptFails
<1>3. CASE PepsChange \/ Finished \/ UNCHANGED vars
  BY <1>3, StepElse DEF Finished
<1>4. ASSUME NEW c \in Client \ Foreign, VpnClientStep(c) \/ HostFails(c)
      PROVE  VInv'
  BY <1>4, StepPut, StepBeginSession, StepPutData, StepEnd, StepHostFails DEF VpnClientStep
<1>5. ASSUME NEW c \in Foreign, ForeignStep(c)
      PROVE  VInv'
  BY <1>5, StepForeign
<1>6. ASSUME NEW c \in Client, Connect(c) \/ Quit(c)
      PROVE  VInv'
  BY <1>6, StepConnect, StepEnd
<1> QED
  BY <1>1, <1>2, <1>3, <1>4, <1>5, <1>6 DEF Next, ServerStep

THEOREM Invariant == Spec => []VInv
<1> QED
  BY InitVInv, NextVInv, PTL DEF Spec

\* The types: among them, a client that waits for recommendations never takes
\* another envelope for one, and the last envelope of a session has one.
THEOREM TypeCorrect == Spec => []TypeOK
<1>1. VInv => TypeOK
  BY DEF VInv
<1> QED
  BY <1>1, Invariant, PTL

LEMMA InitGate == Init => Gate!GInit
  BY DEF Init, Gate!GInit, Undecided, Gate!Undecided

\* A step of the server: only an accepted connection and a decision count.
LEMMA ServerGate == VInv /\ ServerStep => [Gate!GNext]_(Gate!gvars)
<1> SUFFICES ASSUME VInv, ServerStep
             PROVE  Gate!GNext \/ UNCHANGED Gate!gvars
  OBVIOUS
<1>1. TypeOK /\ Turn
  BY DEF VInv
<1>2. CASE Accept
  <2>1. PICK c \in Client : /\ decided' = [decided EXCEPT ![c] = Undecided]
                            /\ UNCHANGED <<verdict, reachable, heard>>
    BY <1>2 DEF Accept, Connected
  <2>2. Gate!Open(c)
    BY <2>1 DEF Gate!Open, Undecided, Gate!Undecided
  <2> QED
    BY <2>2 DEF Gate!GNext
<1>3. CASE NotifyPep
  <2> DEFINE c == session.client
             d == con[c].state
  <2>1. c \in Client /\ decided[c] = Undecided /\ d \in Recommendation
    BY <1>1, <1>3, Served DEF NotifyPep, InSession, Turn
  <2>2. /\ decided' = [decided EXCEPT ![c] = d] /\ Notify(c, d)
        /\ UNCHANGED <<reachable, heard>>
    BY <1>3 DEF NotifyPep
  <2> HIDE DEF d
  <2>3. verdict' = IF ResponsiblePep(c) \in reachable /\ d # "ACCESS_ISOLATED"
                   THEN [verdict EXCEPT ![ResponsiblePep(c)][c] =
                           IF d = "ACCESS_ALLOWED" THEN "Y" ELSE "N"]
                   ELSE verdict
    BY <1>1, <2>1, <2>2, NotifyIs
  <2> HIDE DEF c
  <2>4. Gate!Decide(c, d)
    BY <2>1, <2>2, <2>3
       DEF Gate!Decide, Gate!Told, Gate!Flag, Undecided, Gate!Undecided
  <2> QED
    BY <2>1, <2>2, <2>4 DEF Gate!GNext, Recommendation
<1>4. CASE ExpectVersion \/ RefuseVersion \/ Broken \/ IgnoreEnvelope \/ DecideAccess
  BY <1>4 DEF ExpectVersion, RefuseVersion, Broken, IgnoreEnvelope, DecideAccess, gate,
              Gate!gvars
<1>5. CASE AnswerBatch \/ BreakHandshake \/ SendReply \/ SendLast
  BY <1>5 DEF AnswerBatch, BreakHandshake, SendReply, SendLast, gate, Gate!gvars
<1>6. CASE CallStalls \/ FirstIsNoBatch \/ SendNothing \/ AcceptFails
  BY <1>6 DEF CallStalls, FirstIsNoBatch, SendNothing, AcceptFails, ProcessEnds, gate, Gate!gvars
<1> QED
  BY <1>2, <1>3, <1>4, <1>5, <1>6 DEF ServerStep, Operation

\* What a client takes for a recommendation is the decision.
LEMMA HearsTheDecision ==
    ASSUME VInv, NEW c \in Client, down[c] # <<>>, Head(down[c]) \in Recommendation,
           heard' = [heard EXCEPT ![c] = Head(down[c])], UNCHANGED gate
    PROVE  Gate!Hear(c)
<1>1. TypeOK /\ OnTheWay(c) /\ down[c] \in Seq(ToClient)
  BY DEF VInv, TypeOK, ToClient
<1>2. 1 \in DOMAIN down[c] /\ Head(down[c]) = down[c][1]
  BY <1>1
<1>3. decided[c] = Head(down[c])
  BY <1>1, <1>2 DEF OnTheWay
<1>4. decided[c] # Undecided
  BY <1>3 DEF Recommendation, Undecided
<1> QED
  BY <1>3, <1>4 DEF Gate!Hear, Gate!Undecided, Undecided, gate

LEMMA ClientGate ==
    ASSUME VInv, NEW c \in Client,
           \/ c \notin Foreign /\ VpnClientStep(c)
           \/ ForeignStep(c)
           \/ Connect(c) \/ Quit(c) \/ HostFails(c)
    PROVE  Gate!GNext \/ UNCHANGED Gate!gvars
<1>1. CASE c \notin Foreign /\ PutData(c)
  <2>1. /\ TypeOK /\ VersionFirst(c) /\ client[c].pc = "reading" /\ down[c] # <<>>
        /\ UNCHANGED gate /\ down' = [down EXCEPT ![c] = Tail(@)]
        /\ \/ heard' = heard
           \/ Head(down[c]) # "batch" /\ heard' = [heard EXCEPT ![c] = Head(down[c])]
    BY <1>1 DEF VInv, PutData
  <2>2. 1 \in DOMAIN down[c] /\ Head(down[c]) = down[c][1] /\ Head(down[c]) \in ToClient
    BY <2>1, ReadIs
  <2>3. Head(down[c]) # "version"
    BY <2>1, <2>2 DEF VersionFirst
  <2>4. CASE heard' = heard
    BY <2>1, <2>4 DEF Gate!gvars, gate
  <2>5. CASE heard' # heard
    <3>1. Gate!Hear(c)
      BY <2>1, <2>2, <2>3, <2>5, HearsTheDecision DEF ToClient
    <3> QED
      BY <3>1 DEF Gate!GNext
  <2> QED
    BY <2>4, <2>5
<1>2. CASE ForeignReads(c)
  <2>1. CASE Head(down[c]) \in Recommendation
    <3>1. Gate!Hear(c)
      BY <1>2, <2>1, HearsTheDecision DEF ForeignReads
    <3> QED
      BY <3>1 DEF Gate!GNext
  <2>2. CASE Head(down[c]) \notin Recommendation
    BY <1>2, <2>2 DEF ForeignReads, gate, Gate!gvars
  <2> QED
    BY <2>1, <2>2
<1>3. CASE Connect(c)
  <2>1. Gate!Forget(c)
    BY <1>3 DEF Connect, gate, Gate!Forget, Undecided, Gate!Undecided
  <2> QED
    BY <2>1 DEF Gate!GNext
<1>4. CASE \/ StartVersionNegotiation(c) \/ BeginSession(c) \/ SendBatch(c)
           \/ EndOfStream(c) \/ ForeignSends(c) \/ Quit(c) \/ HostFails(c)
  BY <1>4 DEF StartVersionNegotiation, BeginSession, SendBatch, EndOfStream, ForeignSends,
              Quit, HostFails, gate, Gate!gvars
<1> QED
  BY <1>1, <1>2, <1>3, <1>4 DEF VpnClientStep, ForeignStep

LEMMA NextGate == VInv /\ [Next]_vars => [Gate!GNext]_(Gate!gvars)
<1> SUFFICES ASSUME VInv, [Next]_vars
             PROVE  Gate!GNext \/ UNCHANGED Gate!gvars
  OBVIOUS
<1>1. CASE ServerStep
  BY <1>1, ServerGate
<1>2. CASE PepsChange
  <2>1. Gate!Network
    BY <1>2 DEF PepsChange, Gate!Network
  <2> QED
    BY <2>1 DEF Gate!GNext
<1>3. CASE Finished \/ UNCHANGED vars
  BY <1>3 DEF Finished, vars, gate, Gate!gvars
<1>4. ASSUME NEW c \in Client \ Foreign, VpnClientStep(c) \/ HostFails(c)
      PROVE  Gate!GNext \/ UNCHANGED Gate!gvars
  BY <1>4, ClientGate
<1>5. ASSUME NEW c \in Foreign, ForeignStep(c)
      PROVE  Gate!GNext \/ UNCHANGED Gate!gvars
  BY <1>5, ClientGate, AddressAssumption
<1>6. ASSUME NEW c \in Client, Connect(c) \/ Quit(c)
      PROVE  Gate!GNext \/ UNCHANGED Gate!gvars
  BY <1>6, ClientGate
<1> QED
  BY <1>1, <1>2, <1>3, <1>4, <1>5, <1>6 DEF Next

\* Whatever the clients, foreign ones among them, do and whenever sessions
\* break, the decision point keeps what PepGate promises: sessions that break,
\* are refused or abandoned change nothing at the enforcement points, and a
\* decision reaches the responsible one before the client hears it.
THEOREM GateImplemented == Spec => ImplementsGate
<1> QED
  BY Invariant, InitGate, NextGate, PTL DEF Spec, ImplementsGate, Gate!GSpec

=============================================================================
