------------------------------- MODULE NaaVpn -------------------------------
(***************************************************************************)
(* The VPN scenario: vpnclient processes talk TNCCS over TLS (libtncvpn)   *)
(* with naavpn, the policy decision point, which runs one session after    *)
(* the other, each in blocking calls without a timeout on the thread of    *)
(* its io_service, and tells the enforcement point what was decided.       *)
(*                                                                         *)
(* Other clients than vpnclient (Foreign) may connect, too.  The library   *)
(* of the clients (libtnc) is not part of the repository, libtncs is       *)
(* reduced to the outcomes of processTNCCSData (Tncs has its inside).      *)
(***************************************************************************)
EXTENDS IfTnc, Naturals, Sequences, SequencesExt

CONSTANTS
    Client,         \* clients: their IPv4 addresses
    Foreign,        \* those that are not vpnclient
    Mapping,        \* ConfigurationService::properties: networks of the PEPs
    AddressBits,    \* length of an address
    MaxSessions,    \* bound: connections of a client
    MaxForeign,     \* bound: connections of a foreign client
    MaxRounds,      \* bound: rounds of a handshake before its decision
    MaxUnread       \* bound: envelopes of a foreign client on their way

ASSUME AddressAssumption ==
    /\ AddressBits \in Nat /\ Client \subseteq 0 .. 2 ^ AddressBits - 1
    /\ Foreign \subseteq Client

ASSUME MappingAssumption ==
    /\ Mapping \in Seq(Range(Mapping))
    /\ \A i \in DOMAIN Mapping : /\ Mapping[i].net \in Nat
                                /\ Mapping[i].bits \in 0 .. AddressBits

\* Arithmetic that the provers do not know.
ASSUME PowerAssumption == \A k \in 0 .. AddressBits : 2 ^ k > 0

ASSUME BoundAssumption ==
    /\ MaxSessions \in Nat /\ MaxForeign \in 0 .. MaxSessions
    /\ MaxRounds \in Nat /\ MaxUnread \in Nat

Nobody == "0.0.0.0"
Pep == {Mapping[i].pep : i \in DOMAIN Mapping}
NoSession == [client |-> 2 ^ AddressBits, n |-> 0]

VARIABLES
    alive,      \* the process of the decision point
    queue,      \* connections that wait to be accepted
    session,    \* the connection that handleAccept serves, or NoSession
    phase,      \* "negotiation", "loop", "notifying", "stalled" or "last":
                \* where the thread is in doOperations
    wantRead,   \* MessageHandler::want_read_; want_write_ is its opposite
    reply,      \* MessageHandler::reply_msg: what it tells, or "none"
    con,        \* Coordinator::connections, by the client's address
    rounds,     \* batches answered in this session
    up, down,   \* envelopes on their way to the server and to the clients
    client,     \* the clients: process, connection number, refusal, and
                \* the connections that were lost with their host
    reachable,  \* enforcement points that answer
    verdict,    \* what each enforcement point was told last
    decided,    \* history: the decision of each endpoint's last session
    heard       \* history: the recommendation that each client got

handler == <<phase, wantRead, reply, rounds>>
server  == <<alive, queue, session, handler, con>>
streams == <<up, down>>
gate    == <<reachable, verdict, decided>>
vars    == <<server, streams, client, gate, heard>>

Undecided == "none"
Recommendation == {"ACCESS_ALLOWED", "ACCESS_ISOLATED", "ACCESS_NONE"}

\* The client's end of a connection is open.
Connected(s) == /\ s.client \in Client
                /\ client[s.client].n = s.n /\ client[s.client].pc # "off"

\* The host of the client failed: its end was never closed.
Lost(s) == s.client \in Client /\ s.n \in client[s.client].lost

\* The session of the connection that the client has now.
Mine(c) == session = [client |-> c, n |-> client[c].n]

-----------------------------------------------------------------------------
(* PEPNotifier.                                                            *)

\* The address under the mask of x bits; a length of 0 becomes a full mask.
Masked(a, x) == IF x = 0 THEN a ELSE a - (a % 2 ^ (AddressBits - x))

\* getPEPForEndpoint: the first entry whose network the masked address is.
PepForEndpoint(a) ==
    LET i == SelectInSeq(Mapping, LAMBDA m : Masked(a, m.bits) = m.net)
    IN IF i = 0 THEN Nobody ELSE Mapping[i].pep

\* sendBinaryRecommendation; an exception on the way is swallowed.
SendRecommendation(c, flag) ==
    LET p == PepForEndpoint(c)
    IN verdict' = IF p \in reachable THEN [verdict EXCEPT ![p][c] = flag]
                                     ELSE verdict

-----------------------------------------------------------------------------
(* IFTTLSConnection.                                                       *)

\* sendMessage: it fails only if the client has closed the connection, and
\* not always then.
Written(e) == /\ Connected(session)
              /\ down' = [down EXCEPT ![session.client] = Append(@, e)]
LostWrite == ~Connected(session) /\ UNCHANGED down

\* receiveMessage
Received(e) == up # <<>> /\ e = Head(up) /\ up' = Tail(up)

\* The session and its handler are deleted and the connection closed;
\* exceptions of doOperations end here.
SessionOver ==
    /\ session' = NoSession /\ up' = <<>>
    /\ phase' = "negotiation" /\ wantRead' = TRUE /\ reply' = "none" /\ rounds' = 0

\* An uncaught exception, or no handler left for the io_service.
ProcessEnds == /\ alive' = FALSE /\ queue' = <<>>
               /\ SessionOver
               /\ UNCHANGED <<con, down, client, gate, heard>>

-----------------------------------------------------------------------------
(* TNCServer and Session.                                                  *)

\* The TLS handshake is made with a client that is still there; then
\* getConnection begins a handshake on the connection of the address.
Accept ==
    /\ alive /\ session = NoSession /\ queue # <<>> /\ Connected(Head(queue))
    /\ session' = Head(queue) /\ queue' = Tail(queue)
    /\ LET c == session'.client IN
         /\ con' = [con EXCEPT ![c] = [state |-> "HANDSHAKE", first |-> TRUE]]
         /\ client' = [client EXCEPT ![c].pc = "greeting"]
         /\ decided' = [decided EXCEPT ![c] = Undecided]
    /\ UNCHANGED <<alive, handler, streams, reachable, verdict, heard>>

\* The client is gone before its TLS handshake, and the server has noticed: the
\* exception leaves io_service::run.  Or accept fails: no other is started.
AcceptFails == /\ alive /\ session = NoSession /\ queue # <<>>
               /\ ProcessEnds

-----------------------------------------------------------------------------
(* TNCSession::doOperations                                                *)

InSession(p) == alive /\ session # NoSession /\ phase = p

\* expectVersionNegotiation; it does not look at the type of the envelope.
ExpectVersion ==
    /\ InSession("negotiation")
    /\ up # <<>> /\ Head(up) # "versions" /\ up' = Tail(up)
    /\ Written("version") \/ LostWrite
    /\ phase' = "loop"
    /\ UNCHANGED <<alive, queue, session, wantRead, reply, rounds, con, client,
                   gate, heard>>

RefuseVersion == /\ InSession("negotiation") /\ up # <<>> /\ Head(up) # "request"
                 /\ SessionOver
                 /\ UNCHANGED <<alive, queue, con, down, client, gate, heard>>

\* A read or write on a connection that the client has closed, or that was
\* lost with its host, if the system finds out.
Broken == /\ alive /\ session # NoSession /\ phase \notin {"notifying", "stalled"}
          /\ ~Connected(session)
          /\ SessionOver
          /\ UNCHANGED <<alive, queue, con, down, client, gate, heard>>

\* Faulty variant: the handler reads on, whatever it has to send.
DoneReading == wantRead' = TRUE

\* MessageHandler::done
Done == wantRead' = ~wantRead

Reading == InSession("loop") /\ wantRead

\* An envelope of another type is ignored.
IgnoreEnvelope == /\ Reading /\ Received("other")
                  /\ reply' = "none" /\ Done
                  /\ UNCHANGED <<alive, queue, session, phase, rounds, con, down,
                                 client, gate, heard>>

\* handleTnccs20Batch: the handshake goes on.
AnswerBatch ==
    /\ Reading /\ Received("batch") /\ rounds < MaxRounds
    /\ reply' = "batch" /\ rounds' = rounds + 1 /\ Done
    /\ con' = [con EXCEPT ![session.client].first = FALSE]
    /\ UNCHANGED <<alive, queue, session, phase, down, client, gate, heard>>

\* Faulty variant: ALLOWED falls through to the next case.
NotifyFallingThrough(c, d) == IF d = "ACCESS_ISOLATED" THEN UNCHANGED verdict
                                                       ELSE SendRecommendation(c, "N")

\* Faulty variant: isolation is sent with a flag of its own.
NotifyIsolation(c, d) ==
    SendRecommendation(c, CASE d = "ACCESS_ALLOWED" -> "Y"
                            [] d = "ACCESS_NONE" -> "N"
                            [] OTHER -> "I")

\* The switch over the connection state; isolation is not implemented.
Notify(c, d) == CASE d = "ACCESS_ALLOWED" -> SendRecommendation(c, "Y")
                  [] d = "ACCESS_NONE" -> SendRecommendation(c, "N")
                  [] OTHER -> UNCHANGED verdict

\* processTNCCSData: ConnectionStateExceptionWithTNCCSData.
DecideAccess ==
    /\ Reading /\ Received("batch")
    /\ \E d \in Recommendation :
         con' = [con EXCEPT ![session.client] = [state |-> d, first |-> FALSE]]
    /\ phase' = "notifying" /\ reply' = "none"
    /\ UNCHANGED <<alive, queue, session, wantRead, rounds, down, client, gate, heard>>

\* The notifier connects in calls without a timeout, too: one that an enforcement
\* point takes and does not answer may last for ever.
CallStalls ==
    /\ InSession("notifying")
    /\ con[session.client].state # "ACCESS_ISOLATED"
    /\ phase' = "stalled"
    /\ UNCHANGED <<alive, queue, session, wantRead, reply, rounds, con, streams, client,
                   gate, heard>>

\* handleTnccs20Batch goes on with the state of the exception.
NotifyPep ==
    /\ InSession("notifying") \/ InSession("stalled")
    /\ LET c == session.client IN
         /\ Notify(c, con[c].state)
         /\ decided' = [decided EXCEPT ![c] = con[c].state]
         /\ reply' = con[c].state
    /\ phase' = "last" /\ wantRead' = FALSE
    /\ UNCHANGED <<alive, queue, session, rounds, con, streams, client, reachable, heard>>

\* handleTnccs20Batch: any other exception.  A batch of the client or of
\* the server cannot be made use of; the enforcement point is not told.
BreakHandshake ==
    /\ Reading /\ up # <<>>
    /\ Head(up) = "batch" \/ (Head(up) = "junk" /\ ~con[session.client].first)
    /\ con' = [con EXCEPT ![session.client] = [state |-> "ACCESS_NONE", first |-> FALSE]]
    /\ SessionOver
    /\ UNCHANGED <<alive, queue, down, client, gate, heard>>

\* No handler supports the first batch: std::unexpected.
FirstIsNoBatch == /\ Reading /\ up # <<>> /\ Head(up) = "junk"
                  /\ con[session.client].first
                  /\ ProcessEnds

SendReply ==
    /\ InSession("loop") /\ ~wantRead /\ reply # "none"
    /\ Written(reply) \/ LostWrite
    /\ reply' = "none" /\ Done
    /\ UNCHANGED <<alive, queue, session, phase, rounds, con, up, client, gate, heard>>

\* There is nothing to send: env is deleted without a value.  The process
\* may die of it or go on.
SendNothing ==
    /\ InSession("loop") /\ ~wantRead /\ reply = "none"
    /\ \/ ProcessEnds
       \/ /\ Done
          /\ UNCHANGED <<alive, queue, session, phase, reply, rounds, con, streams,
                         client, gate, heard>>

\* The last reply, which has the recommendation.
SendLast == /\ InSession("last")
            /\ Written(reply) \/ LostWrite
            /\ SessionOver
            /\ UNCHANGED <<alive, queue, con, client, gate, heard>>

-----------------------------------------------------------------------------
(* TNCClient, LibTNCClient; foreign clients.                               *)

To(c, pc) == client' = [client EXCEPT ![c].pc = pc]

Connect(c) ==
    /\ alive /\ client[c].pc = "off"
    /\ client[c].n < IF c \in Foreign THEN MaxForeign ELSE MaxSessions
    /\ client' = [client EXCEPT ![c] = [pc |-> "connecting", n |-> @.n + 1,
                                        refused |-> FALSE, lost |-> @.lost]]
    /\ queue' = Append(queue, [client |-> c, n |-> client[c].n + 1])
    /\ down' = [down EXCEPT ![c] = <<>>]
    /\ heard' = [heard EXCEPT ![c] = Undecided]
    /\ UNCHANGED <<alive, session, handler, con, up, gate>>

\* A write after the server has closed the connection is lost, or fails.
Put(c, e, pc) == \/ Mine(c) /\ up' = Append(up, e) /\ To(c, pc)
                 \/ ~Mine(c) /\ UNCHANGED up /\ client' \in
                      {[client EXCEPT ![c].pc = p] : p \in {pc, "off"}}

StartVersionNegotiation(c) == /\ client[c].pc = "greeting"
                              /\ Put(c, "request", "negotiating")
                              /\ UNCHANGED <<server, down, gate, heard>>

\* The version is there; beginSession has made the first batch, or getMessage
\* throws.
BeginSession(c) == /\ client[c].pc = "negotiating" /\ down[c] # <<>>
                   /\ down' = [down EXCEPT ![c] = Tail(@)]
                   /\ To(c, "writing") \/ To(c, "off")
                   /\ UNCHANGED <<server, up, gate, heard>>

SendBatch(c) == /\ client[c].pc = "writing"
                /\ Put(c, "batch", "reading")
                /\ UNCHANGED <<server, down, gate, heard>>

\* putData: libtnc takes the batch and has the next one ready, or none, which
\* ends the client; or it refuses the batch, and the client reads on.
PutData(c) ==
    /\ client[c].pc = "reading" /\ down[c] # <<>>
    /\ LET batch == Head(down[c]) IN
         \/ batch = "batch" /\ To(c, "writing") /\ UNCHANGED heard
         \/ /\ To(c, "off")
            /\ heard' = IF batch = "batch" THEN heard ELSE [heard EXCEPT ![c] = batch]
         \/ client' = [client EXCEPT ![c].refused = TRUE] /\ UNCHANGED heard
    /\ down' = [down EXCEPT ![c] = Tail(@)]
    /\ UNCHANGED <<server, up, gate>>

\* The server has closed the connection: the exception ends the client.
EndOfStream(c) ==
    /\ client[c].pc \in {"connecting", "negotiating", "reading"}
    /\ ~Mine(c) /\ down[c] = <<>>
    /\ [client |-> c, n |-> client[c].n] \notin Range(queue)
    /\ To(c, "off")
    /\ UNCHANGED <<server, streams, gate, heard>>

\* The user interrupts the client; its end of the connection is closed.
Quit(c) == /\ client[c].pc # "off"
           /\ client' = [client EXCEPT ![c].pc = "off", ![c].refused = FALSE]
           /\ down' = [down EXCEPT ![c] = <<>>]
           /\ UNCHANGED <<server, up, gate, heard>>

\* The host of a vpnclient fails, perhaps with envelopes it had not sent yet.
\* Nobody tells the server.  (A foreign client need not fail to be silent.)
HostFails(c) ==
    /\ client[c].pc # "off"
    /\ client' = [client EXCEPT ![c] = [pc |-> "off", n |-> @.n, refused |-> FALSE,
                                        lost |-> @.lost \cup {@.n}]]
    /\ down' = [down EXCEPT ![c] = <<>>]
    /\ \/ UNCHANGED up
       \/ Mine(c) /\ \E k \in 0 .. Len(up) - 1 : up' = SubSeq(up, 1, k)
    /\ UNCHANGED <<server, gate, heard>>

\* A foreign client sends what it likes and reads when it likes.
ForeignSends(c) == /\ client[c].pc = "greeting" /\ Mine(c) /\ Len(up) < MaxUnread
                   /\ \E e \in {"request", "versions", "batch", "junk", "other"} :
                        up' = Append(up, e)
                   /\ UNCHANGED <<server, down, client, gate, heard>>

ForeignReads(c) == /\ client[c].pc = "greeting" /\ down[c] # <<>>
                   /\ down' = [down EXCEPT ![c] = Tail(@)]
                   /\ heard' = IF Head(down[c]) \in Recommendation
                               THEN [heard EXCEPT ![c] = Head(down[c])] ELSE heard
                   /\ UNCHANGED <<server, up, client, gate>>

\* Enforcement points come and go.
PepsChange == /\ reachable' \in SUBSET Pep /\ reachable' # reachable
              /\ UNCHANGED <<server, streams, client, verdict, decided, heard>>

-----------------------------------------------------------------------------
Init == /\ alive = TRUE /\ queue = <<>> /\ session = NoSession
        /\ phase = "negotiation" /\ wantRead = TRUE /\ reply = "none" /\ rounds = 0
        /\ con = [c \in Client |-> [state |-> "CREATE", first |-> TRUE]]
        /\ up = <<>> /\ down = [c \in Client |-> <<>>]
        /\ client = [c \in Client |-> [pc |-> "off", n |-> 0, refused |-> FALSE, lost |-> {}]]
        /\ reachable \in SUBSET Pep
        /\ verdict = [p \in Pep |-> [c \in Client |-> "none"]]
        /\ decided = [c \in Client |-> Undecided]
        /\ heard = [c \in Client |-> Undecided]

\* The steps of doOperations, but for those that wait for the system to find
\* out that a client is gone.
Operation ==
    \/ ExpectVersion \/ RefuseVersion \/ IgnoreEnvelope \/ AnswerBatch
    \/ DecideAccess \/ CallStalls \/ NotifyPep \/ BreakHandshake \/ FirstIsNoBatch
    \/ SendReply \/ SendNothing \/ SendLast

ServerStep == Accept \/ AcceptFails \/ Broken \/ Operation

VpnClientStep(c) ==
    \/ StartVersionNegotiation(c) \/ BeginSession(c) \/ SendBatch(c)
    \/ PutData(c) \/ EndOfStream(c)

ForeignStep(c) == ForeignSends(c) \/ ForeignReads(c)

\* Nobody connects any more.
Finished == /\ \A c \in Client : client[c].pc = "off"
            /\ UNCHANGED vars

Next == \/ ServerStep \/ PepsChange \/ Finished
        \/ \E c \in Client \ Foreign : VpnClientStep(c) \/ HostFails(c)
        \/ \E c \in Foreign : ForeignStep(c)
        \/ \E c \in Client : Connect(c) \/ Quit(c)

Spec == Init /\ [][Next]_vars

\* The other end of the connection may keep it open and say nothing: its host
\* has failed, it is not vpnclient, or its library has refused a batch, so
\* that client and server both wait for the other's next.
Silent(s) == \/ Lost(s)
             \/ Connected(s) /\ (s.client \in Foreign \/ client[s.client].refused)

\* What the server does when it waits neither for a silent client nor for an
\* enforcement point that has left it waiting.
Progress == \/ phase # "stalled" /\ Operation
            \/ Broken /\ ~Lost(session)
            \/ (Accept \/ AcceptFails) /\ ~Silent(Head(queue))

\* The processes run.  Nobody is bound to find out that a host has failed or to
\* answer the notifier.
FairSpec == /\ Spec /\ WF_vars(Progress)
            /\ \A c \in Client \ Foreign : WF_vars(VpnClientStep(c))

-----------------------------------------------------------------------------
TypeOK ==
    /\ alive \in BOOLEAN /\ wantRead \in BOOLEAN
    /\ session \in {NoSession} \cup [client : Client, n : 1 .. MaxSessions]
    /\ queue \in Seq([client : Client, n : 1 .. MaxSessions])
    /\ phase \in {"negotiation", "loop", "notifying", "stalled", "last"}
    /\ reply \in {"none", "batch"} \cup Recommendation
    /\ rounds \in 0 .. MaxRounds
    /\ con \in [Client -> [state : ConState, first : BOOLEAN]]
    /\ up \in Seq({"request", "versions", "batch", "junk", "other"})
    /\ down \in [Client -> Seq({"version", "batch"} \cup Recommendation)]
    /\ client \in [Client ->
         [pc : {"off", "connecting", "greeting", "negotiating", "writing", "reading"},
          n : 0 .. MaxSessions, refused : BOOLEAN, lost : SUBSET (0 .. MaxSessions)]]
    /\ reachable \subseteq Pep
    /\ verdict \in [Pep -> [Client -> {"none", "Y", "N"}]]
    /\ decided \in [Client -> {Undecided} \cup Recommendation]
    /\ heard \in [Client -> {Undecided} \cup Recommendation]

\* The first network that holds the address: a multiple of its size, and they
\* differ in the host's number only; 0 bits are no network, but an address.
Holds(m, a) ==
    LET size == IF m.bits = 0 THEN 1 ELSE 2 ^ (AddressBits - m.bits)
    IN m.net % size = 0 /\ \E host \in 0 .. size - 1 : a = m.net + host

ResponsiblePep(a) ==
    LET all == {i \in DOMAIN Mapping : Holds(Mapping[i], a)}
    IN IF all = {} THEN Nobody
       ELSE Mapping[CHOOSE i \in all : \A j \in all : i <= j].pep

Gate == INSTANCE PepGate WITH
          Endpoint <- Client, Responsible <- [c \in Client |-> ResponsiblePep(c)]

\* Sessions that break, are refused or abandoned, at whatever step, change
\* nothing at the enforcement points; a decision reaches the one that is
\* responsible before the client hears it, and isolation none.
ImplementsGate == Gate!GSpec

\* Who holds the one thread of the server: an enforcement point that has left the
\* notifier waiting, or a silent client, served or about to be.
Holding ==
    alive /\ \/ phase = "stalled"
             \/ session # NoSession /\ Silent(session)
             \/ session = NoSession /\ queue # <<>> /\ Silent(Head(queue))

Waits(c) == alive /\ client[c].pc = "connecting"

\* A client in the queue is served, or gives up, unless somebody holds the
\* server for ever: nothing else blocks its one thread, neither clients that
\* quit, whatever they do, nor enforcement points that cannot be reached.
OnlyHoldersBlock == (\A c \in Client : Waits(c) ~> ~Waits(c)) \/ <>[]Holding

=============================================================================
