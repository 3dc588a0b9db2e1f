------------------------------- MODULE EapTnc -------------------------------
(***************************************************************************)
(* naaeap, the network access authority behind EAP-TNC: it reassembles the *)
(* TNCCS data of an endpoint from EAP-TNC packets, hands them to the TNC   *)
(* server (Coordinator) and sends the server's data back in fragments.     *)
(*                                                                         *)
(* EAP is lock-step: each call of processEAPTNCData answers one packet of  *)
(* one endpoint.  FreeRADIUS and the endpoints are not part of the         *)
(* repository.  An endpoint of Honest follows the protocol that            *)
(* EapTncFragment.h describes; any other one sends whatever it likes.      *)
(* Data are sequences of units, of which MaxFragment fit into a packet.    *)
(***************************************************************************)
EXTENDS IfTnc, Naturals, Sequences, SequencesExt

CONSTANTS
    Conn,         \* endpoints, one connection id each
    Honest,       \* those that follow the protocol
    Unit,         \* the units of data
    Payloads,     \* TNCCS data of endpoints and of the server
    PeerSizes,    \* the fragment sizes of honest endpoints
    Junk,         \* the packets of the others
    MaxFragment,  \* Fragmentation::maxFragmentDataSize
    MaxBatches,   \* bound: batches of each side in one handshake
    Modes         \* values of Fragmentation::active

ASSUME ConnAssumption == Honest \subseteq Conn
ASSUME PayloadAssumption == Payloads \subseteq Seq(Unit) \ {<<>>}
ASSUME SizeAssumption == /\ MaxFragment \in Nat \ {0}
                         /\ PeerSizes \subseteq Nat \ {0}
                         /\ MaxBatches \in Nat \ {0}
                         /\ Modes \subseteq BOOLEAN

\* EapTncFragment: the header's flags, the announced length and the data.
Packet == [wellFormed : BOOLEAN, length : BOOLEAN, more : BOOLEAN, total : Nat,
           data : Seq(Unit)]

ASSUME JunkAssumption == Junk \subseteq Packet

VARIABLES
    active,    \* Fragmentation::active, set once by FreeRADIUS
    conState,  \* Connection::connectionState, "UNKNOWN" without a connection
    buffer,    \* Defragmentation::allTNCCSBatchBuffers
    queue,     \* Fragmentation::allEapTncFragments
    turn,      \* whose move it is on a connection
    packet,    \* the endpoint's packet on its way to the server
    answer,    \* what processEAPTNCData returned last
    todo,      \* honest endpoint: fragments of its batch not yet sent
    part,      \* honest endpoint: data of the server's batch so far
    sent, handed, answered, got
               \* history of the handshake: batches that an honest endpoint
               \* began to send, that the server was handed, that it
               \* answered, that the endpoint received

server  == <<active, conState, buffer, queue>>
link    == <<turn, packet, answer>>
peer    == <<todo, part, sent, got>>
history == <<handed, answered>>
vars    == <<server, link, peer, history>>

Fragment(l, m, total, data) ==
    [wellFormed |-> TRUE, length |-> l, more |-> m, total |-> total, data |-> data]
Ack == Fragment(FALSE, FALSE, 0, <<>>)
Greeting == [result |-> "SUCCESS", state |-> "HANDSHAKE", out |-> Ack]
Malformed == [Ack EXCEPT !.wellFormed = FALSE]

NoBuffer == [total |-> 0, data |-> <<>>]     \* a buffer always holds data
Least(m, n) == IF m <= n THEN m ELSE n

\* Fragmentation::fragment: the pieces of data that have to be cut.
Cut(data, size) ==
    LET n == (Len(data) + size - 1) \div size
    IN  [k \in 1 .. n |->
           Fragment(k = 1 /\ n > 1, k < n, IF k = 1 /\ n > 1 THEN Len(data) ELSE 0,
                    SubSeq(data, (k - 1) * size + 1, Least(k * size, Len(data))))]

Init == /\ active \in Modes
        /\ conState = [c \in Conn |-> "UNKNOWN"]
        /\ buffer = [c \in Conn |-> NoBuffer]
        /\ queue = [c \in Conn |-> <<>>]
        /\ turn = [c \in Conn |-> "off"]
        /\ packet = [c \in Conn |-> Ack]
        /\ answer = [c \in Conn |-> Greeting]
        /\ todo = [c \in Conn |-> <<>>] /\ part = [c \in Conn |-> <<>>]
        /\ sent = [c \in Conn |-> <<>>] /\ handed = [c \in Conn |-> <<>>]
        /\ answered = [c \in Conn |-> <<>>] /\ got = [c \in Conn |-> <<>>]

-----------------------------------------------------------------------------
(* The network access authority.                                           *)

\* processEAPTNCData(c, ...) returns.
Reply(c, result, state, out) ==
    /\ answer' = [answer EXCEPT ![c] = [result |-> result, state |-> state,
                                        out |-> out]]
    /\ turn' = [turn EXCEPT ![c] = "peer"]
    /\ UNCHANGED <<active, packet, peer>>

Send(c, out)    == Reply(c, "SUCCESS", "HANDSHAKE", out)
Report(c, s)    == Reply(c, "SUCCESS", s, Ack)
Refuse(c, why)  == Reply(c, why, "HANDSHAKE", Ack)

\* Faulty variant: what was received survives.
ResetQueue(c) == queue' = [queue EXCEPT ![c] = <<>>] /\ UNCHANGED buffer

\* Defragmentation::reset and Fragmentation::reset
Reset(c) == /\ buffer' = [buffer EXCEPT ![c] = NoBuffer]
            /\ queue' = [queue EXCEPT ![c] = <<>>]

\* getConnection: the server starts a handshake and what is left of the
\* last one is thrown away.  The endpoint may have vanished at any point.
GetConnection(c) ==
    /\ conState' = [conState EXCEPT ![c] = "HANDSHAKE"]
    /\ Reset(c)
    /\ turn' = [turn EXCEPT ![c] = "peer"]
    /\ packet' = [packet EXCEPT ![c] = Ack]
    /\ answer' = [answer EXCEPT ![c] = Greeting]
    /\ todo' = [todo EXCEPT ![c] = <<>>] /\ part' = [part EXCEPT ![c] = <<>>]
    /\ sent' = [sent EXCEPT ![c] = <<>>] /\ handed' = [handed EXCEPT ![c] = <<>>]
    /\ answered' = [answered EXCEPT ![c] = <<>>] /\ got' = [got EXCEPT ![c] = <<>>]
    /\ UNCHANGED active

Called(c) == turn[c] = "server"
Empty(c) == Called(c) /\ packet[c].wellFormed /\ packet[c].data = <<>>
Loaded(c) == Called(c) /\ packet[c].wellFormed /\ packet[c].data # <<>>

\* Start bit, wrong version or a header that is too short.
RejectHeader(c) == /\ Called(c) /\ ~packet[c].wellFormed
                   /\ Refuse(c, "INVALID_PARAMETER")
                   /\ UNCHANGED <<conState, buffer, queue, history>>

\* An empty packet asks for the next fragment as long as the handshake runs,
SendNextFragment(c) ==
    /\ Empty(c) /\ conState[c] = "HANDSHAKE" /\ queue[c] # <<>>
    /\ Send(c, Head(queue[c]))
    /\ queue' = [queue EXCEPT ![c] = Tail(@)]
    /\ UNCHANGED <<conState, buffer, history>>

NoNextFragment(c) ==
    /\ Empty(c) /\ conState[c] = "HANDSHAKE" /\ queue[c] = <<>>
    /\ Refuse(c, "FATAL")
    /\ UNCHANGED <<conState, buffer, queue, history>>

\* and ends the exchange when it is over.
LastAck(c) == /\ Empty(c) /\ conState[c] # "HANDSHAKE"
              /\ Report(c, conState[c])
              /\ UNCHANGED <<conState, buffer, queue, history>>

-----------------------------------------------------------------------------
(* Defragmentation of packet p.  All its errors drop the buffer.           *)

Begun(c) == buffer[c] # NoBuffer
Joined(c, p) == buffer[c].data \o p.data

\* checkParameters and the limit of EapTncBuffer::addEapTncFragment
Acceptable(c, p) ==
    /\ p.length => ~Begun(c)
    /\ (p.more /\ ~p.length) => Begun(c)
    /\ (p.length /\ p.more) => Len(p.data) <= p.total
    /\ Begun(c) => /\ Len(Joined(c, p)) <= buffer[c].total
                   /\ ~p.more => Len(Joined(c, p)) = buffer[c].total

Defragmented(c, p) == Loaded(c) /\ p = packet[c] /\ Acceptable(c, p)

\* Faulty variant: the buffers of all connections are dropped.
RejectFragmentOfAll(c) == /\ Loaded(c) /\ ~Acceptable(c, packet[c])
                          /\ Refuse(c, "FATAL")
                          /\ buffer' = [d \in Conn |-> NoBuffer]
                          /\ UNCHANGED <<conState, queue, history>>

RejectFragment(c) == /\ Loaded(c) /\ ~Acceptable(c, packet[c])
                     /\ Refuse(c, "FATAL")
                     /\ buffer' = [buffer EXCEPT ![c] = NoBuffer]
                     /\ UNCHANGED <<conState, queue, history>>

\* handleFirstFragment and handleMiddleFragment, answered with an ACK
StoreFragment(c) ==
    LET p == packet[c] IN
    /\ Defragmented(c, p) /\ p.more
    /\ buffer' = [buffer EXCEPT ![c] =
                    [total |-> IF Begun(c) THEN @.total ELSE p.total,
                     data |-> Joined(c, p)]]
    /\ Send(c, Ack)
    /\ UNCHANGED <<conState, queue, history>>

\* handleLastOrOnlyFragment and handleFirstAndOnlyFragment: the data are
\* complete and go to Coordinator::processTNCCSData.
Complete(c) == Defragmented(c, packet[c]) /\ ~packet[c].more

HandOver(c) == /\ Complete(c) /\ conState[c] = "HANDSHAKE"
               /\ handed' = [handed EXCEPT ![c] = Append(@, Joined(c, packet[c]))]
               /\ buffer' = [buffer EXCEPT ![c] = NoBuffer]

\* The server reports the state of a handshake that is over.
HandOverLate(c) == /\ Complete(c) /\ conState[c] # "HANDSHAKE"
                   /\ Report(c, conState[c])
                   /\ buffer' = [buffer EXCEPT ![c] = NoBuffer]
                   /\ UNCHANGED <<conState, queue, history>>

\* The server ends the handshake without a batch.
EndWithoutBatch(c) == /\ HandOver(c)
                      /\ \E s \in Decided :
                           /\ conState' = [conState EXCEPT ![c] = s]
                           /\ Report(c, s)
                      /\ UNCHANGED <<queue, answered>>

-----------------------------------------------------------------------------
(* Fragmentation of the server's data.                                     *)

\* Faulty variant: the piece that is sent first stays in the queue.
FragmentTwice(c, data) ==
    LET pieces == IF active THEN Cut(data, MaxFragment)
                  ELSE <<Fragment(FALSE, FALSE, 0, data)>>
    IN /\ Send(c, Head(pieces))
       /\ queue' = [queue EXCEPT ![c] = IF Len(pieces) > 1 THEN pieces ELSE <<>>]

SendFragments(c, data) ==
    LET pieces == IF active THEN Cut(data, MaxFragment)
                  ELSE <<Fragment(FALSE, FALSE, 0, data)>>
    IN /\ Send(c, Head(pieces))
       /\ queue' = IF active THEN [queue EXCEPT ![c] = Tail(pieces)] ELSE queue

\* fragment() finds the rest of the last batch: everything is dropped.
Interrupted(c) == active /\ queue[c] # <<>>

AnswerBatch(c) ==
    /\ HandOver(c) /\ Len(answered[c]) + 1 < MaxBatches
    /\ ~Interrupted(c)
    /\ \E d \in Payloads : /\ SendFragments(c, d)
                           /\ answered' = [answered EXCEPT ![c] = Append(@, d)]
    /\ UNCHANGED conState

\* Faulty variant: the queues of all connections are cleared.
AnswerInterruptedForAll(c) ==
    /\ HandOver(c) /\ Interrupted(c)
    /\ queue' = [d \in Conn |-> <<>>]
    /\ Refuse(c, "FATAL")
    /\ UNCHANGED <<conState, answered>>

AnswerInterrupted(c) ==
    /\ HandOver(c) /\ Interrupted(c)
    /\ queue' = [queue EXCEPT ![c] = <<>>]
    /\ Refuse(c, "FATAL")
    /\ UNCHANGED <<conState, answered>>

\* ConnectionStateExceptionWithTNCCSData: the handshake is decided, and the
\* last batch tells the endpoint.
AnswerLastBatch(c) ==
    /\ HandOver(c)
    /\ ~Interrupted(c)
    /\ \E d \in Payloads, s \in Decided :
         /\ conState' = [conState EXCEPT ![c] = s]
         /\ SendFragments(c, d)
         /\ answered' = [answered EXCEPT ![c] = Append(@, d)]

\* Faulty variant: the sessions go on as if nothing had happened.
CrashUnnoticed(c) ==
    /\ Complete(c) /\ conState[c] = "HANDSHAKE"
    /\ handed[c] = <<>> \/ Interrupted(c)
    /\ conState' = [d \in Conn |-> "UNKNOWN"]
    /\ buffer' = [d \in Conn |-> NoBuffer]
    /\ queue' = [d \in Conn |-> <<>>]
    /\ UNCHANGED <<active, link, peer, history>>

\* Two exceptions leave processEAPTNCData and end the process: the server
\* takes the first data of a connection for no TNCCS protocol, or fragment()
\* throws in the handler for the last batch.  A new process knows nothing.
Crash(c) ==
    /\ Complete(c) /\ conState[c] = "HANDSHAKE"
    /\ handed[c] = <<>> \/ Interrupted(c)
    /\ conState' = [d \in Conn |-> "UNKNOWN"]
    /\ buffer' = [d \in Conn |-> NoBuffer]
    /\ queue' = [d \in Conn |-> <<>>]
    /\ turn' = [d \in Conn |-> "off"]
    /\ UNCHANGED <<active, packet, answer, peer, history>>

-----------------------------------------------------------------------------
(* The endpoints.                                                          *)

\* The ways to send data: in fragments of any size, and with or without the
\* length if there is only one.
Ways(data) == {Cut(data, n) : n \in PeerSizes}
                  \cup {<<Fragment(TRUE, FALSE, Len(data), data)>>}

Deliver(c, p) == /\ packet' = [packet EXCEPT ![c] = p]
                 /\ turn' = [turn EXCEPT ![c] = "server"]
                 /\ UNCHANGED <<server, answer, history>>

InSession(c) == /\ c \in Honest /\ turn[c] = "peer"
                /\ answer[c].result = "SUCCESS" /\ answer[c].state = "HANDSHAKE"

Out(c) == answer[c].out

\* The next batch, or an ACK of an endpoint that has nothing to say.
Speak(c) ==
    \/ /\ Len(sent[c]) < MaxBatches
       /\ \E d \in Payloads : \E pieces \in Ways(d) :
            /\ Deliver(c, Head(pieces))
            /\ todo' = [todo EXCEPT ![c] = Tail(pieces)]
            /\ sent' = [sent EXCEPT ![c] = Append(@, d)]
    \/ sent[c] # <<>> /\ Deliver(c, Ack) /\ UNCHANGED <<todo, sent>>

PeerStarts(c) == /\ InSession(c) /\ sent[c] = <<>>
                 /\ Speak(c) /\ UNCHANGED <<part, got>>

PeerSendsNext(c) == /\ InSession(c) /\ Out(c) = Ack /\ todo[c] # <<>>
                    /\ Deliver(c, Head(todo[c]))
                    /\ todo' = [todo EXCEPT ![c] = Tail(@)]
                    /\ UNCHANGED <<part, sent, got>>

PeerCollects(c) == /\ InSession(c) /\ Out(c).data # <<>> /\ Out(c).more
                   /\ part' = [part EXCEPT ![c] = @ \o Out(c).data]
                   /\ Deliver(c, Ack)
                   /\ UNCHANGED <<todo, sent, got>>

PeerReceives(c) == /\ InSession(c) /\ Out(c).data # <<>> /\ ~Out(c).more
                   /\ got' = [got EXCEPT ![c] = Append(@, part[c] \o Out(c).data)]
                   /\ part' = [part EXCEPT ![c] = <<>>]
                   /\ Speak(c)

Misbehave(c) == /\ c \notin Honest /\ turn[c] = "peer"
                /\ \E p \in Junk : Deliver(c, p)
                /\ UNCHANGED peer

-----------------------------------------------------------------------------
Serve(c) == \/ RejectHeader(c) \/ SendNextFragment(c) \/ NoNextFragment(c)
            \/ LastAck(c) \/ RejectFragment(c) \/ StoreFragment(c)
            \/ HandOverLate(c) \/ EndWithoutBatch(c) \/ AnswerBatch(c)
            \/ AnswerInterrupted(c) \/ AnswerLastBatch(c) \/ Crash(c)

Endpoint(c) == \/ PeerStarts(c) \/ PeerSendsNext(c) \/ PeerCollects(c)
               \/ PeerReceives(c) \/ Misbehave(c)

Next == \E c \in Conn : GetConnection(c) \/ Serve(c) \/ Endpoint(c)

Spec == Init /\ [][Next]_vars

-----------------------------------------------------------------------------
(* Properties.                                                             *)

\* Type invariant.
TypeOK == /\ active \in BOOLEAN
          /\ conState \in [Conn -> {"UNKNOWN", "HANDSHAKE"} \cup Decided]
          /\ buffer \in [Conn -> [total : Nat, data : Seq(Unit)]]
          /\ queue \in [Conn -> Seq(Packet)]
          /\ turn \in [Conn -> {"off", "peer", "server"}]
          /\ packet \in [Conn -> Packet]
          /\ answer \in [Conn -> [result : {"SUCCESS", "FATAL", "INVALID_PARAMETER"},
                                  state : {"HANDSHAKE"} \cup Decided, out : Packet]]
          /\ todo \in [Conn -> Seq(Packet)]
          /\ part \in [Conn -> Seq(Unit)]
          /\ sent \in [Conn -> Seq(Seq(Unit))] /\ handed \in [Conn -> Seq(Seq(Unit))]
          /\ answered \in [Conn -> Seq(Seq(Unit))] /\ got \in [Conn -> Seq(Seq(Unit))]

AllButLast(batches, whole) == whole # <<>> /\ batches = Front(whole)

\* The server is handed every batch of an honest endpoint whole, once and in
\* the order they were sent, in whatever pieces it was cut and whatever
\* other endpoints, earlier handshakes or a crash left behind: at most the
\* batch under way is missing (Defragmentation::defragment,
\* naaeap.cpp getConnection).
HandedIsSent == \A c \in Honest :
    handed[c] = sent[c] \/ AllButLast(handed[c], sent[c])

\* The same of the batches of the server (Fragmentation::fragment and
\* getNextFragment).
GotIsAnswered == \A c \in Honest :
    got[c] = answered[c] \/ AllButLast(got[c], answered[c])

\* An endpoint that follows the protocol is refused only when it
\* acknowledges a complete batch in the middle of a handshake.
HonestIsServed == \A c \in Honest :
    answer[c].result = "SUCCESS" \/ (packet[c] = Ack /\ part[c] = <<>>)

Rest(fragments) == FlattenSeq([k \in DOMAIN fragments |-> fragments[k].data])
OnWay(c, who, p) == IF turn[c] = who THEN p.data ELSE <<>>

\* No unit of a batch is lost, doubled or displaced while it travels: what
\* the receiver has collected, the packet on its way and the fragments that
\* are still to be sent make up the batch, in both directions.
Conserved == \A c \in Honest : turn[c] # "off" =>
    /\ Len(sent[c]) > Len(handed[c]) /\ conState[c] = "HANDSHAKE" =>
          /\ Last(sent[c]) = buffer[c].data \o OnWay(c, "server", packet[c])
                                            \o Rest(todo[c])
          /\ Begun(c) => buffer[c].total = Len(Last(sent[c]))
    /\ Len(answered[c]) > Len(got[c]) =>
          Last(answered[c]) = part[c] \o OnWay(c, "peer", Out(c)) \o Rest(queue[c])

\* EapTncFragment.h says of the flag "more fragments" that there come more
\* fragments after the current one and that an ACK has to be sent.  So the
\* ACK of such a fragment is answered with the next one.
MoreFragmentsFollow == [][\A c \in Honest :
    turn[c] = "server" /\ turn'[c] = "peer" /\ Out(c).more /\ packet[c] = Ack
        => Out(c)'.data # <<>> \/ sent'[c] = <<>>]_vars
=============================================================================
