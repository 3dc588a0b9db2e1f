----------------------------- MODULE TnccsBatch -----------------------------
(***************************************************************************)
(* The TNCCS batches of TNC1Protocol: two TNCCSBatch objects, the incoming *)
(* one that a client's document is assigned to and the outgoing one that   *)
(* documents are made of; their numbers, their lists of messages, and what *)
(* a document that is refused half-way leaves behind.                      *)
(*                                                                         *)
(* One connection.  Its client begins sessions anew whenever it likes;     *)
(* what it sent in an earlier session may still arrive in a later one, and *)
(* a client need not keep to the protocol.  One action is one call of the  *)
(* network access layer; what the IMVs do in it is a parameter (Tncs has   *)
(* the calls one by one).                                                  *)
(***************************************************************************)
EXTENDS IfTnc, Naturals, Sequences, SequencesExt

CONSTANTS
    AnyVendor, AnySubtype,  \* 0xffffff and 0xff: wildcards, no message's type
    Reported,               \* the message types that each IMV reported
    Documents,              \* contents of a client's batch: its messages
    Strange,                \* documents of clients that break the protocol
    Sayings,                \* what an IMV sends in one batch: message types
    MaxSessions,            \* bound: sessions of the client
    MaxTurns,               \* bound: batches of the client in a session
    MaxInTransit            \* bound: documents on their way to the server

ASSUME SayingsAssumption == <<>> \in Sayings

ASSUME BoundAssumption == MaxSessions \in Nat

IMV == DOMAIN Reported

\* What a TNCC-TNCS-Message may hold.
Body == {"base64", "xml", "empty"}

MessageType == UNION {Reported[i] : i \in IMV}
               \cup UNION {Range(d.imc) : d \in Documents \cup Strange}
               \cup UNION {Range(s) : s \in Sayings}

\* The two lists of a batch.
Content == [tncc : Seq(Body), imc : Seq(MessageType)]

\* A batch as it is sent; the schema has decided whether it is valid.
Document == [valid : BOOLEAN, id : Nat, recipient : {"TNCS", "TNCC"},
             tncc : Seq(Body), imc : Seq(MessageType)]

VARIABLES
    client,     \* the client's session: its number, its next batch, waiting
    wire,       \* documents on their way to the server, with their session,
                \* and whether the client sent them as TNCCS has it (own)
    back,       \* documents on their way to the client of the session
    alive,      \* the server process
    conState,   \* Connection::connectionState
    isFirst,    \* TNC1Protocol::isFirst
    incoming,   \* TNC1Protocol::incoming: number and messages
    outgoing,   \* TNC1Protocol::outgoing
    taken,      \* history: documents of this handshake that the IMVs got
    heard,      \* history: message types that each IMV got in this handshake
    said,       \* history: the IMVs' messages since the last document came
    talk,       \* history: batch numbers of this handshake
    disturbed   \* history: this handshake got other than its client's batches

peer   == <<client, wire, back>>
proto  == <<conState, isFirst, incoming, outgoing>>
past   == <<taken, heard, said, talk, disturbed>>
vars   == <<peer, alive, proto, past>>

-----------------------------------------------------------------------------
(* Message types and messages.                                             *)

Vendor(t) == t[1]
Subtype(t) == t[2]

\* The types that no message may have; sendMessage refuses them, too.
Reserved(t) == Vendor(t) = AnyVendor \/ Subtype(t) = AnySubtype

\* IMVProperties::hasMessageType: vendor and subtype match one by one.
HasMessageType(i, t) ==
    \E r \in Reported[i] : /\ Vendor(r) \in {AnyVendor, Vendor(t)}
                           /\ Subtype(r) \in {AnySubtype, Subtype(t)}

\* A TNCC-TNCS-Message holds Base64 or XML; XML without an element is refused.
Unreadable(body) == body \notin {"base64", "xml"}

\* The elements of s that are in T, in their order.  (SelectSeq, which the
\* provers do not know.)
Among(s, T) == FlattenSeq([i \in DOMAIN s |-> IF s[i] \in T THEN <<s[i]>> ELSE <<>>])

\* The messages that are appended before the first bad one is met.
Kept(s, Bad(_)) == LET first == SelectInSeq(s, Bad)
                   IN IF first = 0 THEN s ELSE SubSeq(s, 1, first - 1)

-----------------------------------------------------------------------------
(* TNCCSBatch.                                                             *)

\* The constructor; resetID makes the number 0 and keeps the messages.
New == [id |-> 0, tncc |-> <<>>, imc |-> <<>>]

\* Faulty variant: only the number of incoming batches is reset.
ResetIncomingID == incoming' = [incoming EXCEPT !.id = 0] /\ UNCHANGED outgoing

\* Faulty variant: only the number of outgoing batches is reset.
ResetOutgoingID == outgoing' = [outgoing EXCEPT !.id = 0] /\ UNCHANGED incoming

ResetID == /\ incoming' = [incoming EXCEPT !.id = 0]
           /\ outgoing' = [outgoing EXCEPT !.id = 0]

DeleteAllMessages(b) == [b EXCEPT !.tncc = <<>>, !.imc = <<>>]

\* Faulty variant: numbers must grow, but may leave one out.
NumberedUpwards(b, d) == d.valid /\ d.id > b.id

\* The document follows the schema and has the number that is due.
Numbered(b, d) == d.valid /\ d.id = (IF b.id = 0 THEN 1 ELSE b.id + 2)

Whole(d) == /\ \A i \in DOMAIN d.tncc : ~Unreadable(d.tncc[i])
            /\ \A i \in DOMAIN d.imc : ~Reserved(d.imc[i])

\* Message types are pairs, and a client that keeps to the protocol sends
\* nothing that no message may have.
ASSUME DocumentAssumption ==
    /\ \A t \in MessageType : t = <<Vendor(t), Subtype(t)>>
    /\ Documents \subseteq Content /\ Strange \subseteq Document
    /\ Sayings \subseteq Seq(MessageType)
    /\ \A doc \in Documents : Whole(doc)

\* Faulty variant: a bad message ends the reading, not the handshake.
AcceptsInPart(b, d) == Numbered(b, d) /\ d.recipient = "TNCS"

\* operator= returns: schema, number, recipient and every message are right.
Accepts(b, d) == Numbered(b, d) /\ d.recipient = "TNCS" /\ Whole(d)

\* What operator= makes of b, also when it throws: the messages go first, the
\* number advances before the recipient is looked at, and messages are
\* appended up to the first bad one.
Assigned(b, d) ==
    IF ~Numbered(b, d) THEN DeleteAllMessages(b)
    ELSE IF d.recipient # "TNCS" THEN [DeleteAllMessages(b) EXCEPT !.id = d.id]
    ELSE LET tncc == Kept(d.tncc, Unreadable)
         IN [id |-> d.id, tncc |-> tncc,
             imc |-> IF tncc = d.tncc THEN Kept(d.imc, Reserved) ELSE <<>>]

\* getNewTnccsData: a document with the next number and the messages.
NewTnccsData(b) == [valid |-> TRUE, id |-> b.id + 2, recipient |-> "TNCC",
                    tncc |-> b.tncc, imc |-> b.imc]

\* ... and what it leaves of the batch: the messages stay.
Counted(b) == [b EXCEPT !.id = @ + 2]

-----------------------------------------------------------------------------
(* The client, which is not part of the repository.                        *)

Batch(id, doc) == [valid |-> TRUE, id |-> id, recipient |-> "TNCS",
                   tncc |-> doc.tncc, imc |-> doc.imc]

Send(d, own) ==
    /\ Cardinality(wire) < MaxInTransit
    /\ wire' = wire \cup {[session |-> client.session, doc |-> d, own |-> own]}

\* A batch of a client that keeps to the protocol.
ClientSends ==
    /\ client.session > 0 /\ client.mayTalk /\ client.next <= 2 * MaxTurns
    /\ \E doc \in Documents : Send(Batch(client.next, doc), TRUE)
    /\ client' = [client EXCEPT !.mayTalk = FALSE]
    /\ UNCHANGED <<back, alive, proto, past>>

\* It talks on when the answer has the number it waits for.
ClientReceives ==
    /\ back # <<>>
    /\ back' = Tail(back)
    /\ client' = IF Head(back).id = client.next + 1
                 THEN [client EXCEPT !.next = @ + 2, !.mayTalk = TRUE]
                 ELSE client
    /\ UNCHANGED <<wire, alive, proto, past>>

ClientMisbehaves == /\ client.session > 0
                    /\ \E d \in Strange : Send(d, FALSE)
                    /\ UNCHANGED <<client, back, alive, proto, past>>

-----------------------------------------------------------------------------
(* Calls of the network access layer.                                      *)

\* A new session: getConnection tells TNC1Protocol about the handshake, which
\* resets the numbers and isFirst; messages and documents stay.
Handshake ==
    /\ alive /\ client.session < MaxSessions
    /\ client' = [session |-> client.session + 1, next |-> 1, mayTalk |-> TRUE]
    /\ back' = <<>>
    /\ conState' = "HANDSHAKE" /\ isFirst' = TRUE
    /\ ResetID
    /\ taken' = <<>> /\ heard' = [i \in IMV |-> <<>>] /\ said' = <<>>
    /\ talk' = <<>> /\ disturbed' = FALSE
    /\ UNCHANGED <<wire, alive>>

Honest(m) == m.own /\ m.session = client.session

\* A document reaches processTNCCSData while the connection is in a handshake.
Arrives(m) == /\ alive /\ conState = "HANDSHAKE"
              /\ m \in wire /\ wire' = wire \ {m}
              /\ disturbed' = (disturbed \/ ~Honest(m))
              /\ UNCHANGED client

\* The handshake is over: the batch is not looked at.
TooLate(m) == /\ alive /\ conState # "HANDSHAKE"
              /\ m \in wire /\ wire' = wire \ {m}
              /\ UNCHANGED <<client, back, alive, proto, past>>

\* The document is refused.  As the first one it ends the process
\* (Tncs!RejectBatch), otherwise the handshake.
Refuse(m) ==
    /\ Arrives(m) /\ ~Accepts(incoming, m.doc)
    /\ incoming' = Assigned(incoming, m.doc)
    /\ IF isFirst THEN alive' = FALSE /\ UNCHANGED conState
                  ELSE conState' = "ACCESS_NONE" /\ UNCHANGED alive
    /\ UNCHANGED <<back, isFirst, outgoing, taken, heard, said, talk>>

Share(i, d) == Among(d.imc, {t \in Range(d.imc) : HasMessageType(i, t)})

\* Each message goes to each IMV that reported its type.
Deliver(d) == heard' = [i \in IMV |-> heard[i] \o Share(i, d)]

\* What the IMVs send while they receive messages and when the batch ends;
\* TNC_TNCS_SendMessage takes no reserved types.
Sent(attempts) == Among(attempts, {t \in Range(attempts) : ~Reserved(t)})

\* Faulty variant: the messages of the last answer are not deleted.
FilledKeeping(msgs) == [outgoing EXCEPT !.imc = @ \o msgs]

\* The outgoing batch once the IMVs are done: old messages went first.
Filled(msgs) == [DeleteAllMessages(outgoing) EXCEPT !.imc = msgs]

\* What all branches of an accepted document have in common.
Take(m, msgs) ==
    /\ Arrives(m) /\ Accepts(incoming, m.doc)
    /\ incoming' = Assigned(incoming, m.doc)
    /\ isFirst' = FALSE
    /\ Deliver(incoming')
    /\ taken' = Append(taken, m.doc)
    /\ said' = msgs
    /\ UNCHANGED alive

SendBack(b) == /\ outgoing' = Counted(b)
               /\ back' = Append(back, NewTnccsData(b))
               /\ talk' = talk \o <<incoming'.id, outgoing'.id>>

\* The IMVs have something to say.
AnswerMessages(m) ==
    \E s \in Sayings : LET b == Filled(Sent(s)) IN
      /\ b.imc # <<>>
      /\ Take(m, Sent(s)) /\ SendBack(b)
      /\ UNCHANGED conState

\* They have not: the last batch has the recommendation.
AnswerRecommendation(m) ==
    \E s \in Sayings, r \in Rec : LET b == Filled(Sent(s)) IN
      /\ b.imc = <<>>
      /\ Take(m, Sent(s)) /\ SendBack([b EXCEPT !.tncc = Append(@, "xml")])
      /\ conState' = StateOf(r)

\* An exception from the decision or from the making of the document.
NoAnswer(m) == \E s \in Sayings :
    /\ Take(m, Sent(s))
    /\ outgoing' \in {Filled(Sent(s)), Counted(Filled(Sent(s)))}
    /\ conState' = "ACCESS_NONE"
    /\ talk' = Append(talk, incoming'.id)
    /\ UNCHANGED back

-----------------------------------------------------------------------------
Init == /\ client = [session |-> 0, next |-> 1, mayTalk |-> FALSE]
        /\ wire = {} /\ back = <<>>
        /\ alive = TRUE /\ conState = "CREATE" /\ isFirst = TRUE
        /\ incoming = New /\ outgoing = New
        /\ taken = <<>> /\ heard = [i \in IMV |-> <<>>] /\ said = <<>>
        /\ talk = <<>> /\ disturbed = FALSE

Stopped == ~alive /\ UNCHANGED vars

Process(m) == \/ Refuse(m) \/ AnswerMessages(m) \/ AnswerRecommendation(m)
              \/ NoAnswer(m) \/ TooLate(m)

Next == \/ Handshake \/ ClientSends \/ ClientReceives \/ ClientMisbehaves
        \/ \E m \in wire : Process(m)
        \/ Stopped

Spec == Init /\ [][Next]_vars

-----------------------------------------------------------------------------
TypeOK ==
    /\ client.session \in 0 .. MaxSessions /\ client.mayTalk \in BOOLEAN
    /\ alive \in BOOLEAN /\ isFirst \in BOOLEAN /\ disturbed \in BOOLEAN
    /\ conState \in ConState
    /\ incoming.id \in Nat /\ outgoing.id \in Nat
    /\ [tncc |-> outgoing.tncc, imc |-> outgoing.imc] \in Content
    /\ [tncc |-> incoming.tncc, imc |-> incoming.imc] \in Content
    /\ Len(talk) \in {2 * Len(taken), 2 * Len(taken) - 1}

\* As long as a handshake goes on, the two numbers belong together, and none
\* is in use exactly when TNC1Protocol waits for the first batch: neither a
\* refused batch nor the handshakes before leave them apart.
Lockstep == alive /\ conState = "HANDSHAKE" =>
              /\ isFirst <=> incoming.id = 0
              /\ outgoing.id = IF incoming.id = 0 THEN 0 ELSE incoming.id + 1

\* The message types a reported type stands for, among those of a document.
Covers(r, types) ==
    (IF Vendor(r) = AnyVendor THEN {Vendor(t) : t \in types} ELSE {Vendor(r)})
    \X (IF Subtype(r) = AnySubtype THEN {Subtype(t) : t \in types} ELSE {Subtype(r)})

\* An IMV hears, in the client's order, each message of the types it reported
\* from all documents that were taken, and none of a document that was
\* refused for a message further behind.
EachImvHearsItsShare ==
    \A i \in IMV :
      heard[i] = FlattenSeq([k \in DOMAIN taken |->
                   LET all == Range(taken[k].imc)
                       mine == UNION {Covers(r, all) : r \in Reported[i]}
                   IN Among(taken[k].imc, mine)])

\* A document to the client has the messages that the IMVs sent about the
\* batch it answers, or the recommendation alone when they sent none.
AnswersAreFresh ==
    [][Len(back') > Len(back) =>
         LET answer == Last(back')
         IN answer.imc = said' /\ (answer.tncc = <<>> <=> said' # <<>>)]_vars

\* A client that keeps to the protocol is refused only if another document
\* than its own came in between.
HonestIsNotRefused ==
    [][alive /\ ~disturbed' /\ client' = client =>
         alive' /\ (conState' # conState => taken' # taken)]_vars

Numbers == INSTANCE Conversation WITH open <- alive /\ conState = "HANDSHAKE"

\* The numbers of the batches are a conversation by turns.
ImplementsConversation == Numbers!CSpec

=============================================================================
