-------------------------------- MODULE Tncs --------------------------------
(***************************************************************************)
(* The TNC server of libtncs: Coordinator, Connection, TNC1Protocol,       *)
(* Policy, IMV and IMVProperties, call by call.                            *)
(*                                                                         *)
(* The network access layer (NAL) drives the server with getConnection     *)
(* (a new handshake for an endpoint) and processTNCCSData (a batch of the  *)
(* endpoint).  Both loop over the IMVs of the connection in the order of   *)
(* their ids and call into the IMV libraries; a library may call back into *)
(* the server (provideRecommendation, sendMessage, setAttribute) before it *)
(* returns a result.  One action is one call, one callback, one return or  *)
(* one turn of a loop, so that every callback happens at every point where *)
(* a library runs.  The NAL runs its sessions one after the other, hence   *)
(* at most one NAL call is in progress.                                    *)
(***************************************************************************)
EXTENDS IfTnc, Naturals, Sequences

CONSTANTS
    Conn,      \* endpoints; each has one connection id for good
    NumIMV,    \* number of IMVs loaded from tnc_config
    MsgType,   \* message types of IMC-IMV messages
    Handles,   \* IMV -> the message types it reported
    Lacks,     \* IMV -> the optional functions its library does not export
    Batches,   \* the lists of message types a client's batch may carry
    Users,     \* endpoints whose user name the NAL may store
    NoConn     \* no NAL call in progress

IMV == 0 .. NumIMV - 1
Optional == {"notify", "receive", "ending"}

ASSUME NumIMVAssumption == NumIMV \in Nat \ {0}
ASSUME HandlesAssumption == Handles \in [IMV -> SUBSET MsgType]
ASSUME LacksAssumption == Lacks \in [IMV -> SUBSET Optional]
ASSUME BatchesAssumption == Batches \subseteq Seq(MsgType)
ASSUME UsersAssumption == Users \subseteq Conn
ASSUME NoConnAssumption == NoConn \notin Conn

Pair == Conn \X IMV     \* one IMV object per connection and library

VARIABLES
    alive,      \* the server process has not been terminated
    fatal,      \* IMVProperties::hasFatalError
    known,      \* Coordinator::connections
    conState,   \* Connection::connectionState
    isFirst,    \* TNC1Protocol::isFirst; as its protocol is the only one of
                \* the chain, activeTnccsProtocolHandler is NULL just as long
    username,   \* connections whose username is stored
    outgoing,   \* connections whose outgoing batch holds an IMC-IMV message
    error,      \* IMV::error
    provided,   \* IMV::isProvideRecommendationSet
    rec,        \* IMV::recommendation
    phase,      \* which loop of the NAL call in progress is running
    con,        \* ... for which connection
    cur,        \* ... at which IMV
    call,       \* the function the library of IMV cur is executing
    msgs,       \* message types of the batch that are not yet delivered
    votes,      \* accessAllow and accessIsolate of the policy
    decision,   \* the recommendation the handshake ends with
    said        \* history: what each IMV last said in this handshake

tables  == <<alive, known, conState, isFirst, username, outgoing>>
objects == <<error, provided, rec, said>>
loop    == <<phase, con, msgs, decision>>
vars    == <<tables, fatal, objects, loop, cur, call, votes>>

Phase == {"idle", "create", "handshake", "deliver", "ending", "solicit", "final"}
Function == {"none", "notify", "receive", "ending", "solicit", "delete"}
Undecided == [allow |-> TRUE, isolate |-> TRUE]

Init == /\ alive = TRUE
        /\ fatal = {} /\ known = {} /\ username = {}
        /\ outgoing = {}
        /\ conState = [c \in Conn |-> "CREATE"]
        /\ isFirst = Conn
        /\ error = {} /\ provided = {}
        /\ rec = [p \in Pair |-> NoRec]
        /\ said = [p \in Pair |-> NoRec]
        /\ phase = "idle" /\ con = NoConn /\ cur = 0 /\ call = "none"
        /\ msgs = <<>> /\ votes = Undecided /\ decision = NoRec

Here == <<con, cur>>                         \* the IMV object at hand
AtIMV(p) == phase = p /\ call = "none" /\ cur < NumIMV
PastLast(p) == phase = p /\ call = "none" /\ cur = NumIMV

-----------------------------------------------------------------------------
(* Leaving and continuing the loops.                                       *)

GoTo(p) == phase' = p /\ cur' = 0 /\ call' = "none"

Return == /\ GoTo("idle") /\ con' = NoConn /\ msgs' = <<>>
          /\ votes' = Undecided /\ decision' = NoRec

Forget(c) == said' = [p \in Pair |-> IF p[1] = c THEN NoRec ELSE said[p]]

\* What the policy reads from an IMV that is done with its turn.
Read(p, prov, r) == IF p \in prov THEN r[p] ELSE NoRec

\* Faulty variant: the last IMV alone decides about isolation (= for &=).
CountLast(r) == [allow |-> votes.allow /\ r = "ALLOW",
                 isolate |-> r \in {"ALLOW", "ISOLATE"}]

Count(r) == [allow |-> votes.allow /\ r = "ALLOW",
             isolate |-> votes.isolate /\ r \in {"ALLOW", "ISOLATE"}]

\* The loop goes on with the next IMV; the policy's loop counts this one.
Advance == /\ cur' = cur + 1
           /\ call' = "none"
           /\ votes' = IF phase = "solicit"
                       THEN Count(Read(Here, provided', rec'))
                       ELSE votes

\* IMV::handleOtherError once the DELETE call is over.
Fail == /\ error' = error \cup {Here}
        /\ provided' = provided \cup {Here}
        /\ rec' = [rec EXCEPT ![Here] = NoRec]
        /\ said' = [said EXCEPT ![Here] = NoRec]
        /\ Advance

\* The server calls fn of the library of IMV cur.  IMVProperties answers
\* FATAL for a library that was shut down, and OTHER for a function that the
\* library lacks, without asking the library.
Enter(fn) == /\ cur \notin fatal /\ fn \notin Lacks[cur]
             /\ call' = fn
             /\ UNCHANGED <<tables, fatal, objects, loop, cur, votes>>

\* Faulty variant: the call on a library that was shut down is silently
\* dropped, as call_TNC_IMV_ProvideBindFunction does it.
FailAtOnceSilently(fn) ==
    /\ cur \in fatal \/ (fn \in Lacks[cur] /\ "notify" \in Lacks[cur])
    /\ UNCHANGED <<tables, fatal, objects, loop>>
    /\ Advance

FailAtOnce(fn) == /\ cur \in fatal \/ (fn \in Lacks[cur] /\ "notify" \in Lacks[cur])
                  /\ Fail
                  /\ UNCHANGED <<tables, fatal, loop>>

FailWithDelete(fn) == /\ cur \notin fatal
                      /\ fn \in Lacks[cur] /\ "notify" \notin Lacks[cur]
                      /\ call' = "delete"
                      /\ UNCHANGED <<tables, fatal, objects, loop, cur, votes>>

CallImv(fn) == Enter(fn) \/ FailAtOnce(fn) \/ FailWithDelete(fn)

Skip == UNCHANGED <<tables, fatal, objects, loop>> /\ Advance

-----------------------------------------------------------------------------
(* Calls of the NAL.                                                       *)

\* Coordinator::getConnection: a new endpoint gets a Connection first, with
\* one IMV object per library; then the handshake starts.
GetConnection(c) ==
    /\ alive /\ phase = "idle"
    /\ con' = c
    /\ Forget(c)
    /\ \/ /\ c \notin known
          /\ GoTo("create")
          /\ UNCHANGED conState
       \/ /\ c \in known
          /\ GoTo("handshake")
          /\ conState' = [conState EXCEPT ![c] = "HANDSHAKE"]
    /\ UNCHANGED <<alive, known, isFirst, username, outgoing, fatal,
                   error, provided, rec, msgs, decision, votes>>

\* processTNCCSData with a batch that parses.  A connection whose handshake
\* is over only reports its state and changes nothing.
ProcessBatch(c, batch) ==
    /\ alive /\ phase = "idle" /\ c \in known /\ conState[c] = "HANDSHAKE"
    /\ con' = c /\ msgs' = batch
    /\ GoTo("deliver")
    /\ isFirst' = isFirst \ {c}
    /\ outgoing' = outgoing \ {c}
    /\ UNCHANGED <<alive, known, conState, username, fatal, objects, decision,
                   votes>>

\* processTNCCSData with data that no TNCCSBatch can be made of.  In the
\* middle of a handshake this ends it; as the first data it leaves
\* Coordinator::processTNCCSData as an exception its throw() list does not
\* name, and std::unexpected terminates the process.
RejectBatch(c) ==
    /\ alive /\ phase = "idle" /\ c \in known /\ conState[c] = "HANDSHAKE"
    /\ IF c \notin isFirst
       THEN conState' = [conState EXCEPT ![c] = "ACCESS_NONE"] /\ UNCHANGED alive
       ELSE alive' = FALSE /\ UNCHANGED conState
    /\ UNCHANGED <<known, isFirst, username, outgoing, fatal, objects,
                   loop, cur, call, votes>>

\* Coordinator::setAttribute takes a user name only with imvID 0: from
\* storeUsername of the NAL, or from the library that has this id.
SetUsername(c) ==
    /\ alive /\ c \in known
    /\ \/ phase = "idle" /\ c \in Users
       \/ call # "none" /\ cur = 0 /\ c \in Users
    /\ username' = username \cup {c}
    /\ UNCHANGED <<alive, known, conState, isFirst, outgoing, fatal,
                   objects, loop, cur, call, votes>>

-----------------------------------------------------------------------------
(* Turns of the loops.                                                     *)

\* Faulty variant: the recommendation of the last handshake is kept.
ClearedOnlyError == error' = error \ {Here} /\ UNCHANGED <<provided, rec, said>>

\* The constructor of IMV and notifyConnectionChange(HANDSHAKE) clear the
\* flags of the IMV before they call the library.
Cleared == /\ error' = error \ {Here}
           /\ provided' = provided \ {Here}
           /\ rec' = [rec EXCEPT ![Here] = NoRec]
           /\ UNCHANGED said

NotifyAnew == \/ /\ cur \notin fatal /\ "notify" \notin Lacks[cur]
                 /\ Cleared
                 /\ call' = "notify"
                 /\ UNCHANGED <<tables, fatal, loop, cur, votes>>
              \/ FailAtOnce("notify")

CreateImv == AtIMV("create") /\ NotifyAnew

EndCreate == /\ PastLast("create")
             /\ GoTo("handshake")
             /\ known' = known \cup {con}
             /\ conState' = [conState EXCEPT ![con] = "HANDSHAKE"]
             /\ UNCHANGED <<alive, isFirst, username, outgoing, fatal,
                            objects, con, msgs, decision, votes>>

StartImv == AtIMV("handshake") /\ NotifyAnew

EndHandshakeNotification ==
    /\ PastLast("handshake")
    /\ Return
    /\ isFirst' = isFirst \cup {con}
    /\ UNCHANGED <<alive, known, conState, username, outgoing, fatal, objects>>

DeliverMessage ==
    /\ AtIMV("deliver") /\ msgs # <<>>
    /\ IF Head(msgs) \in Handles[cur] /\ Here \notin error
       THEN CallImv("receive")
       ELSE Skip

\* Faulty variant: the iterator over the messages is not advanced.
EndMessageAgain == /\ PastLast("deliver") /\ msgs # <<>>
                   /\ GoTo("deliver")
                   /\ UNCHANGED <<tables, fatal, objects, loop, votes>>

EndMessage == /\ PastLast("deliver") /\ msgs # <<>>
              /\ GoTo("deliver")
              /\ msgs' = Tail(msgs)
              /\ UNCHANGED <<tables, fatal, objects, con, decision, votes>>

EndDelivery == /\ AtIMV("deliver") /\ msgs = <<>>
               /\ GoTo("ending")
               /\ UNCHANGED <<tables, fatal, objects, con, msgs, decision, votes>>

EndBatchOfImv ==
    /\ AtIMV("ending")
    /\ IF Here \in error THEN Skip ELSE CallImv("ending")

\* The IMVs have something to say: the outgoing batch is the answer.
Answer == /\ PastLast("ending") /\ con \in outgoing
          /\ Return
          /\ UNCHANGED <<tables, fatal, objects>>

\* They have not: doXACMLEvaluation first, when the user name is known.
Decide(r) == GoTo("final") /\ decision' = r

AskPdp == /\ PastLast("ending") /\ con \notin outgoing /\ con \in username
          /\ \E r \in Rec \ {NoRec} : Decide(r)
          /\ UNCHANGED <<tables, fatal, objects, con, msgs, votes>>

\* An exception out of the XACML exchange ends the handshake; the IMVs are
\* not told.
PdpThrows == /\ PastLast("ending") /\ con \notin outgoing /\ con \in username
             /\ conState' = [conState EXCEPT ![con] = "ACCESS_NONE"]
             /\ Return
             /\ UNCHANGED <<alive, known, isFirst, username, outgoing,
                            fatal, objects>>

\* No user name or no answer of the PDP: Policy::getActionRecommendation.
AskPolicy == /\ PastLast("ending") /\ con \notin outgoing
             /\ GoTo("solicit") /\ votes' = Undecided
             /\ UNCHANGED <<tables, fatal, objects, con, msgs, decision>>

Solicit == /\ AtIMV("solicit")
           /\ IF Here \in provided \cup error THEN Skip ELSE CallImv("solicit")

EndPolicy == /\ PastLast("solicit")
             /\ Decide(IF votes.allow THEN "ALLOW"
                       ELSE IF votes.isolate THEN "ISOLATE" ELSE "NO_ACCESS")
             /\ UNCHANGED <<tables, fatal, objects, con, msgs, votes>>

\* Faulty variant: the error flag of the IMV is not looked at.
AnnounceToEveryImv == AtIMV("final") /\ CallImv("notify")

\* notifyConnectionChange with the final state.
AnnounceToImv ==
    /\ AtIMV("final")
    /\ IF Here \in error THEN Skip ELSE CallImv("notify")

\* Connection::processTNCCSData saves the state that it reports to the NAL.
EndAnnouncement == /\ PastLast("final")
                   /\ conState' = [conState EXCEPT ![con] = StateOf(decision)]
                   /\ Return
                   /\ UNCHANGED <<alive, known, isFirst, username,
                                  outgoing, fatal, objects>>

-----------------------------------------------------------------------------
(* The library of IMV cur, while it executes a call.                       *)

Running == call # "none"

\* IMVProperties tries TNC_IMV_Initialize and repeats a call that returned
\* NOT_INITIALIZED; if that succeeds nothing here changes, and if it fails
\* the call ends as ReturnFatal does.
ReturnSuccess == /\ Running /\ call # "delete"
                 /\ Skip

\* Any other result: IMV::handleOtherError calls DELETE before it sets the
\* flags, unless the library has no function for it.
ReturnError == /\ Running /\ call # "delete"
               /\ IF "notify" \in Lacks[cur]
                  THEN Fail /\ UNCHANGED <<tables, fatal, loop>>
                  ELSE /\ call' = "delete"
                       /\ UNCHANGED <<tables, fatal, objects, loop, cur, votes>>

ReturnFromDelete == /\ call = "delete"
                    /\ Fail /\ UNCHANGED <<tables, fatal, loop>>

\* IMVProperties::handleFatalError unloads the library for all connections.
ReturnFatal == /\ Running
               /\ fatal' = fatal \cup {cur}
               /\ Fail /\ UNCHANGED <<tables, loop>>

\* TNC_TNCS_ProvideRecommendation, about any connection whose Connection
\* object exists.  Nothing looks at the error flag: a library that has failed
\* for an endpoint may speak about it again while it runs for another one.
ProvideRecommendation(c, r) ==
    /\ Running /\ c \in known
    /\ provided' = provided \cup {<<c, cur>>}
    /\ rec' = [rec EXCEPT ![<<c, cur>>] = r]
    /\ said' = [said EXCEPT ![<<c, cur>>] = r]
    /\ UNCHANGED <<tables, fatal, error, loop, cur, call, votes>>

\* Faulty variant: sendMessage is also accepted in solicitRecommendation.
SendMessageLate ==
    /\ call \in {"receive", "ending", "solicit"}
    /\ outgoing' = outgoing \cup {con}
    /\ UNCHANGED <<alive, known, conState, isFirst, username, fatal,
                   objects, loop, cur, call, votes>>

\* TNC_TNCS_SendMessage: accepted in receiveMessage and batchEnding of the
\* same IMV object, refused with ILLEGAL_OPERATION otherwise.
SendMessage ==
    /\ call \in {"receive", "ending"}
    /\ outgoing' = outgoing \cup {con}
    /\ UNCHANGED <<alive, known, conState, isFirst, username, fatal,
                   objects, loop, cur, call, votes>>

-----------------------------------------------------------------------------
NalCall == \E c \in Conn : \/ GetConnection(c)
                           \/ \E b \in Batches : ProcessBatch(c, b)
                           \/ RejectBatch(c)

Engine == \/ CreateImv \/ EndCreate
          \/ StartImv \/ EndHandshakeNotification
          \/ DeliverMessage \/ EndMessage \/ EndDelivery
          \/ EndBatchOfImv \/ Answer
          \/ AskPdp \/ PdpThrows \/ AskPolicy
          \/ Solicit \/ EndPolicy
          \/ AnnounceToImv \/ EndAnnouncement

LibraryReturn == ReturnSuccess \/ ReturnError \/ ReturnFromDelete \/ ReturnFatal

Callback == \/ \E c \in Conn, r \in Rec : ProvideRecommendation(c, r)
            \/ SendMessage

Stopped == ~alive /\ UNCHANGED vars

Next == \/ NalCall \/ Engine \/ LibraryReturn \/ Callback
        \/ \E c \in Conn : SetUsername(c)
        \/ Stopped

Spec == Init /\ [][Next]_vars

\* The server thread runs on, and a library function that was called returns.
FairSpec == Spec /\ WF_vars(Engine) /\ WF_vars(LibraryReturn)

-----------------------------------------------------------------------------
TypeOK ==
    /\ alive \in BOOLEAN
    /\ fatal \subseteq IMV
    /\ known \subseteq Conn /\ isFirst \subseteq Conn
    /\ username \subseteq Conn /\ outgoing \subseteq Conn
    /\ conState \in [Conn -> ConState]
    /\ error \subseteq Pair /\ provided \subseteq Pair
    /\ rec \in [Pair -> Rec] /\ said \in [Pair -> Rec]
    /\ phase \in Phase /\ call \in Function
    /\ con \in Conn \cup {NoConn} /\ (con = NoConn <=> phase = "idle")
    /\ cur \in 0 .. NumIMV /\ (call # "none" => cur < NumIMV /\ phase # "idle")
    /\ msgs \in Seq(MsgType)
    /\ votes \in [allow : BOOLEAN, isolate : BOOLEAN]
    /\ decision \in Rec

\* The server never calls into a library that it has shut down, nor on behalf
\* of an IMV object that has failed in this handshake.
CallsOnlyLiveImvs == Running => cur \notin fatal /\ Here \notin error

\* A message that was accepted from an IMV is sent: the server does not start
\* to decide while the outgoing batch holds one, and takes none afterwards.
NoMessageDropped == phase \in {"solicit", "final"} => con \notin outgoing

Voices(c) == [i \in IMV |-> said[<<c, i>>]]

-----------------------------------------------------------------------------
(* The inductive invariant behind the two properties of decisions below.   *)

\* The flags of an IMV object say what the IMV said in this handshake, except
\* where the loop that clears them has not come to the object yet; there the
\* IMV has said nothing.
NotYetCleared(p) == /\ phase \in {"create", "handshake"}
                    /\ p[1] = con
                    /\ p[2] > cur \/ (p[2] = cur /\ ~Running)
VoicesKept == \A p \in Pair : IF NotYetCleared(p)
                              THEN said[p] = NoRec
                              ELSE Read(p, provided, rec) = said[p]

\* A connection under construction is unknown to getConnectionById, hence to
\* the callbacks of the libraries.
CreatedInSilence ==
    phase = "create" => /\ con \notin known
                        /\ \A i \in IMV : said[<<con, i>>] = NoRec

\* The accumulators of the policy are about the IMVs it has passed.
VotesCounted ==
    phase = "solicit" =>
      /\ votes.allow <=> \A i \in IMV : i < cur => said[<<con, i>>] = "ALLOW"
      /\ votes.isolate <=>
           \A i \in IMV : i < cur => said[<<con, i>>] \in {"ALLOW", "ISOLATE"}

\* An IMV object whose library is shut down has an error, once batchEnding
\* went round.
FatalHasFailed ==
    phase \in {"ending", "solicit"} =>
      \A i \in fatal : phase = "solicit" \/ i < cur => <<con, i>> \in error

IInv == /\ CallsOnlyLiveImvs
        /\ VoicesKept
        /\ CreatedInSilence
        /\ VotesCounted
        /\ FatalHasFailed

-----------------------------------------------------------------------------
\* The loop of the policy, during which libraries still run and change their
\* minds, ends with the decision that the policy's definition gives for what
\* the IMVs have said in this handshake (not in an earlier one).
DecisionFollowsVoices ==
    [][phase = "solicit" /\ phase' = "final"
         => decision' = PolicyOf(Voices(con))]_vars

\* A failure takes an IMV object's voice away; one that has a voice all the
\* same was spoken for afterwards, by its library from a call on behalf of
\* another connection.
SpokenForAfterFailure(p) == p \in error /\ said[p] # NoRec

\* No handshake ends with access or isolation by the local policy while one
\* of the libraries is shut down, even when the library failed on behalf of
\* another connection after it had said ALLOW here.  The exception is a
\* library that fails here, speaks for this connection again while it runs
\* for another one, and is shut down then: its IMV object is passed over as
\* one with an error, but its recommendation counts (Connection.cpp,
\* provideRecommendation; Policy.cpp).
AccessNeedsEveryLibrary ==
    [][phase = "solicit" /\ phase' = "final" /\ decision' # "NO_ACCESS"
         => \A i \in fatal : SpokenForAfterFailure(<<con, i>>)]_vars

\* Every call of the NAL returns, whatever the libraries answer.
CallsReturn == phase # "idle" ~> phase = "idle"

Access == INSTANCE AccessDecision WITH
            state <- [c \in Conn |-> IF phase = "final" /\ c = con
                                     THEN StateOf(decision) ELSE conState[c]],
            voice <- said,
            named <- username

\* The server implements the abstract access decision.
ImplementsAccessDecision == Access!ASpec

=============================================================================
