----------------------------- MODULE TncsImunit -----------------------------
(***************************************************************************)
(* The TNC server of Tncs with libraries built on IMUnit: IMVLibrary keeps *)
(* one IMV instance per connection, created by the CREATE notification,    *)
(* erased by DELETE and, all of them, by TNC_IMV_Terminate.                *)
(*                                                                         *)
(* What a library answers is no longer arbitrary.  A call is dispatched to *)
(* the instance of the connection or refused because there is none; the    *)
(* instance's method succeeds, returns an error (ResultException) or       *)
(* throws a std::exception, which IMVLibrary reports as FATAL; only        *)
(* executing instances call back.  Every step here is a step of Tncs       *)
(* joined with what it does to the libraries.                              *)
(***************************************************************************)
EXTENDS Tncs

CONSTANT MaxRound     \* batches a client sends in one handshake

\* TNCFHH_IMVLIBRARY_INITIALIZE defines every function of IF-IMV.
ASSUME ImunitAssumption == \A i \in IMV : Lacks[i] = {}
ASSUME MaxRoundAssumption == MaxRound \in Nat

VARIABLES
    instances,   \* IMVLibrary::imvInstances of every library
    inside,      \* a method of the instance for the connection is executing
    round,       \* AbstractIMUnit::round
    batches      \* history: batches the server has processed per handshake

lib   == <<instances, inside, round>>
lvars == <<vars, lib, batches>>

LInit == /\ Init
         /\ instances = {} /\ inside = FALSE
         /\ round = [p \in Pair |-> 0]
         /\ batches = [c \in Conn |-> 0]

-----------------------------------------------------------------------------
(* Steps of the server and the NAL.                                        *)

Open(c) == /\ GetConnection(c)
           /\ batches' = [batches EXCEPT ![c] = 0]
           /\ UNCHANGED lib

Batch(c, b) == /\ batches[c] < MaxRound
               /\ ProcessBatch(c, b)
               /\ UNCHANGED <<lib, batches>>

Advanced == /\ Engine
            /\ batches' = IF phase = "ending" /\ phase' # "ending"
                          THEN [batches EXCEPT ![con] = @ + 1]
                          ELSE batches
            /\ UNCHANGED lib

ServerStep == \/ \E c \in Conn : \/ Open(c)
                                 \/ \E b \in Batches : Batch(c, b)
                                 \/ RejectBatch(c) /\ UNCHANGED <<lib, batches>>
                                 \/ SetUsername(c) /\ UNCHANGED <<lib, batches>>
              \/ Advanced
              \/ Stopped /\ UNCHANGED <<lib, batches>>

-----------------------------------------------------------------------------
(* IMVLibrary: dispatching a call.                                         *)

Called == Running /\ ~inside
CallOfCreate == call = "notify" /\ phase = "create"

\* Faulty variant: only the instance that has failed is erased.
TerminateOne == instances' = instances \ {Here}

\* What TNC_IMV_Terminate, which handleFatalError calls, leaves behind.
Terminate == instances' = {p \in instances : p[2] # cur}

CreateInstance == /\ Called /\ CallOfCreate /\ Here \notin instances
                  /\ instances' = instances \cup {Here}
                  /\ round' = [round EXCEPT ![Here] = 0]
                  /\ inside' = TRUE
                  /\ UNCHANGED <<vars, batches>>

\* createNewImvInstance returns NULL or throws.
CreateFails == /\ Called /\ CallOfCreate /\ Here \notin instances
               /\ \/ ReturnFatal /\ Terminate
                  \/ ReturnError /\ UNCHANGED instances
               /\ UNCHANGED <<inside, round, batches>>

\* Faulty variant: the instance stays in the map when it is told DELETE.
FindKeeping == /\ Called /\ ~CallOfCreate /\ Here \in instances
               /\ inside' = TRUE
               /\ UNCHANGED <<vars, batches, round, instances>>

\* The instance is found; DELETE takes it out of the map before its method
\* is called.
Find == /\ Called /\ ~CallOfCreate /\ Here \in instances
        /\ inside' = TRUE
        /\ instances' = IF call = "delete" THEN instances \ {Here} ELSE instances
        /\ UNCHANGED <<vars, batches, round>>

\* There is no instance, or there is one before CREATE.
Refused == /\ Called /\ (CallOfCreate <=> Here \in instances)
           /\ ReturnError \/ ReturnFromDelete
           /\ UNCHANGED <<lib, batches>>

-----------------------------------------------------------------------------
(* The instance's method: callbacks and the end.                           *)

\* TNCS passes on the id of the connection the instance is for.
Speak == /\ inside
         /\ \E c \in Conn \cap {con}, r \in Rec : ProvideRecommendation(c, r)
         /\ UNCHANGED <<lib, batches>>

Send == inside /\ SendMessage /\ UNCHANGED <<lib, batches>>

\* Faulty variant: HANDSHAKE does not reset the counter.
AfterMethodNoReset ==
    /\ inside' = FALSE
    /\ round' = IF call = "ending" THEN [round EXCEPT ![Here] = @ + 1] ELSE round

\* IMVLibrary counts the round after the method, whatever its result.
AfterMethod == /\ inside' = FALSE
               /\ round' = IF call = "notify" /\ phase = "handshake"
                           THEN [round EXCEPT ![Here] = 0]
                           ELSE IF call = "ending"
                           THEN [round EXCEPT ![Here] = @ + 1]
                           ELSE round

MethodSucceeds == /\ inside
                  /\ ReturnSuccess \/ ReturnFromDelete
                  /\ AfterMethod
                  /\ UNCHANGED <<instances, batches>>

MethodFails == /\ inside
               /\ ReturnError \/ ReturnFromDelete
               /\ AfterMethod
               /\ UNCHANGED <<instances, batches>>

MethodThrows == /\ inside
                /\ ReturnFatal
                /\ AfterMethod
                /\ Terminate
                /\ UNCHANGED batches

LibraryStep == \/ CreateInstance \/ CreateFails \/ Find \/ Refused
               \/ Speak \/ Send
               \/ MethodSucceeds \/ MethodFails \/ MethodThrows

LNext == ServerStep \/ LibraryStep

LSpec == LInit /\ [][LNext]_lvars

-----------------------------------------------------------------------------

\* The IMV objects whose constructor has called the library.
Constructed == {p \in Pair : \/ p[1] \in known
                             \/ phase = "create" /\ p[1] = con /\ p[2] < cur}

\* Between two calls, the server takes an IMV for working exactly if its
\* library is running and has an instance for the connection.
ErrorsAreMissingInstances ==
    ~Running => \A p \in Constructed :
                  p[2] \notin fatal => (p \in error <=> p \notin instances)

\* The invariant behind EveryVerifierIsPresent: an IMV that has said something
\* in this handshake has an instance, unless its library is shut down or is
\* just deleting the instance; one that has failed says nothing, as instances
\* speak for their own connection only; and a library that is shut down has
\* no instances left.
InsideHasInstance == inside => Running /\ (Here \in instances \/ call = "delete")
VoiceHasInstance ==
    \A p \in Pair :
      said[p] # NoRec
        => p \in instances \/ p[2] \in fatal \/ (call = "delete" /\ p = Here)
ErrorIsSilent == \A p \in error : said[p] = NoRec
ShutMeansEmpty == \A p \in instances : p[2] \notin fatal
LInv == InsideHasInstance /\ VoiceHasInstance /\ ErrorIsSilent /\ ShutMeansEmpty

\* An instance's round is the number of batches of the handshake it takes
\* part in, although the server and the library count apart.
RoundsAreBatches ==
    phase \in {"idle", "deliver", "solicit", "final"} =>
      \A p \in instances : round[p] = batches[p[1]]

\* No endpoint gets access or isolation by the policy unless every library
\* has an instance for it: a failure in an earlier handshake or on behalf of
\* another endpoint is never forgotten.
EveryVerifierIsPresent ==
    [][phase = "solicit" /\ phase' = "final" /\ decision' # "NO_ACCESS"
         => \A i \in IMV : <<con, i>> \in instances]_lvars

=============================================================================
