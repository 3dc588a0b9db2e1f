------------------------- MODULE TncsImunit_proofs -------------------------
(***************************************************************************)
(* Theorems about the TNC server with IMUnit libraries, for any number of  *)
(* endpoints and libraries.                                                *)
(***************************************************************************)
EXTENDS TncsImunit, Tncs_proofs

USE NumIMVAssumption, ImunitAssumption, MaxRoundAssumption

\* Every step with IMUnit libraries is a step of the server with arbitrary
\* libraries, so that all theorems about the latter hold.
LEMMA ServerSteps == [LNext]_lvars => [Next]_vars
<1> SUFFICES ASSUME [LNext]_lvars
             PROVE  [Next]_vars
  OBVIOUS
<1>1. CASE ServerStep
  BY <1>1 DEF ServerStep, Open, Batch, Advanced, Next, NalCall
<1>2. CASE LibraryStep
  <2>1. CASE CreateInstance \/ Find
    BY <2>1 DEF CreateInstance, Find
  <2>2. CASE Speak \/ Send
    BY <2>2 DEF Speak, Send, Callback, Next
  <2>3. CASE CreateFails \/ Refused \/ MethodSucceeds \/ MethodFails \/ MethodThrows
    BY <2>3 DEF CreateFails, Refused, MethodSucceeds, MethodFails, MethodThrows,
                LibraryReturn, Next
  <2> QED
    BY <1>2, <2>1, <2>2, <2>3 DEF LibraryStep
<1>3. CASE UNCHANGED lvars
  BY <1>3 DEF lvars
<1> QED
  BY <1>1, <1>2, <1>3 DEF LNext

\* The composition implements the server with arbitrary libraries.
THEOREM ServerSpec == LSpec => Spec
<1>1. LInit => Init
  BY DEF LInit
<1> QED
  BY <1>1, ServerSteps, PTL DEF LSpec, Spec

-----------------------------------------------------------------------------
\* A step gives no voice, and an IMV that fails loses its own.
Silencing ==
    \A p \in Pair : /\ said'[p] \in {said[p], NoRec}
                    /\ p \in error' => p \in error \/ said'[p] = NoRec

\* Between two calls into libraries, or leaving the call in progress alone,
\* the server takes voices away and gives none.
Quiet == /\ UNCHANGED <<instances, inside, fatal>>
         /\ Silencing
         /\ call = "none" \/ UNCHANGED <<call, con, cur>>

LEMMA FailQuiet ==
    ASSUME TypeOK, Fail
    PROVE  Silencing
  BY DEF TypeOK, Fail, Silencing

LEMMA CallImvQuiet ==
    ASSUME TypeOK, NEW fn, CallImv(fn)
    PROVE  fatal' = fatal /\ Silencing
  BY FailQuiet DEF CallImv, Enter, FailAtOnce, FailWithDelete, objects, Silencing

LEMMA NotifyAnewQuiet ==
    ASSUME TypeOK, NotifyAnew
    PROVE  fatal' = fatal /\ Silencing
  BY FailQuiet DEF NotifyAnew, FailAtOnce, Cleared, Silencing

LEMMA EngineQuiet ==
    ASSUME TypeOK, Engine
    PROVE  call = "none" /\ fatal' = fatal /\ Silencing
<1>1. CASE CreateImv \/ StartImv
  BY <1>1, NotifyAnewQuiet DEF CreateImv, StartImv, AtIMV
<1>2. CASE DeliverMessage
  BY <1>2, CallImvQuiet DEF DeliverMessage, AtIMV, Skip, objects, Silencing
<1>3. CASE EndBatchOfImv
  BY <1>3, CallImvQuiet DEF EndBatchOfImv, AtIMV, Skip, objects, Silencing
<1>4. CASE Solicit
  BY <1>4, CallImvQuiet DEF Solicit, AtIMV, Skip, objects, Silencing
<1>5. CASE AnnounceToImv
  BY <1>5, CallImvQuiet DEF AnnounceToImv, AtIMV, Skip, objects, Silencing
<1>6. CASE EndCreate \/ EndHandshakeNotification \/ EndMessage \/ EndDelivery
  BY <1>6 DEF EndCreate, EndHandshakeNotification, EndMessage, EndDelivery,
              AtIMV, PastLast, objects, Silencing
<1>7. CASE Answer \/ AskPdp \/ PdpThrows \/ AskPolicy \/ EndPolicy \/ EndAnnouncement
  BY <1>7 DEF Answer, AskPdp, PdpThrows, AskPolicy, EndPolicy, EndAnnouncement,
              PastLast, objects, Silencing
<1> QED
  BY <1>1, <1>2, <1>3, <1>4, <1>5, <1>6, <1>7 DEF Engine

LEMMA ServerQuiet ==
    ASSUME TypeOK, ServerStep
    PROVE  Quiet
<1>1. CASE \E c \in Conn : Open(c)
  BY <1>1 DEF Open, GetConnection, Forget, TypeOK, Quiet, Silencing, lib
<1>2. CASE Advanced
  BY <1>2, EngineQuiet DEF Advanced, Quiet, lib
<1>3. ASSUME NEW c \in Conn,
             (\E b \in Batches : Batch(c, b)) \/ RejectBatch(c) \/ SetUsername(c),
             UNCHANGED lib
      PROVE  Quiet
  BY <1>3 DEF Batch, ProcessBatch, RejectBatch, SetUsername, TypeOK, Quiet, Silencing, lib,
              objects, loop
<1>4. CASE Stopped /\ UNCHANGED lib
  BY <1>4 DEF Stopped, vars, objects, loop, Quiet, Silencing, lib
<1> QED
  BY <1>1, <1>2, <1>3, <1>4 DEF ServerStep, Batch

\* An instance executes before it speaks, and an IMV falls silent with the
\* deletion of its instance.
LEMMA LInvStep ==
    ASSUME TypeOK, TypeOK', CallsOnlyLiveImvs, LInv, [LNext]_lvars
    PROVE  LInv'
<1> USE DEF LInv, InsideHasInstance, VoiceHasInstance, ErrorIsSilent, ShutMeansEmpty
<1>1. CASE ServerStep
  <2>1. Quiet /\ error' \subseteq Pair
    BY <1>1, ServerQuiet DEF TypeOK
  <2>2. InsideHasInstance' /\ VoiceHasInstance' /\ ShutMeansEmpty'
    BY <2>1 DEF Quiet, Silencing, Running, Here
  <2>3. ErrorIsSilent'
    BY <2>1 DEF Quiet, Silencing
  <2> QED
    BY <2>2, <2>3
<1>2. CASE CreateInstance \/ Find
  <2>1. UNCHANGED <<error, said, fatal, con, cur, call>> /\ Running
    BY <1>2 DEF CreateInstance, Find, Called, vars, objects, loop
  <2>2. Here[2] \notin fatal
    BY <2>1 DEF CallsOnlyLiveImvs, Here
  <2>3. ShutMeansEmpty'
    BY <1>2, <2>1, <2>2 DEF CreateInstance, Find
  <2> QED
    BY <1>2, <2>1, <2>3 DEF CreateInstance, Find, Called, Running, Here
<1>3. CASE Speak
  <2>1. PICK r \in Rec : ProvideRecommendation(con, r)
    BY <1>3 DEF Speak
  <2>2. \A p \in Pair : p # Here => said'[p] = said[p]
    BY <2>1 DEF ProvideRecommendation, TypeOK, Here
  <2>3. UNCHANGED <<instances, inside, fatal, con, cur, call>>
    BY <1>3, <2>1 DEF Speak, ProvideRecommendation, lib, loop
  <2>4. inside
    BY <1>3 DEF Speak
  <2>5. Here \notin error /\ error' = error /\ error \subseteq Pair
    BY <2>1 DEF ProvideRecommendation, CallsOnlyLiveImvs, TypeOK
  <2> QED
    BY <2>2, <2>3, <2>4, <2>5 DEF Running, Here
<1>4. CASE Send
  BY <1>4 DEF Send, SendMessage, lib, objects, loop, Running, Here
<1>5. ASSUME Running, call' = "none", ~inside', Fail, fatal \subseteq fatal',
             \A p \in instances : p \in instances' \/ p[2] \in fatal',
             \A p \in instances' : p[2] \notin fatal'
      PROVE  LInv'
  <2>1. \A p \in Pair : p # Here => said'[p] = said[p]
    BY <1>5 DEF Fail, TypeOK
  <2>2. Here \in Pair => said'[Here] = NoRec
    BY <1>5 DEF Fail, TypeOK
  <2>3. error' = error \cup {Here} /\ error' \subseteq Pair
    BY <1>5, HereIsPair DEF Fail, TypeOK, Running
  <2> QED
    BY <1>5, <2>1, <2>2, <2>3
<1>6. CASE (CreateFails \/ MethodThrows) /\ ReturnFatal /\ Terminate
  BY <1>5, <1>6 DEF CreateFails, MethodThrows, Called, ReturnFatal, AfterMethod,
                    Terminate, Fail, Advance
<1>7. CASE (Refused \/ MethodFails \/ MethodSucceeds) /\ ReturnFromDelete
  BY <1>5, <1>7 DEF Refused, MethodFails, MethodSucceeds, Called, AfterMethod, lib,
                    ReturnFromDelete, Running, Fail, Advance
<1>8. CASE (Refused \/ MethodFails \/ (CreateFails /\ UNCHANGED instances)) /\ ReturnError
  <2>1. ~inside' /\ UNCHANGED instances
    BY <1>8 DEF Refused, MethodFails, CreateFails, Called, AfterMethod, lib
  <2>2. CASE Fail /\ UNCHANGED fatal
    BY <1>5, <1>8, <2>1, <2>2 DEF ReturnError, Running, Fail, Advance
  <2>3. CASE UNCHANGED <<objects, fatal>> /\ call # "delete"
    BY <2>1, <2>3 DEF objects
  <2> QED
    BY <1>8, <2>2, <2>3 DEF ReturnError
<1>9. CASE MethodSucceeds /\ ReturnSuccess
  BY <1>9 DEF MethodSucceeds, ReturnSuccess, Skip, AfterMethod, objects
<1>10. CASE UNCHANGED lvars
  BY <1>10 DEF lvars, vars, lib, objects, loop, Running, Here
<1>11. CASE LibraryStep
  <2>1. CASE CreateFails
    BY <1>6, <1>8, <2>1 DEF CreateFails
  <2>2. CASE MethodThrows
    BY <1>6, <2>2 DEF MethodThrows
  <2>3. CASE Refused \/ MethodFails
    <3>1. ReturnError \/ ReturnFromDelete
      BY <2>3 DEF Refused, MethodFails
    <3> QED
      BY <1>7, <1>8, <2>3, <3>1
  <2>4. CASE MethodSucceeds
    <3>1. ReturnSuccess \/ ReturnFromDelete
      BY <2>4 DEF MethodSucceeds
    <3> QED
      BY <1>7, <1>9, <2>4, <3>1
  <2> QED
    BY <1>2, <1>3, <1>4, <1>11, <2>1, <2>2, <2>3, <2>4 DEF LibraryStep
<1> QED
  BY <1>1, <1>10, <1>11 DEF LNext

\* LInv: whoever has a voice has an instance or a library that is shut down,
\* and neither an error nor an instance in such a library.
THEOREM VoicesHaveInstances == LSpec => []LInv
<1>1. LInit => LInv
  BY DEF LInit, Init, LInv, InsideHasInstance, VoiceHasInstance, ErrorIsSilent,
         ShutMeansEmpty
<1>2. TypeOK /\ TypeOK' /\ CallsOnlyLiveImvs /\ LInv /\ [LNext]_lvars => LInv'
  BY LInvStep
<1> QED
  BY <1>1, <1>2, ServerSpec, Typing, LiveImvs, PTL DEF LSpec

\* EveryVerifierIsPresent: no access by the policy for an endpoint of which a
\* library has deleted, or never had, the instance.
THEOREM EveryVerifier == LSpec => EveryVerifierIsPresent
<1>1. ASSUME TypeOK, IInv, LInv, [Next]_vars, phase = "solicit", phase' = "final",
             decision' # "NO_ACCESS"
      PROVE  \A i \in IMV : <<con, i>> \in instances
  <2>1. EndPolicy
    BY <1>1, PolicyStep DEF IInv
  <2>2. \A i \in IMV : i < cur
    BY <2>1 DEF EndPolicy, PastLast, IMV
  <2>3. \A i \in IMV : said[<<con, i>>] \in {"ALLOW", "ISOLATE"}
    BY <1>1, <2>1, <2>2 DEF IInv, VotesCounted, EndPolicy, Decide
  <2>4. \A i \in IMV : i \notin fatal
    <3>1. \A i \in fatal : i \in IMV /\ <<con, i>> \in error
      BY <1>1 DEF IInv, FatalHasFailed, TypeOK
    <3> QED
      BY <1>1, <2>3, <3>1 DEF LInv, ErrorIsSilent, NoRec
  <2>5. \A i \in IMV : <<con, i>> \in Pair
    BY <1>1 DEF TypeOK, Pair
  <2> QED
    BY <1>1, <2>1, <2>3, <2>4, <2>5
       DEF LInv, VoiceHasInstance, EndPolicy, PastLast, NoRec
<1>2. TypeOK /\ IInv /\ LInv /\ [LNext]_lvars
        => [phase = "solicit" /\ phase' = "final" /\ decision' # "NO_ACCESS"
              => \A i \in IMV : <<con, i>> \in instances]_lvars
  BY <1>1, ServerSteps
<1> QED
  BY <1>2, ServerSpec, Typing, Invariance, VoicesHaveInstances, PTL
     DEF LSpec, EveryVerifierIsPresent

-----------------------------------------------------------------------------
(* The maps of instances, the flags of the server and the two counters.    *)

LTypes == /\ instances \subseteq Pair /\ inside \in BOOLEAN
          /\ round \in [Pair -> Nat] /\ batches \in [Conn -> Nat]

\* Which functions are called in which loop, and for whom.
CallsOfLoop ==
    /\ call = "ending" => phase = "ending"
    /\ phase = "ending" => call \in {"none", "ending", "delete"}
    /\ phase \in {"create", "handshake"} => call \in {"none", "notify", "delete"}
    /\ phase \notin {"idle", "create"} => con \in known
    /\ phase = "create" => con \notin known

\* An instance is one of an IMV object, and its library is not shut down.
OnlyConstructed ==
    \A p \in instances : /\ p[2] \notin fatal
                         /\ p \in Constructed \/ (Running /\ p = Here)

\* The error flags and the instances tell the same, except for the IMV whose
\* library is running.
ErrorsMatch ==
    \A p \in Constructed :
      p[2] \notin fatal /\ ~(Running /\ p = Here) => (p \in error <=> p \notin instances)

DeleteIsDone == inside /\ call = "delete" => Here \notin instances

\* HANDSHAKE has not reached the instance yet; its library has counted the
\* batch that the server is still busy with; or it is about to be deleted.
Behind(p) == phase = "handshake" /\ p[1] = con /\ p[2] >= cur
Ahead(p) == phase = "ending" /\ p[1] = con /\ p[2] < cur
Leaving(p) == phase = "ending" /\ call = "delete" /\ p = Here

RoundsKept ==
    \A p \in instances :
      ~Behind(p) /\ ~Leaving(p) => round[p] = batches[p[1]] + (IF Ahead(p) THEN 1 ELSE 0)

NothingProcessed == phase \in {"create", "handshake"} => batches[con] = 0

MInv == /\ LTypes /\ CallsOfLoop /\ OnlyConstructed /\ ErrorsMatch /\ DeleteIsDone
        /\ RoundsKept /\ NothingProcessed

-----------------------------------------------------------------------------
(* What steps of the server do to them.                                    *)

Fixed == UNCHANGED <<known, fatal, phase, con>>
ImvTurn == phase # "idle" /\ cur < NumIMV

\* The server calls a library.
Calling ==
    /\ ImvTurn /\ call = "none" /\ Fixed /\ UNCHANGED <<cur, batches>>
    /\ call' # "none" /\ CallsOfLoop'
    /\ UNCHANGED error \/ (phase \in {"create", "handshake"} /\ error' = error \ {Here})

\* An IMV is passed over: it has an error, or nothing is said to it.
PassedOver ==
    /\ ImvTurn /\ call = "none" /\ call' = "none" /\ Fixed /\ UNCHANGED <<error, batches>>
    /\ cur' = cur + 1 /\ phase \notin {"create", "handshake"}
    /\ phase = "ending" => Here \in error

\* An IMV whose library is shut down fails at once.
ShutDown ==
    /\ ImvTurn /\ call = "none" /\ call' = "none" /\ Fixed /\ UNCHANGED batches
    /\ cur \in fatal /\ cur' = cur + 1 /\ error' = error \cup {Here}

\* A loop begins, with what the one before it has left.
NextLoop ==
    /\ call = "none" /\ call' = "none" /\ cur' = 0 /\ UNCHANGED <<fatal, error>>
    /\ \/ /\ phase = "idle" /\ phase' \in {"create", "handshake"}
          /\ con' \in Conn /\ (phase' = "handshake" <=> con' \in known)
          /\ batches' = [batches EXCEPT ![con'] = 0] /\ UNCHANGED known
       \/ /\ phase = "create" /\ phase' = "handshake" /\ cur = NumIMV
          /\ known' = known \cup {con} /\ UNCHANGED <<con, batches>>
       \/ /\ phase = "handshake" /\ phase' = "idle" /\ cur = NumIMV
          /\ UNCHANGED <<known, batches>>
       \/ /\ phase = "idle" /\ phase' = "deliver" /\ con' \in known
          /\ UNCHANGED <<known, batches>>
       \/ /\ phase = "ending" /\ phase' \in {"idle", "solicit", "final"} /\ cur = NumIMV
          /\ batches' = [batches EXCEPT ![con] = @ + 1]
          /\ UNCHANGED known /\ (phase' # "idle" => con' = con)
       \/ /\ phase \in {"deliver", "solicit", "final"}
          /\ phase' \in {"idle", "deliver", "ending", "final"}
          /\ UNCHANGED <<known, batches>> /\ (phase' # "idle" => con' = con)

Still == Fixed /\ UNCHANGED <<error, cur, call, batches>>

LEMMA CallImvInstance ==
    ASSUME TypeOK, ImvTurn, call = "none", CallsOfLoop, NEW fn \in {"receive", "ending", "solicit", "notify"},
           CallImv(fn), UNCHANGED batches,
           fn = "ending" <=> phase = "ending", phase \notin {"create", "handshake"}
    PROVE  Calling \/ ShutDown
<1>1. Lacks[cur] = {}
  BY DEF TypeOK, ImvTurn, IMV
<1>2. CASE Enter(fn)
  BY <1>2 DEF Enter, Calling, Fixed, tables, objects, loop, CallsOfLoop
<1>3. CASE FailAtOnce(fn) \/ FailWithDelete(fn)
  BY <1>1, <1>3 DEF FailAtOnce, FailWithDelete, ShutDown, Calling, Fixed, Fail, Advance, tables,
              objects, loop, CallsOfLoop
<1> QED
  BY <1>2, <1>3 DEF CallImv

LEMMA NotifyAnewInstance ==
    ASSUME TypeOK, ImvTurn, call = "none", CallsOfLoop, NotifyAnew, UNCHANGED batches,
           phase \in {"create", "handshake"}
    PROVE  Calling \/ ShutDown
<1>1. Lacks[cur] = {}
  BY DEF TypeOK, ImvTurn, IMV
<1>2. CASE FailAtOnce("notify")
  BY <1>1, <1>2 DEF FailAtOnce, ShutDown, Fixed, Fail, Advance, tables, loop
<1>3. CASE ~FailAtOnce("notify")
  BY <1>3 DEF NotifyAnew, Cleared, Calling, Fixed, tables, loop, CallsOfLoop
<1> QED
  BY <1>2, <1>3

LEMMA ServerInstance ==
    ASSUME TypeOK, CallsOfLoop, ServerStep
    PROVE  /\ UNCHANGED lib
           /\ Calling \/ PassedOver \/ ShutDown \/ NextLoop \/ Still
<1>1. ASSUME NEW c \in Conn, Open(c)
      PROVE  UNCHANGED lib /\ NextLoop
  BY <1>1 DEF Open, GetConnection, GoTo, NextLoop, TypeOK
<1>2. ASSUME NEW c \in Conn, NEW b \in Batches, Batch(c, b)
      PROVE  UNCHANGED lib /\ NextLoop
  BY <1>2 DEF Batch, ProcessBatch, GoTo, NextLoop, TypeOK, objects
<1>3. ASSUME NEW c \in Conn, RejectBatch(c) \/ SetUsername(c), UNCHANGED <<lib, batches>>
      PROVE  Still
  BY <1>3 DEF RejectBatch, SetUsername, Still, Fixed, objects, loop
<1>4. CASE Stopped /\ UNCHANGED <<lib, batches>>
  BY <1>4 DEF Stopped, vars, Still, Fixed, tables, objects, loop
<1>5. CASE Advanced
  <2>1. UNCHANGED lib /\ Engine
    BY <1>5 DEF Advanced
  <2>2. phase' = "ending" \/ phase # "ending" => UNCHANGED batches
    BY <1>5 DEF Advanced
  <2>3. phase = "ending" /\ phase' # "ending" => batches' = [batches EXCEPT ![con] = @ + 1]
    BY <1>5 DEF Advanced
  <2>4. CASE CreateImv \/ StartImv
    <3>1. phase' = phase
      BY <2>4 DEF CreateImv, StartImv, NotifyAnew, FailAtOnce, loop
    <3> QED
      BY <2>1, <2>2, <2>4, <3>1, NotifyAnewInstance
         DEF CreateImv, StartImv, AtIMV, ImvTurn
  <2>5. CASE DeliverMessage \/ Solicit \/ AnnounceToImv
    <3>1. phase' = phase /\ phase \in {"deliver", "solicit", "final"}
      BY <2>5 DEF DeliverMessage, Solicit, AnnounceToImv, AtIMV, CallImv, Enter, FailAtOnce,
                  FailWithDelete, Skip, loop
    <3>2. PICK fn \in {"receive", "solicit", "notify"} : CallImv(fn) \/ Skip
      BY <2>5 DEF DeliverMessage, Solicit, AnnounceToImv
    <3>3. ImvTurn /\ call = "none" /\ UNCHANGED batches
      BY <2>2, <2>5, <3>1 DEF DeliverMessage, Solicit, AnnounceToImv, AtIMV, ImvTurn
    <3>4. CASE Skip
      BY <2>1, <3>1, <3>3, <3>4 DEF Skip, Advance, PassedOver, Fixed, tables, objects, loop
    <3>5. CASE CallImv(fn)
      BY <2>1, <3>1, <3>3, <3>5, CallImvInstance
    <3> QED
      BY <2>1, <3>2, <3>4, <3>5
  <2>6. CASE EndBatchOfImv
    <3>1. phase' = phase /\ phase = "ending"
      BY <2>6 DEF EndBatchOfImv, AtIMV, CallImv, Enter, FailAtOnce, FailWithDelete, Skip, loop
    <3>2. ImvTurn /\ call = "none" /\ UNCHANGED batches
      BY <2>2, <2>6, <3>1 DEF EndBatchOfImv, AtIMV, ImvTurn
    <3>3. CASE Here \in error
      BY <2>1, <2>6, <3>1, <3>2, <3>3
         DEF EndBatchOfImv, Skip, Advance, PassedOver, Fixed, tables, objects, loop
    <3>4. CASE Here \notin error
      BY <2>1, <2>6, <3>1, <3>2, <3>4, CallImvInstance DEF EndBatchOfImv
    <3> QED
      BY <2>1, <3>3, <3>4
  <2>7. CASE EndCreate \/ EndHandshakeNotification
    BY <2>1, <2>2, <2>7 DEF EndCreate, EndHandshakeNotification, PastLast, Return, GoTo,
                            NextLoop, objects
  <2>8. CASE EndMessage \/ EndDelivery
    BY <2>1, <2>2, <2>8 DEF EndMessage, EndDelivery, PastLast, AtIMV, GoTo, NextLoop, tables, objects
  <2>9. CASE Answer \/ AskPdp \/ PdpThrows \/ AskPolicy
    BY <2>1, <2>3, <2>9 DEF Answer, AskPdp, PdpThrows, AskPolicy, PastLast, Return, Decide,
                            GoTo, NextLoop, tables, objects
  <2>10. CASE EndPolicy \/ EndAnnouncement
    BY <2>1, <2>2, <2>10 DEF EndPolicy, EndAnnouncement, PastLast, Return, Decide, GoTo,
                             NextLoop, tables, objects
  <2> QED
    BY <2>1, <2>4, <2>5, <2>6, <2>7, <2>8, <2>9, <2>10 DEF Engine
<1> QED
  BY <1>1, <1>2, <1>3, <1>4, <1>5 DEF ServerStep

-----------------------------------------------------------------------------
(* The steps of the server keep MInv.                                      *)

LEMMA CallingKeeps ==
    ASSUME TypeOK, LInv, MInv, Calling, UNCHANGED lib
    PROVE  MInv'
<1> USE DEF Calling, Fixed, lib
<1>1. Constructed' = Constructed /\ ~inside
  BY DEF Constructed, LInv, InsideHasInstance, Running
<1>2. LTypes' /\ CallsOfLoop' /\ NothingProcessed'
  BY DEF MInv, LTypes, NothingProcessed
<1>3. OnlyConstructed'
  BY <1>1 DEF MInv, OnlyConstructed, Running
<1>4. ErrorsMatch'
  BY <1>1 DEF MInv, ErrorsMatch, Running, Here
<1>5. DeleteIsDone'
  BY <1>1 DEF DeleteIsDone
<1>6. RoundsKept'
  BY DEF MInv, RoundsKept, Behind, Ahead, Leaving
<1> QED
  BY <1>2, <1>3, <1>4, <1>5, <1>6 DEF MInv

LEMMA StillKeeps ==
    ASSUME MInv, Still, UNCHANGED lib
    PROVE  MInv'
<1> USE DEF Still, Fixed, lib
<1>1. Constructed' = Constructed
  BY DEF Constructed
<1>2. LTypes' /\ CallsOfLoop' /\ NothingProcessed' /\ DeleteIsDone'
  BY DEF MInv, LTypes, CallsOfLoop, NothingProcessed, DeleteIsDone, Here
<1>3. OnlyConstructed' /\ ErrorsMatch'
  BY <1>1 DEF MInv, OnlyConstructed, ErrorsMatch, Running, Here
<1>4. RoundsKept'
  BY DEF MInv, RoundsKept, Behind, Ahead, Leaving, Here
<1> QED
  BY <1>2, <1>3, <1>4 DEF MInv

\* With the turn of an IMV ends the construction of its object.
LEMMA TurnConstructs ==
    ASSUME TypeOK, ImvTurn, Fixed, cur' = cur + 1
    PROVE  /\ Here \in Pair /\ cur \in IMV
           /\ \A p \in Pair : p # Here => (p \in Constructed' <=> p \in Constructed)
           /\ phase # "create" => Constructed' = Constructed
<1>1. con \in Conn /\ cur \in IMV
  BY DEF TypeOK, ImvTurn, IMV
<1>2. Here \in Pair
  BY <1>1 DEF Here, Pair
<1>3. ASSUME NEW p \in Pair, p # Here
      PROVE  p \in Constructed' <=> p \in Constructed
  <2>1. p[2] \in 0 .. NumIMV - 1 /\ p = <<p[1], p[2]>>
    BY <1>3 DEF Pair, IMV
  <2>2. p[1] = con => p[2] # cur
    BY <1>3, <2>1 DEF Here
  <2> QED
    BY <1>1, <2>1, <2>2 DEF Constructed, Fixed, IMV
<1> QED
  BY <1>1, <1>2, <1>3 DEF Constructed, Fixed

LEMMA PassedOverKeeps ==
    ASSUME TypeOK, LInv, MInv, PassedOver, UNCHANGED lib
    PROVE  MInv'
<1> USE DEF PassedOver, lib
<1>1. Constructed' = Constructed /\ ~inside /\ Here \in Pair /\ cur \in IMV
  BY TurnConstructs DEF LInv, InsideHasInstance, Running
<1>2. LTypes' /\ CallsOfLoop' /\ NothingProcessed' /\ DeleteIsDone'
  BY <1>1 DEF MInv, LTypes, CallsOfLoop, NothingProcessed, DeleteIsDone, Fixed
<1>3. OnlyConstructed' /\ ErrorsMatch'
  BY <1>1 DEF MInv, OnlyConstructed, ErrorsMatch, Running, Fixed
<1>4. phase = "ending" => Here \notin instances
  <2>1. SUFFICES ASSUME phase = "ending", Here \in instances PROVE FALSE
    OBVIOUS
  <2>2. Here \in Constructed /\ Here[2] \notin fatal
    BY <2>1 DEF MInv, OnlyConstructed, Running
  <2> QED
    BY <2>1, <2>2 DEF MInv, ErrorsMatch, Running
<1>5. RoundsKept'
  <2>1. SUFFICES ASSUME NEW p \in instances, ~Behind(p)', ~Leaving(p)'
                 PROVE  round[p] = batches[p[1]] + (IF Ahead(p)' THEN 1 ELSE 0)
    BY DEF RoundsKept, Fixed
  <2>2. p \in Pair /\ p[2] \in 0 .. NumIMV - 1 /\ p = <<p[1], p[2]>>
    BY DEF MInv, LTypes, Pair, IMV
  <2>3. ~Behind(p) /\ ~Leaving(p)
    BY DEF Behind, Leaving
  <2>4. Ahead(p)' <=> Ahead(p)
    <3>1. phase = "ending" /\ p[1] = con => p[2] # cur
      BY <1>4, <2>2 DEF Here
    <3> QED
      BY <1>1, <2>2, <3>1 DEF Ahead, Fixed, IMV
  <2> QED
    BY <2>3, <2>4 DEF MInv, RoundsKept
<1> QED
  BY <1>2, <1>3, <1>5 DEF MInv

LEMMA ShutDownKeeps ==
    ASSUME TypeOK, LInv, MInv, ShutDown, UNCHANGED lib
    PROVE  MInv'
<1> USE DEF ShutDown, lib
<1>1. /\ ~inside /\ Here \in Pair /\ cur \in IMV
      /\ \A p \in Pair : p # Here => (p \in Constructed' <=> p \in Constructed)
      /\ Here[2] \in fatal /\ Here \notin instances
  BY TurnConstructs DEF LInv, InsideHasInstance, Running, Here, MInv, OnlyConstructed
<1>2. LTypes' /\ CallsOfLoop' /\ NothingProcessed' /\ DeleteIsDone'
  BY <1>1 DEF MInv, LTypes, CallsOfLoop, NothingProcessed, DeleteIsDone, Fixed
<1>3. OnlyConstructed'
  BY <1>1 DEF MInv, OnlyConstructed, Running, Fixed, LTypes
<1>4. ErrorsMatch'
  <2>1. SUFFICES ASSUME NEW p \in Constructed', p[2] \notin fatal
                 PROVE  p \in error' <=> p \notin instances
    BY DEF ErrorsMatch, Fixed
  <2>2. p \in Pair /\ p # Here
    BY <1>1, <2>1 DEF Constructed
  <2> QED
    BY <1>1, <2>1, <2>2 DEF MInv, ErrorsMatch, Running
<1>5. RoundsKept'
  <2>1. SUFFICES ASSUME NEW p \in instances, ~Behind(p)', ~Leaving(p)'
                 PROVE  round[p] = batches[p[1]] + (IF Ahead(p)' THEN 1 ELSE 0)
    BY DEF RoundsKept, Fixed
  <2>2. p \in Pair /\ p[2] \in 0 .. NumIMV - 1 /\ p = <<p[1], p[2]>> /\ p # Here
    BY <1>1 DEF MInv, LTypes, Pair, IMV
  <2>3. p[1] = con => p[2] # cur
    BY <2>2 DEF Here
  <2>4. ~Behind(p) /\ ~Leaving(p) /\ (Ahead(p)' <=> Ahead(p))
    BY <1>1, <2>1, <2>2, <2>3 DEF Behind, Leaving, Ahead, Fixed, IMV
  <2> QED
    BY <2>4 DEF MInv, RoundsKept
<1> QED
  BY <1>2, <1>3, <1>4, <1>5 DEF MInv

LEMMA NextLoopKeeps ==
    ASSUME TypeOK, LInv, MInv, NextLoop, UNCHANGED lib
    PROVE  MInv'
<1> USE DEF NextLoop, lib
<1>1. /\ ~inside /\ ~Running /\ ~Running' /\ cur' = 0 /\ UNCHANGED <<fatal, error>>
      /\ (con = NoConn <=> phase = "idle") /\ con \in Conn \cup {NoConn}
      /\ known \subseteq Conn /\ cur \in 0 .. NumIMV
      /\ LTypes /\ CallsOfLoop
  BY DEF LInv, InsideHasInstance, Running, TypeOK, MInv
<1>2. Constructed' = Constructed
  <2>1. \A p \in Pair : p[2] \in 0 .. NumIMV - 1
    BY DEF Pair, IMV
  <2>2. CASE phase = "create"
    BY <1>1, <2>1, <2>2 DEF Constructed
  <2>3. CASE phase # "create" /\ phase' # "create"
    BY <1>1, <2>3 DEF Constructed
  <2>4. CASE phase' = "create"
    BY <1>1, <2>1, <2>4 DEF Constructed
  <2> QED
    BY <2>2, <2>3, <2>4
<1>3. LTypes'
  BY <1>1 DEF LTypes
<1>4. CallsOfLoop'
  BY <1>1 DEF CallsOfLoop
<1>5. NothingProcessed'
  BY <1>1 DEF NothingProcessed, MInv, LTypes
<1>6. OnlyConstructed' /\ ErrorsMatch' /\ DeleteIsDone'
  BY <1>1, <1>2 DEF MInv, OnlyConstructed, ErrorsMatch, DeleteIsDone
<1>7. ASSUME NEW p \in instances, ~Behind(p)'
      PROVE  round[p] = batches'[p[1]] + (IF Ahead(p)' THEN 1 ELSE 0)
  <2>1. /\ p \in Constructed /\ p \in Pair /\ p[2] \in 0 .. NumIMV - 1 /\ p[1] \in Conn
        /\ ~Leaving(p) /\ batches[p[1]] \in Nat
    BY <1>1 DEF MInv, OnlyConstructed, LTypes, Pair, IMV, Leaving, Running
  <2>2. ~Ahead(p)'
    BY <1>1, <2>1 DEF Ahead
  <2>3. ~Behind(p) => round[p] = batches[p[1]] + (IF Ahead(p) THEN 1 ELSE 0)
    BY <2>1 DEF MInv, RoundsKept
  <2>4. CASE phase = "ending"
    <3>1. ~Behind(p) /\ (Ahead(p) <=> p[1] = con)
      BY <1>1, <2>1, <2>4 DEF Behind, Ahead
    <3>2. batches' = [batches EXCEPT ![con] = @ + 1]
      BY <2>4
    <3> QED
      BY <1>1, <2>1, <2>2, <2>3, <2>4, <3>1, <3>2 DEF LTypes
  <2>5. CASE phase = "idle" /\ phase' \in {"create", "handshake"}
    <3>1. p[1] # con'
      BY <1>1, <1>7, <2>1, <2>5 DEF Constructed, Behind
    <3>2. ~Behind(p) /\ ~Ahead(p)
      BY <2>5 DEF Behind, Ahead
    <3>3. batches' = [batches EXCEPT ![con'] = 0]
      BY <2>5
    <3> QED
      BY <1>1, <2>1, <2>2, <2>3, <3>1, <3>2, <3>3 DEF LTypes
  <2>6. CASE phase # "ending" /\ ~(phase = "idle" /\ phase' \in {"create", "handshake"})
    <3>1. UNCHANGED batches
      BY <2>6
    <3>2. ~Ahead(p)
      BY <2>6 DEF Ahead
    <3>3. ~Behind(p)
      BY <1>1, <1>7, <2>1, <2>6 DEF Behind
    <3> QED
      BY <2>2, <2>3, <3>1, <3>2, <3>3
  <2> QED
    BY <2>4, <2>5, <2>6
<1>8. RoundsKept'
  BY <1>7 DEF RoundsKept
<1> QED
  BY <1>3, <1>4, <1>5, <1>6, <1>8 DEF MInv

-----------------------------------------------------------------------------
(* The steps of the libraries keep MInv.                                   *)

LEMMA RunningTurn ==
    ASSUME TypeOK, Running
    PROVE  ImvTurn /\ Here \in Pair /\ cur \in IMV /\ con \in Conn
  BY DEF TypeOK, Running, ImvTurn, Here, Pair, IMV

LEMMA AfterMethodType ==
    ASSUME LTypes, Here \in Pair, AfterMethod
    PROVE  round' \in [Pair -> Nat] /\ \A p \in Pair : p # Here => round'[p] = round[p]
<1>1. \/ round' = round
      \/ round' = [round EXCEPT ![Here] = 0]
      \/ round' = [round EXCEPT ![Here] = round[Here] + 1]
  BY DEF AfterMethod
<1> QED
  BY <1>1 DEF LTypes

LEMMA CreateKeeps ==
    ASSUME TypeOK, IInv, LInv, MInv, CreateInstance
    PROVE  MInv'
<1> USE DEF CreateInstance, Called
<1>1. /\ UNCHANGED <<known, fatal, phase, con, cur, call, error, batches>>
      /\ instances' = instances \cup {Here} /\ round' = [round EXCEPT ![Here] = 0]
      /\ Running /\ call = "notify" /\ phase = "create"
  BY DEF vars, tables, objects, loop, CallOfCreate
<1>2. Here \in Pair /\ con \in Conn /\ cur \in IMV /\ cur \notin fatal
  BY <1>1, RunningTurn DEF IInv, CallsOnlyLiveImvs
<1>3. Constructed' = Constructed
  BY <1>1 DEF Constructed
<1>4. LTypes' /\ CallsOfLoop' /\ NothingProcessed' /\ DeleteIsDone'
  BY <1>1, <1>2 DEF MInv, LTypes, CallsOfLoop, NothingProcessed, DeleteIsDone
<1>5. OnlyConstructed'
  BY <1>1, <1>2, <1>3 DEF MInv, OnlyConstructed, Running, Here
<1>6. ErrorsMatch'
  BY <1>1, <1>3 DEF MInv, ErrorsMatch, Running, Here
<1>7. RoundsKept'
  <2>1. SUFFICES ASSUME NEW p \in instances', ~Behind(p)', ~Leaving(p)'
                 PROVE  round'[p] = batches[p[1]] + 0
    BY <1>1 DEF RoundsKept, Ahead
  <2>2. CASE p = Here
    <3>1. p[1] = con /\ round'[p] = 0 /\ batches[con] = 0
      BY <1>1, <1>2, <2>2 DEF Here, MInv, LTypes, NothingProcessed
    <3> QED
      BY <3>1
  <2>3. CASE p # Here
    BY <1>1, <2>1, <2>3 DEF MInv, LTypes, RoundsKept, Behind, Ahead, Leaving, Here
  <2> QED
    BY <2>2, <2>3
<1> QED
  BY <1>4, <1>5, <1>6, <1>7 DEF MInv

LEMMA FindKeeps ==
    ASSUME TypeOK, MInv, Find
    PROVE  MInv'
<1> USE DEF Find, Called
<1>1. /\ UNCHANGED <<known, fatal, phase, con, cur, call, error, batches, round>>
      /\ instances' \in {instances, instances \ {Here}} /\ Running
      /\ call = "delete" => Here \notin instances'
  BY DEF vars, tables, objects, loop
<1>2. Constructed' = Constructed
  BY <1>1 DEF Constructed
<1>3. LTypes' /\ CallsOfLoop' /\ NothingProcessed'
  BY <1>1 DEF MInv, LTypes, CallsOfLoop, NothingProcessed
<1>4. DeleteIsDone'
  BY <1>1 DEF DeleteIsDone, Here
<1>5. OnlyConstructed' /\ ErrorsMatch'
  BY <1>1, <1>2 DEF MInv, OnlyConstructed, ErrorsMatch, Running, Here
<1>6. RoundsKept'
  BY <1>1 DEF MInv, RoundsKept, Behind, Ahead, Leaving, Here
<1> QED
  BY <1>3, <1>4, <1>5, <1>6 DEF MInv

LEMMA CallbackKeeps ==
    ASSUME MInv, Speak \/ Send
    PROVE  MInv'
<1>1. Still /\ UNCHANGED lib
  BY DEF Speak, Send, ProvideRecommendation, SendMessage, Still, Fixed, lib, tables,
         objects, loop
<1> QED
  BY <1>1, StillKeeps

\* A method succeeds: the count of its instance is what it has to be.
LEMMA SuccessKeeps ==
    ASSUME TypeOK, IInv, LInv, MInv, MethodSucceeds, ReturnSuccess
    PROVE  MInv'
<1>1. /\ Running /\ call # "delete" /\ inside /\ inside' = FALSE /\ ~Running'
      /\ UNCHANGED <<instances, batches, known, fatal, error, phase, con>>
      /\ cur' = cur + 1 /\ call' = "none" /\ AfterMethod
  BY DEF MethodSucceeds, ReturnSuccess, Skip, Advance, AfterMethod, tables, objects, loop,
         Running
<1>2. ImvTurn /\ Here \in Pair /\ cur \in IMV /\ con \in Conn
  BY <1>1, RunningTurn
<1>3. /\ \A p \in Pair : p # Here => (p \in Constructed' <=> p \in Constructed)
      /\ phase # "create" => Constructed' = Constructed
  BY <1>1, <1>2, TurnConstructs DEF Fixed
<1>4. Here \in instances /\ Here \notin error /\ cur \notin fatal /\ Here \in Constructed'
  <2>1. Here \in instances /\ Here \notin error /\ cur \notin fatal
    BY <1>1 DEF LInv, InsideHasInstance, IInv, CallsOnlyLiveImvs
  <2>2. CASE phase = "create"
    BY <2>1, <1>1, <1>2, <2>2 DEF Constructed, Here, IMV
  <2>3. CASE phase # "create"
    BY <2>1, <1>1, <1>2, <2>3 DEF Constructed, Here, MInv, CallsOfLoop, ImvTurn
  <2> QED
    BY <2>1, <2>2, <2>3
<1>5. LTypes'
  BY <1>1, <1>2, AfterMethodType DEF MInv, LTypes
<1>6. CallsOfLoop' /\ NothingProcessed' /\ DeleteIsDone'
  BY <1>1 DEF MInv, CallsOfLoop, NothingProcessed, DeleteIsDone
<1>7. OnlyConstructed'
  BY <1>1, <1>3, <1>4 DEF MInv, OnlyConstructed, LTypes
<1>8. ErrorsMatch'
  <2>1. SUFFICES ASSUME NEW p \in Constructed', p[2] \notin fatal
                 PROVE  p \in error <=> p \notin instances
    BY <1>1 DEF ErrorsMatch
  <2>2. p \in Pair
    BY <2>1 DEF Constructed
  <2> QED
    BY <1>3, <1>4, <2>1, <2>2 DEF MInv, ErrorsMatch
<1>9. RoundsKept'
  <2>1. SUFFICES ASSUME NEW p \in instances, ~Behind(p)'
                 PROVE  round'[p] = batches[p[1]] + (IF Ahead(p)' THEN 1 ELSE 0)
    BY <1>1 DEF RoundsKept
  <2>2. /\ p \in Pair /\ p[2] \in 0 .. NumIMV - 1 /\ p = <<p[1], p[2]>>
        /\ round[p] \in Nat /\ batches[p[1]] \in Nat
    BY DEF MInv, LTypes, Pair, IMV
  <2>3. CASE p = Here
    <3>1. p[1] = con /\ p[2] = cur /\ (Ahead(p)' <=> phase = "ending") /\ ~Ahead(p)
      BY <1>1, <1>2, <2>3 DEF Here, Ahead, IMV
    <3>2. CASE phase = "handshake"
      <4>1. call = "notify"
        BY <1>1, <3>2 DEF MInv, CallsOfLoop, Running
      <4>2. round'[p] = 0
        BY <1>1, <1>2, <2>3, <3>2, <4>1 DEF AfterMethod, MInv, LTypes
      <4>3. batches[p[1]] = 0
        BY <3>1, <3>2 DEF MInv, NothingProcessed
      <4> QED
        BY <3>1, <3>2, <4>2, <4>3
    <3>3. CASE phase # "handshake"
      <4>1. round[p] = batches[p[1]]
        BY <1>1, <2>2, <3>1, <3>3 DEF MInv, RoundsKept, Behind, Leaving
      <4>2. call = "ending" <=> phase = "ending"
        BY <1>1 DEF MInv, CallsOfLoop, Running
      <4>3. round'[p] = IF phase = "ending" THEN round[p] + 1 ELSE round[p]
        BY <1>1, <1>2, <2>3, <3>3, <4>2 DEF AfterMethod, MInv, LTypes
      <4> QED
        BY <2>2, <3>1, <4>1, <4>3
    <3> QED
      BY <3>2, <3>3
  <2>4. CASE p # Here
    <3>1. p[1] = con => p[2] # cur
      BY <2>2, <2>4 DEF Here
    <3>2. ~Behind(p) /\ ~Leaving(p) /\ (Ahead(p)' <=> Ahead(p))
      BY <1>1, <1>2, <2>1, <2>2, <2>4, <3>1 DEF Behind, Leaving, Ahead, IMV
    <3>3. round'[p] = round[p]
      BY <1>1, <1>2, <2>2, <2>4 DEF AfterMethod, MInv, LTypes
    <3> QED
      BY <2>1, <3>2, <3>3 DEF MInv, RoundsKept
  <2> QED
    BY <2>3, <2>4
<1> QED
  BY <1>5, <1>6, <1>7, <1>8, <1>9 DEF MInv

\* A call has failed, and DELETE is called next.
LEMMA ErrorKeeps ==
    ASSUME TypeOK, MInv, Running, ReturnError, inside' = FALSE, UNCHANGED <<instances, batches>>,
           round' = round \/ AfterMethod
    PROVE  MInv'
<1>1. ImvTurn /\ Here \in Pair /\ cur \in IMV /\ con \in Conn /\ Lacks[cur] = {}
  BY RunningTurn
<1>2. call' = "delete" /\ UNCHANGED <<known, fatal, error, phase, con, cur>>
  BY <1>1 DEF ReturnError, tables, objects, loop
<1>3. Constructed' = Constructed
  BY <1>2 DEF Constructed
<1>4. round' \in [Pair -> Nat] /\ \A p \in Pair : p # Here => round'[p] = round[p]
  BY <1>1, AfterMethodType DEF MInv, LTypes
<1>5. LTypes' /\ CallsOfLoop' /\ NothingProcessed' /\ DeleteIsDone'
  BY <1>2, <1>4 DEF MInv, LTypes, CallsOfLoop, NothingProcessed, DeleteIsDone, Running
<1>6. OnlyConstructed' /\ ErrorsMatch'
  BY <1>2, <1>3 DEF MInv, OnlyConstructed, ErrorsMatch, Running, Here
<1>7. RoundsKept'
  <2>1. SUFFICES ASSUME NEW p \in instances, ~Behind(p)', ~Leaving(p)'
                 PROVE  round'[p] = batches[p[1]] + (IF Ahead(p)' THEN 1 ELSE 0)
    BY DEF RoundsKept
  <2>2. ~Behind(p) /\ (Ahead(p)' <=> Ahead(p)) /\ p \in Pair
    BY <1>2, <2>1 DEF Behind, Ahead, MInv, LTypes
  <2>3. p # Here \/ phase # "ending"
    BY <1>2, <2>1 DEF Leaving, Here
  <2>4. ~Leaving(p)
    BY <2>3 DEF Leaving
  <2>5. round'[p] = round[p]
    <3>1. CASE p # Here
      BY <1>4, <2>2, <3>1
    <3>2. CASE p = Here
      <4>1. phase # "ending" /\ phase # "handshake"
        BY <1>1, <2>2, <2>3, <3>2 DEF Behind, Here, IMV
      <4>2. call # "ending"
        BY <4>1 DEF MInv, CallsOfLoop
      <4> QED
        BY <4>1, <4>2 DEF AfterMethod
    <3> QED
      BY <3>1, <3>2
  <2> QED
    BY <2>1, <2>2, <2>4, <2>5 DEF MInv, RoundsKept
<1> QED
  BY <1>5, <1>6, <1>7 DEF MInv

\* The call is over for good: the instance is deleted, or its library shut down.
LEMMA EndKeeps ==
    ASSUME TypeOK, MInv, Running, Fail, inside' = FALSE,
           UNCHANGED <<batches, known, phase, con>>,
           fatal \subseteq fatal', instances' \subseteq instances,
           \A p \in instances' : p[2] \notin fatal',
           \A p \in instances : p \in instances' \/ p[2] \in fatal' \/ p = Here,
           Here \notin instances', round' = round \/ AfterMethod
    PROVE  MInv'
<1>1. ImvTurn /\ Here \in Pair /\ cur \in IMV /\ con \in Conn
  BY RunningTurn
<1>2. cur' = cur + 1 /\ call' = "none" /\ ~Running' /\ error' = error \cup {Here}
  BY DEF Fail, Advance, Running
<1>3. \A p \in Pair : p # Here => (p \in Constructed' <=> p \in Constructed)
  <2>1. \A p \in Pair : p[2] \in 0 .. NumIMV - 1 /\ p = <<p[1], p[2]>>
    BY DEF Pair, IMV
  <2> QED
    BY <1>1, <1>2, <2>1 DEF Constructed, Here, IMV
<1>4. round' \in [Pair -> Nat] /\ \A p \in Pair : p # Here => round'[p] = round[p]
  BY <1>1, AfterMethodType DEF MInv, LTypes
<1>5. LTypes' /\ CallsOfLoop' /\ NothingProcessed' /\ DeleteIsDone'
  BY <1>2, <1>4 DEF MInv, LTypes, CallsOfLoop, NothingProcessed, DeleteIsDone
<1>6. OnlyConstructed'
  <2>1. SUFFICES ASSUME NEW p \in instances'
                 PROVE  p \in Constructed'
    BY DEF OnlyConstructed
  <2>2. p \in instances /\ p \in Pair /\ p # Here
    BY <2>1 DEF MInv, LTypes
  <2> QED
    BY <1>3, <2>2 DEF MInv, OnlyConstructed
<1>7. ErrorsMatch'
  <2>1. SUFFICES ASSUME NEW p \in Constructed', p[2] \notin fatal'
                 PROVE  p \in error' <=> p \notin instances'
    BY DEF ErrorsMatch
  <2>2. p \in Pair
    BY <2>1 DEF Constructed
  <2>3. CASE p = Here
    BY <1>2, <2>3
  <2>4. CASE p # Here
    <3>1. p \in error <=> p \notin instances
      BY <1>3, <2>1, <2>2, <2>4 DEF MInv, ErrorsMatch
    <3> QED
      BY <1>2, <2>1, <2>4, <3>1
  <2> QED
    BY <2>3, <2>4
<1>8. RoundsKept'
  <2>1. SUFFICES ASSUME NEW p \in instances', ~Behind(p)'
                 PROVE  round'[p] = batches[p[1]] + (IF Ahead(p)' THEN 1 ELSE 0)
    BY DEF RoundsKept
  <2>2. /\ p \in instances /\ p \in Pair /\ p # Here
        /\ p[2] \in 0 .. NumIMV - 1 /\ p = <<p[1], p[2]>>
    BY <2>1 DEF MInv, LTypes, Pair, IMV
  <2>3. p[1] = con => p[2] # cur
    BY <2>2 DEF Here
  <2>4. ~Behind(p) /\ ~Leaving(p) /\ (Ahead(p)' <=> Ahead(p))
    BY <1>1, <1>2, <2>1, <2>2, <2>3 DEF Behind, Leaving, Ahead, IMV
  <2> QED
    BY <1>4, <2>2, <2>4 DEF MInv, RoundsKept
<1> QED
  BY <1>5, <1>6, <1>7, <1>8 DEF MInv

LEMMA LibraryKeeps ==
    ASSUME TypeOK, IInv, LInv, MInv, LibraryStep
    PROVE  MInv'
<1>1. CASE CreateInstance \/ Find \/ Speak \/ Send
  BY <1>1, CreateKeeps, FindKeeps, CallbackKeeps
<1>2. CASE MethodSucceeds /\ ReturnSuccess
  BY <1>2, SuccessKeeps
<1>3. CASE (Refused \/ MethodFails \/ (CreateFails /\ UNCHANGED instances)) /\ ReturnError
  <2>1. /\ Running /\ inside' = FALSE /\ UNCHANGED <<instances, batches>>
        /\ round' = round \/ AfterMethod
    BY <1>3 DEF ReturnError, Refused, MethodFails, CreateFails, Called, lib, AfterMethod, MInv,
                LTypes
  <2> QED
    BY <1>3, <2>1, ErrorKeeps
<1>4. CASE (Refused \/ MethodSucceeds \/ MethodFails) /\ ReturnFromDelete
  <2>1. /\ Running /\ Fail /\ inside' = FALSE /\ UNCHANGED <<instances, batches>>
        /\ UNCHANGED <<known, phase, con, fatal>> /\ call = "delete"
        /\ round' = round \/ AfterMethod
    BY <1>4 DEF ReturnFromDelete, Refused, MethodSucceeds, MethodFails, Called, lib,
                AfterMethod, MInv, LTypes, Running, tables, loop
  <2>2. Here \notin instances
    BY <1>4, <2>1 DEF Refused, CallOfCreate, MethodSucceeds, MethodFails, MInv, DeleteIsDone
  <2>3. \A p \in instances : p[2] \notin fatal
    BY DEF MInv, OnlyConstructed
  <2> QED
    BY <2>1, <2>2, <2>3, EndKeeps
<1>5. CASE (CreateFails \/ MethodThrows) /\ ReturnFatal /\ Terminate
  <2>1. /\ Running /\ Fail /\ inside' = FALSE /\ UNCHANGED batches
        /\ UNCHANGED <<known, phase, con>> /\ fatal' = fatal \cup {cur}
        /\ instances' = {p \in instances : p[2] # cur}
        /\ round' = round \/ AfterMethod
    BY <1>5 DEF ReturnFatal, CreateFails, MethodThrows, Called, Terminate, AfterMethod, MInv,
                LTypes, tables, loop
  <2>2. \A p \in instances' : p[2] \notin fatal'
    BY <2>1 DEF MInv, OnlyConstructed
  <2>3. Here \notin instances'
    BY <2>1 DEF Here
  <2> QED
    BY <2>1, <2>2, <2>3, EndKeeps
<1>6. CASE CreateFails
  BY <1>3, <1>5, <1>6 DEF CreateFails
<1>7. CASE Refused
  BY <1>3, <1>4, <1>7 DEF Refused
<1>8. CASE MethodSucceeds
  BY <1>2, <1>4, <1>8 DEF MethodSucceeds
<1>9. CASE MethodFails
  BY <1>3, <1>4, <1>9 DEF MethodFails
<1>10. CASE MethodThrows
  BY <1>5, <1>10 DEF MethodThrows
<1> QED
  BY <1>1, <1>6, <1>7, <1>8, <1>9, <1>10 DEF LibraryStep

LEMMA MInvStep == TypeOK /\ IInv /\ LInv /\ MInv /\ [LNext]_lvars => MInv'
<1> SUFFICES ASSUME TypeOK, IInv, LInv, MInv, [LNext]_lvars
             PROVE  MInv'
  OBVIOUS
<1>1. CASE ServerStep
  BY <1>1, ServerInstance, CallingKeeps, PassedOverKeeps, ShutDownKeeps, NextLoopKeeps,
     StillKeeps DEF MInv
<1>2. CASE UNCHANGED lvars
  <2>1. Still /\ UNCHANGED lib
    BY <1>2 DEF lvars, vars, Still, Fixed, tables, objects, loop
  <2> QED
    BY <2>1, StillKeeps
<1> QED
  BY <1>1, <1>2, LibraryKeeps DEF LNext

LEMMA MInvInit == LInit => MInv
<1> SUFFICES ASSUME LInit PROVE MInv
  OBVIOUS
<1>1. /\ instances = {} /\ inside = FALSE /\ round = [p \in Pair |-> 0]
      /\ batches = [c \in Conn |-> 0] /\ known = {} /\ phase = "idle" /\ call = "none"
  BY DEF LInit, Init
<1>2. Constructed = {}
  BY <1>1 DEF Constructed
<1> QED
  BY <1>1, <1>2 DEF MInv, LTypes, CallsOfLoop, OnlyConstructed, ErrorsMatch, DeleteIsDone,
                    RoundsKept, NothingProcessed

LEMMA InstancesInvariant == LSpec => []MInv
<1> QED
  BY MInvInit, MInvStep, ServerSpec, Typing, Invariance, VoicesHaveInstances, PTL DEF LSpec

\* Between two calls the flags of the server and the maps of the libraries
\* agree, although neither knows of the other: an IMV works in the eyes of the
\* server exactly if its library has an instance for the connection.
THEOREM ErrorsMatchInstances == LSpec => []ErrorsAreMissingInstances
<1>1. MInv => ErrorsAreMissingInstances
  BY DEF MInv, ErrorsMatch, ErrorsAreMissingInstances
<1> QED
  BY <1>1, InstancesInvariant, PTL

\* The libraries count the batches of a handshake as the server does, whatever
\* failed in between and whichever connections are served in turn.
THEOREM RoundsCountBatches == LSpec => []RoundsAreBatches
<1>1. TypeOK /\ MInv => RoundsAreBatches
  <2> SUFFICES ASSUME TypeOK, MInv, phase \in {"idle", "deliver", "solicit", "final"},
                      NEW p \in instances
               PROVE  round[p] = batches[p[1]]
    BY DEF RoundsAreBatches
  <2>1. p \in Pair /\ p[1] \in Conn /\ batches[p[1]] \in Nat
    BY DEF MInv, LTypes, Pair
  <2>2. ~Behind(p) /\ ~Ahead(p) /\ ~Leaving(p)
    BY DEF Behind, Ahead, Leaving
  <2> QED
    BY <2>1, <2>2 DEF MInv, RoundsKept
<1> QED
  BY <1>1, InstancesInvariant, ServerSpec, Typing, PTL

=============================================================================
