---------------------------- MODULE Tncs_proofs ----------------------------
(***************************************************************************)
(* Theorems about the TNC server for any number of endpoints, IMVs and     *)
(* message types, whatever functions the libraries lack and whatever they  *)
(* answer.                                                                 *)
(***************************************************************************)
EXTENDS Tncs, TLAPS

USE NumIMVAssumption, HandlesAssumption, LacksAssumption, BatchesAssumption,
    UsersAssumption, NoConnAssumption

-----------------------------------------------------------------------------
(* What the pieces of the actions do to the types.                         *)

\* The part of TypeOK about the loop variables, after a completed turn.
TurnOK == /\ cur \in 0 .. NumIMV
          /\ call = "none"
          /\ votes \in [allow : BOOLEAN, isolate : BOOLEAN]

\* The part of TypeOK about the IMV objects.
ObjectsOK == /\ error \subseteq Pair /\ provided \subseteq Pair
             /\ rec \in [Pair -> Rec] /\ said \in [Pair -> Rec]

\* The IMV object of a turn is one of the connection's IMV objects.
LEMMA HereIsPair == ASSUME TypeOK, phase # "idle", cur < NumIMV
                    PROVE  Here \in Pair /\ cur \in IMV /\ cur + 1 \in 0 .. NumIMV
  BY DEF TypeOK, Here, Pair, IMV

\* The policy's accumulators stay a pair of Booleans.
LEMMA CountType == ASSUME TypeOK, NEW r
                   PROVE  Count(r) \in [allow : BOOLEAN, isolate : BOOLEAN]
  BY DEF TypeOK, Count

\* One turn of a loop keeps the loop's variables well-typed.
LEMMA AdvanceType ==
    ASSUME TypeOK, Advance, phase # "idle", cur < NumIMV
    PROVE  TurnOK'
  BY HereIsPair, CountType DEF Advance, TurnOK, TypeOK

\* handleOtherError keeps the IMV objects and the loop well-typed.
LEMMA FailType ==
    ASSUME TypeOK, Fail, phase # "idle", cur < NumIMV
    PROVE  ObjectsOK' /\ TurnOK'
  <1>1. Here \in Pair
    BY HereIsPair
  <1>2. Advance
    BY DEF Fail
  <1>3. NoRec \in Rec
    BY DEF Rec
  <1>4. error' \subseteq Pair /\ provided' \subseteq Pair
    BY <1>1 DEF Fail, TypeOK
  <1>5. rec' \in [Pair -> Rec] /\ said' \in [Pair -> Rec]
    BY <1>1, <1>3 DEF Fail, TypeOK
  <1> QED
    BY <1>2, <1>4, <1>5, AdvanceType DEF ObjectsOK

\* A call into a library keeps the types, whether the library is entered or
\* the IMV fails at once.
LEMMA CallImvType ==
    ASSUME TypeOK, NEW fn \in Function \ {"none"}, CallImv(fn),
           phase # "idle", cur < NumIMV
    PROVE  TypeOK'
  <1>1. CASE Enter(fn)
    BY <1>1 DEF Enter, TypeOK, tables, objects, loop
  <1>2. CASE FailAtOnce(fn)
    <2>1. Fail
      BY <1>2 DEF FailAtOnce
    <2>2. ObjectsOK' /\ TurnOK'
      BY <2>1, FailType
    <2> QED
      BY <1>2, <2>2 DEF FailAtOnce, TypeOK, tables, loop, ObjectsOK, TurnOK,
                        Function
  <1>3. CASE FailWithDelete(fn)
    BY <1>3 DEF FailWithDelete, TypeOK, tables, objects, loop, Function
  <1> QED
    BY <1>1, <1>2, <1>3 DEF CallImv

\* So does the call that tells an IMV of a new connection or handshake.
LEMMA NotifyAnewType ==
    ASSUME TypeOK, NotifyAnew, phase # "idle", cur < NumIMV
    PROVE  TypeOK'
  <1>1. CASE FailAtOnce("notify")
    BY <1>1, CallImvType DEF CallImv, Function
  <1>2. CASE ~FailAtOnce("notify")
    <2>1. Here \in Pair /\ NoRec \in Rec
      BY HereIsPair DEF Rec
    <2> QED
      BY <1>2, <2>1 DEF NotifyAnew, Cleared, TypeOK, Function, tables, loop
  <1> QED
    BY <1>1, <1>2

\* A skipped turn keeps the types.
LEMMA SkipType ==
    ASSUME TypeOK, Skip, phase # "idle", cur < NumIMV
    PROVE  TypeOK'
  <1>1. TurnOK'
    BY AdvanceType DEF Skip
  <1> QED
    BY <1>1 DEF Skip, TypeOK, tables, objects, loop, TurnOK, Function

\* TypeOK: every variable has its type in every reachable state, an IMV is at
\* hand whenever a library runs, and a connection is whenever the server does.
THEOREM Typing == Spec => []TypeOK
<1>1. Init => TypeOK
  BY DEF Init, TypeOK, ConState, Rec, NoRec, Phase, Function, Undecided, Pair
<1>2. TypeOK /\ [Next]_vars => TypeOK'
  <2> SUFFICES ASSUME TypeOK, [Next]_vars
               PROVE  TypeOK'
    OBVIOUS
  <2>1. ASSUME NEW c \in Conn, GetConnection(c) PROVE TypeOK'
    BY <2>1 DEF GetConnection, TypeOK, GoTo, Forget, Phase, Function, ConState,
                Rec, Pair
  <2>2. ASSUME NEW c \in Conn, NEW b \in Batches, ProcessBatch(c, b) PROVE TypeOK'
    BY <2>2 DEF ProcessBatch, TypeOK, GoTo, Phase, Function, objects
  <2>3. ASSUME NEW c \in Conn, RejectBatch(c) PROVE TypeOK'
    BY <2>3 DEF RejectBatch, TypeOK, ConState, Decided, objects, loop
  <2>4. ASSUME NEW c \in Conn, SetUsername(c) PROVE TypeOK'
    BY <2>4 DEF SetUsername, TypeOK, objects, loop
  <2>5. ASSUME CreateImv PROVE TypeOK'
    BY <2>5, NotifyAnewType DEF CreateImv, AtIMV
  <2>6. ASSUME EndCreate PROVE TypeOK'
    BY <2>6 DEF EndCreate, PastLast, TypeOK, GoTo, Phase, Function, ConState, objects
  <2>7. ASSUME StartImv PROVE TypeOK'
    BY <2>7, NotifyAnewType DEF StartImv, AtIMV
  <2>8. ASSUME EndHandshakeNotification PROVE TypeOK'
    BY <2>8 DEF EndHandshakeNotification, PastLast, Return, GoTo, TypeOK, Phase,
                Function, Undecided, Rec, NoRec, objects
  <2>9. ASSUME DeliverMessage PROVE TypeOK'
    BY <2>9, CallImvType, SkipType DEF DeliverMessage, AtIMV, Function
  <2>10. ASSUME EndMessage PROVE TypeOK'
    BY <2>10 DEF EndMessage, PastLast, GoTo, TypeOK, Phase, Function, tables, objects
  <2>11. ASSUME EndDelivery PROVE TypeOK'
    BY <2>11 DEF EndDelivery, AtIMV, GoTo, TypeOK, Phase, Function, tables, objects
  <2>12. ASSUME EndBatchOfImv PROVE TypeOK'
    BY <2>12, CallImvType, SkipType DEF EndBatchOfImv, AtIMV, Function
  <2>13. ASSUME Answer PROVE TypeOK'
    BY <2>13 DEF Answer, PastLast, Return, GoTo, TypeOK, Phase, Function,
                 Undecided, Rec, NoRec, tables, objects
  <2>14. ASSUME AskPdp PROVE TypeOK'
    BY <2>14 DEF AskPdp, Decide, PastLast, GoTo, TypeOK, Phase, Function, tables, objects
  <2>15. ASSUME PdpThrows PROVE TypeOK'
    BY <2>15 DEF PdpThrows, PastLast, Return, GoTo, TypeOK, Phase, Function,
                 Undecided, Rec, NoRec, ConState, Decided, objects
  <2>16. ASSUME AskPolicy PROVE TypeOK'
    BY <2>16 DEF AskPolicy, PastLast, GoTo, TypeOK, Phase, Function, Undecided,
                 tables, objects
  <2>17. ASSUME Solicit PROVE TypeOK'
    BY <2>17, CallImvType, SkipType DEF Solicit, AtIMV, Function
  <2>18. ASSUME EndPolicy PROVE TypeOK'
    BY <2>18 DEF EndPolicy, Decide, PastLast, GoTo, TypeOK, Phase, Function, Rec,
                 tables, objects
  <2>19. ASSUME AnnounceToImv PROVE TypeOK'
    BY <2>19, CallImvType, SkipType DEF AnnounceToImv, AtIMV, Function
  <2>20. ASSUME EndAnnouncement PROVE TypeOK'
    <3>1. StateOf(decision) \in ConState
      BY DEF StateOf, ConState, Decided
    <3> QED
      BY <2>20, <3>1 DEF EndAnnouncement, PastLast, Return, GoTo, TypeOK, Phase,
                         Function, Undecided, Rec, NoRec, objects
  <2>21. ASSUME LibraryReturn PROVE TypeOK'
    <3>1. phase # "idle" /\ cur < NumIMV
      BY <2>21 DEF LibraryReturn, ReturnSuccess, ReturnError, ReturnFromDelete,
                   ReturnFatal, Running, TypeOK
    <3>2. CASE ReturnSuccess
      BY <3>1, <3>2, SkipType DEF ReturnSuccess
    <3>3. CASE ReturnError
      <4>1. CASE "notify" \in Lacks[cur]
        <5>1. ObjectsOK' /\ TurnOK'
          BY <3>1, <3>3, <4>1, FailType DEF ReturnError
        <5> QED
          BY <3>3, <4>1, <5>1 DEF ReturnError, TypeOK, tables, loop, ObjectsOK,
                                  TurnOK, Function
      <4>2. CASE "notify" \notin Lacks[cur]
        BY <3>1, <3>3, <4>2 DEF ReturnError, TypeOK, Function, tables, objects, loop
      <4> QED
        BY <4>1, <4>2
    <3>4. CASE ReturnFromDelete
      <4>1. ObjectsOK' /\ TurnOK'
        BY <3>1, <3>4, FailType DEF ReturnFromDelete
      <4> QED
        BY <3>4, <4>1 DEF ReturnFromDelete, TypeOK, tables, loop, ObjectsOK,
                          TurnOK, Function
    <3>5. CASE ReturnFatal
      <4>1. ObjectsOK' /\ TurnOK' /\ cur \in IMV
        BY <3>1, <3>5, FailType, HereIsPair DEF ReturnFatal
      <4> QED
        BY <3>5, <4>1 DEF ReturnFatal, TypeOK, tables, loop, ObjectsOK, TurnOK,
                          Function
    <3> QED
      BY <2>21, <3>2, <3>3, <3>4, <3>5 DEF LibraryReturn
  <2>22. ASSUME NEW c \in Conn, NEW r \in Rec, ProvideRecommendation(c, r)
         PROVE  TypeOK'
    <3>1. <<c, cur>> \in Pair
      BY <2>22, HereIsPair DEF ProvideRecommendation, Running, TypeOK, Pair
    <3> QED
      BY <2>22, <3>1 DEF ProvideRecommendation, TypeOK, tables, loop
  <2>23. ASSUME SendMessage PROVE TypeOK'
    BY <2>23 DEF SendMessage, TypeOK, objects, loop
  <2>24. CASE UNCHANGED vars
    BY <2>24 DEF vars, TypeOK, tables, objects, loop
  <2> QED
    BY <2>1, <2>2, <2>3, <2>4, <2>5, <2>6, <2>7, <2>8, <2>9, <2>10, <2>11,
       <2>12, <2>13, <2>14, <2>15, <2>16, <2>17, <2>18, <2>19, <2>20, <2>21,
       <2>22, <2>23, <2>24
       DEF Next, NalCall, Engine, Callback, Stopped
<1> QED
  BY <1>1, <1>2, PTL DEF Spec

-----------------------------------------------------------------------------
(* Every step is of one of these kinds, as far as the IMV objects, the     *)
(* shut libraries and the loops are concerned.                             *)

\* getConnection forgets the voices of the connection.
Opening == /\ phase = "idle" /\ call' = "none"
           /\ \E c \in Conn : con' = c /\ Forget(c)
           /\ phase' \in {"create", "handshake"} /\ cur' = 0
           /\ phase' = "create" => con' \notin known
           /\ UNCHANGED <<known, fatal, error, provided, rec>>

InTurn == phase # "idle" /\ cur < NumIMV

\* A library starts to execute a call.
Entering == /\ InTurn /\ cur \notin fatal /\ Here \notin error'
            /\ call' # "none"
            /\ UNCHANGED <<known, fatal, phase, con, cur, votes>>
            /\ \/ UNCHANGED objects /\ phase \notin {"create", "handshake"}
               \/ UNCHANGED objects /\ Running
               \/ Cleared /\ ~Running /\ phase \in {"create", "handshake"}

\* An IMV's turn ends well, or there is none.
Passing == /\ InTurn /\ Advance
           /\ UNCHANGED <<known, fatal, phase, con, objects>>
           /\ \/ Running
              \/ phase = "ending" /\ Here \in error
              \/ phase \notin {"create", "handshake", "ending"}

\* It ends with an error.
Failing == /\ InTurn /\ Fail
           /\ fatal' \in {fatal, fatal \cup {cur}}
           /\ UNCHANGED <<known, phase, con>>

Speaking == \E c \in Conn, r \in Rec : ProvideRecommendation(c, r)

\* The server goes from loop to loop.
Moving ==
    /\ UNCHANGED <<fatal, objects>>
    /\ call = "none" /\ call' = "none" /\ cur' = 0
    /\ \/ phase = "create" /\ phase' = "handshake" /\ con' = con
       \/ phase = "handshake" /\ cur = NumIMV /\ phase' = "idle"
       \/ phase = "idle" /\ phase' = "deliver"
       \/ phase = "deliver" /\ phase' \in {"deliver", "ending"} /\ con' = con
       \/ phase = "ending" /\ phase' \in {"idle", "final"}
       \/ /\ phase = "ending" /\ cur = NumIMV /\ phase' = "solicit"
          /\ con' = con /\ votes' = Undecided
       \/ phase = "solicit" /\ EndPolicy
       \/ phase = "final" /\ phase' = "idle"

Resting == UNCHANGED <<known, fatal, objects, phase, con, cur, call, votes>>

\* A call that the server makes on behalf of an IMV without an error.
LEMMA CallImvKind ==
    ASSUME NEW fn \in Function \ {"none"}, CallImv(fn), InTurn,
           Here \notin error, phase \notin {"create", "handshake"}
    PROVE  Entering \/ Failing
  BY DEF CallImv, Enter, FailAtOnce, FailWithDelete, Entering, Failing, Function,
         tables, objects, loop

LEMMA NotifyAnewKind ==
    ASSUME NotifyAnew, InTurn, ~Running, phase \in {"create", "handshake"}
    PROVE  Entering \/ Failing
  BY DEF NotifyAnew, FailAtOnce, Cleared, Entering, Failing, tables, loop

LEMMA SkipKind ==
    ASSUME Skip, InTurn,
           \/ Running
           \/ phase = "ending" /\ Here \in error
           \/ phase \notin {"create", "handshake", "ending"}
    PROVE  Passing
  BY DEF Skip, Passing, tables, objects, loop

\* While a library runs, an IMV without an error is at hand.
LEMMA LibraryKind ==
    ASSUME TypeOK, CallsOnlyLiveImvs, LibraryReturn
    PROVE  Entering \/ Passing \/ Failing
<1>1. InTurn /\ Running
  BY DEF LibraryReturn, ReturnSuccess, ReturnError, ReturnFromDelete, ReturnFatal,
         Running, TypeOK, InTurn
<1>2. CASE ReturnSuccess
  BY <1>1, <1>2, SkipKind DEF ReturnSuccess
<1>3. CASE ReturnError
  BY <1>1, <1>3 DEF ReturnError, Entering, Failing, CallsOnlyLiveImvs, tables, objects, loop
<1>4. CASE ReturnFromDelete \/ ReturnFatal
  BY <1>1, <1>4 DEF ReturnFromDelete, ReturnFatal, Failing, tables, loop
<1> QED
  BY <1>2, <1>3, <1>4 DEF LibraryReturn

LEMMA EngineKind ==
    ASSUME TypeOK, Engine
    PROVE  Entering \/ Passing \/ Failing \/ Moving
<1>1. CASE CreateImv \/ StartImv
  BY <1>1, NotifyAnewKind DEF CreateImv, StartImv, AtIMV, InTurn, Running
<1>2. CASE DeliverMessage
  BY <1>2, CallImvKind, SkipKind DEF DeliverMessage, AtIMV, InTurn, Function
<1>3. CASE EndBatchOfImv
  BY <1>3, CallImvKind, SkipKind DEF EndBatchOfImv, AtIMV, InTurn, Function
<1>4. CASE Solicit
  BY <1>4, CallImvKind, SkipKind DEF Solicit, AtIMV, InTurn, Function
<1>5. CASE AnnounceToImv
  BY <1>5, CallImvKind, SkipKind DEF AnnounceToImv, AtIMV, InTurn, Function
<1>6. CASE EndCreate \/ EndHandshakeNotification \/ EndMessage \/ EndDelivery
  BY <1>6 DEF EndCreate, EndHandshakeNotification, EndMessage, EndDelivery,
              AtIMV, PastLast, GoTo, Return, Moving
<1>7. CASE Answer \/ AskPdp \/ PdpThrows \/ AskPolicy
  BY <1>7 DEF Answer, AskPdp, PdpThrows, AskPolicy, PastLast, GoTo, Decide,
              Return, Moving
<1>8. CASE EndPolicy
  BY <1>8 DEF EndPolicy, PastLast, GoTo, Decide, Moving
<1>9. CASE EndAnnouncement
  BY <1>9 DEF EndAnnouncement, PastLast, GoTo, Return, Moving
<1> QED
  BY <1>1, <1>2, <1>3, <1>4, <1>5, <1>6, <1>7, <1>8, <1>9 DEF Engine

LEMMA StepKind ==
    ASSUME TypeOK, CallsOnlyLiveImvs, [Next]_vars
    PROVE  \/ Opening \/ Entering \/ Passing \/ Failing
           \/ Speaking \/ Moving \/ Resting
<1>1. ASSUME NEW c \in Conn, GetConnection(c) PROVE Opening
  BY <1>1 DEF GetConnection, Opening, GoTo
<1>2. ASSUME NEW c \in Conn, NEW b \in Batches, ProcessBatch(c, b) PROVE Moving
  BY <1>2 DEF ProcessBatch, Moving, GoTo, TypeOK
<1>3. ASSUME NEW c \in Conn, RejectBatch(c) \/ SetUsername(c) PROVE Resting
  BY <1>3 DEF RejectBatch, SetUsername, Resting, loop
<1>4. CASE SendMessage \/ Stopped \/ UNCHANGED vars
  BY <1>4 DEF SendMessage, Stopped, vars, Resting, tables, loop
<1>5. CASE \E c \in Conn, r \in Rec : ProvideRecommendation(c, r)
  BY <1>5 DEF Speaking
<1> QED
  BY <1>1, <1>2, <1>3, <1>4, <1>5, EngineKind, LibraryKind
     DEF Next, NalCall, Callback

-----------------------------------------------------------------------------
(* The inductive invariant, part by part.                                  *)

\* A library is entered only for an IMV without an error and only while it is
\* not shut down; a turn that ends leaves no library running.
LEMMA CallsOnlyLiveImvsStep ==
    ASSUME TypeOK, CallsOnlyLiveImvs, [Next]_vars
    PROVE  CallsOnlyLiveImvs'
<1>1. CASE Opening \/ Passing \/ Failing \/ Moving
  BY <1>1 DEF Opening, Passing, Failing, Moving, Fail, Advance,
              CallsOnlyLiveImvs, Running
<1>2. CASE Entering
  BY <1>2 DEF Entering, CallsOnlyLiveImvs, Here
<1>3. CASE Speaking
  BY <1>3 DEF Speaking, ProvideRecommendation, CallsOnlyLiveImvs, Running, Here, loop
<1>4. CASE Resting
  BY <1>4 DEF Resting, CallsOnlyLiveImvs, Running, Here, objects
<1> QED
  BY <1>1, <1>2, <1>3, <1>4, StepKind

\* Nobody speaks about a connection that is under construction.
LEMMA CreatedInSilenceStep ==
    ASSUME TypeOK, CallsOnlyLiveImvs, CreatedInSilence, [Next]_vars
    PROVE  CreatedInSilence'
<1>1. CASE Opening
  BY <1>1 DEF Opening, Forget, CreatedInSilence, Pair
<1>2. CASE Entering
  BY <1>2 DEF Entering, Cleared, objects, CreatedInSilence
<1>3. CASE Passing \/ Resting
  BY <1>3 DEF Passing, Resting, objects, CreatedInSilence
<1>4. CASE Moving
  BY <1>4 DEF Moving, EndPolicy, Decide, GoTo, objects, CreatedInSilence
<1>5. CASE Failing
  BY <1>5 DEF Failing, Fail, CreatedInSilence, TypeOK, Pair, Here
<1>6. CASE Speaking
  <2>1. PICK c \in Conn, r \in Rec : ProvideRecommendation(c, r)
    BY <1>6 DEF Speaking
  <2>2. phase = "create" => c # con
    BY <2>1 DEF ProvideRecommendation, CreatedInSilence
  <2> QED
    BY <2>1, <2>2 DEF ProvideRecommendation, CreatedInSilence, TypeOK, Pair,
                      loop, tables
<1> QED
  BY <1>1, <1>2, <1>3, <1>4, <1>5, <1>6, StepKind

\* The flags of an IMV object are cleared before its library may speak, and
\* follow what it says afterwards.
LEMMA VoicesKeptStep ==
    ASSUME TypeOK, CallsOnlyLiveImvs, CreatedInSilence, VoicesKept, [Next]_vars
    PROVE  VoicesKept'
<1> SUFFICES ASSUME NEW p \in Pair
             PROVE  IF NotYetCleared(p)'
                    THEN said'[p] = NoRec
                    ELSE Read(p, provided', rec') = said'[p]
  BY DEF VoicesKept, Read
<1>0. IF NotYetCleared(p)
      THEN said[p] = NoRec
      ELSE Read(p, provided, rec) = said[p]
  BY DEF VoicesKept
<1>1. PICK c \in Conn, i \in IMV : p = <<c, i>>
  BY DEF Pair
<1>2. i \in Nat
  BY DEF IMV
<1>3. CASE Opening
  BY <1>0, <1>1, <1>2, <1>3 DEF Opening, Forget, NotYetCleared, Running, Read, TypeOK
<1>4. CASE Entering
  <2>1. CASE UNCHANGED objects /\ phase \notin {"create", "handshake"}
    BY <1>0, <1>4, <2>1 DEF Entering, objects, NotYetCleared, Read
  <2>2. CASE UNCHANGED objects /\ Running
    BY <1>0, <1>4, <2>2 DEF Entering, objects, NotYetCleared, Read, Running
  <2>3. CASE Cleared /\ phase \in {"create", "handshake"} /\ ~Running
    <3>1. NotYetCleared(p)' <=> p[1] = con /\ p[2] > cur
      BY <1>4, <2>3 DEF Entering, NotYetCleared, Running
    <3>2. NotYetCleared(p) <=> p[1] = con /\ (p[2] > cur \/ p[2] = cur)
      BY <2>3 DEF NotYetCleared
    <3>3. CASE p = Here
      BY <1>0, <2>3, <3>1, <3>2, <3>3 DEF Cleared, Here, Read, TypeOK
    <3>4. CASE p # Here
      BY <1>0, <1>1, <2>3, <3>1, <3>2, <3>4 DEF Cleared, Here, Read, TypeOK
    <3> QED
      BY <3>3, <3>4
  <2> QED
    BY <1>4, <2>1, <2>2, <2>3 DEF Entering
<1>5. CASE Passing
  <2>1. NotYetCleared(p)' => NotYetCleared(p)
    BY <1>1, <1>2, <1>5 DEF Passing, Advance, InTurn, NotYetCleared, Running, TypeOK
  <2>2. NotYetCleared(p) => NotYetCleared(p)'
    BY <1>1, <1>2, <1>5 DEF Passing, Advance, InTurn, NotYetCleared, Running, TypeOK
  <2> QED
    BY <1>0, <1>5, <2>1, <2>2 DEF Passing, objects, Read
<1>6. CASE Failing
  <2>1. CASE p = Here
    <3>1. ~NotYetCleared(p)'
      BY <1>6, <2>1 DEF Failing, Fail, Advance, InTurn, NotYetCleared, Here, TypeOK
    <3> QED
      BY <1>6, <2>1, <3>1 DEF Failing, Fail, Read, TypeOK
  <2>2. CASE p # Here
    <3>1. NotYetCleared(p)' <=> NotYetCleared(p)
      BY <1>1, <1>2, <1>6, <2>2 DEF Failing, Fail, Advance, InTurn, NotYetCleared,
                                    Running, Here, TypeOK
    <3>2. /\ p \in provided' <=> p \in provided
          /\ rec'[p] = rec[p] /\ said'[p] = said[p]
      BY <1>6, <2>2 DEF Failing, Fail, TypeOK
    <3> QED
      BY <1>0, <3>1, <3>2 DEF Read
  <2> QED
    BY <2>1, <2>2
<1>7. CASE Speaking
  <2>1. PICK d \in Conn, r \in Rec : ProvideRecommendation(d, r)
    BY <1>7 DEF Speaking
  <2>2. NotYetCleared(p)' <=> NotYetCleared(p)
    BY <2>1 DEF ProvideRecommendation, NotYetCleared, Running, loop
  <2>3. CASE p = <<d, cur>>
    <3>1. ~NotYetCleared(p)
      BY <2>1, <2>3 DEF ProvideRecommendation, NotYetCleared, TypeOK
    <3> QED
      BY <2>1, <2>2, <2>3, <3>1 DEF ProvideRecommendation, Read, TypeOK
  <2>4. CASE p # <<d, cur>>
    <3>1. /\ p \in provided' <=> p \in provided
          /\ rec'[p] = rec[p] /\ said'[p] = said[p]
      BY <2>1, <2>4 DEF ProvideRecommendation, TypeOK
    <3> QED
      BY <1>0, <2>2, <3>1 DEF Read
  <2> QED
    BY <2>3, <2>4
<1>8. CASE Moving
  <2>1. CASE phase = "create"
    <3>1. p[1] = con => said[p] = NoRec
      BY <1>1, <2>1 DEF CreatedInSilence
    <3>2. p[1] = con => NotYetCleared(p)'
      BY <1>1, <1>2, <1>8, <2>1 DEF Moving, NotYetCleared, Running
    <3>3. p[1] # con => ~NotYetCleared(p) /\ ~NotYetCleared(p)'
      BY <1>8, <2>1 DEF Moving, NotYetCleared
    <3> QED
      BY <1>0, <1>8, <3>1, <3>2, <3>3 DEF Moving, objects, Read
  <2>2. CASE phase # "create"
    <3>1. ~NotYetCleared(p)'
      BY <1>8, <2>2 DEF Moving, EndPolicy, Decide, GoTo, NotYetCleared
    <3>2. ~NotYetCleared(p)
      BY <1>1, <1>2, <1>8, <2>2
         DEF Moving, EndPolicy, Decide, GoTo, NotYetCleared, IMV, TypeOK
    <3> QED
      BY <1>0, <1>8, <3>1, <3>2 DEF Moving, objects, Read
  <2> QED
    BY <2>1, <2>2
<1>9. CASE Resting
  BY <1>0, <1>9 DEF Resting, objects, NotYetCleared, Running, Read
<1> QED
  BY <1>3, <1>4, <1>5, <1>6, <1>7, <1>8, <1>9, StepKind

\* The turn of an IMV adds exactly its voice to the accumulators.
LEMMA VotesCountedStep ==
    ASSUME TypeOK, CallsOnlyLiveImvs, VoicesKept, VoicesKept', VotesCounted,
           [Next]_vars
    PROVE  VotesCounted'
<1> SUFFICES ASSUME phase' = "solicit"
             PROVE  VotesCounted'
  BY DEF VotesCounted
<1>1. CASE Opening
  BY <1>1 DEF Opening
<1>2. CASE Entering \/ Resting
  BY <1>2 DEF Entering, Resting, Cleared, objects, VotesCounted
<1>3. ASSUME phase = "solicit", InTurn, Advance, con' = con,
             \A i \in IMV : i < cur => said'[<<con, i>>] = said[<<con, i>>],
             Read(Here, provided', rec') = said'[Here]
      PROVE  VotesCounted'
  <2>1. votes' = Count(said'[Here])
    BY <1>3 DEF Advance
  <2>2. cur \in IMV
    BY <1>3, HereIsPair DEF InTurn
  <2>3. \A i \in IMV : i < cur' <=> i < cur \/ i = cur
    BY <1>3, <2>2 DEF Advance, IMV
  <2> QED
    BY <1>3, <2>1, <2>2, <2>3 DEF VotesCounted, Count, Here
<1>4. CASE Passing
  <2>1. ~NotYetCleared(Here) /\ Here \in Pair
    BY <1>4, HereIsPair DEF Passing, NotYetCleared, InTurn
  <2>2. Read(Here, provided', rec') = said'[Here]
    BY <1>4, <2>1 DEF Passing, objects, VoicesKept, Read
  <2> QED
    BY <1>3, <1>4, <2>2 DEF Passing, objects
<1>5. CASE Failing
  <2>1. Here \in Pair
    BY <1>5, HereIsPair DEF Failing, InTurn
  <2>2. Read(Here, provided', rec') = said'[Here]
    BY <1>5, <2>1 DEF Failing, Fail, Read, TypeOK
  <2>3. \A i \in IMV : i < cur => said'[<<con, i>>] = said[<<con, i>>]
    BY <1>5, <2>1 DEF Failing, Fail, Here, TypeOK, Pair, IMV
  <2> QED
    BY <1>3, <1>5, <2>2, <2>3 DEF Failing, Fail
<1>6. CASE Speaking
  BY <1>6 DEF Speaking, ProvideRecommendation, VotesCounted, TypeOK, Pair, IMV, loop
<1>7. CASE Moving
  BY <1>7 DEF Moving, EndPolicy, Decide, GoTo, VotesCounted, Undecided, IMV
<1> QED
  BY <1>1, <1>2, <1>4, <1>5, <1>6, <1>7, StepKind

\* An IMV that batchEnding passed has an error or a library that was not shut
\* down; a shutdown after that is an error of the IMV at hand.
LEMMA FatalHasFailedStep ==
    ASSUME TypeOK, CallsOnlyLiveImvs, FatalHasFailed, [Next]_vars
    PROVE  FatalHasFailed'
<1> SUFFICES ASSUME phase' \in {"ending", "solicit"},
                    NEW i \in fatal', phase' = "solicit" \/ i < cur'
             PROVE  <<con', i>> \in error'
  BY DEF FatalHasFailed
<1>1. CASE Opening
  BY <1>1 DEF Opening
<1>2. CASE Entering \/ Resting
  BY <1>2 DEF Entering, Resting, Cleared, objects, FatalHasFailed
<1>3. CASE Passing
  <2>1. CASE phase = "ending" /\ i = cur
    <3>1. Here \in error
      BY <1>3, <2>1 DEF Passing, CallsOnlyLiveImvs
    <3> QED
      BY <1>3, <2>1, <3>1 DEF Passing, objects, Here
  <2>2. CASE ~(phase = "ending" /\ i = cur)
    <3>1. phase = "solicit" \/ i < cur
      BY <1>3, <2>2 DEF Passing, Advance, InTurn, TypeOK, IMV
    <3> QED
      BY <1>3, <3>1 DEF Passing, objects, FatalHasFailed
  <2> QED
    BY <2>1, <2>2
<1>4. CASE Failing
  <2>1. CASE i = cur
    BY <1>4, <2>1 DEF Failing, Fail, Here
  <2>2. CASE i # cur
    <3>1. i \in fatal /\ (phase = "solicit" \/ i < cur)
      BY <1>4, <2>2 DEF Failing, Fail, Advance, InTurn, TypeOK, IMV
    <3> QED
      BY <1>4, <3>1 DEF Failing, Fail, FatalHasFailed
  <2> QED
    BY <2>1, <2>2
<1>5. CASE Speaking
  BY <1>5 DEF Speaking, ProvideRecommendation, FatalHasFailed, loop
<1>6. CASE Moving
  BY <1>6 DEF Moving, EndPolicy, Decide, GoTo, objects, FatalHasFailed, TypeOK, IMV
<1> QED
  BY <1>1, <1>2, <1>3, <1>4, <1>5, <1>6, StepKind

\* IInv: calls reach only live IMVs, and the flags, the accumulators and the
\* shut libraries agree with what was said in the handshake.
THEOREM Invariance == Spec => []IInv
<1>1. Init => IInv
  BY DEF Init, IInv, CallsOnlyLiveImvs, VoicesKept, CreatedInSilence, VotesCounted,
         FatalHasFailed, NotYetCleared, Running, Read
<1>2. TypeOK /\ IInv /\ [Next]_vars => IInv'
  BY CallsOnlyLiveImvsStep, CreatedInSilenceStep, VoicesKeptStep,
     VotesCountedStep, FatalHasFailedStep DEF IInv
<1> QED
  BY <1>1, <1>2, Typing, PTL DEF Spec

\* CallsOnlyLiveImvs: no call into a library that is shut down, none on behalf
\* of an IMV that has failed.
THEOREM LiveImvs == Spec => []CallsOnlyLiveImvs
<1>1. IInv => CallsOnlyLiveImvs
  BY DEF IInv
<1> QED
  BY <1>1, Invariance, PTL

-----------------------------------------------------------------------------
(* The decisions.                                                          *)

\* The loop of the policy ends only as EndPolicy ends it.
LEMMA PolicyStep ==
    ASSUME TypeOK, CallsOnlyLiveImvs, [Next]_vars,
           phase = "solicit", phase' = "final"
    PROVE  EndPolicy
  BY StepKind DEF Opening, Entering, Passing, Failing, Speaking, Moving, Resting,
                  ProvideRecommendation, loop

\* DecisionFollowsVoices: the policy decides by what the IMVs have said in
\* this handshake.
THEOREM Decision == Spec => DecisionFollowsVoices
<1>1. ASSUME TypeOK, IInv, [Next]_vars, phase = "solicit", phase' = "final"
      PROVE  decision' = PolicyOf(Voices(con))
  <2>1. EndPolicy
    BY <1>1, PolicyStep DEF IInv
  <2>2. \A i \in IMV : i < cur
    BY <2>1 DEF EndPolicy, PastLast, IMV
  <2>3. /\ votes.allow <=> \A i \in IMV : said[<<con, i>>] = "ALLOW"
        /\ votes.isolate <=> \A i \in IMV : said[<<con, i>>] \in {"ALLOW", "ISOLATE"}
    BY <1>1, <2>2 DEF IInv, VotesCounted
  <2> QED
    BY <2>1, <2>3 DEF EndPolicy, Decide, PolicyOf, Voices
<1>2. TypeOK /\ IInv /\ [Next]_vars
        => [phase = "solicit" /\ phase' = "final"
              => decision' = PolicyOf(Voices(con))]_vars
  BY <1>1
<1> QED
  BY <1>2, Typing, Invariance, PTL DEF Spec, DecisionFollowsVoices

\* AccessNeedsEveryLibrary: the policy denies access while a library is shut
\* down, unless the library has spoken for the connection after it had failed
\* for it.
THEOREM EveryLibrary == Spec => AccessNeedsEveryLibrary
<1>1. ASSUME TypeOK, IInv, [Next]_vars, phase = "solicit", phase' = "final",
             decision' # "NO_ACCESS"
      PROVE  \A i \in fatal : SpokenForAfterFailure(<<con, i>>)
  <2>1. EndPolicy
    BY <1>1, PolicyStep DEF IInv
  <2>2. \A i \in IMV : i < cur
    BY <2>1 DEF EndPolicy, PastLast, IMV
  <2>3. \A i \in IMV : said[<<con, i>>] \in {"ALLOW", "ISOLATE"}
    BY <1>1, <2>1, <2>2 DEF IInv, VotesCounted, EndPolicy, Decide
  <2>4. \A i \in fatal : i \in IMV /\ <<con, i>> \in error
    BY <1>1 DEF IInv, FatalHasFailed, TypeOK
  <2> QED
    BY <2>3, <2>4 DEF SpokenForAfterFailure, NoRec
<1>2. TypeOK /\ IInv /\ [Next]_vars
        => [phase = "solicit" /\ phase' = "final" /\ decision' # "NO_ACCESS"
              => \A i \in fatal : SpokenForAfterFailure(<<con, i>>)]_vars
  BY <1>1
<1> QED
  BY <1>2, Typing, Invariance, PTL DEF Spec, AccessNeedsEveryLibrary

-----------------------------------------------------------------------------
(* The outgoing batch.                                                     *)

\* The functions in which a library may send run in loops of their own.
SendingLoops == /\ call = "receive" => phase = "deliver"
                /\ call = "ending" => phase = "ending"

SendInv == SendingLoops /\ NoMessageDropped

\* A turn of a loop stays in the loop and leaves the outgoing batches alone.
Turning(fns) == /\ UNCHANGED <<phase, con, outgoing>>
                /\ call' \in fns \cup {"none", "delete"}

LEMMA CallImvTurns ==
    ASSUME NEW fn, CallImv(fn)
    PROVE  Turning({fn})
  BY DEF CallImv, Enter, FailAtOnce, FailWithDelete, Fail, Advance, Turning,
         tables, loop

LEMMA NotifyAnewTurns ==
    ASSUME NotifyAnew
    PROVE  Turning({"notify"})
  BY DEF NotifyAnew, FailAtOnce, Fail, Advance, Turning, tables, loop

LEMMA SkipTurns ==
    ASSUME Skip
    PROVE  Turning({})
  BY DEF Skip, Advance, Turning, tables, loop

LEMMA ReturnTurns ==
    ASSUME LibraryReturn
    PROVE  Turning({})
  BY SkipTurns DEF LibraryReturn, ReturnSuccess, ReturnError, ReturnFromDelete,
     ReturnFatal, Fail, Advance, Turning, tables, loop

\* NoMessageDropped: what an IMV was allowed to send is in the outgoing batch
\* before the server looks at it, and nothing is added once it decides.
THEOREM NothingDropped == Spec => []NoMessageDropped
<1>1. Init => SendInv
  BY DEF Init, SendInv, SendingLoops, NoMessageDropped
<1>2. SendInv /\ [Next]_vars => SendInv'
  <2> SUFFICES ASSUME SendInv, [Next]_vars
               PROVE  SendInv'
    OBVIOUS
  <2> USE DEF SendInv, SendingLoops, NoMessageDropped
  <2>1. CASE NalCall \/ \E c \in Conn : SetUsername(c)
    BY <2>1 DEF NalCall, GetConnection, ProcessBatch, RejectBatch, SetUsername,
                GoTo, loop
  <2>2. CASE CreateImv \/ StartImv
    BY <2>2, NotifyAnewTurns DEF CreateImv, StartImv, AtIMV, Turning
  <2>3. CASE DeliverMessage
    BY <2>3, CallImvTurns, SkipTurns DEF DeliverMessage, AtIMV, Turning
  <2>4. CASE EndBatchOfImv
    BY <2>4, CallImvTurns, SkipTurns DEF EndBatchOfImv, AtIMV, Turning
  <2>5. CASE Solicit
    BY <2>5, CallImvTurns, SkipTurns DEF Solicit, AtIMV, Turning
  <2>6. CASE AnnounceToImv
    BY <2>6, CallImvTurns, SkipTurns DEF AnnounceToImv, AtIMV, Turning
  <2>7. CASE EndCreate \/ EndHandshakeNotification \/ EndMessage \/ EndDelivery
    BY <2>7 DEF EndCreate, EndHandshakeNotification, EndMessage, EndDelivery,
                AtIMV, PastLast, GoTo, Return, tables
  <2>8. CASE Answer \/ PdpThrows \/ EndAnnouncement
    BY <2>8 DEF Answer, PdpThrows, EndAnnouncement, GoTo, Return
  <2>9. CASE AskPdp \/ AskPolicy \/ EndPolicy
    BY <2>9 DEF AskPdp, AskPolicy, EndPolicy, PastLast, GoTo, Decide, tables
  <2>10. CASE LibraryReturn
    BY <2>10, ReturnTurns DEF Turning
  <2>11. CASE Callback
    BY <2>11 DEF Callback, ProvideRecommendation, SendMessage, tables, loop
  <2>12. CASE Stopped \/ UNCHANGED vars
    BY <2>12 DEF Stopped, vars, tables, loop
  <2> QED
    BY <2>1, <2>2, <2>3, <2>4, <2>5, <2>6, <2>7, <2>8, <2>9, <2>10, <2>11, <2>12
       DEF Next, Engine
<1>3. SendInv => NoMessageDropped
  BY DEF SendInv
<1> QED
  BY <1>1, <1>2, <1>3, PTL DEF Spec

-----------------------------------------------------------------------------
(* The server implements AccessDecision: every one of its steps is a step  *)
(* of the abstract decision or changes nothing that it is about.           *)

\* The abstract state of the connections.
Shown == [c \in Conn |-> IF phase = "final" /\ c = con
                         THEN StateOf(decision) ELSE conState[c]]

\* A batch is processed only in the middle of a handshake.
InHandshake == phase \in {"deliver", "ending", "solicit"}
                 => conState[con] = "HANDSHAKE"

\* Nobody speaks about a connection that the server does not know.
UnknownIsSilent == \A p \in Pair : p[1] \notin known => said[p] = NoRec

AInv == InHandshake /\ UnknownIsSilent

-----------------------------------------------------------------------------
(* Turns of the loops.                                                     *)

\* What a turn may change of what the abstract specification is about.
Turn == /\ UNCHANGED <<conState, known, username, phase, con, decision>>
        /\ said' = said \/ said' = [said EXCEPT ![Here] = NoRec]

LEMMA FailIsTurn ==
    ASSUME Fail, UNCHANGED <<tables, loop>>
    PROVE  Turn
  BY DEF Fail, Turn, tables, loop

LEMMA CallImvIsTurn == ASSUME NEW fn, CallImv(fn) PROVE Turn
  BY FailIsTurn DEF CallImv, Enter, FailAtOnce, FailWithDelete, Turn, tables,
                    objects, loop

LEMMA NotifyAnewIsTurn == ASSUME NotifyAnew PROVE Turn
  BY FailIsTurn DEF NotifyAnew, FailAtOnce, Cleared, Turn, tables, loop

LEMMA SkipIsTurn == ASSUME Skip PROVE Turn
  BY DEF Skip, Turn, tables, objects, loop

LEMMA LibraryIsTurn == ASSUME LibraryReturn PROVE Turn
  BY FailIsTurn, SkipIsTurn
     DEF LibraryReturn, ReturnSuccess, ReturnError, ReturnFromDelete, ReturnFatal,
         Turn, tables, objects, loop

\* The steps of the engine that work on one IMV.
EngineTurn == CreateImv \/ StartImv \/ DeliverMessage \/ EndBatchOfImv
                \/ Solicit \/ AnnounceToImv

LEMMA EngineIsTurn ==
    ASSUME TypeOK, EngineTurn
    PROVE  Turn /\ Here \in Pair
<1>1. Here \in Pair
  BY HereIsPair DEF EngineTurn, CreateImv, StartImv, DeliverMessage, EndBatchOfImv,
                    Solicit, AnnounceToImv, AtIMV
<1>2. CASE CreateImv \/ StartImv
  BY <1>1, <1>2, NotifyAnewIsTurn DEF CreateImv, StartImv
<1>3. CASE DeliverMessage
  BY <1>1, <1>3, CallImvIsTurn, SkipIsTurn DEF DeliverMessage
<1>4. CASE EndBatchOfImv
  BY <1>1, <1>4, CallImvIsTurn, SkipIsTurn DEF EndBatchOfImv
<1>5. CASE Solicit
  BY <1>1, <1>5, CallImvIsTurn, SkipIsTurn DEF Solicit
<1>6. CASE AnnounceToImv
  BY <1>1, <1>6, CallImvIsTurn, SkipIsTurn DEF AnnounceToImv
<1> QED
  BY <1>2, <1>3, <1>4, <1>5, <1>6 DEF EngineTurn

LEMMA LibraryHere == ASSUME TypeOK, LibraryReturn PROVE Here \in Pair
  BY HereIsPair DEF LibraryReturn, ReturnSuccess, ReturnError, ReturnFromDelete,
                    ReturnFatal, Running, TypeOK

-----------------------------------------------------------------------------
(* The invariant.                                                          *)

LEMMA AInvStep ==
    ASSUME TypeOK, AInv, [Next]_vars
    PROVE  AInv'
<1> USE DEF AInv, InHandshake, UnknownIsSilent
<1>1. CASE EngineTurn \/ LibraryReturn
  <2>1. Turn /\ Here \in Pair
    BY <1>1, EngineIsTurn, LibraryIsTurn, LibraryHere
  <2> QED
    BY <2>1 DEF Turn, TypeOK
<1>2. CASE NalCall \/ \E c \in Conn : SetUsername(c)
  BY <1>2 DEF NalCall, GetConnection, ProcessBatch, RejectBatch, SetUsername, GoTo,
              Forget, loop, objects, TypeOK, Pair
<1>3. CASE EndCreate \/ EndHandshakeNotification
  BY <1>3 DEF EndCreate, EndHandshakeNotification, GoTo, Return, objects
<1>4. CASE EndMessage \/ EndDelivery \/ AskPolicy
  BY <1>4 DEF EndMessage, EndDelivery, AskPolicy, GoTo, AtIMV, PastLast, tables, objects
<1>5. CASE Answer \/ PdpThrows \/ EndAnnouncement
  BY <1>5 DEF Answer, PdpThrows, EndAnnouncement, GoTo, Return, tables, objects
<1>6. CASE AskPdp \/ EndPolicy
  BY <1>6 DEF AskPdp, EndPolicy, Decide, GoTo, tables, objects
<1>7. CASE Callback
  <2>1. CASE SendMessage
    BY <2>1 DEF SendMessage, loop, objects
  <2>2. ASSUME NEW c \in Conn, NEW r \in Rec, ProvideRecommendation(c, r)
        PROVE  AInv'
    <3>1. \A p \in Pair : p # <<c, cur>> => said'[p] = said[p]
      BY <2>2 DEF ProvideRecommendation, TypeOK
    <3> QED
      BY <2>2, <3>1 DEF ProvideRecommendation, tables, loop, TypeOK, Pair
  <2> QED
    BY <1>7, <2>1, <2>2 DEF Callback
<1>8. CASE Stopped \/ UNCHANGED vars
  BY <1>8 DEF Stopped, vars, tables, loop, objects
<1> QED
  BY <1>1, <1>2, <1>3, <1>4, <1>5, <1>6, <1>7, <1>8 DEF Next, Engine, EngineTurn

LEMMA AccessInvariance == Spec => []AInv
<1>1. Init => AInv
  BY DEF Init, AInv, InHandshake, UnknownIsSilent
<1> QED
  BY <1>1, AInvStep, Typing, PTL DEF Spec

-----------------------------------------------------------------------------
(* The refinement.                                                         *)

\* A step that the abstract specification allows.
Maps == Access!ANext \/ UNCHANGED <<Shown, said, username>>

LEMMA TurnMaps ==
    ASSUME TypeOK, Turn, Here \in Pair
    PROVE  Maps
<1>1. Shown' = Shown
  BY DEF Turn, Shown
<1>2. CASE said' = said
  BY <1>1, <1>2 DEF Turn, Maps
<1>3. CASE said' = [said EXCEPT ![Here] = NoRec]
  <2>1. con \in Conn /\ cur \in IMV
    BY DEF Here, Pair
  <2>2. Access!Speak(con, cur)
    BY <1>1, <1>3 DEF Access!Speak, Here, Rec, NoRec, Access!Rec, Access!NoRec, Shown, Turn
  <2> QED
    BY <2>1, <2>2 DEF Access!ANext, Maps
<1> QED
  BY <1>2, <1>3 DEF Turn

LEMMA ForgottenInSilence ==
    ASSUME TypeOK, NEW c \in Conn, \A i \in IMV : said[<<c, i>>] = NoRec
    PROVE  said = [p \in Pair |-> IF p[1] = c THEN NoRec ELSE said[p]]
<1>1. said = [p \in Pair |-> said[p]]
  BY DEF TypeOK
<1>2. \A p \in Pair : p[1] = c => said[p] = NoRec
  BY DEF Pair
<1> QED
  BY <1>1, <1>2

\* A new handshake of a known endpoint forgets what was said; an unknown one
\* is not heard of before its Connection is created.
LEMMA GetConnectionMaps ==
    ASSUME TypeOK, AInv, NEW c \in Conn, GetConnection(c)
    PROVE  Maps
<1> USE DEF GetConnection, GoTo, Forget
<1>1. CASE c \notin known
  <2>1. said' = said
    BY <1>1, ForgottenInSilence DEF AInv, UnknownIsSilent, Pair
  <2>2. Shown' = Shown
    BY <1>1 DEF Shown
  <2> QED
    BY <2>1, <2>2 DEF Maps
<1>2. CASE c \in known
  <2>1. Shown' = [Shown EXCEPT ![c] = "HANDSHAKE"]
    BY <1>2 DEF Shown, TypeOK
  <2>2. Access!Begin(c)
    BY <1>2, <2>1 DEF Access!Begin, Access!NoRec, NoRec, Pair, Shown
  <2> QED
    BY <2>2 DEF Access!ANext, Maps
<1> QED
  BY <1>1, <1>2

LEMMA EndCreateMaps ==
    ASSUME TypeOK, IInv, EndCreate
    PROVE  Maps
<1> USE DEF EndCreate, GoTo, PastLast
<1>1. PICK c \in Conn : c = con
  BY DEF TypeOK
<1>2. Shown' = [Shown EXCEPT ![c] = "HANDSHAKE"]
  BY <1>1 DEF Shown, TypeOK
<1>3. said' = [p \in Pair |-> IF p[1] = c THEN NoRec ELSE said[p]]
  BY <1>1, ForgottenInSilence DEF IInv, CreatedInSilence, objects
<1>4. Access!Begin(c)
  BY <1>1, <1>2, <1>3 DEF Access!Begin, Access!NoRec, NoRec, Pair, Shown
<1> QED
  BY <1>1, <1>4 DEF Access!ANext, Maps

\* Steps of the loops that the abstract specification does not see.
Inner == \/ \E c \in Conn, b \in Batches : ProcessBatch(c, b)
         \/ EndHandshakeNotification \/ EndMessage \/ EndDelivery \/ Answer
         \/ AskPolicy \/ SendMessage \/ Stopped \/ UNCHANGED vars

LEMMA InnerMaps ==
    ASSUME Inner
    PROVE  Maps
<1>1. CASE \E c \in Conn, b \in Batches : ProcessBatch(c, b)
  BY <1>1 DEF ProcessBatch, GoTo, Maps, Shown, objects
<1>2. CASE EndHandshakeNotification \/ Answer
  BY <1>2 DEF EndHandshakeNotification, Answer, PastLast, GoTo, Return, Maps, Shown,
              objects, tables
<1>3. CASE EndMessage \/ EndDelivery \/ AskPolicy
  BY <1>3 DEF EndMessage, EndDelivery, AskPolicy, AtIMV, PastLast, GoTo, Maps,
              Shown, objects, tables
<1>4. CASE SendMessage \/ Stopped \/ UNCHANGED vars
  BY <1>4 DEF SendMessage, Stopped, vars, Maps, Shown, objects, tables, loop
<1> QED
  BY <1>1, <1>2, <1>3, <1>4 DEF Inner

LEMMA CallbackMaps ==
    ASSUME TypeOK, NEW c \in Conn
    PROVE  /\ SetUsername(c) => Maps
           /\ \A r \in Rec : ProvideRecommendation(c, r) => Maps
<1>1. ASSUME SetUsername(c) PROVE Maps
  <2>1. Access!Name(c)
    BY <1>1 DEF SetUsername, Access!Name, Shown, objects, loop
  <2> QED
    BY <2>1 DEF Access!ANext, Maps
<1>2. ASSUME NEW r \in Rec, ProvideRecommendation(c, r) PROVE Maps
  <2>1. cur \in IMV
    BY <1>2 DEF ProvideRecommendation, Running, TypeOK, IMV
  <2>2. Shown' = Shown
    BY <1>2 DEF ProvideRecommendation, Shown, tables, loop
  <2>3. Access!Speak(c, cur)
    BY <1>2, <2>2 DEF ProvideRecommendation, Access!Speak, Access!Rec, Rec, Shown,
                      Access!NoRec, NoRec, tables
  <2> QED
    BY <2>1, <2>3 DEF Access!ANext, Maps
<1> QED
  BY <1>1, <1>2

\* Ends of handshakes.
LEMMA RejectMaps ==
    ASSUME TypeOK, NEW c \in Conn, RejectBatch(c)
    PROVE  Maps
<1> USE DEF RejectBatch, objects, loop
<1>1. CASE c \in isFirst
  BY <1>1 DEF Maps, Shown
<1>2. CASE c \notin isFirst
  <2>1. Shown[c] = "HANDSHAKE"
    BY DEF Shown, TypeOK
  <2>2. Shown' = [Shown EXCEPT ![c] = "ACCESS_NONE"]
    BY <1>2 DEF Shown, TypeOK
  <2>3. Access!Refuse(c)
    BY <2>1, <2>2 DEF Access!Refuse, Access!Settle, Shown
  <2> QED
    BY <2>3 DEF Access!ANext, Maps
<1> QED
  BY <1>1, <1>2

LEMMA PdpMaps ==
    ASSUME TypeOK, AInv
    PROVE  (AskPdp => Maps) /\ (PdpThrows => Maps)
<1>1. ASSUME PastLast("ending") PROVE \E c \in Conn : c = con /\ Shown[c] = "HANDSHAKE"
  BY <1>1 DEF PastLast, TypeOK, AInv, InHandshake, Shown
<1>2. ASSUME AskPdp PROVE Maps
  <2>1. PICK c \in Conn : c = con /\ Shown[c] = "HANDSHAKE"
    BY <1>1, <1>2 DEF AskPdp
  <2>2. PICK r \in Rec \ {NoRec} : Decide(r)
    BY <1>2 DEF AskPdp
  <2>3. Shown' = [Shown EXCEPT ![c] = StateOf(r)]
    BY <1>2, <2>1, <2>2 DEF AskPdp, PastLast, Decide, GoTo, Shown, tables
  <2>4. StateOf(r) \in Access!Decided
    BY DEF StateOf, Rec, NoRec, Access!Decided
  <2>5. Access!DecideByPdp(c)
    BY <1>2, <2>1, <2>3, <2>4
       DEF AskPdp, Access!DecideByPdp, Access!Settle, Shown, objects, tables
  <2> QED
    BY <2>1, <2>5 DEF Access!ANext, Maps
<1>3. ASSUME PdpThrows PROVE Maps
  <2>1. PICK c \in Conn : c = con /\ Shown[c] = "HANDSHAKE"
    BY <1>1, <1>3 DEF PdpThrows
  <2>2. Shown' = [Shown EXCEPT ![c] = "ACCESS_NONE"]
    BY <1>3, <2>1 DEF PdpThrows, PastLast, Return, GoTo, Shown, TypeOK
  <2>3. Access!Refuse(c)
    BY <1>3, <2>1, <2>2 DEF PdpThrows, Access!Refuse, Access!Settle, Shown, objects
  <2> QED
    BY <2>1, <2>3 DEF Access!ANext, Maps
<1> QED
  BY <1>2, <1>3

\* The policy decides by the votes it has counted, which are the voices.
LEMMA EndPolicyMaps ==
    ASSUME TypeOK, IInv, AInv, EndPolicy
    PROVE  Maps
<1>1. PICK c \in Conn : c = con /\ Shown[c] = "HANDSHAKE"
  BY DEF EndPolicy, PastLast, TypeOK, AInv, InHandshake, Shown
<1>2. \A i \in IMV : i < cur
  BY DEF EndPolicy, PastLast, IMV
<1>3. /\ votes.allow <=> \A i \in IMV : said[<<c, i>>] = "ALLOW"
      /\ votes.isolate <=> \A i \in IMV : said[<<c, i>>] \in {"ALLOW", "ISOLATE"}
  BY <1>1, <1>2 DEF EndPolicy, PastLast, IInv, VotesCounted
<1>4. decision' = Access!PolicyOf(Access!Voices(c))
  BY <1>3 DEF EndPolicy, Decide, Access!PolicyOf, Access!Voices
<1>5. Shown' = [Shown EXCEPT ![c] = Access!StateOf(Access!PolicyOf(Access!Voices(c)))]
  BY <1>1, <1>4 DEF EndPolicy, PastLast, Decide, GoTo, Shown, tables, StateOf, Access!StateOf
<1>6. Access!DecideByPolicy(c)
  BY <1>1, <1>5 DEF EndPolicy, Access!DecideByPolicy, Access!Settle, Shown, objects, tables
<1> QED
  BY <1>6 DEF Access!ANext, Maps

\* The decision was shown from the moment it was taken.
LEMMA EndAnnouncementMaps ==
    ASSUME TypeOK, EndAnnouncement
    PROVE  Maps
<1>1. Shown' = Shown
  BY DEF EndAnnouncement, PastLast, Return, GoTo, Shown, TypeOK
<1> QED
  BY <1>1 DEF EndAnnouncement, Maps, objects

LEMMA EveryStepMaps ==
    ASSUME TypeOK, IInv, AInv, [Next]_vars
    PROVE  Maps
<1>1. CASE EngineTurn \/ LibraryReturn
  BY <1>1, EngineIsTurn, LibraryIsTurn, LibraryHere, TurnMaps
<1>2. CASE Inner
  BY <1>2, InnerMaps
<1>3. ASSUME NEW c \in Conn, GetConnection(c) \/ RejectBatch(c) \/ SetUsername(c)
      PROVE  Maps
  BY <1>3, GetConnectionMaps, RejectMaps, CallbackMaps
<1>4. ASSUME NEW c \in Conn, NEW r \in Rec, ProvideRecommendation(c, r)
      PROVE  Maps
  BY <1>4, CallbackMaps
<1>5. CASE EndCreate
  BY <1>5, EndCreateMaps
<1>6. CASE AskPdp \/ PdpThrows
  BY <1>6, PdpMaps
<1>7. CASE EndPolicy \/ EndAnnouncement
  BY <1>7, EndPolicyMaps, EndAnnouncementMaps
<1> QED
  BY <1>1, <1>2, <1>3, <1>4, <1>5, <1>6, <1>7
     DEF Next, NalCall, Engine, EngineTurn, Callback, Inner

\* ImplementsAccessDecision: for any number of endpoints and libraries, the
\* server only ever takes the steps of the abstract access decision.
THEOREM Implements == Spec => ImplementsAccessDecision
<1>1. Init => Access!AInit
  BY DEF Init, Access!AInit, Access!NoRec, NoRec, Pair
<1>2. TypeOK /\ IInv /\ AInv /\ [Next]_vars => [Access!ANext]_(Access!avars)
  BY EveryStepMaps DEF Maps, Access!avars, Shown
<1> QED
  BY <1>1, <1>2, Typing, Invariance, AccessInvariance, PTL
     DEF Spec, ImplementsAccessDecision, Access!ASpec

=============================================================================
