------------------------ MODULE Coordinator_proofs ------------------------
(***************************************************************************)
(* What holds of the server's life cycle for any libraries, configuration  *)
(* files and endpoints, and any number of lives.                           *)
(***************************************************************************)
EXTENDS Coordinator, FiniteSetTheorems, TLAPS

Library == [opened : Nat, initialized : BOOLEAN, id : Nat]

LEMMA ExtendedMap ==
    ASSUME NEW f, NEW x, NEW y
    PROVE  /\ DOMAIN Extend(f, x, y) = DOMAIN f \cup {x}
           /\ Extend(f, x, y)[x] = y
           /\ \A z \in DOMAIN f : z # x => Extend(f, x, y)[z] = f[z]
  BY DEF Extend

-----------------------------------------------------------------------------
(* Libraries.                                                              *)

\* Closing takes one handle; what is initialized afterwards was before.
LEMMA ClosedLibrary ==
    ASSUME NEW l \in Library, l.opened > 0, NEW k \in Closed(l)
    PROVE  /\ k \in Library
           /\ l.opened > 1 => k = [l EXCEPT !.opened = @ - 1]
           /\ k.initialized => l.initialized
<1> DEFINE fewer == [l EXCEPT !.opened = @ - 1]
           none  == [l EXCEPT !.opened = 0]
<1>1. l.opened \in Nat /\ l.initialized \in BOOLEAN /\ l.id \in Nat
  BY DEF Library
<1>2. /\ none \in Library /\ fewer \in Library
      /\ none.initialized = l.initialized /\ fewer.initialized = l.initialized
  BY <1>1 DEF Library
<1>3. Unmapped \in Library /\ ~Unmapped.initialized
  BY DEF Unmapped, Library
<1>4. k \in IF l.opened = 1 THEN {Unmapped, none} ELSE {fewer}
  BY DEF Closed
<1> HIDE DEF fewer, none
<1>5. /\ k \in Library
      /\ k.initialized => l.initialized
      /\ l.opened > 1 => k = fewer
  BY <1>1, <1>2, <1>3, <1>4
<1> QED
  BY <1>5 DEF fewer

LEMMA InitializedLibrary ==
    ASSUME NEW l \in Library, NEW i \in Nat
    PROVE  /\ Initialized(Opened(l), i) \in Library
           /\ Opened(l) \in Library
           /\ Initialized(Opened(l), i).opened = l.opened + 1
           /\ Opened(l).opened = l.opened + 1
           /\ Opened(l).initialized = l.initialized
           /\ Opened(l).id = l.id
           /\ Initialized(Opened(l), i).initialized
           /\ l.initialized => Initialized(Opened(l), i).id = l.id
           /\ ~l.initialized => Initialized(Opened(l), i).id = i
<1>1. l.opened \in Nat /\ l.initialized \in BOOLEAN /\ l.id \in Nat
  BY DEF Library
<1>2. /\ Opened(l) \in Library /\ Opened(l).opened = l.opened + 1
      /\ Opened(l).initialized = l.initialized /\ Opened(l).id = l.id
  BY <1>1 DEF Opened, Library
<1>3. CASE l.initialized
  BY <1>1, <1>2, <1>3 DEF Initialized
<1>4. CASE ~l.initialized
  <2>1. /\ [Opened(l) EXCEPT !.initialized = TRUE] \in Library
        /\ [Opened(l) EXCEPT !.initialized = TRUE].opened = l.opened + 1
    BY <1>2 DEF Library
  <2> DEFINE o == [Opened(l) EXCEPT !.initialized = TRUE]
  <2>2. Initialized(Opened(l), i) = [o EXCEPT !.id = i]
    BY <1>2, <1>4 DEF Initialized
  <2>3. o.initialized
    BY <1>2 DEF Library
  <2> HIDE DEF o
  <2>4. /\ [o EXCEPT !.id = i] \in Library
        /\ [o EXCEPT !.id = i].opened = o.opened
        /\ [o EXCEPT !.id = i].initialized = o.initialized
        /\ [o EXCEPT !.id = i].id = i
    BY <2>1 DEF Library, o
  <2> QED
    BY <1>2, <1>4, <2>1, <2>2, <2>3, <2>4 DEF o
<1> QED
  BY <1>2, <1>3, <1>4

\* A library that is shut down under its own id is not initialized any more,
\* unless it cannot be terminated; under another id it stays as it is.
LEMMA ShutDownLibrary ==
    ASSUME NEW f \in File, NEW l \in Library, l.opened > 0, NEW i \in Nat,
           NEW k \in ShutDown(f, l, i)
    PROVE  /\ k \in Library
           /\ k.initialized => l.initialized
           /\ Binds(l, i) /\ k.initialized => f \in Endless
           /\ ~Binds(l, i) /\ l.opened > 1 => k = [l EXCEPT !.opened = @ - 1]
<1> DEFINE terminated == [l EXCEPT !.initialized = FALSE]
<1>1. terminated \in Library /\ terminated.opened = l.opened /\ ~terminated.initialized
  BY DEF Library
<1>2. CASE f \notin Endless /\ Binds(l, i)
  <2>1. k \in Closed(terminated)
    BY <1>2 DEF ShutDown
  <2> HIDE DEF terminated
  <2> QED
    BY <1>1, <1>2, <2>1, ClosedLibrary
<1>3. CASE ~(f \notin Endless /\ Binds(l, i))
  <2>1. k \in Closed(l)
    BY <1>3 DEF ShutDown
  <2> QED
    BY <1>3, <2>1, ClosedLibrary
<1> QED
  BY <1>2, <1>3

-----------------------------------------------------------------------------
(* The inductive invariant.                                                *)

\* Ids of connections are counted, so that the next one is new.
IdsAreCounted ==
    /\ IsFiniteSet(DOMAIN conId)
    /\ \A e \in DOMAIN conId : conId[e] \in 0 .. Cardinality(DOMAIN conId) - 1

\* There are connections only while the server is at work, and IMVs only
\* while it is up.
NothingOutlivesTerminate ==
    /\ phase \in {"down", "loading", "ending"} => connections = EmptyMap
    /\ phase = "down" => props = EmptyMap

Live(i) == i \in DOMAIN props /\ ~props[i].fatal

\* Every connection has all IMVs of this life, and those that work are bound.
ConnectionsHaveAllImvs ==
    \A c \in DOMAIN connections : connections[c].imvs = DOMAIN props
LiveLibrariesBind ==
    \A i \in DOMAIN props : Live(i) =>
      lib[props[i].file].opened > 0 /\ Binds(lib[props[i].file], i)

\* Whoever is still initialized belongs to an IMV of this life that works, or
\* cannot be terminated.
InitializedIsInUse ==
    \A f \in File : lib[f].initialized =>
      /\ f \notin Foreign
      /\ f \in Endless \/ \E i \in DOMAIN props : Live(i) /\ props[i].file = f

\* A user name was accepted because there is an IMV with the id 0.
NamesHaveAPlace ==
    \A c \in DOMAIN connections : connections[c].username => HasAttributes

LifeInv == /\ TypeOK /\ IdsAreCounted /\ NothingOutlivesTerminate
           /\ ConnectionsHaveAllImvs /\ LiveLibrariesBind
           /\ InitializedIsInUse /\ NamesHaveAPlace

-----------------------------------------------------------------------------
(* What the actions do to the maps.                                        *)

Prop == [file : File, fatal : BOOLEAN]

LEMMA FatalProp ==
    ASSUME NEW r \in Prop
    PROVE  LET q == [r EXCEPT !.fatal = TRUE]
           IN q \in Prop /\ q.fatal /\ q.file = r.file
  BY DEF Prop

LEMMA WithFatalMap ==
    ASSUME TypeOK, NEW i \in DOMAIN props
    PROVE  /\ DOMAIN WithFatal(i) = DOMAIN props
           /\ WithFatal(i)[i] \in Prop
           /\ WithFatal(i)[i].fatal /\ WithFatal(i)[i].file = props[i].file
           /\ \A j \in DOMAIN props : j # i => WithFatal(i)[j] = props[j]
<1>1. props[i] \in Prop
  BY DEF TypeOK, Prop
<1>2. WithFatal(i)[i] = [props[i] EXCEPT !.fatal = TRUE]
  BY DEF WithFatal
<1>3. /\ DOMAIN WithFatal(i) = DOMAIN props
      /\ \A j \in DOMAIN props : j # i => WithFatal(i)[j] = props[j]
  BY DEF WithFatal
<1> QED
  BY <1>1, <1>2, <1>3, FatalProp

LEMMA RestrictedMap ==
    ASSUME NEW f, NEW x
    PROVE  /\ DOMAIN Restrict(f, DOMAIN f \ {x}) = DOMAIN f \ {x}
           /\ \A z \in DOMAIN f \ {x} : Restrict(f, DOMAIN f \ {x})[z] = f[z]
  BY DEF Restrict

-----------------------------------------------------------------------------
(* Every step keeps the invariant, part by part.                           *)

LEMMA IdsStep ==
    ASSUME TypeOK, IdsAreCounted, [Next]_vars
    PROVE  IdsAreCounted' /\ IsInjective(conId') /\ DOMAIN conId' \subseteq Endpoint
<1>1. CASE UNCHANGED conId
  BY <1>1 DEF TypeOK, IdsAreCounted, IsInjective
<1>2. ASSUME NEW e \in Endpoint, GetConnection(e), e \notin DOMAIN conId
      PROVE  IdsAreCounted' /\ IsInjective(conId') /\ DOMAIN conId' \subseteq Endpoint
  <2> DEFINE D == DOMAIN conId
             n == Cardinality(D)
  <2>1. conId' = Extend(conId, e, n)
    BY <1>2 DEF GetConnection, FreshConId
  <2>2. /\ DOMAIN conId' = D \cup {e} /\ conId'[e] = n
        /\ \A z \in D : conId'[z] = conId[z]
    BY <1>2, <2>1 DEF Extend
  <2>3. /\ IsFiniteSet(D \cup {e}) /\ Cardinality(D \cup {e}) = n + 1 /\ n \in Nat
    BY <1>2, FS_AddElement, FS_CardinalityType DEF IdsAreCounted
  <2>4. \A z \in D : conId[z] \in 0 .. n - 1
    BY DEF IdsAreCounted
  <2>5. \A z \in D \cup {e} : conId'[z] \in 0 .. n
    BY <2>2, <2>3, <2>4
  <2>6. \A y, z \in D \cup {e} : conId'[y] = conId'[z] => y = z
    BY <2>2, <2>3, <2>4 DEF TypeOK, IsInjective
  <2>7. DOMAIN conId \subseteq Endpoint
    BY DEF TypeOK
  <2> HIDE DEF D, n
  <2>8. /\ IsFiniteSet(DOMAIN conId')
        /\ Cardinality(DOMAIN conId') - 1 = n
    BY <2>2, <2>3
  <2>9. IdsAreCounted'
    BY <2>2, <2>5, <2>8 DEF IdsAreCounted
  <2> QED
    BY <2>2, <2>6, <2>7, <2>9, <1>2 DEF D, IsInjective
<1>3. ASSUME NEW e \in Endpoint, GetConnection(e), e \in DOMAIN conId
      PROVE  UNCHANGED conId
  BY <1>3 DEF GetConnection
<1>4. CASE ~\E e \in Endpoint : GetConnection(e)
  <2>1. UNCHANGED conId
    BY <1>4 DEF Next, AtWork, Initialize, EntryFails, EntryLoads, NextEntry, Loaded,
             StoreUsername, BecomesFatal, Decide, Terminate, DeleteProperties,
             Terminated, Stopped, vars
  <2> QED
    BY <1>1, <2>1
<1> QED
  BY <1>1, <1>2, <1>3, <1>4

LEMMA RestStep ==
    ASSUME TypeOK, NothingOutlivesTerminate, [Next]_vars
    PROVE  NothingOutlivesTerminate'
<1> USE DEF NothingOutlivesTerminate
<1>1. CASE Initialize \/ Loaded \/ Terminate \/ DeleteProperties \/ Terminated
  BY <1>1 DEF Initialize, Loaded, Terminate, NoConnections, DeleteProperties, Terminated
<1>2. CASE EntryFails \/ EntryLoads
  BY <1>2 DEF EntryFails, EntryLoads, NextEntry
<1>3. CASE AtWork
  BY <1>3 DEF AtWork, GetConnection, StoreUsername, BecomesFatal, Decide
<1>4. CASE Stopped \/ UNCHANGED vars
  BY <1>4 DEF Stopped, vars
<1> QED
  BY <1>1, <1>2, <1>3, <1>4 DEF Next

LEMMA NamesStep ==
    ASSUME TypeOK, NothingOutlivesTerminate, NamesHaveAPlace, [Next]_vars
    PROVE  NamesHaveAPlace'
<1> USE DEF NamesHaveAPlace, HasAttributes
<1>1. CASE UNCHANGED <<connections, props>>
  BY <1>1
<1>2. CASE phase \in {"loading", "ending", "down"} /\ UNCHANGED connections
  BY <1>2 DEF NothingOutlivesTerminate, EmptyMap
<1>3. CASE Terminate
  BY <1>3 DEF Terminate, NoConnections, EmptyMap
<1>4. ASSUME NEW e \in Endpoint, GetConnection(e)
      PROVE  NamesHaveAPlace'
  <2>1. \A c \in DOMAIN connections' :
           \/ c \in DOMAIN connections /\ connections'[c] = connections[c]
           \/ ~connections'[c].username
    BY <1>4 DEF GetConnection, Extend
  <2> QED
    BY <1>4, <2>1 DEF GetConnection
<1>5. ASSUME NEW c \in DOMAIN connections, StoreUsername(c)
      PROVE  NamesHaveAPlace'
  BY <1>5 DEF StoreUsername
<1>6. ASSUME NEW i \in DOMAIN props, BecomesFatal(i)
      PROVE  NamesHaveAPlace'
  BY <1>6, WithFatalMap DEF BecomesFatal
<1>7. ASSUME NEW c \in DOMAIN connections, Decide(c)
      PROVE  UNCHANGED <<connections, props>>
  BY <1>7 DEF Decide
<1>8. CASE Initialize \/ EntryFails \/ Loaded \/ Terminated \/ Stopped \/ UNCHANGED vars
  BY <1>1, <1>8 DEF Initialize, EntryFails, NextEntry, Loaded, Terminated, Stopped, vars
<1>9. CASE EntryLoads \/ DeleteProperties
  BY <1>2, <1>9 DEF EntryLoads, NextEntry, DeleteProperties
<1> QED
  BY <1>1, <1>3, <1>4, <1>5, <1>6, <1>7, <1>8, <1>9 DEF Next, AtWork

LEMMA ImvsStep ==
    ASSUME TypeOK, NothingOutlivesTerminate, ConnectionsHaveAllImvs, [Next]_vars
    PROVE  ConnectionsHaveAllImvs'
<1> USE DEF ConnectionsHaveAllImvs
<1>1. CASE UNCHANGED <<connections, props>>
  BY <1>1
<1>2. CASE phase \in {"loading", "ending", "down"} /\ UNCHANGED connections
  BY <1>2 DEF NothingOutlivesTerminate, EmptyMap
<1>3. CASE Terminate
  BY <1>3 DEF Terminate, NoConnections, EmptyMap
<1>4. ASSUME NEW e \in Endpoint, GetConnection(e)
      PROVE  ConnectionsHaveAllImvs'
  <2>1. \A c \in DOMAIN connections' :
           \/ c \in DOMAIN connections /\ connections'[c] = connections[c]
           \/ connections'[c].imvs = DOMAIN props
    BY <1>4 DEF GetConnection, Extend
  <2> QED
    BY <1>4, <2>1 DEF GetConnection
<1>5. ASSUME NEW c \in DOMAIN connections, StoreUsername(c)
      PROVE  ConnectionsHaveAllImvs'
  <2>1. connections' = [connections EXCEPT ![c].username = TRUE] /\ props' = props
    BY <1>5 DEF StoreUsername
  <2>2. /\ DOMAIN connections' = DOMAIN connections
        /\ connections'[c] = [connections[c] EXCEPT !.username = TRUE]
        /\ \A d \in DOMAIN connections : d # c => connections'[d] = connections[d]
    BY <2>1
  <2> QED
    BY <2>1, <2>2
<1>6. ASSUME NEW i \in DOMAIN props, BecomesFatal(i)
      PROVE  ConnectionsHaveAllImvs'
  BY <1>6, WithFatalMap DEF BecomesFatal
<1>7. ASSUME NEW c \in DOMAIN connections, Decide(c)
      PROVE  UNCHANGED <<connections, props>>
  BY <1>7 DEF Decide
<1>8. CASE Initialize \/ EntryFails \/ Loaded \/ Terminated \/ Stopped \/ UNCHANGED vars
  BY <1>1, <1>8 DEF Initialize, EntryFails, NextEntry, Loaded, Terminated, Stopped, vars
<1>9. CASE EntryLoads \/ DeleteProperties
  BY <1>2, <1>9 DEF EntryLoads, NextEntry, DeleteProperties
<1> QED
  BY <1>1, <1>3, <1>4, <1>5, <1>6, <1>7, <1>8, <1>9 DEF Next, AtWork

\* A library is bound by one IMV at a time.
LEMMA OneLivePerLibrary ==
    ASSUME TypeOK, LiveLibrariesBind, NEW i, NEW j, Live(i), Live(j),
           props[i].file = props[j].file
    PROVE  i = j
  BY DEF LiveLibrariesBind, Live, Binds

LEMMA LibraryOf ==
    ASSUME TypeOK, NEW i \in DOMAIN props
    PROVE  /\ i \in Nat /\ props[i].file \in File /\ props[i].fatal \in BOOLEAN
           /\ lib[props[i].file] \in Library
  BY DEF TypeOK, Library

\* The IMV that fails or is deleted takes its library with it, and no other.
LEMMA LiveImvGoes ==
    ASSUME TypeOK, LiveLibrariesBind, InitializedIsInUse, NEW i, Live(i),
           NEW k \in ShutDown(props[i].file, lib[props[i].file], i),
           lib' = [lib EXCEPT ![props[i].file] = k],
           \A j : j # i => (Live(j) <=> Live(j)'),
           \A j : j # i /\ Live(j) => props'[j] = props[j],
           ~Live(i)'
    PROVE  LiveLibrariesBind' /\ InitializedIsInUse'
<1> DEFINE f == props[i].file
<1>1. /\ i \in DOMAIN props /\ f \in File /\ i \in Nat
      /\ lib[f] \in Library /\ lib[f].opened > 0 /\ Binds(lib[f], i)
  BY LibraryOf DEF Live, LiveLibrariesBind
<1>2. k.initialized => lib[f].initialized /\ f \in Endless
  BY <1>1, ShutDownLibrary
<1>3. lib'[f] = k /\ \A g \in File : g # f => lib'[g] = lib[g]
  BY <1>1 DEF TypeOK
<1>4. \A j : Live(j)' => Live(j) /\ j # i /\ props[j].file # f
  BY OneLivePerLibrary
<1> HIDE DEF f
<1>5. LiveLibrariesBind'
  <2> SUFFICES ASSUME NEW j \in DOMAIN props', Live(j)'
               PROVE  lib'[props'[j].file].opened > 0 /\ Binds(lib'[props'[j].file], j)
    BY DEF LiveLibrariesBind, Binds
  <2>1. Live(j) /\ props'[j] = props[j] /\ props[j].file # f /\ j \in DOMAIN props
    BY <1>4 DEF Live
  <2>2. lib'[props'[j].file] = lib[props[j].file]
    BY <1>3, <2>1, LibraryOf
  <2> QED
    BY <2>1, <2>2 DEF LiveLibrariesBind
<1>6. InitializedIsInUse'
  <2> SUFFICES ASSUME NEW g \in File, lib'[g].initialized
               PROVE  /\ g \notin Foreign
                      /\ \/ g \in Endless
                         \/ \E j \in DOMAIN props' : Live(j)' /\ props'[j].file = g
    BY DEF InitializedIsInUse
  <2>1. CASE g = f
    BY <1>1, <1>2, <1>3, <2>1 DEF InitializedIsInUse
  <2>2. CASE g # f
    <3>1. lib[g].initialized
      BY <1>3, <2>2
    <3>2. CASE \E j \in DOMAIN props : Live(j) /\ props[j].file = g
      <4>1. PICK j \in DOMAIN props : Live(j) /\ props[j].file = g
        BY <3>2
      <4>2. j # i
        BY <2>2, <4>1 DEF f
      <4> QED
        BY <3>1, <4>1, <4>2 DEF Live, InitializedIsInUse
    <3> QED
      BY <3>1, <3>2 DEF InitializedIsInUse
  <2> QED
    BY <2>1, <2>2
<1> QED
  BY <1>5, <1>6

\* An entry gets an id that is in no use; a library that is loaded already
\* stays bound to the IMV it was loaded for.
LEMMA EntryLoadsStep ==
    ASSUME TypeOK, LiveLibrariesBind, InitializedIsInUse, EntryLoads
    PROVE  LiveLibrariesBind' /\ InitializedIsInUse'
<1> DEFINE f == Head(todo)
           i == imvIdCounter
           l == IF f \in Foreign THEN Opened(lib[f]) ELSE Initialized(Opened(lib[f]), i)
           bound == f \notin Foreign /\ Binds(l, i)
<1>1. f \in File /\ i \in Nat /\ lib[f] \in Library /\ i \notin DOMAIN props
  BY DEF EntryLoads, NextEntry, TypeOK, Library
<1>2. /\ l \in Library /\ l.opened = lib[f].opened + 1
      /\ lib[f].initialized => l.initialized /\ l.id = lib[f].id
      /\ ~lib[f].initialized /\ f \notin Foreign => l.initialized /\ l.id = i
      /\ f \in Foreign => l.initialized = lib[f].initialized
  BY <1>1, InitializedLibrary
<1>3. PICK k \in (IF bound THEN {l} ELSE ShutDown(f, l, i)) : lib' = [lib EXCEPT ![f] = k]
  BY DEF EntryLoads
<1>4. props' = Extend(props, i, Properties(f, ~bound))
  BY DEF EntryLoads
<1>5. lib[f].opened \in Nat /\ l.opened \in Nat /\ lib[f].id \in Nat
  BY <1>1, <1>2 DEF Library
<1>6. f \in Foreign => ~lib[f].initialized
  BY <1>1 DEF InitializedIsInUse
<1> HIDE DEF f, l
<1>7. \A j \in DOMAIN props : Live(j) /\ props[j].file = f =>
        /\ lib[f].opened > 0 /\ lib[f].initialized /\ lib[f].id = j /\ j # i
  BY <1>1 DEF LiveLibrariesBind, Binds
<1>8. ASSUME NEW j \in DOMAIN props, Live(j), props[j].file = f
      PROVE  k.opened > 0 /\ Binds(k, j)
  <2>1. ~Binds(l, i) /\ l.opened > 1 /\ l.initialized /\ l.id = j
    BY <1>2, <1>5, <1>7, <1>8 DEF Binds
  <2>2. k = [l EXCEPT !.opened = @ - 1]
    BY <1>1, <1>2, <1>3, <1>5, <2>1, ShutDownLibrary
  <2>3. k.opened = l.opened - 1 /\ k.initialized = l.initialized /\ k.id = l.id
    BY <1>2, <2>2 DEF Library
  <2> QED
    BY <1>5, <2>1, <2>3 DEF Binds
<1>9. lib'[f] = k /\ \A g \in File : g # f => lib'[g] = lib[g]
  BY <1>1, <1>3 DEF TypeOK
<1>10. /\ DOMAIN props' = DOMAIN props \cup {i}
       /\ props'[i].file = f /\ (props'[i].fatal <=> ~bound)
       /\ \A j \in DOMAIN props : props'[j] = props[j]
  BY <1>1, <1>4 DEF Extend, Properties
<1>11. \A j \in DOMAIN props : Live(j) => Live(j)'
  BY <1>10 DEF Live
<1>12. LiveLibrariesBind'
  <2> SUFFICES ASSUME NEW j \in DOMAIN props', Live(j)'
               PROVE  lib'[props'[j].file].opened > 0 /\ Binds(lib'[props'[j].file], j)
    BY DEF LiveLibrariesBind, Binds
  <2>1. CASE j = i
    <3>1. bound
      BY <1>10, <2>1 DEF Live
    <3> QED
      BY <1>2, <1>3, <1>5, <1>9, <1>10, <2>1, <3>1
  <2>2. CASE j # i
    <3>1. j \in DOMAIN props /\ Live(j) /\ props'[j] = props[j] /\ props[j].file \in File
      BY <1>10, <2>2, LibraryOf DEF Live
    <3>2. CASE props[j].file = f
      BY <1>8, <1>9, <3>1, <3>2
    <3>3. CASE props[j].file # f
      BY <1>9, <3>1, <3>3 DEF LiveLibrariesBind
    <3> QED
      BY <3>2, <3>3
  <2> QED
    BY <2>1, <2>2
<1>13. InitializedIsInUse'
  <2> SUFFICES ASSUME NEW g \in File, lib'[g].initialized
               PROVE  /\ g \notin Foreign
                      /\ \/ g \in Endless
                         \/ \E j \in DOMAIN props' : Live(j)' /\ props'[j].file = g
    BY DEF InitializedIsInUse
  <2>1. CASE lib[g].initialized
    BY <1>10, <1>11, <2>1 DEF InitializedIsInUse
  <2>2. CASE g = f /\ ~lib[g].initialized
    <3>1. CASE bound
      BY <1>10, <2>2, <3>1 DEF Live
    <3>2. CASE ~bound
      <4>1. k.initialized => l.initialized
        BY <1>1, <1>2, <1>3, <1>5, <3>2, ShutDownLibrary
      <4> QED
        BY <1>2, <1>9, <2>2, <3>2, <4>1 DEF Binds
    <3> QED
      BY <3>1, <3>2
  <2> QED
    BY <1>9, <2>1, <2>2
<1> QED
  BY <1>12, <1>13

LEMMA LibrariesStep ==
    ASSUME TypeOK, NothingOutlivesTerminate, LiveLibrariesBind, InitializedIsInUse,
           [Next]_vars
    PROVE  LiveLibrariesBind' /\ InitializedIsInUse'
<1>1. CASE UNCHANGED <<lib, props>>
  BY <1>1 DEF LiveLibrariesBind, InitializedIsInUse, Live, Binds
<1>2. CASE EntryFails
  <2> DEFINE f == Head(todo)
  <2>1. /\ f \in File /\ lib[f] \in Library /\ props' = props
        /\ UNCHANGED lib \/ lib' = [lib EXCEPT ![f] = Opened(@)]
    BY <1>2 DEF EntryFails, NextEntry, TypeOK, Library
  <2> HIDE DEF f
  <2>2. CASE lib' = [lib EXCEPT ![f] = Opened(@)]
    <3>1. /\ lib[f].opened \in Nat /\ lib'[f].opened = lib[f].opened + 1
          /\ lib'[f].initialized = lib[f].initialized /\ lib'[f].id = lib[f].id
      BY <2>1, <2>2, InitializedLibrary DEF TypeOK, Library
    <3>2. \A g \in File : g # f => lib'[g] = lib[g]
      BY <2>2 DEF TypeOK
    <3>3. InitializedIsInUse'
      BY <2>1, <3>1, <3>2 DEF InitializedIsInUse, Live
    <3>4. LiveLibrariesBind'
      BY <2>1, <3>1, <3>2, LibraryOf DEF LiveLibrariesBind, Live, Binds
    <3> QED
      BY <3>3, <3>4
  <2> QED
    BY <1>1, <2>1, <2>2
<1>3. ASSUME NEW i \in DOMAIN props, BecomesFatal(i)
      PROVE  LiveLibrariesBind' /\ InitializedIsInUse'
  <2>1. PICK k \in ShutDown(props[i].file, lib[props[i].file], i) :
          lib' = [lib EXCEPT ![props[i].file] = k]
    BY <1>3 DEF BecomesFatal
  <2>2. Live(i) /\ ~Live(i)'
    BY <1>3, WithFatalMap DEF BecomesFatal, Live
  <2>3. \A j : j # i => (Live(j) <=> Live(j)') /\ (Live(j) => props'[j] = props[j])
    BY <1>3, WithFatalMap DEF BecomesFatal, Live
  <2> QED
    BY <2>1, <2>2, <2>3, LiveImvGoes
<1>4. CASE DeleteProperties
  <2>1. PICK i \in DOMAIN props :
          /\ props' = Restrict(props, DOMAIN props \ {i})
          /\ \E k \in (IF props[i].fatal THEN {lib[props[i].file]}
                      ELSE ShutDown(props[i].file, lib[props[i].file], i)) :
               lib' = [lib EXCEPT ![props[i].file] = k]
    BY <1>4 DEF DeleteProperties
  <2>2. /\ DOMAIN props' = DOMAIN props \ {i}
        /\ \A j \in DOMAIN props \ {i} : props'[j] = props[j]
    BY <2>1, RestrictedMap
  <2>3. ~Live(i)'
    BY <2>2 DEF Live
  <2>4. \A j : j # i => (Live(j) <=> Live(j)') /\ (Live(j) => props'[j] = props[j])
    BY <2>2 DEF Live
  <2>5. CASE Live(i)
    <3>1. PICK k \in ShutDown(props[i].file, lib[props[i].file], i) :
            lib' = [lib EXCEPT ![props[i].file] = k]
      BY <2>1, <2>5 DEF Live
    <3> QED
      BY <2>3, <2>4, <2>5, <3>1, LiveImvGoes
  <2>6. CASE ~Live(i)
    <3>1. lib' = lib
      BY <2>1, <2>6 DEF Live, TypeOK
    <3> QED
      BY <2>2, <2>4, <2>6, <3>1 DEF LiveLibrariesBind, InitializedIsInUse, Live, Binds
  <2> QED
    BY <2>5, <2>6
<1>5. CASE Initialize \/ Loaded \/ Terminate \/ Terminated \/ Stopped \/ UNCHANGED vars
  BY <1>1, <1>5 DEF Initialize, Loaded, Terminate, Terminated, Stopped, vars
<1>6. CASE AtWork /\ ~\E i \in DOMAIN props : BecomesFatal(i)
  BY <1>1, <1>6 DEF AtWork, GetConnection, StoreUsername, Decide
<1> QED
  BY <1>2, <1>3, <1>4, <1>5, <1>6, EntryLoadsStep DEF Next, AtWork

-----------------------------------------------------------------------------
(* Type correctness.                                                       *)

PropsTyped == /\ imvIdCounter \in Nat
              /\ DOMAIN props \subseteq 0 .. imvIdCounter - 1
              /\ \A i \in DOMAIN props : props[i] \in Prop

LEMMA PropsTypingStep ==
    ASSUME TypeOK, [Next]_vars
    PROVE  PropsTyped'
<1>1. PropsTyped
  BY DEF TypeOK, PropsTyped, Prop
<1>2. CASE EntryLoads
  <2> DEFINE f == Head(todo)
             l == IF f \in Foreign THEN Opened(lib[f])
                  ELSE Initialized(Opened(lib[f]), imvIdCounter)
             bound == f \notin Foreign /\ Binds(l, imvIdCounter)
             q == Properties(f, ~bound)
  <2>1. f \in File
    BY <1>2 DEF EntryLoads, NextEntry, TypeOK
  <2>2. props' = Extend(props, imvIdCounter, q) /\ imvIdCounter' = imvIdCounter + 1
    BY <1>2 DEF EntryLoads
  <2>3. (~bound) \in BOOLEAN
    BY Zenon
  <2> HIDE DEF bound
  <2>4. q \in Prop
    BY <2>1, <2>3, Zenon DEF Properties, Prop
  <2> HIDE DEF q
  <2> QED
    BY <1>1, <2>2, <2>4 DEF Extend, PropsTyped
<1>3. ASSUME NEW i \in DOMAIN props, BecomesFatal(i)
      PROVE  PropsTyped'
  BY <1>1, <1>3, WithFatalMap DEF BecomesFatal, PropsTyped
<1>4. CASE DeleteProperties
  <2>1. PICK i \in DOMAIN props : props' = Restrict(props, DOMAIN props \ {i})
    BY <1>4 DEF DeleteProperties
  <2>2. imvIdCounter' = imvIdCounter
    BY <1>4 DEF DeleteProperties
  <2> QED
    BY <1>1, <2>1, <2>2, RestrictedMap DEF PropsTyped
<1>5. CASE ~EntryLoads /\ ~DeleteProperties /\ ~\E i \in DOMAIN props : BecomesFatal(i)
  <2>1. UNCHANGED <<props, imvIdCounter>>
    BY <1>5 DEF Next, AtWork, Initialize, EntryFails, NextEntry, Loaded, GetConnection,
       StoreUsername, Decide, Terminate, Terminated, Stopped, vars
  <2> QED
    BY <1>1, <2>1 DEF PropsTyped
<1> QED
  BY <1>2, <1>3, <1>4, <1>5

LEMMA LibraryTypingStep ==
    ASSUME TypeOK, LiveLibrariesBind, [Next]_vars
    PROVE  lib' \in [File -> Library]
<1>1. lib \in [File -> Library]
  BY DEF TypeOK, Library
<1>2. ASSUME NEW i \in DOMAIN props, ~props[i].fatal,
             NEW k \in ShutDown(props[i].file, lib[props[i].file], i)
      PROVE  k \in Library
  BY <1>2, LibraryOf, ShutDownLibrary DEF LiveLibrariesBind, Live
<1>3. ASSUME NEW i \in DOMAIN props, BecomesFatal(i)
      PROVE  lib' \in [File -> Library]
  BY <1>1, <1>2, <1>3 DEF BecomesFatal
<1>4. CASE DeleteProperties
  <2>1. PICK i \in DOMAIN props :
          \E k \in (IF props[i].fatal THEN {lib[props[i].file]}
                   ELSE ShutDown(props[i].file, lib[props[i].file], i)) :
            lib' = [lib EXCEPT ![props[i].file] = k]
    BY <1>4 DEF DeleteProperties
  <2>2. CASE props[i].fatal
    BY <1>1, <2>1, <2>2, LibraryOf
  <2>3. CASE ~props[i].fatal
    BY <1>1, <1>2, <2>1, <2>3
  <2> QED
    BY <2>2, <2>3
<1>5. CASE EntryFails
  <2> DEFINE f == Head(todo)
  <2>1. f \in File /\ (UNCHANGED lib \/ lib' = [lib EXCEPT ![f] = Opened(lib[f])])
    BY <1>5 DEF EntryFails, NextEntry, TypeOK
  <2>2. f \in File /\ lib[f] \in Library
    BY <1>1, <1>5 DEF EntryFails, NextEntry, TypeOK
  <2>3. Opened(lib[f]) \in Library
    BY <2>2, InitializedLibrary
  <2> HIDE DEF f
  <2> QED
    BY <1>1, <2>1, <2>2, <2>3
<1>6. CASE EntryLoads
  <2> DEFINE f == Head(todo)
             i == imvIdCounter
             l == IF f \in Foreign THEN Opened(lib[f]) ELSE Initialized(Opened(lib[f]), i)
             bound == f \notin Foreign /\ Binds(l, i)
  <2>1. f \in File /\ lib[f] \in Library /\ i \in Nat
    BY <1>1, <1>6 DEF EntryLoads, NextEntry, TypeOK
  <2>2. l \in Library /\ l.opened = lib[f].opened + 1 /\ lib[f].opened \in Nat
    BY <2>1, InitializedLibrary DEF Library
  <2>3. PICK k \in (IF bound THEN {l} ELSE ShutDown(f, l, i)) : lib' = [lib EXCEPT ![f] = k]
    BY <1>6 DEF EntryLoads
  <2> HIDE DEF f, l, bound
  <2>4. k \in Library
    BY <2>1, <2>2, <2>3, ShutDownLibrary
  <2> QED
    BY <1>1, <2>3, <2>4
<1>7. CASE ~EntryLoads /\ ~EntryFails /\ ~DeleteProperties
           /\ ~\E i \in DOMAIN props : BecomesFatal(i)
  <2>1. UNCHANGED lib
    BY <1>7 DEF Next, AtWork, Initialize, Loaded, GetConnection,
       StoreUsername, Decide, Terminate, Terminated, Stopped, vars
  <2> QED
    BY <1>1, <2>1
<1> QED
  BY <1>3, <1>4, <1>5, <1>6, <1>7

LEMMA ConnectionsTypingStep ==
    ASSUME TypeOK, [Next]_vars
    PROVE  /\ DOMAIN connections' \subseteq Range(conId')
           /\ verdict'.about \in {-1} \cup DOMAIN connections'
<1> USE DEF TypeOK
<1>1. ASSUME NEW e \in Endpoint, GetConnection(e)
      PROVE  /\ DOMAIN connections' \subseteq Range(conId')
             /\ DOMAIN connections \subseteq DOMAIN connections'
  <2>1. /\ e \in DOMAIN conId' /\ DOMAIN conId \subseteq DOMAIN conId'
        /\ \A z \in DOMAIN conId : conId'[z] = conId[z]
    BY <1>1 DEF GetConnection, Extend
  <2>2. Range(conId) \subseteq Range(conId') /\ conId'[e] \in Range(conId')
    BY <2>1 DEF Range
  <2>3. DOMAIN connections' = DOMAIN connections \cup {conId'[e]}
    BY <1>1 DEF GetConnection, Extend
  <2> QED
    BY <2>2, <2>3
<1>2. CASE Terminate
  BY <1>2 DEF Terminate, NoConnections, NoVerdict, EmptyMap
<1>3. ASSUME NEW c \in DOMAIN connections, StoreUsername(c) \/ Decide(c)
      PROVE  /\ DOMAIN connections' = DOMAIN connections /\ conId' = conId
             /\ verdict'.about \in {-1} \cup DOMAIN connections'
  <2>1. CASE StoreUsername(c)
    BY <2>1 DEF StoreUsername
  <2>2. CASE Decide(c)
    <3>1. verdict'.about = c /\ connections' = connections /\ conId' = conId
      BY <2>2 DEF Decide
    <3> QED
      BY <3>1
  <2> QED
    BY <1>3, <2>1, <2>2
<1>4. CASE ~Terminate /\ (\A e \in Endpoint : ~GetConnection(e))
           /\ \A c \in DOMAIN connections : ~StoreUsername(c) /\ ~Decide(c)
  BY <1>4 DEF Next, AtWork, Initialize, EntryFails, EntryLoads, NextEntry, Loaded,
     BecomesFatal, DeleteProperties, Terminated, Stopped, vars
<1>5. ASSUME NEW e \in Endpoint, GetConnection(e)
      PROVE  verdict' = verdict
  BY <1>5 DEF GetConnection
<1> QED
  BY <1>1, <1>2, <1>3, <1>4, <1>5

LEMMA TypingStep ==
    ASSUME TypeOK, IdsAreCounted, LiveLibrariesBind, [Next]_vars
    PROVE  TypeOK'
<1>1. /\ phase' \in {"down", "loading", "ready", "ending", "crashed"}
      /\ lives' \in 0 .. MaxLives
  <2>1. CASE Initialize
    BY <2>1, LivesAssumption DEF TypeOK, Initialize
  <2>2. CASE EntryFails \/ EntryLoads \/ Loaded
    BY <2>2 DEF TypeOK, EntryFails, EntryLoads, NextEntry, Loaded
  <2>3. CASE AtWork
    BY <2>3 DEF TypeOK, AtWork, GetConnection, StoreUsername, BecomesFatal, Decide
  <2>4. CASE Terminate \/ DeleteProperties \/ Terminated \/ Stopped \/ UNCHANGED vars
    BY <2>4 DEF TypeOK, Terminate, DeleteProperties, Terminated, Stopped, vars
  <2> QED
    BY <2>1, <2>2, <2>3, <2>4 DEF Next
<1>2. todo' \in Seq(File)
  <2>1. CASE Initialize
    BY <2>1, ConfigsAssumption DEF Initialize
  <2>2. CASE NextEntry
    BY <2>2 DEF NextEntry, TypeOK
  <2>3. CASE ~Initialize /\ ~NextEntry
    <3>1. UNCHANGED todo
      BY <2>3 DEF Next, EntryFails, EntryLoads, AtWork, Loaded, GetConnection,
         StoreUsername, BecomesFatal, Decide, Terminate, DeleteProperties,
         Terminated, Stopped, vars
    <3> QED
      BY <3>1 DEF TypeOK
  <2> QED
    BY <2>1, <2>2, <2>3
<1> QED
  BY <1>1, <1>2, IdsStep, PropsTypingStep, LibraryTypingStep, ConnectionsTypingStep
     DEF TypeOK, PropsTyped, Prop, Library

-----------------------------------------------------------------------------
(* Theorems.                                                               *)

\* Invariance: the ids, maps and libraries fit together in every life.
THEOREM Invariance == Spec => []LifeInv
<1>1. Init => LifeInv
  <2> SUFFICES ASSUME Init PROVE LifeInv
    OBVIOUS
  <2>1. /\ DOMAIN props = {} /\ DOMAIN conId = {} /\ DOMAIN connections = {}
        /\ \A f \in File : lib[f] = Unmapped
        /\ lib \in [File -> Library] /\ ~Unmapped.initialized
    BY DEF Init, EmptyMap, Unmapped, Library
  <2>2. TypeOK
    BY <2>1, LivesAssumption DEF Init, TypeOK, IsInjective, NoVerdict, Library
  <2>3. IdsAreCounted
    BY <2>1, FS_EmptySet DEF IdsAreCounted
  <2> QED
    BY <2>1, <2>2, <2>3
       DEF Init, LifeInv, NothingOutlivesTerminate, ConnectionsHaveAllImvs,
           LiveLibrariesBind, InitializedIsInUse, NamesHaveAPlace
<1>2. LifeInv /\ [Next]_vars => LifeInv'
  BY TypingStep, IdsStep, RestStep, ImvsStep, LibrariesStep, NamesStep DEF LifeInv
<1> QED
  BY <1>1, <1>2, PTL DEF Spec

\* TypeOK: no id of a connection is ever given to two endpoints.
THEOREM Typing == Spec => []TypeOK
<1>1. LifeInv => TypeOK
  BY DEF LifeInv
<1> QED
  BY <1>1, Invariance, PTL

\* CallsFindTheirLibrary: IMVs that work are bound to libraries that are open
\* and initialized under their ids.
THEOREM LibrariesAreThere == Spec => []CallsFindTheirLibrary
<1>1. LifeInv => CallsFindTheirLibrary
  BY DEF LifeInv, ConnectionsHaveAllImvs, LiveLibrariesBind, Live,
         CallsFindTheirLibrary
<1> QED
  BY <1>1, Invariance, PTL

\* LoadsAgain: what was terminated loads again.
THEOREM LoadingAgain == Spec => LoadsAgain
<1> DEFINE Excused == \A i \in DOMAIN props' \ DOMAIN props :
                        props'[i].fatal =>
                          \/ props'[i].file \in Foreign \cup Endless
                          \/ \E j \in DOMAIN props : props[j].file = props'[i].file
<1>1. ASSUME LifeInv, [Next]_vars PROVE Excused
  <2> SUFFICES ASSUME NEW i \in DOMAIN props' \ DOMAIN props, props'[i].fatal
               PROVE  \/ props'[i].file \in Foreign \cup Endless
                      \/ \E j \in DOMAIN props : props[j].file = props'[i].file
    OBVIOUS
  <2>1. EntryLoads
    <3>1. ASSUME NEW j \in DOMAIN props, BecomesFatal(j) PROVE FALSE
      <4>1. DOMAIN props' = DOMAIN props
        BY <1>1, <3>1, WithFatalMap DEF BecomesFatal, LifeInv
      <4> QED
        BY <4>1
    <3>2. CASE DeleteProperties
      <4>1. PICK j \in DOMAIN props : props' = Restrict(props, DOMAIN props \ {j})
        BY <3>2 DEF DeleteProperties
      <4> QED
        BY <4>1, RestrictedMap
    <3>3. CASE UNCHANGED props
      BY <3>3
    <3> QED
      BY <1>1, <3>1, <3>2, <3>3
         DEF Next, AtWork, Initialize, EntryFails, NextEntry, Loaded, GetConnection,
             StoreUsername, Decide, Terminate, Terminated, Stopped, vars
  <2> DEFINE f == Head(todo)
             n == imvIdCounter
             l == IF f \in Foreign THEN Opened(lib[f]) ELSE Initialized(Opened(lib[f]), n)
             bound == f \notin Foreign /\ Binds(l, n)
  <2>2. /\ f \in File /\ n \in Nat /\ lib[f] \in Library
        /\ props' = Extend(props, n, Properties(f, ~bound))
    BY <1>1, <2>1 DEF EntryLoads, NextEntry, LifeInv, TypeOK, Library
  <2>3. i = n /\ props'[i].file = f /\ (props'[i].fatal <=> ~bound)
    BY <2>2 DEF Extend, Properties
  <2>4. CASE f \notin Foreign
    <3>1. lib[f].initialized
      BY <2>2, <2>3, <2>4, InitializedLibrary DEF Binds
    <3> QED
      BY <1>1, <2>2, <2>3, <3>1 DEF LifeInv, InitializedIsInUse
  <2> QED
    BY <2>3, <2>4
<1>2. LifeInv /\ [Next]_vars => [Excused]_vars
  BY <1>1
<1> QED
  BY <1>2, Invariance, PTL DEF Spec, LoadsAgain

\* StoredMeansAsked: a user name that was accepted is used.
THEOREM NamesAreUsed == Spec => StoredMeansAsked
<1> DEFINE Asked == verdict' # verdict /\ verdict'.about >= 0 =>
                      (connections[verdict'.about].username <=> verdict'.by = "pdp first")
<1>1. ASSUME LifeInv, [Next]_vars PROVE Asked
  <2>1. ASSUME NEW c \in DOMAIN connections, Decide(c) PROVE Asked
    BY <1>1, <2>1 DEF Decide, LifeInv, NamesHaveAPlace
  <2>2. CASE Terminate
    BY <2>2 DEF Terminate, NoVerdict
  <2>3. CASE ~Terminate /\ \A c \in DOMAIN connections : ~Decide(c)
    <3>1. UNCHANGED verdict
      BY <1>1, <2>3 DEF Next, AtWork, Initialize, EntryFails, EntryLoads, NextEntry, Loaded,
         GetConnection, StoreUsername, BecomesFatal, DeleteProperties, Terminated,
         Stopped, vars
    <3> QED
      BY <3>1
  <2> QED
    BY <2>1, <2>2, <2>3
<1>2. LifeInv /\ [Next]_vars => [Asked]_vars
  BY <1>1
<1> QED
  BY <1>2, Invariance, PTL DEF Spec, StoredMeansAsked

=============================================================================
