---------------------------- MODULE Coordinator ----------------------------
(***************************************************************************)
(* The life cycle of the TNC server: the Coordinator is initialized with a *)
(* configuration file, loads the IMV libraries it lists, serves endpoints, *)
(* is terminated, and may be initialized again in the same process.        *)
(*                                                                         *)
(* The libraries are built on IMUnit, which remembers whether it is        *)
(* initialized and under which id.  What an IMV does in a handshake is in  *)
(* Tncs; here a handshake is its decision.  The network access layer calls *)
(* getConnection and the rest only while the server is initialized.        *)
(***************************************************************************)
EXTENDS Integers, Sequences, FiniteSets, Functions

CONSTANTS
    File,        \* IMV libraries
    Missing,     \* ... that cannot be opened
    Incomplete,  \* ... that lack a mandatory function
    Foreign,     \* ... of another version of IF-IMV
    Endless,     \* ... that lack the optional TNC_IMV_Terminate
    Configs,     \* contents of tnc_config: lists of libraries
    Endpoint,
    MaxLives     \* bound: how often the server is initialized

ASSUME FilesAssumption ==
    /\ Missing \subseteq File /\ Incomplete \subseteq File
    /\ Foreign \subseteq File /\ Endless \subseteq File
ASSUME ConfigsAssumption == Configs \subseteq Seq(File)
ASSUME LivesAssumption == MaxLives \in Nat

VARIABLES
    phase,        \* "down", "loading", "ready", "ending", "crashed"
    todo,         \* entries of tnc_config still to be loaded
    imvIdCounter, \* Coordinator::imvIdCounter
    props,        \* Coordinator::imvProperties: id -> IMVProperties
    conId,        \* Coordinator::stringToConId; see FreshConId
    connections,  \* Coordinator::connections: id -> Connection
    lib,          \* the libraries: opened how often, initialized, for which id
    lives,        \* initializations so far
    verdict       \* the last decision: for whom, by whom

vars == <<phase, todo, imvIdCounter, props, conId, connections, lib, lives,
          verdict>>

EmptyMap == [x \in {} |-> 0]
Extend(f, x, y) == [z \in DOMAIN f \cup {x} |-> IF z = x THEN y ELSE f[z]]

\* A library that is not mapped; its static objects are made when it is.
Unmapped == [opened |-> 0, initialized |-> FALSE, id |-> 0]

NoVerdict == [about |-> -1, by |-> "nobody"]

Init == /\ phase = "down" /\ todo = <<>> /\ imvIdCounter = 0
        /\ props = EmptyMap /\ conId = EmptyMap /\ connections = EmptyMap
        /\ lib = [f \in File |-> Unmapped]
        /\ lives = 0 /\ verdict = NoVerdict

-----------------------------------------------------------------------------
(* A library and its IMVProperties.                                        *)

Opened(l) == [l EXCEPT !.opened = @ + 1]

\* lt_dlclose: with the last handle the library loses its state, unless the
\* dynamic linker keeps it mapped.
Closed(l) == IF l.opened = 1 THEN {Unmapped, [l EXCEPT !.opened = 0]}
             ELSE {[l EXCEPT !.opened = @ - 1]}

\* TNC_IMV_Initialize: ALREADY_INITIALIZED leaves the id as it is (and the
\* version that is checked next unset, but such a library does not bind).
Initialized(l, i) ==
    IF l.initialized THEN l ELSE [l EXCEPT !.initialized = TRUE, !.id = i]

\* TNC_IMV_ProvideBindFunction succeeds and reports the message types.
Binds(l, i) == l.initialized /\ l.id = i

\* Faulty variant: the flag is set before TNC_IMV_Terminate is called, which
\* is not done any more once it is set.
ShutDownFlagFirst(f, l, i) == Closed(l)

\* IMVProperties::handleFatalError: TNC_IMV_Terminate, if there is one (the
\* library refuses the id of another), then the library is closed.
ShutDown(f, l, i) ==
    Closed(IF f \notin Endless /\ Binds(l, i)
           THEN [l EXCEPT !.initialized = FALSE] ELSE l)

Properties(f, fatal) == [file |-> f, fatal |-> fatal]

-----------------------------------------------------------------------------
(* initialize.                                                             *)

Initialize ==
    /\ phase = "down" /\ lives < MaxLives
    /\ phase' = "loading" /\ lives' = lives + 1
    /\ todo' \in Configs
    /\ UNCHANGED <<imvIdCounter, props, conId, connections, lib, verdict>>

NextEntry == /\ phase = "loading" /\ todo # <<>>
             /\ todo' = Tail(todo)
             /\ UNCHANGED <<phase, conId, connections, lives, verdict>>

\* The constructor of IMVProperties throws: the entry is left out, and its
\* id goes to the next one.  Without a mandatory function the library stays
\* open.
EntryFails ==
    /\ NextEntry
    /\ \/ Head(todo) \in Missing /\ UNCHANGED lib
       \/ /\ Head(todo) \in Incomplete
          /\ lib' = [lib EXCEPT ![Head(todo)] = Opened(@)]
    /\ UNCHANGED <<imvIdCounter, props>>

\* Otherwise the entry has its id for good, also when TNC_IMV_Initialize or
\* TNC_IMV_ProvideBindFunction fails.
EntryLoads ==
    /\ NextEntry
    /\ Head(todo) \notin Missing \cup Incomplete
    /\ LET f == Head(todo)
           i == imvIdCounter
           l == IF f \in Foreign THEN Opened(lib[f])
                ELSE Initialized(Opened(lib[f]), i)
           bound == f \notin Foreign /\ Binds(l, i)
       IN /\ props' = Extend(props, i, Properties(f, ~bound))
          /\ \E k \in (IF bound THEN {l} ELSE ShutDown(f, l, i)) :
               lib' = [lib EXCEPT ![f] = k]
    /\ imvIdCounter' = imvIdCounter + 1

Loaded == /\ phase = "loading" /\ todo = <<>>
          /\ phase' = "ready"
          /\ UNCHANGED <<todo, imvIdCounter, props, conId, connections, lib,
                         lives, verdict>>

-----------------------------------------------------------------------------
(* The server at work.                                                     *)

\* Faulty variant: ids are counted anew in each life.
FreshConIdOfThisLife == Cardinality(DOMAIN connections)

\* Coordinator::conIdCounter.
FreshConId == Cardinality(DOMAIN conId)

\* The id of an endpoint stays over terminate and initialize; its Connection
\* does not.
GetConnection(e) ==
    /\ phase = "ready"
    /\ conId' = IF e \in DOMAIN conId THEN conId
                ELSE Extend(conId, e, FreshConId)
    /\ connections' =
         IF conId'[e] \in DOMAIN connections THEN connections
         ELSE Extend(connections, conId'[e],
                     [imvs |-> DOMAIN props, username |-> FALSE])
    /\ UNCHANGED <<phase, todo, imvIdCounter, props, lib, lives, verdict>>

\* setAttribute and getAttribute look up the IMV with id 0 first.
HasAttributes == 0 \in DOMAIN props

\* storeUsername of the network access layer; it is told when it fails.
StoreUsername(c) ==
    /\ phase = "ready" /\ c \in DOMAIN connections
    /\ HasAttributes
    /\ connections' = [connections EXCEPT ![c].username = TRUE]
    /\ UNCHANGED <<phase, todo, imvIdCounter, props, conId, lib, lives, verdict>>

\* Faulty variant: the failing IMV is taken out of the map.
WithFatalErased(i) == [j \in DOMAIN props \ {i} |-> props[j]]

WithFatal(i) == [props EXCEPT ![i].fatal = TRUE]

\* A library fails for good in a handshake.
BecomesFatal(i) ==
    /\ phase = "ready" /\ connections # EmptyMap
    /\ i \in DOMAIN props /\ ~props[i].fatal
    /\ props' = WithFatal(i)
    /\ LET f == props[i].file
       IN \E k \in ShutDown(f, lib[f], i) : lib' = [lib EXCEPT ![f] = k]
    /\ UNCHANGED <<phase, todo, imvIdCounter, conId, connections, lives, verdict>>

\* A handshake is decided by the policy decision point if the user name can
\* be read (and by the local policy if it does not answer), and by the local
\* policy at once otherwise.  Without any IMV doXACMLEvaluation reads past the
\* end of a list before.
Decide(c) ==
    /\ phase = "ready" /\ c \in DOMAIN connections
    /\ verdict' = [about |-> c,
                   by |-> IF HasAttributes /\ connections[c].username
                          THEN "pdp first" ELSE "policy"]
    /\ \/ UNCHANGED phase
       \/ connections[c].imvs = {} /\ phase' = "crashed"
    /\ UNCHANGED <<todo, imvIdCounter, props, conId, connections, lib, lives>>

-----------------------------------------------------------------------------
(* terminate: connections first, then the libraries in the order of ids.   *)

\* Faulty variant: the connections are kept for the next life.
ConnectionsStay == UNCHANGED connections

NoConnections == connections' = EmptyMap

Terminate ==
    /\ phase = "ready" /\ phase' = "ending"
    /\ NoConnections /\ verdict' = NoVerdict
    /\ UNCHANGED <<todo, imvIdCounter, props, conId, lib, lives>>

DeleteProperties ==
    /\ phase = "ending"
    /\ \E i \in DOMAIN props :
         /\ \A j \in DOMAIN props : i <= j
         /\ LET f == props[i].file
            IN /\ props' = Restrict(props, DOMAIN props \ {i})
               /\ \E k \in (IF props[i].fatal THEN {lib[f]}
                           ELSE ShutDown(f, lib[f], i)) :
                    lib' = [lib EXCEPT ![f] = k]
    /\ UNCHANGED <<phase, todo, imvIdCounter, conId, connections, lives, verdict>>

Terminated == /\ phase = "ending" /\ props = EmptyMap
              /\ phase' = "down"
              /\ UNCHANGED <<todo, imvIdCounter, props, conId, connections,
                             lib, lives, verdict>>

-----------------------------------------------------------------------------
AtWork == \/ \E e \in Endpoint : GetConnection(e)
          \/ \E c \in DOMAIN connections : StoreUsername(c) \/ Decide(c)
          \/ \E i \in DOMAIN props : BecomesFatal(i)

Stopped == /\ phase = "crashed" \/ (phase = "down" /\ lives = MaxLives)
           /\ UNCHANGED vars

Next == \/ Initialize \/ EntryFails \/ EntryLoads \/ Loaded
        \/ AtWork
        \/ Terminate \/ DeleteProperties \/ Terminated
        \/ Stopped

Spec == Init /\ [][Next]_vars

-----------------------------------------------------------------------------
\* No id of a connection is given to two endpoints, in any life.
TypeOK ==
    /\ phase \in {"down", "loading", "ready", "ending", "crashed"}
    /\ todo \in Seq(File) /\ imvIdCounter \in Nat /\ lives \in 0 .. MaxLives
    /\ DOMAIN props \subseteq 0 .. imvIdCounter - 1
    /\ \A i \in DOMAIN props : props[i] \in [file : File, fatal : BOOLEAN]
    /\ IsInjective(conId) /\ DOMAIN conId \subseteq Endpoint
    /\ DOMAIN connections \subseteq Range(conId)
    /\ lib \in [File -> [opened : Nat, initialized : BOOLEAN, id : Nat]]
    /\ verdict.about \in {-1} \cup DOMAIN connections

\* Whatever the server calls is there: the IMVs of a connection are exactly
\* the libraries of this life, and a library that is not shut down is open
\* and initialized under the very id the server calls it with, however often
\* tnc_config lists it and whatever an earlier life left of it.
CallsFindTheirLibrary ==
    /\ \A c \in DOMAIN connections : connections[c].imvs = DOMAIN props
    /\ \A i \in DOMAIN props : ~props[i].fatal =>
         lib[props[i].file].opened > 0 /\ Binds(lib[props[i].file], i)

\* A library fails to load only for what it is or because it is loaded
\* already: terminate and fatal errors leave nothing behind that would keep
\* it from loading in a later life, unless it lacks TNC_IMV_Terminate.
LoadsAgain ==
    [][\A i \in DOMAIN props' \ DOMAIN props :
         props'[i].fatal =>
           \/ props'[i].file \in Foreign \cup Endless
           \/ \E j \in DOMAIN props : props[j].file = props'[i].file]_vars

\* A user name that storeUsername accepted is used: the decisions about the
\* connection ask the policy decision point, also when the library with the
\* id 0, under which the name is stored, has failed.  In a later life no
\* library has this id and no name is accepted.
StoredMeansAsked ==
    [][verdict' # verdict /\ verdict'.about >= 0 =>
         (connections[verdict'.about].username <=> verdict'.by = "pdp first")]_vars

=============================================================================
