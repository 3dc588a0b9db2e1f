------------------------------- MODULE VpnPep -------------------------------
(***************************************************************************)
(* vpnpep, the policy enforcement point of the VPN scenario: it opens and  *)
(* closes the firewall for endpoints as the policy decision point          *)
(* recommends, and revokes the access of endpoints whose last assessment   *)
(* is too old.                                                             *)
(*                                                                         *)
(* Two threads share the table of endpoints without a lock: the thread of  *)
(* the io_service, on which the sessions with the decision point run one   *)
(* after the other, and the scheduler.  Each change of the firewall is a   *)
(* child process that runs a script; wait() returns on the end of any      *)
(* child, whichever thread has started it.                                 *)
(***************************************************************************)
EXTENDS Integers, Sequences, SequencesExt

CONSTANTS
    Endpoint,   \* IPv4 addresses
    Hour,       \* minutes of an hour
    MaxAge,     \* minutes after which a reassessment is missing
    MaxRules    \* bound: rules and started scripts of an endpoint

ASSUME TimeAssumption == /\ Hour \in Nat /\ MaxAge \in Nat
                         /\ MaxAge + 1 < Hour
ASSUME RulesAssumption == MaxRules \in Nat

Minute == 0 .. Hour - 1
NoStamp == -1               \* the null pointer in the place of an Endpoint

VARIABLES
    up,         \* the process runs
    minute,     \* tm_min of the wall clock
    seen,       \* the scheduler has begun a pass in this minute
    stamp,      \* EndpointDB::endpoints: minute of Endpoint::last_assessment
    keys,       \* the keys of the map; a null pointer keeps its key
    sched,      \* what the scheduler does
    now,        \* current_ts.tm_min of its pass
    todo,       \* endpoints its iterator has not reached
    ep,         \* the endpoint whose reassessment it has found missing
    found,      \* ts.tm_min, the stamp it has read of that endpoint
    session,    \* what the thread of the sessions does
    children,   \* scripts that are running
    zombies,    \* scripts that have ended, not yet seen by wait()
    rules,      \* firewall: how often a rule for the endpoint is in the list
    age,        \* history: minutes since the last recommendation, if at
                \* most MaxAge
    last        \* history: what was last ordered for the endpoint

table    == <<stamp, keys>>
pass     == <<sched, now, todo, ep, found>>
clock    == <<minute, seen, age>>
firewall == <<children, zombies, rules>>
vars     == <<up, clock, table, pass, session, firewall, last>>

Init == /\ up = TRUE
        /\ minute \in Minute /\ seen = FALSE
        /\ stamp = [e \in Endpoint |-> NoStamp] /\ keys = {}
        /\ sched = "sleeping" /\ now = 0 /\ todo = {}
        /\ ep \in Endpoint /\ found = 0
        /\ session = "idle"
        /\ children = <<>> /\ zombies = 0
        /\ rules = [e \in Endpoint |-> 0]
        /\ age = [e \in Endpoint |-> 0]
        /\ last = [e \in Endpoint |-> "nothing"]

-----------------------------------------------------------------------------
(* Time.  A pass takes less than a minute and the scheduler sleeps for ten *)
(* seconds, so it begins one at least every minute.                        *)

Next1(m) == IF m = Hour - 1 THEN 0 ELSE m + 1

Tick == /\ up /\ seen
        /\ minute' = Next1(minute)
        /\ seen' = FALSE
        /\ age' = [e \in Endpoint |-> IF age[e] <= MaxAge THEN age[e] + 1 ELSE age[e]]
        /\ UNCHANGED <<up, table, pass, session, firewall, last>>

-----------------------------------------------------------------------------
(* Scripts: allow-client.sh inserts a rule, deny-client.sh deletes one.    *)

Start(e, r) == children' = Append(children, [ep |-> e, rec |-> r])

ScriptEnds(i) ==
    LET c == children[i] IN
    /\ rules' = [rules EXCEPT ![c.ep] =
                   IF c.rec = "Y" THEN @ + 1 ELSE IF @ > 0 THEN @ - 1 ELSE 0]
    /\ children' = RemoveAt(children, i)
    /\ zombies' = IF up THEN zombies + 1 ELSE 0
    /\ UNCHANGED <<up, clock, table, pass, session, last>>

-----------------------------------------------------------------------------
(* PEPSession::handleReadCompleted                                         *)

Pending(e) == SelectSeq(children, LAMBDA c : c.ep = e)

\* A new key that comes into the map while the scheduler iterates may move
\* the buckets under its iterator: it goes on anywhere, or the process dies.
Disturbed(e) == IF e \in keys \/ sched = "sleeping"
                THEN UNCHANGED todo
                ELSE todo' \in SUBSET (keys \cup {e})

\* The scheduler may run between the two calls db->add and enforceBinaryIso,
\* but what it does there is the same when the script, whose end takes any
\* time, has been started before.
Recommend(e, r) ==
    /\ up /\ session = "idle"
    /\ r = "Y" => rules[e] + Len(Pending(e)) < MaxRules
    /\ stamp' = [stamp EXCEPT ![e] = minute]
    /\ keys' = keys \cup {e}
    /\ Disturbed(e)
    /\ Start(e, r)
    /\ session' = "waiting"
    /\ age' = [age EXCEPT ![e] = 0]
    /\ last' = [last EXCEPT ![e] = r]
    /\ UNCHANGED <<up, minute, seen, sched, now, ep, found, zombies, rules>>

SessionReturns == /\ up /\ session = "waiting" /\ zombies > 0
                  /\ zombies' = zombies - 1
                  /\ session' = "idle"
                  /\ UNCHANGED <<up, clock, table, pass, children, rules, last>>

\* An exception of the TLS handshake ends io_service::run and main; a
\* disturbed iterator may end the process, too.  The firewall stays as it is.
Die == /\ up /\ (session = "idle" \/ sched = "looking")
       /\ up' = FALSE
       /\ zombies' = 0 /\ session' = "idle"
       /\ sched' = "sleeping" /\ todo' = {} /\ found' = 0
       /\ UNCHANGED <<clock, table, now, ep, children, rules, last>>

-----------------------------------------------------------------------------
(* AssessmentScheduler::operator()                                         *)

BeginPass == /\ up /\ sched = "sleeping"
             /\ now' = minute /\ seen' = TRUE
             /\ todo' = keys
             /\ sched' = "looking"
             /\ UNCHANGED <<up, minute, age, table, ep, found, session, firewall, last>>

\* Faulty variant: an age of MaxAge minutes is too old already.
OverdueEarly(e) == stamp[e] # NoStamp /\ now - stamp[e] >= MaxAge

Overdue(e) == stamp[e] # NoStamp /\ now - stamp[e] > MaxAge

Pass(e) == /\ up /\ sched = "looking" /\ e \in todo /\ ~Overdue(e)
           /\ todo' = todo \ {e}
           /\ UNCHANGED <<up, clock, table, sched, now, ep, found, session, firewall, last>>

FindMissing(e) == /\ up /\ sched = "looking" /\ e \in todo /\ Overdue(e)
                  /\ todo' = todo \ {e}
                  /\ ep' = e /\ found' = stamp[e]
                  /\ sched' = "overdue"
                  /\ UNCHANGED <<up, clock, table, now, session, firewall, last>>

\* No lock is held since the stamp was read: a session may have stored a new
\* assessment of the endpoint meanwhile, which is not looked at.
Revoke == /\ up /\ sched = "overdue"
          /\ Start(ep, "N")
          /\ sched' = "waiting"
          /\ last' = [last EXCEPT ![ep] = "N"]
          /\ found' = 0         \* not looked at again
          /\ UNCHANGED <<up, clock, table, now, todo, ep, session, zombies, rules>>

\* Faulty variant: the scheduler does not wait for its script.
DropAtOnce == /\ up /\ sched = "waiting"
              /\ sched' = "looking"
              /\ stamp' = [stamp EXCEPT ![ep] = NoStamp]
              /\ UNCHANGED <<up, clock, keys, now, todo, ep, found, session, firewall, last>>

\* Faulty variant: the key is erased under the iterator.
DropErasing == /\ up /\ sched = "waiting" /\ zombies > 0
               /\ zombies' = zombies - 1
               /\ sched' = "looking"
               /\ stamp' = [stamp EXCEPT ![ep] = NoStamp]
               /\ keys' = keys \ {ep}
               /\ UNCHANGED <<up, clock, now, todo, ep, found, session, children, rules, last>>

\* Faulty variant: the entry is kept.
KeepEntry == /\ up /\ sched = "waiting" /\ zombies > 0
             /\ zombies' = zombies - 1
             /\ sched' = "looking"
             /\ UNCHANGED <<up, clock, table, now, todo, ep, found, session, children,
                            rules, last>>

\* wait() returns; the object that was read is deleted and the pointer in
\* the table set to 0, whatever it points to by now.
Drop == /\ up /\ sched = "waiting" /\ zombies > 0
        /\ zombies' = zombies - 1
        /\ sched' = "looking"
        /\ stamp' = [stamp EXCEPT ![ep] = NoStamp]
        /\ UNCHANGED <<up, clock, keys, now, todo, ep, found, session, children, rules, last>>

EndPass == /\ up /\ sched = "looking" /\ todo = {}
           /\ sched' = "sleeping"
           /\ UNCHANGED <<up, clock, table, now, todo, ep, found, session, firewall, last>>

Scheduler == \/ BeginPass \/ EndPass \/ Drop
             \/ \E e \in Endpoint : Pass(e) \/ FindMissing(e)
             \/ Revoke

-----------------------------------------------------------------------------
SomeScriptEnds == \E i \in DOMAIN children : ScriptEnds(i)

Stopped == ~up /\ children = <<>> /\ UNCHANGED vars

Next == \/ Tick \/ Scheduler \/ SomeScriptEnds \/ SessionReturns
        \/ \E e \in Endpoint, r \in {"Y", "N"} : Recommend(e, r)
        \/ Die \/ Stopped

Spec == Init /\ [][Next]_vars

\* The threads run on, scripts come to an end, and time passes; the kernel
\* does not let wait() return in one thread for ever and never in the other.
FairSpec == Spec /\ WF_vars(Tick) /\ WF_vars(Scheduler) /\ WF_vars(SomeScriptEnds)
                 /\ WF_vars(SessionReturns) /\ SF_vars(Drop)

-----------------------------------------------------------------------------
TypeOK ==
    /\ up \in BOOLEAN /\ seen \in BOOLEAN
    /\ minute \in Minute /\ now \in Minute
    /\ stamp \in [Endpoint -> Minute \cup {NoStamp}]
    /\ keys \subseteq Endpoint /\ todo \subseteq keys /\ ep \in Endpoint
    /\ found \in Minute
    /\ sched \in {"sleeping", "looking", "overdue", "waiting"}
    /\ session \in {"idle", "waiting"}
    /\ children \in Seq([ep : Endpoint, rec : {"Y", "N"}])
    /\ zombies \in Nat
    /\ rules \in [Endpoint -> Nat]
    /\ age \in [Endpoint -> 0 .. MaxAge + 1]
    /\ last \in [Endpoint -> {"nothing", "Y", "N"}]

Awaiting == (IF session = "waiting" THEN 1 ELSE 0)
              + (IF sched = "waiting" THEN 1 ELSE 0)

\* Two threads take the ends of each other's scripts, but as often as one
\* waits, there is a script for it: no thread waits for ever, none overtakes
\* more than one script, and no ended process is left behind
\* (EnforcementManager.h, enforceBinaryIso).
ScriptsAreAwaited == up => Len(children) + zombies = Awaiting

\* The scheduler revokes access only if the last recommendation is more than
\* MaxAge minutes old, with two exceptions.  An hour begins during its pass:
\* it subtracts minutes of the hour, with a clock read before it walks over a
\* table that the sessions change.  Or a session has stored a new assessment
\* since the stamp was read (AssessmentScheduler.h).
RevokesOnlyStale ==
    [][Revoke => age[ep] > MaxAge \/ now > minute \/ stamp[ep] # found]_vars

\* The invariant behind it: what a stamp says about the age, how far the
\* clock of a pass is behind, and what is known of a missing reassessment.
StampsAreAges == \A e \in Endpoint :
    stamp[e] # NoStamp /\ age[e] <= MaxAge
      => stamp[e] + age[e] \in {minute, minute + Hour}
ClockOfPass == sched # "sleeping" =>
    IF seen THEN now = minute ELSE minute = Next1(now)
FoundIsOverdue == sched = "overdue" =>
    /\ now - found > MaxAge
    /\ stamp[ep] = found /\ age[ep] <= MaxAge => now > minute
SInv == ScriptsAreAwaited /\ StampsAreAges /\ ClockOfPass /\ FoundIsOverdue

\* An endpoint assessed early enough in the hour does not stay in the table
\* unless it is assessed again, whatever the sessions do meanwhile.
Listed(e) == up /\ stamp[e] # NoStamp /\ stamp[e] + MaxAge + 1 < Hour
StaleIsRevoked == \A e \in Endpoint : Listed(e) ~> ~Listed(e)

\* "N: No access will be granted" (PEPClient.h): when the scripts have run and
\* the last order for an endpoint was N, it has no access.
DeniedIsDenied == \A e \in Endpoint :
    children = <<>> /\ last[e] = "N" => rules[e] = 0
=============================================================================
