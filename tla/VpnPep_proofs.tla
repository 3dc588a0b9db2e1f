--------------------------- MODULE VpnPep_proofs ---------------------------
(***************************************************************************)
(* What holds of VpnPep for any number of endpoints, any length of an hour *)
(* and any limit on the age of an assessment.                              *)
(***************************************************************************)
EXTENDS VpnPep, SequenceTheorems, TLAPS

USE TimeAssumption, RulesAssumption

Script == [ep : Endpoint, rec : {"Y", "N"}]

\* A script that ends leaves the list of the running ones, and no other does.
LEMMA RemovedScript ==
    ASSUME NEW s \in Seq(Script), NEW i \in DOMAIN s
    PROVE  RemoveAt(s, i) \in Seq(Script) /\ Len(RemoveAt(s, i)) = Len(s) - 1
<1>1. i \in 1 .. Len(s)
  OBVIOUS
<1>2. /\ SubSeq(s, 1, i - 1) \in Seq(Script)
      /\ Len(SubSeq(s, 1, i - 1)) = i - 1
  BY <1>1
<1>3. /\ SubSeq(s, i + 1, Len(s)) \in Seq(Script)
      /\ Len(SubSeq(s, i + 1, Len(s))) = Len(s) - i
  BY <1>1
<1>4. \A a, b \in Seq(Script) : a \o b \in Seq(Script) /\ Len(a \o b) = Len(a) + Len(b)
  OBVIOUS
<1>5. Len(s) \in Nat /\ (i - 1) + (Len(s) - i) = Len(s) - 1
  BY <1>1
<1> QED
  BY <1>2, <1>3, <1>4, <1>5 DEF RemoveAt

LEMMA NextMinute ==
    ASSUME NEW m \in Minute
    PROVE  Next1(m) \in Minute
  BY DEF Minute, Next1

\* A minute later, the sum of a stamp and its age is a minute later, too.
LEMMA LaterSum ==
    ASSUME NEW s \in Minute, NEW m \in Minute, NEW a \in 0 .. MaxAge,
           s + a \in {m, m + Hour}
    PROVE  s + (a + 1) \in {Next1(m), Next1(m) + Hour}
<1> USE DEF Minute, Next1
<1>1. CASE s + a = m
  BY <1>1
<1>2. CASE s + a = m + Hour
  <2>1. s + a < Hour - 1 + Hour
    OBVIOUS
  <2> QED
    BY <1>2, <2>1
<1> QED
  BY <1>1, <1>2

-----------------------------------------------------------------------------
LEMMA TypingStep ==
    ASSUME TypeOK, [Next]_vars
    PROVE  TypeOK'
<1> USE DEF TypeOK
<1>1. CASE Tick
  <2>1. minute' \in Minute
    BY <1>1, NextMinute DEF Tick
  <2>2. \A e \in Endpoint : age[e] <= MaxAge => age[e] + 1 \in 0 .. MaxAge + 1
    OBVIOUS
  <2>3. age' \in [Endpoint -> 0 .. MaxAge + 1]
    BY <1>1, <2>2 DEF Tick
  <2> QED
    BY <1>1, <2>1, <2>3 DEF Tick, table, pass, firewall
<1>2. ASSUME NEW e \in Endpoint, NEW r \in {"Y", "N"}, Recommend(e, r)
      PROVE  TypeOK'
  <2>1. children' \in Seq(Script)
    BY <1>2 DEF Recommend, Start, Script
  <2>2. keys' \subseteq Endpoint /\ todo' \subseteq keys'
    BY <1>2 DEF Recommend, Disturbed
  <2> QED
    BY <1>2, <2>1, <2>2 DEF Recommend, Script, Minute
<1>3. CASE SessionReturns
  BY <1>3 DEF SessionReturns, clock, table, pass
<1>4. CASE Die
  <2>1. found' \in Minute
    BY <1>4 DEF Die, Minute
  <2> QED
    BY <1>4, <2>1 DEF Die, clock, table
<1>5. CASE BeginPass \/ EndPass
  BY <1>5 DEF BeginPass, EndPass, clock, table, firewall
<1>6. CASE Drop
  BY <1>6 DEF Drop, clock
<1>7. ASSUME NEW e \in Endpoint, Pass(e) PROVE TypeOK'
  BY <1>7 DEF Pass, clock, table, firewall
<1>8. CASE Revoke
  <2>1. children' \in Seq(Script)
    BY <1>8 DEF Revoke, Start, Script
  <2>2. found' \in Minute
    BY <1>8 DEF Revoke, Minute
  <2> QED
    BY <1>8, <2>1, <2>2 DEF Revoke, clock, table, Script
<1>9. ASSUME NEW i \in DOMAIN children, ScriptEnds(i) PROVE TypeOK'
  <2>1. children' \in Seq(Script)
    BY <1>9, RemovedScript DEF ScriptEnds, Script
  <2>2. children[i] \in Script
    <3>1. children \in Seq(Script)
      BY DEF Script
    <3> QED
      BY <3>1, ElementOfSeq
  <2>3. rules' \in [Endpoint -> Nat]
    BY <1>9, <2>2 DEF ScriptEnds, Script
  <2>4. zombies' \in Nat
    BY <1>9 DEF ScriptEnds
  <2> QED
    BY <1>9, <2>1, <2>3, <2>4 DEF ScriptEnds, clock, table, pass, Script
<1>10. CASE Stopped \/ UNCHANGED vars
  BY <1>10 DEF Stopped, vars, clock, table, pass, firewall
<1>11. ASSUME NEW e \in Endpoint, FindMissing(e) PROVE TypeOK'
  BY <1>11 DEF FindMissing, Overdue, clock, table, firewall
<1> QED
  BY <1>1, <1>2, <1>3, <1>4, <1>5, <1>6, <1>7, <1>8, <1>9, <1>10, <1>11
     DEF Next, Scheduler, SomeScriptEnds

\* TypeOK: every variable keeps its type, and the scheduler's iterator stays
\* inside the table.
THEOREM Typing == Spec => []TypeOK
<1>1. Init => TypeOK
  <2>1. 0 \in Minute /\ 0 \in 0 .. MaxAge + 1
    BY DEF Minute
  <2>2. <<>> \in Seq([ep : Endpoint, rec : {"Y", "N"}])
    OBVIOUS
  <2> SUFFICES ASSUME Init PROVE TypeOK
    OBVIOUS
  <2>3. /\ stamp \in [Endpoint -> Minute \cup {NoStamp}]
        /\ rules \in [Endpoint -> Nat]
        /\ age \in [Endpoint -> 0 .. MaxAge + 1]
        /\ last \in [Endpoint -> {"nothing", "Y", "N"}]
    BY <2>1 DEF Init
  <2>4. /\ up \in BOOLEAN /\ seen \in BOOLEAN
        /\ minute \in Minute /\ now \in Minute
        /\ keys \subseteq Endpoint /\ todo \subseteq keys /\ ep \in Endpoint
        /\ found \in Minute
    BY <2>1 DEF Init
  <2>5. /\ sched \in {"sleeping", "looking", "overdue", "waiting"}
        /\ session \in {"idle", "waiting"}
        /\ children \in Seq([ep : Endpoint, rec : {"Y", "N"}])
        /\ zombies \in Nat
    BY <2>2 DEF Init
  <2> QED
    BY <2>3, <2>4, <2>5 DEF TypeOK
<1> QED
  BY <1>1, TypingStep, PTL DEF Spec

-----------------------------------------------------------------------------
\* Scripts and threads that wait.
LEMMA AwaitedStep ==
    ASSUME TypeOK, ScriptsAreAwaited, [Next]_vars
    PROVE  ScriptsAreAwaited'
<1> USE DEF TypeOK, ScriptsAreAwaited, Awaiting
<1>1. CASE Tick
  BY <1>1 DEF Tick, pass, firewall
<1>2. ASSUME NEW e \in Endpoint, NEW r \in {"Y", "N"}, Recommend(e, r)
      PROVE  ScriptsAreAwaited'
  BY <1>2 DEF Recommend, Start
<1>3. CASE SessionReturns
  BY <1>3 DEF SessionReturns, pass
<1>4. CASE Die
  BY <1>4 DEF Die
<1>5. CASE BeginPass \/ EndPass
  BY <1>5 DEF BeginPass, EndPass, firewall
<1>6. CASE Drop
  BY <1>6 DEF Drop
<1>7. ASSUME NEW e \in Endpoint, Pass(e) \/ FindMissing(e)
      PROVE  ScriptsAreAwaited'
  BY <1>7 DEF Pass, FindMissing, firewall
<1>8. CASE Revoke
  BY <1>8 DEF Revoke, Start
<1>9. ASSUME NEW i \in DOMAIN children, ScriptEnds(i) PROVE ScriptsAreAwaited'
  <2>1. Len(children') = Len(children) - 1
    BY <1>9, RemovedScript DEF ScriptEnds, Script
  <2>2. /\ up' = up /\ session' = session /\ sched' = sched
        /\ up => zombies' = zombies + 1
    BY <1>9 DEF ScriptEnds, pass
  <2>3. Len(children) \in Nat
    OBVIOUS
  <2> QED
    BY <2>1, <2>2, <2>3
<1>10. CASE Stopped \/ UNCHANGED vars
  BY <1>10 DEF Stopped, vars, pass, firewall
<1> QED
  BY <1>1, <1>2, <1>3, <1>4, <1>5, <1>6, <1>7, <1>8, <1>9, <1>10
     DEF Next, Scheduler, SomeScriptEnds

-----------------------------------------------------------------------------
\* Stamps and clocks.
Timing == StampsAreAges /\ ClockOfPass

LEMMA TimingStep ==
    ASSUME TypeOK, Timing, [Next]_vars
    PROVE  Timing'
<1> USE DEF TypeOK, Timing, StampsAreAges, ClockOfPass, Minute, NoStamp
<1>1. CASE Tick
  <2>1. ClockOfPass'
    BY <1>1 DEF Tick, pass, Next1
  <2>2. ASSUME NEW e \in Endpoint, stamp[e] # NoStamp, age'[e] <= MaxAge
        PROVE  stamp[e] + age'[e] \in {minute', minute' + Hour}
    <3>1. /\ age[e] \in 0 .. MaxAge + 1 /\ stamp[e] \in Minute
          /\ age'[e] = IF age[e] <= MaxAge THEN age[e] + 1 ELSE age[e]
      BY <1>1, <2>2 DEF Tick
    <3>2. age[e] <= MaxAge /\ age'[e] = age[e] + 1
      BY <2>2, <3>1
    <3>3. stamp[e] + age[e] \in {minute, minute + Hour}
      BY <2>2, <3>2
    <3> QED
      BY <1>1, <3>1, <3>2, <3>3, LaterSum DEF Tick
  <2>3. StampsAreAges'
    BY <1>1, <2>2 DEF Tick, table
  <2> QED
    BY <2>1, <2>3
<1>2. ASSUME NEW e \in Endpoint, NEW r \in {"Y", "N"}, Recommend(e, r)
      PROVE  Timing'
  BY <1>2 DEF Recommend, Next1
<1>3. CASE SessionReturns \/ SomeScriptEnds
  BY <1>3 DEF SessionReturns, SomeScriptEnds, ScriptEnds, clock, table, pass
<1>4. CASE Die
  BY <1>4 DEF Die, clock, table
<1>5. CASE BeginPass
  BY <1>5 DEF BeginPass, table
<1>6. CASE Drop \/ EndPass
  BY <1>6 DEF Drop, EndPass, clock, table
<1>7. ASSUME NEW e \in Endpoint, Pass(e) \/ FindMissing(e) PROVE Timing'
  BY <1>7 DEF Pass, FindMissing, clock, table
<1>8. CASE Revoke
  BY <1>8 DEF Revoke, clock, table
<1>9. CASE Stopped \/ UNCHANGED vars
  BY <1>9 DEF Stopped, vars, clock, table, pass
<1> QED
  BY <1>1, <1>2, <1>3, <1>4, <1>5, <1>6, <1>7, <1>8, <1>9 DEF Next, Scheduler

-----------------------------------------------------------------------------
\* An endpoint with a stamp that is overdue by the clock of the pass has not
\* been assessed for MaxAge minutes, unless an hour has begun.
LEMMA OverdueIsOld ==
    ASSUME TypeOK, Timing, NEW e \in Endpoint, Overdue(e), sched # "sleeping",
           age[e] <= MaxAge
    PROVE  now > minute
<1>1. /\ stamp[e] # NoStamp /\ now - stamp[e] > MaxAge
      /\ now \in Minute /\ minute \in Minute /\ age[e] \in 0 .. MaxAge + 1
      /\ stamp[e] \in Minute
  BY DEF TypeOK, Overdue
<1>2. now = minute \/ minute = Next1(now)
  BY DEF Timing, ClockOfPass
<1>3. stamp[e] + age[e] \in {minute, minute + Hour}
  BY <1>1 DEF Timing, StampsAreAges
<1> QED
  BY <1>1, <1>2, <1>3 DEF Minute, Next1

\* What the scheduler has found: time cannot pass the minute after its pass
\* has begun, and a new stamp is not the one it has read.
LEMMA FoundStep ==
    ASSUME TypeOK, Timing, FoundIsOverdue, [Next]_vars
    PROVE  FoundIsOverdue'
<1> USE DEF FoundIsOverdue
<1>1. CASE Tick
  <2>1. sched' = sched /\ found' = found /\ ep' = ep /\ now' = now /\ stamp' = stamp
    BY <1>1 DEF Tick, pass, table
  <2>2. SUFFICES ASSUME sched = "overdue", stamp[ep] = found, age'[ep] <= MaxAge
                 PROVE  FALSE
    BY <2>1
  <2>3. ep \in Endpoint /\ age[ep] \in 0 .. MaxAge + 1
    BY DEF TypeOK
  <2>4. age[ep] <= MaxAge
    BY <1>1, <2>2, <2>3 DEF Tick, TypeOK
  <2>5. now = minute
    BY <1>1, <2>2 DEF Tick, Timing, ClockOfPass
  <2> QED
    BY <2>2, <2>4, <2>5 DEF TypeOK, Minute
<1>2. ASSUME NEW e \in Endpoint, NEW r \in {"Y", "N"}, Recommend(e, r)
      PROVE  FoundIsOverdue'
  <2>1. /\ sched' = sched /\ found' = found /\ ep' = ep /\ now' = now
        /\ minute' = minute
        /\ stamp' = [stamp EXCEPT ![e] = minute] /\ age' = [age EXCEPT ![e] = 0]
    BY <1>2 DEF Recommend
  <2>2. SUFFICES ASSUME sched = "overdue", stamp'[ep] = found, age'[ep] <= MaxAge
                 PROVE  now > minute
    BY <2>1
  <2>3. CASE ep = e
    <3>1. minute = found
      BY <2>1, <2>2, <2>3 DEF TypeOK
    <3> QED
      BY <2>2, <3>1 DEF TypeOK, Minute
  <2>4. CASE ep # e
    BY <2>1, <2>2, <2>4 DEF TypeOK
  <2> QED
    BY <2>3, <2>4
<1>3. CASE SessionReturns \/ SomeScriptEnds \/ Stopped \/ UNCHANGED vars
  BY <1>3 DEF SessionReturns, SomeScriptEnds, ScriptEnds, Stopped, vars, clock,
              table, pass
<1>4. CASE Die \/ BeginPass \/ Drop \/ EndPass \/ Revoke
  BY <1>4 DEF Die, BeginPass, Drop, EndPass, Revoke
<1>5. ASSUME NEW e \in Endpoint, Pass(e) PROVE FoundIsOverdue'
  BY <1>5 DEF Pass
<1>6. ASSUME NEW e \in Endpoint, FindMissing(e) PROVE FoundIsOverdue'
  <2>1. age[e] <= MaxAge => now > minute
    BY <1>6, OverdueIsOld DEF FindMissing
  <2>2. now - stamp[e] > MaxAge
    BY <1>6 DEF FindMissing, Overdue
  <2>3. /\ now' = now /\ minute' = minute /\ age' = age /\ stamp' = stamp
        /\ ep' = e /\ found' = stamp[e]
    BY <1>6 DEF FindMissing, clock, table
  <2> QED
    BY <2>1, <2>2, <2>3
<1> QED
  BY <1>1, <1>2, <1>3, <1>4, <1>5, <1>6 DEF Next, Scheduler

\* SInv: scripts are awaited one by one, stamps tell the age, and a missing
\* reassessment is missing unless one has been stored meanwhile.
THEOREM Invariance == Spec => []SInv
<1>1. Init => ScriptsAreAwaited /\ Timing /\ FoundIsOverdue
  BY DEF Init, ScriptsAreAwaited, Awaiting, Timing, StampsAreAges, ClockOfPass,
         FoundIsOverdue
<1>2. TypeOK /\ ScriptsAreAwaited /\ Timing /\ FoundIsOverdue /\ [Next]_vars
        => ScriptsAreAwaited' /\ Timing' /\ FoundIsOverdue'
  BY AwaitedStep, TimingStep, FoundStep
<1>3. ScriptsAreAwaited /\ Timing /\ FoundIsOverdue => SInv
  BY DEF SInv, Timing
<1> QED
  BY <1>1, <1>2, <1>3, Typing, PTL DEF Spec

\* RevokesOnlyStale: within the hour, an endpoint is revoked only if it was
\* overdue when the scheduler read its stamp.
THEOREM OnlyStale == Spec => RevokesOnlyStale
<1>1. ASSUME TypeOK, SInv, Revoke
      PROVE  age[ep] > MaxAge \/ now > minute \/ stamp[ep] # found
  <2>1. ep \in Endpoint /\ age[ep] \in 0 .. MaxAge + 1
    BY <1>1 DEF TypeOK
  <2>2. stamp[ep] = found /\ age[ep] <= MaxAge => now > minute
    BY <1>1 DEF SInv, FoundIsOverdue, Revoke
  <2> QED
    BY <2>1, <2>2
<1>2. TypeOK /\ SInv /\ [Next]_vars
        => [Revoke => age[ep] > MaxAge \/ now > minute \/ stamp[ep] # found]_vars
  BY <1>1
<1> QED
  BY <1>2, Typing, Invariance, PTL DEF Spec, RevokesOnlyStale
=============================================================================
