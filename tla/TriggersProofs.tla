---------------------------- MODULE TriggersProofs ----------------------------
(***************************************************************************)
(* Triggers, proved for any number of callers and clients and any limits:  *)
(* what the dispatch lock, the ages of durable firings and the scheduler's *)
(* first entry are good for; and what the order of the writes of a         *)
(* suspension is good for, as long as one client at a time uses the        *)
(* switches. The hourly limit is a sum over ages, so it needs induction.   *)
(***************************************************************************)
EXTENDS Triggers, WellFoundedInduction, TLAPS

\* The variables of the calls that fire stay in their sets.
FiringTypes ==
  /\ fire \in [Firers -> FireStep]
  /\ age \in [Firers -> 0..TooOld]
  /\ agent_trigger_firings \in [Ages -> Nat]
  /\ started \in [Ages -> Nat]
  /\ schedule_last_fired \in 0..NoEntry
  /\ uptime \in 0..Interval

Held == {"admitted", "registered", "recorded"}

\* One call at a time is under the dispatch lock.
Locked == \A f, g \in Firers : fire[f] \in Held /\ fire[g] \in Held => f = g

\* Recorded firings are a cooldown apart...
Apart ==
  \A a, b \in Ages :
    agent_trigger_firings[a] > 0 /\ agent_trigger_firings[b] > 0 /\ a <= b =>
      IF a = b THEN Cooldown > 0 => agent_trigger_firings[a] = 1 ELSE b - a >= Cooldown

\* ... and so is the one that an admitted call is about to record.
AdmittedApart ==
  \A f \in Firers : fire[f] \in {"admitted", "registered"} =>
    \A a \in Ages : agent_trigger_firings[a] > 0 => a - age[f] >= Cooldown

\* A recorded firing whose run is not started yet is one the started ones lack.
RecordedFirst ==
  \A f \in Firers : fire[f] = "recorded" /\ age[f] \in Ages =>
    started[age[f]] < agent_trigger_firings[age[f]]

\* The scheduler's entry is not older than the daemon.
EntryYoung == schedule_last_fired # NoEntry => schedule_last_fired <= uptime

TriggerInv ==
  /\ FiringTypes /\ Locked /\ Apart /\ AdmittedApart /\ RecordedFirst /\ EntryYoung
  /\ StartsAreRecorded /\ WaitsAfterStartup

\* The limits look back as far as the cooldown.
LEMMA LookbackFact == Lookback \in Nat /\ Lookback >= Cooldown
BY TriggerBounds DEF Lookback

\* TriggerInv holds before anything was fired.
LEMMA TriggerInitInv == Init => TriggerInv
<1> SUFFICES ASSUME Init PROVE TriggerInv
  OBVIOUS
<1> USE TriggerBounds, LookbackFact DEF Init, Ages, TooOld, NoEntry, NoFirings
<1>1. FiringTypes
  BY DEF FiringTypes, FireStep
<1>2. Locked /\ AdmittedApart /\ RecordedFirst /\ WaitsAfterStartup
  BY SchedulerApart DEF Locked, Held, AdmittedApart, RecordedFirst, WaitsAfterStartup, Firers
<1>3. Apart /\ StartsAreRecorded /\ EntryYoung
  BY DEF Apart, StartsAreRecorded, EntryYoung
<1>4. QED
  BY <1>1, <1>2, <1>3 DEF TriggerInv

-----------------------------------------------------------------------------
\* A firing that is added at the age of its decision.
LEMMA OneMoreFact ==
  ASSUME NEW firings \in [Ages -> Nat], NEW a \in 0..TooOld
  PROVE  /\ OneMore(firings, a) \in [Ages -> Nat]
         /\ \A b \in Ages : OneMore(firings, a)[b] = firings[b] + (IF b = a THEN 1 ELSE 0)
BY LookbackFact DEF OneMore, Ages, TooOld

\* Firings grow older together.
LEMMA AgedFact ==
  ASSUME NEW firings \in [Ages -> Nat]
  PROVE  /\ Aged(firings) \in [Ages -> Nat]
         /\ \A a \in Ages : IF a = 0 THEN Aged(firings)[a] = 0
                            ELSE a - 1 \in Ages /\ Aged(firings)[a] = firings[a - 1]
BY LookbackFact DEF Aged, Ages

\* Every step of a call, of the scheduler, of the clients and of time keeps it.
LEMMA TriggerStep == TriggerInv /\ [Next]_vars => TriggerInv'
<1> SUFFICES ASSUME TriggerInv, [Next]_vars PROVE TriggerInv'
  OBVIOUS
<1> USE TriggerBounds, LookbackFact, SchedulerApart
    DEF TriggerInv, FireStep, Firers, TooOld, NoEntry, control
<1>0. FiringTypes /\ Locked /\ Apart /\ AdmittedApart /\ RecordedFirst /\ EntryYoung
        /\ StartsAreRecorded /\ WaitsAfterStartup
  OBVIOUS
<1>1. ASSUME NEW f \in Firers, CheckSuspended(f) \/ RegisterRun(f) \/ (f # Scheduler /\ Call(f))
      PROVE TriggerInv'
  <2> USE <1>1 DEF CheckSuspended, RegisterRun, Call, FireMove, FiringTypes
  <2>1. FiringTypes' /\ EntryYoung' /\ WaitsAfterStartup' /\ Locked'
    BY DEF EntryYoung, WaitsAfterStartup, Locked, Held
  <2>2. Apart' /\ StartsAreRecorded'
    BY DEF Apart, StartsAreRecorded
  <2>3. AdmittedApart' /\ RecordedFirst'
    BY DEF AdmittedApart, RecordedFirst
  <2>4. QED
    BY <2>1, <2>2, <2>3
<1>2. ASSUME NEW f \in Firers, Dispatch(f) PROVE TriggerInv'
  <2> USE <1>2 DEF Dispatch, FireMove, FiringTypes
  <2>1. FiringTypes' /\ EntryYoung' /\ WaitsAfterStartup'
    BY DEF EntryYoung, WaitsAfterStartup
  <2>2. Apart' /\ StartsAreRecorded'
    BY DEF Apart, StartsAreRecorded
  <2>3. Locked'
    BY DEF Locked, Held, Dispatching
  <2>4. AdmittedApart'
    <3> SUFFICES ASSUME NEW g \in Firers, fire'[g] \in {"admitted", "registered"}, NEW a \in Ages,
                        agent_trigger_firings'[a] > 0
                 PROVE  a - age'[g] >= Cooldown
      BY DEF AdmittedApart
    <3>1. g = f /\ age'[f] = 0 /\ ~Cooling
      BY DEF Dispatching
    <3>2. a \in Nat /\ agent_trigger_firings[a] > 0
      BY DEF Ages
    <3>3. ~(a < Cooldown)
      BY <3>1, <3>2 DEF Cooling
    <3>4. QED
      BY <3>1, <3>2, <3>3
  <2>5. RecordedFirst'
    BY DEF RecordedFirst
  <2>6. QED
    BY <2>1, <2>2, <2>3, <2>4, <2>5
<1>3. ASSUME NEW f \in Firers, FireFails(f) PROVE TriggerInv'
  <2> USE <1>3 DEF FireFails, FireMove, FiringTypes
  <2>1. FiringTypes' /\ EntryYoung' /\ WaitsAfterStartup' /\ Locked'
    BY DEF EntryYoung, WaitsAfterStartup, Locked, Held
  <2>2. Apart' /\ StartsAreRecorded'
    BY DEF Apart, StartsAreRecorded
  <2>3. AdmittedApart' /\ RecordedFirst'
    BY DEF AdmittedApart, RecordedFirst
  <2>4. QED
    BY <2>1, <2>2, <2>3
<1>4. ASSUME NEW f \in Firers, RecordFiring(f) PROVE TriggerInv'
  <2> USE <1>4 DEF RecordFiring, FireMove
  <2>0. /\ agent_trigger_firings' \in [Ages -> Nat]
        /\ \A b \in Ages : agent_trigger_firings'[b]
                             = agent_trigger_firings[b] + (IF b = age[f] THEN 1 ELSE 0)
    BY OneMoreFact DEF FiringTypes
  <2>1. FiringTypes' /\ EntryYoung' /\ WaitsAfterStartup'
    BY <2>0 DEF EntryYoung, WaitsAfterStartup, FiringTypes
  <2>2. Locked'
    BY DEF Locked, Held, FiringTypes
  <2>3. Apart'
    <3> SUFFICES ASSUME NEW a \in Ages, NEW b \in Ages, agent_trigger_firings'[a] > 0,
                        agent_trigger_firings'[b] > 0, a <= b
                 PROVE  IF a = b THEN Cooldown > 0 => agent_trigger_firings'[a] = 1
                                 ELSE b - a >= Cooldown
      BY DEF Apart
    <3>1. \A c \in Ages : agent_trigger_firings[c] > 0 => c - age[f] >= Cooldown
      BY DEF AdmittedApart
    <3>2. a \in Nat /\ b \in Nat /\ age[f] \in Nat
      BY DEF Ages, FiringTypes
    <3>3. CASE a = b
      BY <2>0, <3>1, <3>2, <3>3 DEF Apart, FiringTypes
    <3>4. CASE a # b
      BY <2>0, <3>1, <3>2, <3>4 DEF Apart, FiringTypes
    <3>5. QED
      BY <3>3, <3>4
  <2>4. StartsAreRecorded'
    BY <2>0 DEF StartsAreRecorded, FiringTypes
  <2>5. \A g \in Firers : g # f => fire[g] \notin Held /\ fire'[g] = fire[g]
    BY DEF Locked, Held, FiringTypes
  <2>6. AdmittedApart'
    BY <2>5 DEF AdmittedApart, Held, FiringTypes
  <2>7. RecordedFirst'
    BY <2>0, <2>5 DEF RecordedFirst, Held, FiringTypes, StartsAreRecorded
  <2>8. QED
    BY <2>1, <2>2, <2>3, <2>4, <2>6, <2>7
<1>5. ASSUME NEW f \in Firers, Spawn(f) PROVE TriggerInv'
  <2> USE <1>5 DEF Spawn, FireMove
  <2>0. /\ started' \in [Ages -> Nat]
        /\ \A b \in Ages : started'[b] = started[b] + (IF b = age[f] THEN 1 ELSE 0)
    BY OneMoreFact DEF FiringTypes
  <2>1. FiringTypes' /\ EntryYoung' /\ WaitsAfterStartup' /\ Locked'
    BY <2>0 DEF EntryYoung, WaitsAfterStartup, FiringTypes, Locked, Held
  <2>2. Apart'
    BY DEF Apart
  <2>3. StartsAreRecorded'
    BY <2>0 DEF StartsAreRecorded, RecordedFirst, FiringTypes
  <2>4. \A g \in Firers : fire'[g] \notin Held
    BY DEF Locked, Held, FiringTypes
  <2>5. AdmittedApart' /\ RecordedFirst'
    BY <2>4 DEF AdmittedApart, RecordedFirst, Held
  <2>6. QED
    BY <2>1, <2>2, <2>3, <2>5
<1>6. CASE SchedulerLooks
  <2> USE <1>6 DEF SchedulerLooks, Due, FiringTypes
  <2>1. FiringTypes' /\ EntryYoung' /\ WaitsAfterStartup' /\ Locked'
    BY DEF EntryYoung, WaitsAfterStartup, Locked, Held
  <2>2. Apart' /\ StartsAreRecorded'
    BY DEF Apart, StartsAreRecorded
  <2>3. AdmittedApart' /\ RecordedFirst'
    BY DEF AdmittedApart, RecordedFirst
  <2>4. QED
    BY <2>1, <2>2, <2>3
<1>7. CASE UNCHANGED firing
  BY <1>7 DEF firing, FiringTypes, Locked, Apart, AdmittedApart, RecordedFirst, EntryYoung,
              StartsAreRecorded, WaitsAfterStartup
<1>8. CASE Tick
  <2> USE <1>8 DEF Tick
  <2>0. /\ agent_trigger_firings' \in [Ages -> Nat]
        /\ \A a \in Ages : IF a = 0 THEN agent_trigger_firings'[a] = 0
                           ELSE /\ a - 1 \in Ages
                                /\ agent_trigger_firings'[a] = agent_trigger_firings[a - 1]
    BY AgedFact DEF FiringTypes
  <2>1. /\ started' \in [Ages -> Nat]
        /\ \A a \in Ages : IF a = 0 THEN started'[a] = 0
                           ELSE a - 1 \in Ages /\ started'[a] = started[a - 1]
    BY AgedFact DEF FiringTypes
  <2>2. FiringTypes' /\ EntryYoung' /\ WaitsAfterStartup' /\ Locked'
    BY <2>0, <2>1 DEF EntryYoung, WaitsAfterStartup, FiringTypes, Locked, Held, Older
  <2>3. Apart'
    <3> SUFFICES ASSUME NEW a \in Ages, NEW b \in Ages, agent_trigger_firings'[a] > 0,
                        agent_trigger_firings'[b] > 0, a <= b
                 PROVE  IF a = b THEN Cooldown > 0 => agent_trigger_firings'[a] = 1
                                 ELSE b - a >= Cooldown
      BY DEF Apart
    <3>1. a \in Nat /\ b \in Nat /\ a # 0 /\ b # 0
      BY <2>0 DEF Ages
    <3>2. /\ a - 1 \in Ages /\ agent_trigger_firings'[a] = agent_trigger_firings[a - 1]
          /\ b - 1 \in Ages /\ agent_trigger_firings'[b] = agent_trigger_firings[b - 1]
      BY <2>0, <3>1
    <3>3. IF a - 1 = b - 1 THEN Cooldown > 0 => agent_trigger_firings[a - 1] = 1
                           ELSE (b - 1) - (a - 1) >= Cooldown
      BY <3>1, <3>2 DEF Apart
    <3>4. QED
      BY <3>1, <3>2, <3>3
  <2>4. StartsAreRecorded'
    BY <2>0, <2>1 DEF StartsAreRecorded, FiringTypes
  <2>5. AdmittedApart'
    <3> SUFFICES ASSUME NEW f \in Firers, fire[f] \in {"admitted", "registered"}, NEW a \in Ages,
                        agent_trigger_firings'[a] > 0
                 PROVE  a - age'[f] >= Cooldown
      BY DEF AdmittedApart
    <3>1. a \in Nat \ {0} /\ a - 1 \in Ages /\ agent_trigger_firings[a - 1] > 0
      BY <2>0 DEF Ages
    <3>2. (a - 1) - age[f] >= Cooldown
      BY <3>1 DEF AdmittedApart
    <3>3. age'[f] = Older(age[f], TooOld) /\ age[f] \in Nat
      BY DEF FiringTypes
    <3>4. QED
      BY <3>1, <3>2, <3>3 DEF Older
  <2>6. RecordedFirst'
    <3> SUFFICES ASSUME NEW f \in Firers, fire[f] = "recorded", age'[f] \in Ages
                 PROVE  started'[age'[f]] < agent_trigger_firings'[age'[f]]
      BY DEF RecordedFirst
    <3>1. age[f] \in Ages /\ age'[f] = age[f] + 1
      BY DEF FiringTypes, Older, Ages
    <3>2. started[age[f]] < agent_trigger_firings[age[f]]
      BY <3>1 DEF RecordedFirst
    <3>3. age'[f] # 0 /\ age'[f] - 1 = age[f]
      BY <3>1 DEF Ages
    <3>4. QED
      BY <2>0, <2>1, <3>2, <3>3
  <2>7. QED
    BY <2>2, <2>3, <2>4, <2>5, <2>6
<1>9. CASE Restart
  <2> USE <1>9 DEF Restart
  <2>1. FiringTypes' /\ EntryYoung' /\ WaitsAfterStartup' /\ Locked'
    BY DEF EntryYoung, WaitsAfterStartup, FiringTypes, Locked, Held
  <2>2. Apart' /\ StartsAreRecorded'
    BY DEF Apart, StartsAreRecorded
  <2>3. AdmittedApart' /\ RecordedFirst'
    BY DEF AdmittedApart, RecordedFirst
  <2>4. QED
    BY <2>1, <2>2, <2>3
<1>10. ASSUME NEW c \in Clients, (\E op \in Operations : Begin(c, op)) \/ Write(c) \/ WriteFails(c)
       PROVE UNCHANGED firing
  BY <1>10 DEF Begin, Write, WriteFails
<1>11. CASE UNCHANGED vars
  BY <1>7, <1>11 DEF vars, firing
<1>12. ASSUME NEW f \in Firers, Fire(f) \/ FireFails(f) PROVE TriggerInv'
  <2> HIDE DEF TriggerInv
  <2>1. QED
    BY <1>1, <1>2, <1>3, <1>4, <1>5, <1>12 DEF Fire
<1>13. ASSUME NEW f \in Callers, Call(f) PROVE TriggerInv'
  <2> HIDE DEF TriggerInv
  <2>1. QED
    BY <1>1, <1>13
<1>14. CASE Next
  <2> HIDE DEF TriggerInv
  <2>1. QED
    BY <1>6, <1>7, <1>8, <1>9, <1>10, <1>12, <1>13, <1>14 DEF Next
<1>15. QED
  BY <1>11, <1>14

-----------------------------------------------------------------------------
(* Sums over ages *)

\* Every non-empty set of naturals has a least element.
LEMMA LeastElement ==
  ASSUME NEW S \in SUBSET Nat, S # {}
  PROVE  \E n \in S : \A m \in S : n <= m
<1>1. \E n \in S : \A m \in S : <<m, n>> \notin OpToRel(<, Nat)
  BY WFMin, NatLessThanWellFounded
<1>2. \A m, n \in Nat : <<m, n>> \in OpToRel(<, Nat) <=> m < n
  BY DEF OpToRel
<1>3. PICK n \in S : \A m \in S : ~(m < n)
  BY <1>1, <1>2, Zenon
<1>4. QED
  BY <1>3

\* Induction, with the set of the numbers that have a property in its place.
LEMMA UpTo ==
  ASSUME NEW n \in Nat, NEW S, 0 \in S, \A k \in 0..n - 1 : k \in S => k + 1 \in S
  PROVE  0..n \subseteq S
<1> DEFINE T == 0..n \ S
<1>1. SUFFICES ASSUME T # {} PROVE FALSE
  OBVIOUS
<1>2. T \in SUBSET Nat
  OBVIOUS
<1>3. PICK k \in T : \A m \in T : k <= m
  <2> HIDE DEF T
  <2>1. QED
    BY <1>1, <1>2, LeastElement
<1>4. k \in 0..n /\ k # 0
  OBVIOUS
<1>5. k - 1 \in 0..n - 1 /\ ~(k <= k - 1) /\ (k - 1) + 1 = k
  BY <1>4
<1>6. k - 1 \in S
  BY <1>3, <1>5
<1>7. QED
  BY <1>5, <1>6

\* c counts the firings younger than each age, up to an age.
Counts(c, firings, n) ==
  c = [a \in 0..n |-> IF a = 0 THEN 0 ELSE c[a - 1] + firings[a - 1]]

\* There is such a function, so Within is what its recursion says.
LEMMA CountExists == ASSUME NEW firings PROVE \E c : Counts(c, firings, TooOld)
<1> DEFINE S == {n \in 0..TooOld : \E c : Counts(c, firings, n)}
<1>0. TooOld \in Nat
  BY LookbackFact DEF TooOld
<1>1. 0 \in S
  <2>1. Counts([a \in 0..0 |-> 0], firings, 0)
    BY DEF Counts
  <2>2. QED
    BY <1>0, <2>1
<1>2. \A n \in 0..TooOld - 1 : n \in S => n + 1 \in S
  <2> SUFFICES ASSUME NEW n \in 0..TooOld - 1, n \in S PROVE n + 1 \in S
    OBVIOUS
  <2>1. PICK c : Counts(c, firings, n)
    OBVIOUS
  <2> DEFINE d == [a \in 0..n + 1 |-> IF a = n + 1 THEN c[n] + firings[n] ELSE c[a]]
  <2>2. \A a \in 0..n + 1 : d[a] = IF a = 0 THEN 0 ELSE d[a - 1] + firings[a - 1]
    BY <1>0, <2>1 DEF Counts
  <2>3. Counts(d, firings, n + 1)
    BY <2>2 DEF Counts
  <2>4. n + 1 \in 0..TooOld
    BY <1>0
  <2>5. QED
    BY <2>3, <2>4
<1>3. 0..TooOld \subseteq S
  <2> HIDE DEF S
  <2>1. QED
    BY <1>0, <1>1, <1>2, UpTo
<1>4. TooOld \in S
  BY <1>0, <1>3
<1>5. QED
  BY <1>4

\* The ages are the numbers before TooOld.
LEMMA AgesFact == TooOld \in Nat /\ Ages = 0..TooOld - 1
BY LookbackFact DEF Ages, TooOld

\* How Within grows with the age, and that it is a number.
LEMMA WithinFact ==
  ASSUME NEW firings \in [Ages -> Nat]
  PROVE  /\ Within(firings, 0) = 0
         /\ \A a \in 0..TooOld - 1 : /\ firings[a] \in Nat
                                     /\ Within(firings, a + 1) = Within(firings, a) + firings[a]
         /\ \A n \in 0..TooOld : Within(firings, n) \in Nat
<1> DEFINE c == CHOOSE c : Counts(c, firings, TooOld)
           W(n) == Within(firings, n)
           S == {n \in 0..TooOld : W(n) \in Nat}
<1>1. Counts(c, firings, TooOld)
  BY CountExists
<1>2. \A n : W(n) = c[n]
  BY DEF Within, Counts
<1> HIDE DEF c, W
<1>3. \A a \in 0..TooOld : c[a] = IF a = 0 THEN 0 ELSE c[a - 1] + firings[a - 1]
  BY <1>1 DEF Counts
<1>4. W(0) = 0 /\ \A a \in 0..TooOld - 1 : firings[a] \in Nat /\ W(a + 1) = W(a) + firings[a]
  BY <1>2, <1>3, AgesFact
<1>5. 0..TooOld \subseteq S
  <2>1. 0 \in S /\ \A n \in 0..TooOld - 1 : n \in S => n + 1 \in S
    BY <1>4, AgesFact
  <2> HIDE DEF S
  <2>2. QED
    BY <2>1, AgesFact, UpTo
<1>6. QED
  BY <1>4, <1>5 DEF W

\* No age has more firings than there are up to a later one.
LEMMA WithinBounds ==
  ASSUME NEW firings \in [Ages -> Nat], NEW a \in Ages, NEW n \in a + 1..TooOld
  PROVE  firings[a] <= Within(firings, n)
<1> DEFINE W(k) == Within(firings, k)
           S == {k \in 0..TooOld : k >= a + 1 => firings[a] <= W(k)}
<1>1. /\ \A k \in 0..TooOld - 1 : firings[k] \in Nat /\ W(k + 1) = W(k) + firings[k]
      /\ \A k \in 0..TooOld : W(k) \in Nat
  BY WithinFact
<1> HIDE DEF W
<1>2. 0 \in S /\ \A k \in 0..TooOld - 1 : k \in S => k + 1 \in S
  <2>1. 0 \in S
    BY AgesFact
  <2>2. ASSUME NEW k \in 0..TooOld - 1, k \in S PROVE k + 1 \in S
    <3>1. W(k + 1) = W(k) + firings[k] /\ W(k) \in Nat /\ firings[k] \in Nat
      BY <1>1, AgesFact
    <3>2. a \in Nat /\ k + 1 \in 0..TooOld /\ k \in Nat
      BY AgesFact
    <3>3. CASE k = a
      BY <3>1, <3>2, <3>3
    <3>4. CASE k # a
      <4>1. k + 1 >= a + 1 => firings[a] <= W(k)
        BY <2>2, <3>2, <3>4
      <4>2. firings[a] \in Nat
        OBVIOUS
      <4>3. QED
        BY <3>1, <3>2, <4>1, <4>2
    <3>5. QED
      BY <3>3, <3>4
  <2>3. QED
    BY <2>1, <2>2
<1>3. 0..TooOld \subseteq S
  <2> HIDE DEF S
  <2>1. QED
    BY <1>2, AgesFact, UpTo
<1>4. QED
  BY <1>3, AgesFact DEF W

\* Fewer firings of every age are fewer firings.
LEMMA WithinMonotone ==
  ASSUME NEW few \in [Ages -> Nat], NEW many \in [Ages -> Nat],
         \A a \in Ages : few[a] <= many[a], NEW n \in 0..TooOld
  PROVE  Within(few, n) <= Within(many, n)
<1> DEFINE F(k) == Within(few, k)
           M(k) == Within(many, k)
           S == {k \in 0..TooOld : F(k) <= M(k)}
<1>1. /\ F(0) = 0 /\ \A k \in 0..TooOld - 1 : few[k] \in Nat /\ F(k + 1) = F(k) + few[k]
      /\ \A k \in 0..TooOld : F(k) \in Nat
  BY WithinFact
<1>2. /\ M(0) = 0 /\ \A k \in 0..TooOld - 1 : many[k] \in Nat /\ M(k + 1) = M(k) + many[k]
      /\ \A k \in 0..TooOld : M(k) \in Nat
  BY WithinFact
<1> HIDE DEF F, M
<1>3. 0 \in S /\ \A k \in 0..TooOld - 1 : k \in S => k + 1 \in S
  <2>1. 0 \in S
    BY <1>1, <1>2, AgesFact
  <2>2. ASSUME NEW k \in 0..TooOld - 1, k \in S PROVE k + 1 \in S
    <3>1. /\ F(k + 1) = F(k) + few[k] /\ F(k) \in Nat /\ few[k] \in Nat
          /\ M(k + 1) = M(k) + many[k] /\ M(k) \in Nat /\ many[k] \in Nat
      BY <1>1, <1>2, AgesFact
    <3>2. few[k] <= many[k] /\ F(k) <= M(k) /\ k + 1 \in 0..TooOld
      BY <2>2, AgesFact
    <3>3. QED
      BY <3>1, <3>2
  <2>3. QED
    BY <2>1, <2>2
<1>4. 0..TooOld \subseteq S
  <2> HIDE DEF S
  <2>1. QED
    BY <1>3, AgesFact, UpTo
<1>5. QED
  BY <1>4 DEF F, M

\* One more firing counts once, from its age on.
LEMMA WithinOneMore ==
  ASSUME NEW firings \in [Ages -> Nat], NEW more \in [Ages -> Nat], NEW b \in 0..TooOld,
         \A a \in Ages : more[a] = firings[a] + (IF a = b THEN 1 ELSE 0), NEW n \in 0..TooOld
  PROVE  Within(more, n) = Within(firings, n) + (IF b < n THEN 1 ELSE 0)
<1> DEFINE F(k) == Within(firings, k)
           M(k) == Within(more, k)
           S == {k \in 0..TooOld : M(k) = F(k) + (IF b < k THEN 1 ELSE 0)}
<1>1. /\ F(0) = 0 /\ \A k \in 0..TooOld - 1 : firings[k] \in Nat /\ F(k + 1) = F(k) + firings[k]
      /\ \A k \in 0..TooOld : F(k) \in Nat
  BY WithinFact
<1>2. M(0) = 0 /\ \A k \in 0..TooOld - 1 : M(k + 1) = M(k) + more[k]
  BY WithinFact
<1> HIDE DEF F, M
<1>3. 0 \in S /\ \A k \in 0..TooOld - 1 : k \in S => k + 1 \in S
  <2>1. 0 \in S
    BY <1>1, <1>2, AgesFact
  <2>2. ASSUME NEW k \in 0..TooOld - 1, k \in S PROVE k + 1 \in S
    <3>1. /\ F(k + 1) = F(k) + firings[k] /\ M(k + 1) = M(k) + more[k]
          /\ F(k) \in Nat /\ firings[k] \in Nat
      BY <1>1, <1>2, AgesFact
    <3>2. more[k] = firings[k] + (IF k = b THEN 1 ELSE 0)
      BY AgesFact
    <3>3. M(k) = F(k) + (IF b < k THEN 1 ELSE 0)
      BY <2>2
    <3>4. M(k + 1) = F(k + 1) + (IF b < k + 1 THEN 1 ELSE 0)
      BY <3>1, <3>2, <3>3, AgesFact
    <3>5. QED
      BY <3>4, AgesFact
  <2>3. QED
    BY <2>1, <2>2
<1>4. 0..TooOld \subseteq S
  <2> HIDE DEF S
  <2>1. QED
    BY <1>3, AgesFact, UpTo
<1>5. QED
  BY <1>4 DEF F, M

\* A tick brings no firing into an interval of ages that begins now.
LEMMA WithinAged ==
  ASSUME NEW firings \in [Ages -> Nat], NEW n \in 0..TooOld
  PROVE  Within(Aged(firings), n) <= Within(firings, n)
<1> DEFINE old == Aged(firings)
           F(k) == Within(firings, k)
           O(k) == Within(old, k)
           S == {k \in 0..TooOld : k > 0 => O(k) = F(k - 1)}
<1>1. /\ old \in [Ages -> Nat]
      /\ \A a \in Ages : IF a = 0 THEN old[a] = 0
                         ELSE a - 1 \in Ages /\ old[a] = firings[a - 1]
  BY AgedFact
<1> HIDE DEF old
<1>2. /\ F(0) = 0 /\ \A k \in 0..TooOld - 1 : firings[k] \in Nat /\ F(k + 1) = F(k) + firings[k]
      /\ \A k \in 0..TooOld : F(k) \in Nat
  BY WithinFact
<1>3. O(0) = 0 /\ \A k \in 0..TooOld - 1 : O(k + 1) = O(k) + old[k]
  BY <1>1, WithinFact
<1> HIDE DEF F, O
<1>4. ASSUME NEW k \in 0..TooOld, k > 0
      PROVE  /\ k - 1 \in 0..TooOld - 1
             /\ F(k) = F(k - 1) + firings[k - 1] /\ F(k - 1) \in Nat /\ firings[k - 1] \in Nat
  <2>1. k - 1 \in 0..TooOld - 1 /\ k - 1 \in 0..TooOld /\ (k - 1) + 1 = k
    BY <1>4, AgesFact
  <2>2. QED
    BY <1>2, <2>1
<1>5. 0 \in S
  BY AgesFact
<1>6. ASSUME NEW k \in 0..TooOld - 1, k \in S PROVE k + 1 \in S
  <2>1. O(k + 1) = O(k) + old[k]
    BY <1>3
  <2>2. CASE k = 0
    <3>1. O(k + 1) = F((k + 1) - 1)
      BY <1>1, <1>2, <1>3, <2>1, <2>2, AgesFact
    <3>2. QED
      BY <2>2, <3>1, AgesFact
  <2>3. CASE k > 0
    <3>1. O(k) = F(k - 1) /\ old[k] = firings[k - 1]
      BY <1>1, <1>6, <2>3, AgesFact
    <3>2. O(k + 1) = F(k)
      BY <1>4, <2>1, <2>3, <3>1, AgesFact
    <3>3. (k + 1) - 1 = k /\ k + 1 \in 0..TooOld
      BY AgesFact
    <3>4. QED
      BY <3>2, <3>3
  <2>4. QED
    BY <2>2, <2>3, AgesFact
<1>7. 0..TooOld \subseteq S
  <2> HIDE DEF S
  <2>1. QED
    BY <1>5, <1>6, AgesFact, UpTo
<1>8. O(n) <= F(n)
  BY <1>2, <1>3, <1>4, <1>7, AgesFact
<1>9. QED
  BY <1>8 DEF F, O, old

-----------------------------------------------------------------------------
\* TriggerInv is an invariant of the triggers.
THEOREM TriggerInvariant == Spec => []TriggerInv
BY TriggerInitInv, TriggerStep, PTL DEF Spec

\* StartsAreRecorded: nothing is started that the limits do not count.
THEOREM StartsCount == Spec => []StartsAreRecorded
BY TriggerInvariant, PTL DEF TriggerInv

\* WaitsAfterStartup: no scheduled firing before the daemon is an interval old.
THEOREM ScheduleWaits == Spec => []WaitsAfterStartup
BY TriggerInvariant, PTL DEF TriggerInv

\* CooldownRespected: the runs started are a cooldown apart.
THEOREM CooldownKept == Spec => []CooldownRespected
<1>1. TriggerInv => CooldownRespected
  BY TriggerBounds DEF TriggerInv, FiringTypes, Apart, StartsAreRecorded, CooldownRespected, Ages
<1>2. QED
  BY <1>1, TriggerInvariant, PTL

-----------------------------------------------------------------------------
(* The hourly limit *)

\* No hour, and no age, has more firings than the limit, and there is room for
\* the one that an admitted call is about to record.
LimitInv ==
  /\ Within(agent_trigger_firings, Hour) <= MaxPerHour
  /\ \A a \in Ages : agent_trigger_firings[a] <= MaxPerHour
  /\ \A f \in Firers : fire[f] \in {"admitted", "registered"} =>
       /\ age[f] < Hour => Within(agent_trigger_firings, Hour) < MaxPerHour
       /\ age[f] \in Ages => agent_trigger_firings[age[f]] < MaxPerHour

\* The hour is within what the limits look back at.
LEMMA HourFact == Hour \in 1..TooOld /\ MaxPerHour \in Nat \ {0}
BY TriggerBounds DEF TooOld, Lookback

\* LimitInv holds before anything was fired.
LEMMA LimitInitInv == Init => LimitInv
<1> SUFFICES ASSUME Init PROVE LimitInv
  OBVIOUS
<1> DEFINE W(n) == Within(NoFirings, n)
           S == {n \in 0..TooOld : W(n) = 0}
<1>1. NoFirings \in [Ages -> Nat] /\ \A a \in Ages : NoFirings[a] = 0
  BY DEF NoFirings
<1>2. W(0) = 0 /\ \A a \in 0..TooOld - 1 : W(a + 1) = W(a) + NoFirings[a]
  BY <1>1, WithinFact
<1> HIDE DEF W
<1>3. 0 \in S /\ \A n \in 0..TooOld - 1 : n \in S => n + 1 \in S
  BY <1>1, <1>2, AgesFact
<1>4. 0..TooOld \subseteq S
  <2> HIDE DEF S
  <2>1. QED
    BY <1>3, AgesFact, UpTo
<1>5. Within(NoFirings, Hour) = 0
  BY <1>4, HourFact, AgesFact DEF W
<1>6. QED
  BY <1>1, <1>5, HourFact DEF Init, LimitInv, Firers

\* Every step keeps within the limit.
LEMMA LimitStep == TriggerInv /\ LimitInv /\ [Next]_vars => LimitInv'
<1> SUFFICES ASSUME TriggerInv, LimitInv, [Next]_vars PROVE LimitInv'
  OBVIOUS
<1> USE LookbackFact, HourFact
<1>0. /\ FiringTypes /\ Locked
      /\ Hour \in 0..TooOld /\ Within(agent_trigger_firings, Hour) \in Nat
  BY WithinFact DEF TriggerInv, FiringTypes
<1>1. ASSUME agent_trigger_firings' = agent_trigger_firings,
             \A f \in Firers : fire'[f] \in {"admitted", "registered"} =>
                fire[f] \in {"admitted", "registered"} /\ age'[f] = age[f]
      PROVE  LimitInv'
  BY <1>1 DEF LimitInv
<1>2. ASSUME NEW f \in Firers,
             CheckSuspended(f) \/ RegisterRun(f) \/ Call(f) \/ FireFails(f) \/ Spawn(f)
      PROVE  LimitInv'
  <2>1. /\ agent_trigger_firings' = agent_trigger_firings
        /\ \A g \in Firers : fire'[g] \in {"admitted", "registered"} =>
             fire[g] \in {"admitted", "registered"} /\ age'[g] = age[g]
    BY <1>0, <1>2 DEF CheckSuspended, RegisterRun, Call, FireFails, Spawn, FireMove, FiringTypes
  <2>2. QED
    BY <1>1, <2>1
<1>3. ASSUME NEW f \in Firers, Dispatch(f) PROVE LimitInv'
  <2>1. CASE Cooling \/ LimitReached
    <3>1. /\ agent_trigger_firings' = agent_trigger_firings
          /\ \A g \in Firers : fire'[g] \in {"admitted", "registered"} =>
               fire[g] \in {"admitted", "registered"} /\ age'[g] = age[g]
      BY <1>0, <1>3, <2>1 DEF Dispatch, FireMove, FiringTypes
    <3>2. QED
      BY <1>1, <3>1
  <2>2. CASE ~(Cooling \/ LimitReached)
    <3>1. /\ agent_trigger_firings' = agent_trigger_firings
          /\ fire' = [fire EXCEPT ![f] = "admitted"] /\ age' = [age EXCEPT ![f] = 0]
          /\ \A g \in Firers : fire[g] \notin {"admitted", "registered", "recorded"}
      BY <1>3, <2>2 DEF Dispatch, FireMove, Dispatching
    <3>2. Within(agent_trigger_firings, Hour) < MaxPerHour
      BY <1>0, <2>2 DEF LimitReached
    <3>3. agent_trigger_firings[0] <= Within(agent_trigger_firings, Hour) /\ 0 \in Ages
      <4>1. 0 \in Ages /\ Hour \in 0 + 1..TooOld
        BY DEF Ages
      <4>2. QED
        BY <1>0, <4>1, WithinBounds DEF FiringTypes
    <3>4. agent_trigger_firings[0] < MaxPerHour
      BY <1>0, <3>2, <3>3 DEF FiringTypes
    <3>5. \A g \in Firers : fire'[g] \in {"admitted", "registered"} => g = f /\ age'[g] = 0
      BY <1>0, <3>1 DEF FiringTypes
    <3>6. QED
      BY <3>1, <3>2, <3>4, <3>5 DEF LimitInv
  <2>3. QED
    BY <2>1, <2>2
<1>4. ASSUME NEW f \in Firers, RecordFiring(f) PROVE LimitInv'
  <2>1. /\ fire[f] = "registered" /\ fire' = [fire EXCEPT ![f] = "recorded"]
        /\ agent_trigger_firings' = OneMore(agent_trigger_firings, age[f]) /\ age' = age
    BY <1>4 DEF RecordFiring, FireMove
  <2>2. /\ agent_trigger_firings' \in [Ages -> Nat] /\ age[f] \in 0..TooOld
        /\ \A b \in Ages : agent_trigger_firings'[b]
                             = agent_trigger_firings[b] + (IF b = age[f] THEN 1 ELSE 0)
    BY <1>0, <2>1, OneMoreFact DEF FiringTypes
  <2>3. Within(agent_trigger_firings', Hour)
          = Within(agent_trigger_firings, Hour) + (IF age[f] < Hour THEN 1 ELSE 0)
    BY <1>0, <2>2, WithinOneMore DEF FiringTypes
  <2>4. Within(agent_trigger_firings', Hour) <= MaxPerHour
    BY <1>0, <2>1, <2>3 DEF LimitInv
  <2>5. \A a \in Ages : agent_trigger_firings'[a] <= MaxPerHour
    BY <1>0, <2>1, <2>2 DEF LimitInv, FiringTypes
  <2>6. \A g \in Firers : fire'[g] \notin {"admitted", "registered"}
    BY <1>0, <2>1 DEF FiringTypes, Locked, Held
  <2>7. QED
    BY <2>4, <2>5, <2>6 DEF LimitInv
<1>5. CASE Tick
  <2>1. /\ agent_trigger_firings' = Aged(agent_trigger_firings) /\ fire' = fire
        /\ age' = [f \in Firers |-> Older(age[f], TooOld)]
    BY <1>5 DEF Tick
  <2>2. /\ agent_trigger_firings' \in [Ages -> Nat]
        /\ \A a \in Ages : IF a = 0 THEN agent_trigger_firings'[a] = 0
                           ELSE /\ a - 1 \in Ages
                                /\ agent_trigger_firings'[a] = agent_trigger_firings[a - 1]
    BY <1>0, <2>1, AgedFact DEF FiringTypes
  <2>3. /\ Within(agent_trigger_firings', Hour) <= Within(agent_trigger_firings, Hour)
        /\ Within(agent_trigger_firings', Hour) \in Nat
    BY <1>0, <2>1, <2>2, WithinAged, WithinFact DEF FiringTypes
  <2>4. Within(agent_trigger_firings', Hour) <= MaxPerHour
    BY <1>0, <2>3 DEF LimitInv
  <2>5. \A a \in Ages : agent_trigger_firings'[a] <= MaxPerHour
    BY <2>2 DEF LimitInv
  <2>6. ASSUME NEW f \in Firers, fire'[f] \in {"admitted", "registered"}
        PROVE  /\ age'[f] < Hour => Within(agent_trigger_firings', Hour) < MaxPerHour
               /\ age'[f] \in Ages => agent_trigger_firings'[age'[f]] < MaxPerHour
    <3>1. /\ age[f] < Hour => Within(agent_trigger_firings, Hour) < MaxPerHour
          /\ age[f] \in Ages => agent_trigger_firings[age[f]] < MaxPerHour
      BY <2>1, <2>6 DEF LimitInv
    <3>2. age[f] \in 0..TooOld /\ age'[f] = Older(age[f], TooOld)
      BY <1>0, <2>1 DEF FiringTypes
    <3>3. age'[f] < Hour => age[f] < Hour
      BY <3>2 DEF Older
    <3>4. age'[f] \in Ages => age[f] \in Ages /\ age'[f] = age[f] + 1
      BY <3>2 DEF Older, Ages, TooOld
    <3>5. age'[f] \in Ages => agent_trigger_firings'[age'[f]] = agent_trigger_firings[age[f]]
      BY <2>2, <3>4 DEF Ages
    <3>6. QED
      BY <1>0, <2>3, <3>1, <3>3, <3>4, <3>5
  <2>7. QED
    BY <2>4, <2>5, <2>6 DEF LimitInv
<1>6. CASE SchedulerLooks
  <2>1. /\ agent_trigger_firings' = agent_trigger_firings
        /\ \A g \in Firers : fire'[g] \in {"admitted", "registered"} =>
             fire[g] \in {"admitted", "registered"} /\ age'[g] = age[g]
    BY <1>0, <1>6 DEF SchedulerLooks, FiringTypes
  <2>2. QED
    BY <1>1, <2>1
<1>7. CASE Restart
  <2>1. /\ agent_trigger_firings' = agent_trigger_firings
        /\ \A g \in Firers : fire'[g] = "idle"
    BY <1>7 DEF Restart
  <2>2. QED
    BY <1>1, <2>1
<1>8. CASE UNCHANGED firing
  BY <1>1, <1>8 DEF firing
<1>9. ASSUME NEW c \in Clients, (\E op \in Operations : Begin(c, op)) \/ Write(c) \/ WriteFails(c)
      PROVE  LimitInv'
  BY <1>8, <1>9 DEF Begin, Write, WriteFails
<1>10. CASE UNCHANGED vars
  BY <1>8, <1>10 DEF vars, firing
<1>11. CASE Next
  BY <1>2, <1>3, <1>4, <1>5, <1>6, <1>7, <1>9, <1>11 DEF Next, Fire, Firers
<1>12. QED
  BY <1>10, <1>11

\* LimitInv is an invariant of the triggers.
THEOREM LimitInvariant == Spec => []LimitInv
BY LimitInitInv, LimitStep, TriggerInvariant, PTL DEF Spec

\* HourlyLimit: in no hour are more runs started than the limit, whoever called
\* and whatever restarted.
THEOREM LimitKept == Spec => []HourlyLimit
<1>1. TriggerInv /\ LimitInv => HourlyLimit
  <2> SUFFICES ASSUME TriggerInv, LimitInv PROVE HourlyLimit
    OBVIOUS
  <2> USE HourFact
  <2>1. /\ started \in [Ages -> Nat] /\ agent_trigger_firings \in [Ages -> Nat]
        /\ Hour \in 0..TooOld
        /\ \A a \in Ages : started[a] <= agent_trigger_firings[a]
    BY DEF TriggerInv, FiringTypes, StartsAreRecorded
  <2>2. /\ Within(started, Hour) <= Within(agent_trigger_firings, Hour)
        /\ Within(started, Hour) \in Nat /\ Within(agent_trigger_firings, Hour) \in Nat
    BY <2>1, WithinMonotone, WithinFact
  <2>3. QED
    BY <2>2 DEF LimitInv, HourlyLimit
<1>2. QED
  BY <1>1, TriggerInvariant, LimitInvariant, PTL

-----------------------------------------------------------------------------
(* The switches, used by any clients, then by one *)

Doable == [in : {"meta"}, of : Rows, to : BOOLEAN]
            \cup [in : {"switch"}, of : Switches, to : BOOLEAN] \cup {Audit}

Has(s, w) == \E i \in 1..Len(s) : s[i] = w

\* The rows and the switches that a promise is about.
GoalRows(p)     == IF p = "pause" THEN {"mission_control_paused"} ELSE {"triggers_suspended"}
GoalSwitches(p) == IF p = "pause" THEN Switches ELSE {"triggers"}

\* What a call promises it has written or will write, and does not undo...
WillHold(p, c) ==
  /\ \A r \in GoalRows(p) : /\ meta[r] \/ Has(writes[c], Row(r, TRUE))
                            /\ ~Has(writes[c], Row(r, FALSE))
  /\ \A s \in GoalSwitches(p) : /\ switch[s] \/ Has(writes[c], Memory(s, TRUE))
                                /\ ~Has(writes[c], Memory(s, FALSE))

\* ... and what is kept is in force, and no call under way undoes it.
Holds(p, c) ==
  /\ \A r \in GoalRows(p) : meta[r] /\ ~Has(writes[c], Row(r, FALSE))
  /\ \A s \in GoalSwitches(p) : switch[s] /\ ~Has(writes[c], Memory(s, FALSE))

SwitchTypes ==
  /\ switch \in [Switches -> BOOLEAN] /\ meta \in [Rows -> BOOLEAN]
  /\ writes \in [Clients -> Seq(Doable)]
  /\ promise \in [Clients -> SUBSET {"pause", "triggers"}]
  /\ kept \subseteq {"pause", "triggers"}

SwitchInv ==
  /\ SwitchTypes
  /\ \A c \in Clients : \A p \in promise[c] : WillHold(p, c)
  /\ \A c \in Clients : \A p \in kept : Holds(p, c)

\* Sequences, as the sets of what is left to write.
LEMMA HasConcat ==
  ASSUME NEW S, NEW s \in Seq(S), NEW t \in Seq(S)
  PROVE \A w : Has(s \o t, w) <=> Has(s, w) \/ Has(t, w)
<1>1. /\ Len(s \o t) = Len(s) + Len(t)
      /\ Len(s) \in Nat /\ Len(t) \in Nat
  OBVIOUS
<1>2. \A i \in 1..Len(s) + Len(t) : (s \o t)[i] = IF i <= Len(s) THEN s[i] ELSE t[i - Len(s)]
  OBVIOUS
<1>3. ASSUME NEW w, Has(s, w) PROVE Has(s \o t, w)
  <2>1. PICK i \in 1..Len(s) : s[i] = w
    BY <1>3 DEF Has
  <2>2. i \in 1..Len(s) + Len(t) /\ (s \o t)[i] = w
    BY <1>1, <1>2, <2>1
  <2>3. QED
    BY <1>1, <2>2 DEF Has
<1>4. ASSUME NEW w, Has(t, w) PROVE Has(s \o t, w)
  <2>1. PICK i \in 1..Len(t) : t[i] = w
    BY <1>4 DEF Has
  <2>2. i + Len(s) \in 1..Len(s) + Len(t) /\ (s \o t)[i + Len(s)] = w
    BY <1>1, <1>2, <2>1
  <2>3. QED
    BY <1>1, <2>2 DEF Has
<1>5. ASSUME NEW w, Has(s \o t, w) PROVE Has(s, w) \/ Has(t, w)
  <2>1. PICK i \in 1..Len(s) + Len(t) : (s \o t)[i] = w
    BY <1>1, <1>5 DEF Has
  <2>2. CASE i <= Len(s)
    BY <1>1, <1>2, <2>1, <2>2 DEF Has
  <2>3. CASE ~(i <= Len(s))
    <3>1. i - Len(s) \in 1..Len(t) /\ t[i - Len(s)] = w
      BY <1>1, <1>2, <2>1, <2>3
    <3>2. QED
      BY <3>1 DEF Has
  <2>4. QED
    BY <2>2, <2>3
<1>6. QED
  BY <1>3, <1>4, <1>5

\* What a call has left to write, before and after its next write.
LEMMA HasTail ==
  ASSUME NEW S, NEW s \in Seq(S), s # <<>>
  PROVE /\ Head(s) \in S /\ Tail(s) \in Seq(S)
        /\ \A w : Has(s, w) <=> w = Head(s) \/ Has(Tail(s), w)
        /\ Len(s) = 1 => \A w : ~Has(Tail(s), w)
<1>1. /\ Len(s) \in Nat \ {0} /\ Head(s) = s[1] /\ Head(s) \in S
      /\ Tail(s) \in Seq(S) /\ Len(Tail(s)) = Len(s) - 1
      /\ \A i \in 1..Len(s) - 1 : Tail(s)[i] = s[i + 1]
  OBVIOUS
<1>2. ASSUME NEW w, Has(s, w) PROVE w = Head(s) \/ Has(Tail(s), w)
  <2>1. PICK i \in 1..Len(s) : s[i] = w
    BY <1>2 DEF Has
  <2>2. i = 1 \/ (i - 1 \in 1..Len(s) - 1 /\ Tail(s)[i - 1] = w)
    BY <1>1, <2>1
  <2>3. QED
    BY <1>1, <2>1, <2>2 DEF Has
<1>3. ASSUME NEW w, Has(Tail(s), w) PROVE Has(s, w)
  <2>1. PICK i \in 1..Len(s) - 1 : Tail(s)[i] = w
    BY <1>1, <1>3 DEF Has
  <2>2. i + 1 \in 1..Len(s) /\ s[i + 1] = w
    BY <1>1, <2>1
  <2>3. QED
    BY <2>2 DEF Has
<1>4. 1 \in 1..Len(s)
  BY <1>1
<1>5. QED
  BY <1>1, <1>2, <1>3, <1>4 DEF Has

\* The elements of the short sequences that the calls are written as.
LEMMA HasOne == ASSUME NEW a PROVE \A w : Has(<<a>>, w) <=> w = a
BY DEF Has
\* Two elements.
LEMMA HasTwo == ASSUME NEW a, NEW b PROVE \A w : Has(<<a, b>>, w) <=> w \in {a, b}
BY DEF Has
\* Three elements.
LEMMA HasThree == ASSUME NEW a, NEW b, NEW c PROVE \A w : Has(<<a, b, c>>, w) <=> w \in {a, b, c}
BY DEF Has

\* Such a sequence is one over any set with its elements.
LEMMA ShortSeqs ==
  ASSUME NEW S, NEW a \in S, NEW b \in S, NEW c \in S, NEW d \in S
  PROVE  /\ <<a>> \in Seq(S) /\ <<a, b>> \in Seq(S)
         /\ <<a, b, c>> \in Seq(S) /\ <<a, b, c, d>> \in Seq(S)
OBVIOUS

\* A call that returned has nothing left to write.
LEMMA HasNone == <<>> \in Seq(Doable) /\ \A w : ~Has(<<>>, w)
BY DEF Has

\* A write is of one of three kinds, which differ.
LEMMA WriteCases ==
  ASSUME NEW w \in Doable
  PROVE  \/ w = Audit
         \/ \E r \in Rows : w \in {Row(r, TRUE), Row(r, FALSE)}
         \/ \E s \in Switches : w \in {Memory(s, TRUE), Memory(s, FALSE)}
<1>1. ASSUME w \in [in : {"meta"}, of : Rows, to : BOOLEAN]
      PROVE  w = Row(w.of, w.to) /\ w.of \in Rows /\ w.to \in BOOLEAN
  BY <1>1 DEF Row
<1>2. ASSUME w \in [in : {"switch"}, of : Switches, to : BOOLEAN]
      PROVE  w = Memory(w.of, w.to) /\ w.of \in Switches /\ w.to \in BOOLEAN
  BY <1>2 DEF Memory
<1>3. QED
  BY <1>1, <1>2, Zenon DEF Doable

\* Writes of different kinds, to different places or of different values differ.
LEMMA WritesDiffer ==
  /\ \A r, s : Row(r, TRUE) = Row(s, TRUE) => r = s
  /\ \A r, s : Row(r, FALSE) = Row(s, FALSE) => r = s
  /\ \A r, s : Memory(r, TRUE) = Memory(s, TRUE) => r = s
  /\ \A r, s : Memory(r, FALSE) = Memory(s, FALSE) => r = s
  /\ \A r, s : Row(r, TRUE) # Row(s, FALSE)
  /\ \A r, s : Memory(r, TRUE) # Memory(s, FALSE)
  /\ \A r, s : Row(r, TRUE) # Memory(s, TRUE)
  /\ \A r, s : Row(r, TRUE) # Memory(s, FALSE)
  /\ \A r, s : Row(r, FALSE) # Memory(s, TRUE)
  /\ \A r, s : Row(r, FALSE) # Memory(s, FALSE)
  /\ \A r : Row(r, TRUE) # Audit /\ Row(r, FALSE) # Audit
  /\ \A r : Memory(r, TRUE) # Audit /\ Memory(r, FALSE) # Audit
BY DEF Row, Memory, Audit

\* The writes the calls are made of are writes.
LEMMA WritesDoable ==
  /\ Audit \in Doable
  /\ \A r \in Rows : Row(r, TRUE) \in Doable /\ Row(r, FALSE) \in Doable
  /\ \A s \in Switches : Memory(s, TRUE) \in Doable /\ Memory(s, FALSE) \in Doable
<1>1. \A r \in Rows : /\ Row(r, TRUE) \in [in : {"meta"}, of : Rows, to : BOOLEAN]
                      /\ Row(r, FALSE) \in [in : {"meta"}, of : Rows, to : BOOLEAN]
  BY DEF Row
<1>2. \A s \in Switches : /\ Memory(s, TRUE) \in [in : {"switch"}, of : Switches, to : BOOLEAN]
                          /\ Memory(s, FALSE) \in [in : {"switch"}, of : Switches, to : BOOLEAN]
  BY DEF Memory
<1>3. QED
  BY <1>1, <1>2, Zenon DEF Doable

\* What the calls write.
LEMMA Written ==
  /\ SuspendTriggers \in Seq(Doable)
  /\ \A w : Has(SuspendTriggers, w)
              <=> w \in {Row("triggers_suspended", TRUE), Audit, Memory("triggers", TRUE)}
  /\ ResumeTriggers \in Seq(Doable)
  /\ SuspendRoutines \in Seq(Doable)
  /\ \A w : Has(SuspendRoutines, w) <=> w = Memory("routines", TRUE)
  /\ ResumeRoutines \in Seq(Doable)
  /\ \A w : Has(ResumeRoutines, w)
              <=> w \in {Row("mission_control_paused", FALSE), Memory("routines", FALSE)}
  /\ Disconnect \in Seq(Doable)
  /\ \A w : Has(Disconnect, w) <=> w = Memory("fabric", TRUE)
  /\ Reconnect \in Seq(Doable)
  /\ \A w : Has(Reconnect, w)
              <=> w \in {Row("mission_control_paused", FALSE), Memory("fabric", FALSE)}
<1>1. /\ Row("mission_control_paused", FALSE) \in Doable
      /\ Row("triggers_suspended", TRUE) \in Doable /\ Row("triggers_suspended", FALSE) \in Doable
      /\ \A s \in Switches : Memory(s, TRUE) \in Doable /\ Memory(s, FALSE) \in Doable
      /\ Audit \in Doable
  BY WritesDoable DEF Rows
<1>2. "triggers" \in Switches /\ "routines" \in Switches /\ "fabric" \in Switches
  BY DEF Switches
<1>3. SuspendTriggers \in Seq(Doable) /\ ResumeTriggers \in Seq(Doable)
  BY <1>1, <1>2, ShortSeqs DEF SuspendTriggers, ResumeTriggers
<1>4. /\ SuspendRoutines \in Seq(Doable) /\ ResumeRoutines \in Seq(Doable)
      /\ Disconnect \in Seq(Doable) /\ Reconnect \in Seq(Doable)
  BY <1>1, <1>2, ShortSeqs DEF SuspendRoutines, ResumeRoutines, Disconnect, Reconnect
<1>5. QED
  BY <1>3, <1>4, HasOne, HasTwo, HasThree
     DEF SuspendTriggers, SuspendRoutines, ResumeRoutines, Disconnect, Reconnect

\* The emergency pause writes what both its promises need, and undoes nothing.
LEMMA PauseWritten ==
  /\ ActivateMissionControlPause \in Seq(Doable)
  /\ \A w : Has(ActivateMissionControlPause, w)
              <=> w \in {Row("mission_control_paused", TRUE), Row("triggers_suspended", TRUE),
                         Memory("triggers", TRUE), Memory("routines", TRUE),
                         Memory("fabric", TRUE), Audit}
<1> DEFINE latch == <<Row("mission_control_paused", TRUE)>>
           audit == <<Audit>>
<1>1. /\ latch \in Seq(Doable) /\ SuspendTriggers \in Seq(Doable)
      /\ SuspendRoutines \in Seq(Doable) /\ Disconnect \in Seq(Doable) /\ audit \in Seq(Doable)
  BY WritesDoable, ShortSeqs, Written DEF Rows
<1>2. /\ \A w : Has(latch, w) <=> w = Row("mission_control_paused", TRUE)
      /\ \A w : Has(audit, w) <=> w = Audit
  BY HasOne
<1> DEFINE two   == latch \o SuspendTriggers
           three == two \o SuspendRoutines
           four  == three \o Disconnect
<1>3. ActivateMissionControlPause = four \o audit
  BY DEF ActivateMissionControlPause
<1> HIDE DEF latch, audit
<1>4. two \in Seq(Doable) /\ \A w : Has(two, w) <=> Has(latch, w) \/ Has(SuspendTriggers, w)
  BY <1>1, HasConcat
<1> HIDE DEF two
<1>5. three \in Seq(Doable) /\ \A w : Has(three, w) <=> Has(two, w) \/ Has(SuspendRoutines, w)
  BY <1>1, <1>4, HasConcat
<1> HIDE DEF three
<1>6. four \in Seq(Doable) /\ \A w : Has(four, w) <=> Has(three, w) \/ Has(Disconnect, w)
  BY <1>1, <1>5, HasConcat
<1> HIDE DEF four
<1>7. /\ four \o audit \in Seq(Doable)
      /\ \A w : Has(four \o audit, w) <=> Has(four, w) \/ Has(audit, w)
  BY <1>1, <1>6, HasConcat
<1>8. QED
  BY <1>2, <1>3, <1>4, <1>5, <1>6, <1>7, Written

\* A call writes what it promises, and undoes neither that nor what stays kept.
LEMMA Begun ==
  ASSUME NEW op \in Operations
  PROVE  /\ op \in Seq(Doable) /\ Promised(op) \subseteq {"pause", "triggers"}
         /\ \A p \in Promised(op) :
              /\ \A r \in GoalRows(p) : Has(op, Row(r, TRUE)) /\ ~Has(op, Row(r, FALSE))
              /\ \A s \in GoalSwitches(p) : Has(op, Memory(s, TRUE)) /\ ~Has(op, Memory(s, FALSE))
         /\ \A p \in {"pause", "triggers"} \ TakenBack(op) :
              /\ \A r \in GoalRows(p) : ~Has(op, Row(r, FALSE))
              /\ \A s \in GoalSwitches(p) : ~Has(op, Memory(s, FALSE))
<1> USE WritesDiffer DEF GoalRows, GoalSwitches, Switches
<1>1. CASE op = ActivateMissionControlPause
  <2>1. /\ \A r : ~Has(op, Row(r, FALSE))
        /\ \A s : ~Has(op, Memory(s, FALSE))
    <3> DEFINE all == {Row("mission_control_paused", TRUE), Row("triggers_suspended", TRUE),
                       Memory("triggers", TRUE), Memory("routines", TRUE),
                       Memory("fabric", TRUE), Audit}
    <3>1. \A w : Has(op, w) <=> w \in all
      BY <1>1, PauseWritten
    <3>2. \A r : Row(r, FALSE) \notin all /\ Memory(r, FALSE) \notin all
      BY WritesDiffer
    <3>3. QED
      BY <3>1, <3>2
  <2>2. /\ \A r \in Rows : Has(op, Row(r, TRUE))
        /\ \A s \in Switches : Has(op, Memory(s, TRUE))
    BY <1>1, PauseWritten DEF Rows
  <2>3. op \in Seq(Doable) /\ Promised(op) = {"pause", "triggers"}
    BY <1>1, PauseWritten DEF Promised
  <2>4. QED
    BY <2>1, <2>2, <2>3 DEF Rows
<1>2. CASE op = SuspendTriggers /\ op # ActivateMissionControlPause
  <2>1. /\ \A r : ~Has(op, Row(r, FALSE))
        /\ \A s : ~Has(op, Memory(s, FALSE))
    <3> DEFINE all == {Row("triggers_suspended", TRUE), Audit, Memory("triggers", TRUE)}
    <3>1. \A w : Has(op, w) <=> w \in all
      BY <1>2, Written
    <3>2. \A r : Row(r, FALSE) \notin all /\ Memory(r, FALSE) \notin all
      BY WritesDiffer
    <3>3. QED
      BY <3>1, <3>2
  <2>2. Has(op, Row("triggers_suspended", TRUE)) /\ Has(op, Memory("triggers", TRUE))
    BY <1>2, Written
  <2>3. op \in Seq(Doable) /\ Promised(op) = {"triggers"}
    BY <1>2, Written DEF Promised
  <2>4. QED
    BY <2>1, <2>2, <2>3
<1>3. CASE op = ResumeTriggers /\ op # ActivateMissionControlPause /\ op # SuspendTriggers
  BY <1>3, Written DEF Promised, TakenBack
<1>4. CASE /\ op \in {ResumeRoutines, Reconnect} /\ op # ActivateMissionControlPause
           /\ op # SuspendTriggers /\ op # ResumeTriggers
  <2>1. op \in Seq(Doable) /\ Promised(op) = {} /\ TakenBack(op) = {"pause"}
    BY <1>4, Written DEF Promised, TakenBack
  <2>2. ~Has(op, Row("triggers_suspended", FALSE)) /\ ~Has(op, Memory("triggers", FALSE))
    <3>1. \A w : Has(op, w) => \/ w = Row("mission_control_paused", FALSE)
                              \/ w = Memory("routines", FALSE) \/ w = Memory("fabric", FALSE)
      BY <1>4, Written
    <3>2. /\ "triggers_suspended" # "mission_control_paused"
          /\ "triggers" # "routines" /\ "triggers" # "fabric"
      OBVIOUS
    <3>3. QED
      BY <3>1, <3>2
  <2>3. QED
    BY <2>1, <2>2
<1>5. CASE /\ op \in {SuspendRoutines, Disconnect} /\ op # ActivateMissionControlPause
           /\ op # SuspendTriggers
  <2>1. op \in Seq(Doable) /\ Promised(op) = {}
    BY <1>5, Written DEF Promised
  <2>2. /\ \A r : ~Has(op, Row(r, FALSE))
        /\ \A s : ~Has(op, Memory(s, FALSE))
    <3>1. \A w : Has(op, w) => w = Memory("routines", TRUE) \/ w = Memory("fabric", TRUE)
      <4>1. CASE op = SuspendRoutines
        BY <4>1, Written
      <4>2. CASE op = Disconnect
        BY <4>2, Written
      <4>3. QED
        BY <1>5, <4>1, <4>2
    <3>2. \A r : /\ Row(r, FALSE) # Memory("routines", TRUE)
                 /\ Row(r, FALSE) # Memory("fabric", TRUE)
                 /\ Memory(r, FALSE) # Memory("routines", TRUE)
                 /\ Memory(r, FALSE) # Memory("fabric", TRUE)
      BY WritesDiffer
    <3>3. QED
      BY <3>1, <3>2
  <2>3. QED
    BY <2>1, <2>2
<1>6. QED
  BY <1>1, <1>2, <1>3, <1>4, <1>5 DEF Operations, SetTriggersSuspended

\* What the next write of a call does, by its kind.
LEMMA WriteDoes ==
  ASSUME NEW c \in Clients, SwitchTypes, Write(c)
  PROVE  LET w == Head(writes[c]) IN
           \/ w = Audit /\ UNCHANGED <<switch, meta>>
           \/ \E r \in Rows : /\ UNCHANGED switch
                              /\ \/ w = Row(r, TRUE) /\ meta' = [meta EXCEPT ![r] = TRUE]
                                 \/ w = Row(r, FALSE) /\ meta' = [meta EXCEPT ![r] = FALSE]
           \/ \E s \in Switches : /\ UNCHANGED meta
                                  /\ \/ w = Memory(s, TRUE) /\ switch' = [switch EXCEPT ![s] = TRUE]
                                     \/ w = Memory(s, FALSE) /\ switch' = [switch EXCEPT ![s] = FALSE]
<1> DEFINE w == Head(writes[c])
<1>1. w \in Doable
  BY HasTail DEF Write, SwitchTypes
<1>2. /\ switch' = IF w.in = "switch" THEN [switch EXCEPT ![w.of] = w.to] ELSE switch
      /\ meta' = IF w.in = "meta" THEN [meta EXCEPT ![w.of] = w.to] ELSE meta
  BY DEF Write
<1> HIDE DEF w
<1>3. ASSUME w = Audit PROVE UNCHANGED <<switch, meta>>
  BY <1>2, <1>3 DEF Audit
<1>4. ASSUME NEW r \in Rows, w = Row(r, TRUE)
      PROVE  meta' = [meta EXCEPT ![r] = TRUE] /\ UNCHANGED switch
  BY <1>2, <1>4 DEF Row
<1>5. ASSUME NEW r \in Rows, w = Row(r, FALSE)
      PROVE  meta' = [meta EXCEPT ![r] = FALSE] /\ UNCHANGED switch
  BY <1>2, <1>5 DEF Row
<1>6. ASSUME NEW s \in Switches, w = Memory(s, TRUE)
      PROVE  switch' = [switch EXCEPT ![s] = TRUE] /\ UNCHANGED meta
  BY <1>2, <1>6 DEF Memory
<1>7. ASSUME NEW s \in Switches, w = Memory(s, FALSE)
      PROVE  switch' = [switch EXCEPT ![s] = FALSE] /\ UNCHANGED meta
  BY <1>2, <1>7 DEF Memory
<1>8. \/ w = Audit /\ UNCHANGED <<switch, meta>>
      \/ \E r \in Rows : /\ UNCHANGED switch
                         /\ \/ w = Row(r, TRUE) /\ meta' = [meta EXCEPT ![r] = TRUE]
                            \/ w = Row(r, FALSE) /\ meta' = [meta EXCEPT ![r] = FALSE]
      \/ \E s \in Switches : /\ UNCHANGED meta
                             /\ \/ w = Memory(s, TRUE) /\ switch' = [switch EXCEPT ![s] = TRUE]
                                \/ w = Memory(s, FALSE) /\ switch' = [switch EXCEPT ![s] = FALSE]
  BY <1>1, <1>3, <1>4, <1>5, <1>6, <1>7, WriteCases
<1>9. QED
  BY <1>8 DEF w

\* Any number of clients write switches and rows only to what they can be.
LEMMA SwitchTypesStep == SwitchTypes /\ [Next]_vars => SwitchTypes'
<1> SUFFICES ASSUME SwitchTypes, [Next]_vars PROVE SwitchTypes'
  OBVIOUS
<1>1. ASSUME NEW c \in Clients, NEW op \in Operations, Begin(c, op) PROVE SwitchTypes'
  BY <1>1, Begun DEF Begin, SwitchTypes
<1>2. ASSUME NEW c \in Clients, Write(c) PROVE SwitchTypes'
  <2>1. Tail(writes[c]) \in Seq(Doable)
    BY <1>2, HasTail DEF Write, SwitchTypes
  <2>2. writes' \in [Clients -> Seq(Doable)]
    BY <1>2, <2>1 DEF Write, SwitchTypes
  <2>3. switch' \in [Switches -> BOOLEAN] /\ meta' \in [Rows -> BOOLEAN]
    BY <1>2, WriteDoes DEF SwitchTypes
  <2>4. promise' \in [Clients -> SUBSET {"pause", "triggers"}] /\ kept' \subseteq {"pause", "triggers"}
    BY <1>2 DEF Write, SwitchTypes
  <2>5. QED
    BY <2>2, <2>3, <2>4 DEF SwitchTypes
<1>3. ASSUME NEW c \in Clients, WriteFails(c) PROVE SwitchTypes'
  BY <1>3, HasNone DEF WriteFails, SwitchTypes
<1>4. CASE Restart
  BY <1>4, HasNone DEF Restart, Restored, SwitchTypes, Switches, Rows
<1>5. CASE UNCHANGED control
  BY <1>5 DEF control, SwitchTypes
<1>6. ASSUME NEW f \in Firers, Fire(f) \/ FireFails(f) \/ Call(f) PROVE UNCHANGED control
  BY <1>6 DEF Fire, FireFails, Call, CheckSuspended, Dispatch, RegisterRun, RecordFiring, Spawn,
              FireMove
<1>7. SchedulerLooks \/ Tick => UNCHANGED control
  BY DEF SchedulerLooks, Tick
<1>8. QED
  BY <1>1, <1>2, <1>3, <1>4, <1>5, <1>6, <1>7 DEF Next, Firers, vars, control

\* TypeOK: every variable stays in its set, however many clients use the
\* switches; that no age has more firings than the limit is LimitInv.
THEOREM TriggersTyped == Spec => []TypeOK
<1>1. Init => SwitchTypes
  BY HasNone DEF Init, SwitchTypes, Off, Switches, Rows
<1>2. Spec => []SwitchTypes
  BY <1>1, SwitchTypesStep, PTL DEF Spec
<1>3. TriggerInv /\ LimitInv /\ SwitchTypes => TypeOK
  <2> SUFFICES ASSUME TriggerInv, LimitInv, SwitchTypes PROVE TypeOK
    OBVIOUS
  <2> DEFINE W == [in : {"switch", "meta", "audit"}, of : Switches \cup Rows \cup {""}, to : BOOLEAN]
  <2>1. FiringTypes /\ StartsAreRecorded
    BY DEF TriggerInv
  <2>2. agent_trigger_firings \in [Ages -> 0..MaxPerHour] /\ started \in [Ages -> 0..MaxPerHour]
    BY <2>1, HourFact DEF FiringTypes, StartsAreRecorded, LimitInv
  <2>3. Doable \subseteq W
    <3>1. /\ [in : {"meta"}, of : Rows, to : BOOLEAN] \subseteq W
          /\ [in : {"switch"}, of : Switches, to : BOOLEAN] \subseteq W
      OBVIOUS
    <3>2. Audit \in W
      BY DEF Audit
    <3> HIDE DEF W
    <3>3. QED
      BY <3>1, <3>2 DEF Doable
  <2>4. ASSUME NEW c \in Clients PROVE writes[c] \in Seq(W)
    <3> HIDE DEF W
    <3>1. writes[c] \in Seq(Doable)
      BY DEF SwitchTypes
    <3>2. QED
      BY <2>3, <3>1
  <2>5. QED
    BY <2>1, <2>2, <2>4 DEF FiringTypes, SwitchTypes, TypeOK
<1>4. QED
  BY <1>2, <1>3, TriggerInvariant, LimitInvariant, PTL

\* SwitchInv holds before anything was promised.
LEMMA SwitchInitInv == Init => SwitchInv
BY HasNone DEF Init, SwitchInv, SwitchTypes, Off, Switches, Rows

\* With one client, every step keeps what is kept.
LEMMA SwitchStep ==
  ASSUME NEW me, Clients = {me}, SwitchInv, [Next]_vars
  PROVE  SwitchInv'
<1>1. ASSUME NEW c \in Clients, NEW op \in Operations, Begin(c, op) PROVE SwitchInv'
  <2>1. /\ writes' = [writes EXCEPT ![c] = op] /\ promise' = [promise EXCEPT ![c] = Promised(op)]
        /\ kept' = kept \ TakenBack(op) /\ UNCHANGED <<switch, meta>>
    BY <1>1 DEF Begin
  <2>2. SwitchTypes' /\ writes'[c] = op /\ promise'[c] = Promised(op)
    BY <2>1, Begun DEF SwitchInv, SwitchTypes
  <2>3. \A p \in promise'[c] : WillHold(p, c)'
    BY <2>1, <2>2, Begun DEF WillHold
  <2>4. \A p \in kept' : p \in kept /\ p \in {"pause", "triggers"} \ TakenBack(op)
    BY <2>1 DEF SwitchInv, SwitchTypes
  <2>5. \A p \in kept' : Holds(p, c)'
    BY <2>1, <2>2, <2>4, Begun DEF SwitchInv, Holds
  <2>6. \A d \in Clients : d = c
    OBVIOUS
  <2>7. QED
    BY <2>2, <2>3, <2>5, <2>6 DEF SwitchInv
<1>2. ASSUME NEW c \in Clients, Write(c) PROVE SwitchInv'
  <2> DEFINE w0 == Head(writes[c])
             left == Tail(writes[c])
  <2>1. /\ w0 \in Doable /\ left \in Seq(Doable)
        /\ \A w : Has(writes[c], w) <=> w = w0 \/ Has(left, w)
        /\ Len(writes[c]) = 1 => \A w : ~Has(left, w)
    BY <1>2, HasTail DEF Write, SwitchInv, SwitchTypes
  <2>2. /\ writes' = [writes EXCEPT ![c] = left]
        /\ switch' = IF w0.in = "switch" THEN [switch EXCEPT ![w0.of] = w0.to] ELSE switch
        /\ meta' = IF w0.in = "meta" THEN [meta EXCEPT ![w0.of] = w0.to] ELSE meta
        /\ \/ /\ Len(writes[c]) = 1 /\ kept' = kept \cup promise[c]
              /\ promise' = [promise EXCEPT ![c] = {}]
           \/ UNCHANGED <<kept, promise>>
    BY <1>2 DEF Write
  <2> HIDE DEF w0, left
  <2>3. \/ w0 = Audit /\ UNCHANGED <<switch, meta>>
        \/ \E r \in Rows : /\ UNCHANGED switch
                           /\ \/ w0 = Row(r, TRUE) /\ meta' = [meta EXCEPT ![r] = TRUE]
                              \/ w0 = Row(r, FALSE) /\ meta' = [meta EXCEPT ![r] = FALSE]
        \/ \E s \in Switches : /\ UNCHANGED meta
                               /\ \/ w0 = Memory(s, TRUE) /\ switch' = [switch EXCEPT ![s] = TRUE]
                                  \/ w0 = Memory(s, FALSE) /\ switch' = [switch EXCEPT ![s] = FALSE]
    BY <1>2, WriteDoes DEF w0, SwitchInv
  <2>4. SwitchTypes' /\ writes'[c] = left
    BY <2>1, <2>2, <2>3 DEF SwitchInv, SwitchTypes
  <2>5. ASSUME NEW r \in Rows
        PROVE  (meta[r] /\ w0 # Row(r, FALSE) => meta'[r]) /\ (w0 = Row(r, TRUE) => meta'[r])
    <3>1. \/ UNCHANGED meta /\ w0 # Row(r, TRUE)
          \/ \E q \in Rows : w0 = Row(q, TRUE) /\ meta' = [meta EXCEPT ![q] = TRUE]
          \/ \E q \in Rows : w0 = Row(q, FALSE) /\ meta' = [meta EXCEPT ![q] = FALSE]
      BY <2>3, WritesDiffer
    <3>2. CASE UNCHANGED meta /\ w0 # Row(r, TRUE)
      BY <3>2
    <3>3. ASSUME NEW q \in Rows, w0 = Row(q, TRUE), meta' = [meta EXCEPT ![q] = TRUE]
          PROVE  (meta[r] => meta'[r]) /\ (w0 = Row(r, TRUE) => meta'[r])
      <4>1. w0 = Row(r, TRUE) => q = r
        BY <3>3, WritesDiffer
      <4>2. QED
        BY <3>3, <4>1 DEF SwitchInv, SwitchTypes
    <3>4. ASSUME NEW q \in Rows, w0 = Row(q, FALSE), meta' = [meta EXCEPT ![q] = FALSE]
          PROVE  (meta[r] /\ w0 # Row(r, FALSE) => meta'[r]) /\ w0 # Row(r, TRUE)
      <4>1. w0 # Row(r, TRUE) /\ (w0 # Row(r, FALSE) => q # r)
        BY <3>4, WritesDiffer
      <4>2. QED
        BY <3>4, <4>1 DEF SwitchInv, SwitchTypes
    <3>5. QED
      BY <3>1, <3>2, <3>3, <3>4
  <2>6. ASSUME NEW s \in Switches
        PROVE  /\ switch[s] /\ w0 # Memory(s, FALSE) => switch'[s]
               /\ w0 = Memory(s, TRUE) => switch'[s]
    <3>1. \/ UNCHANGED switch /\ w0 # Memory(s, TRUE)
          \/ \E q \in Switches : w0 = Memory(q, TRUE) /\ switch' = [switch EXCEPT ![q] = TRUE]
          \/ \E q \in Switches : w0 = Memory(q, FALSE) /\ switch' = [switch EXCEPT ![q] = FALSE]
      <4>1. CASE w0 = Audit
        BY <2>3, <4>1, WritesDiffer
      <4>2. ASSUME NEW q \in Rows, w0 = Row(q, TRUE) \/ w0 = Row(q, FALSE)
            PROVE  w0 # Memory(s, TRUE)
        BY <4>2, WritesDiffer
      <4>3. QED
        BY <2>3, <4>1, <4>2
    <3>2. CASE UNCHANGED switch /\ w0 # Memory(s, TRUE)
      BY <3>2
    <3>3. ASSUME NEW q \in Switches, w0 = Memory(q, TRUE), switch' = [switch EXCEPT ![q] = TRUE]
          PROVE  (switch[s] => switch'[s]) /\ (w0 = Memory(s, TRUE) => switch'[s])
      <4>1. w0 = Memory(s, TRUE) => q = s
        BY <3>3, WritesDiffer
      <4>2. QED
        BY <3>3, <4>1 DEF SwitchInv, SwitchTypes
    <3>4. ASSUME NEW q \in Switches, w0 = Memory(q, FALSE), switch' = [switch EXCEPT ![q] = FALSE]
          PROVE  (switch[s] /\ w0 # Memory(s, FALSE) => switch'[s]) /\ w0 # Memory(s, TRUE)
      <4>1. w0 # Memory(s, TRUE) /\ (w0 # Memory(s, FALSE) => q # s)
        BY <3>4, WritesDiffer
      <4>2. QED
        BY <3>4, <4>1 DEF SwitchInv, SwitchTypes
    <3>5. QED
      BY <3>1, <3>2, <3>3, <3>4
  <2>7. \A p : GoalRows(p) \subseteq Rows /\ GoalSwitches(p) \subseteq Switches
    BY DEF GoalRows, GoalSwitches, Rows, Switches
  <2>8. \A p \in kept : Holds(p, c)'
    BY <2>1, <2>4, <2>5, <2>6, <2>7 DEF SwitchInv, Holds
  <2>9. \A p \in promise[c] :
          /\ \A r \in GoalRows(p) : meta'[r] \/ Has(left, Row(r, TRUE))
          /\ \A r \in GoalRows(p) : ~Has(left, Row(r, FALSE))
          /\ \A s \in GoalSwitches(p) : switch'[s] \/ Has(left, Memory(s, TRUE))
          /\ \A s \in GoalSwitches(p) : ~Has(left, Memory(s, FALSE))
    BY <2>1, <2>5, <2>6, <2>7 DEF SwitchInv, WillHold
  <2>10. \A d \in Clients : d = c
    OBVIOUS
  <2>11. CASE UNCHANGED <<kept, promise>>
    <3>1. \A p \in promise[c] : WillHold(p, c)'
      BY <2>4, <2>9 DEF WillHold
    <3>2. QED
      BY <2>4, <2>8, <2>10, <2>11, <3>1 DEF SwitchInv
  <2>12. CASE /\ Len(writes[c]) = 1 /\ kept' = kept \cup promise[c]
              /\ promise' = [promise EXCEPT ![c] = {}]
    <3>1. \A p \in promise[c] : Holds(p, c)'
      BY <2>1, <2>4, <2>9, <2>12 DEF Holds
    <3>2. promise'[c] = {}
      BY <2>12 DEF SwitchInv, SwitchTypes
    <3>3. QED
      BY <2>4, <2>8, <2>10, <2>12, <3>1, <3>2 DEF SwitchInv
  <2>13. QED
    BY <2>2, <2>11, <2>12
<1>3. ASSUME NEW c \in Clients, WriteFails(c) PROVE SwitchInv'
  <2>1. /\ writes' = [writes EXCEPT ![c] = <<>>] /\ promise' = [promise EXCEPT ![c] = {}]
        /\ UNCHANGED <<switch, meta, kept>>
    BY <1>3 DEF WriteFails
  <2>2. SwitchTypes' /\ writes'[c] = <<>> /\ promise'[c] = {}
    BY <2>1, HasNone DEF SwitchInv, SwitchTypes
  <2>3. \A p \in kept' : Holds(p, c)'
    BY <2>1, <2>2, HasNone DEF SwitchInv, Holds
  <2>4. \A d \in Clients : d = c
    OBVIOUS
  <2>5. QED
    BY <2>2, <2>3, <2>4 DEF SwitchInv
<1>4. CASE Restart
  <2>1. /\ writes' = [d \in Clients |-> <<>>] /\ promise' = [d \in Clients |-> {}]
        /\ switch' = Restored /\ UNCHANGED <<meta, kept>>
    BY <1>4 DEF Restart
  <2>2. SwitchTypes'
    BY <2>1, HasNone DEF Restored, SwitchInv, SwitchTypes, Switches, Rows
  <2>3. ASSUME NEW p \in kept, NEW c \in Clients PROVE Holds(p, c)'
    <3>1. p \in {"pause", "triggers"} /\ Holds(p, c) /\ writes'[c] = <<>>
      BY <2>1, <2>3 DEF SwitchInv, SwitchTypes
    <3>2. \A w : ~Has(writes'[c], w)
      BY <3>1, HasNone
    <3>3. \A r \in GoalRows(p) : meta'[r]
      BY <2>1, <3>1 DEF Holds
    <3>4. \A s \in GoalSwitches(p) : switch'[s]
      <4>0. /\ Restored["triggers"] = (meta["triggers_suspended"] \/ meta["mission_control_paused"])
            /\ Restored["routines"] = meta["mission_control_paused"]
            /\ Restored["fabric"] = meta["mission_control_paused"]
        BY DEF Restored, SwitchInv, SwitchTypes, Rows
      <4>1. CASE p = "pause"
        BY <2>1, <3>1, <4>0, <4>1 DEF Holds, GoalRows, GoalSwitches, Switches
      <4>2. CASE p = "triggers"
        BY <2>1, <3>1, <4>0, <4>2 DEF Holds, GoalRows, GoalSwitches
      <4>3. QED
        BY <3>1, <4>1, <4>2
    <3>5. QED
      BY <3>2, <3>3, <3>4 DEF Holds
  <2>4. QED
    BY <2>1, <2>2, <2>3 DEF SwitchInv
<1>5. ASSUME UNCHANGED control PROVE SwitchInv'
  BY <1>5 DEF control, SwitchInv, SwitchTypes, WillHold, Holds
<1>6. CASE Next
  <2>1. ASSUME NEW f \in Firers, Fire(f) \/ FireFails(f) \/ Call(f) PROVE UNCHANGED control
    BY <2>1 DEF Fire, FireFails, Call, CheckSuspended, Dispatch, RegisterRun, RecordFiring, Spawn,
                FireMove
  <2>2. SchedulerLooks \/ Tick => UNCHANGED control
    BY DEF SchedulerLooks, Tick
  <2>3. QED
    BY <1>1, <1>2, <1>3, <1>4, <1>5, <1>6, <2>1, <2>2 DEF Next, Firers
<1>7. QED
  BY <1>5, <1>6 DEF vars, control

\* SwitchInv is an invariant of a daemon whose switches one client uses.
THEOREM SwitchInvariant ==
  ASSUME NEW me, Clients = {me}
  PROVE  Spec => []SwitchInv
<1>1. SwitchInv /\ [Next]_vars => SwitchInv'
  BY SwitchStep
<1>2. QED
  BY <1>1, SwitchInitInv, PTL DEF Spec

\* SuspensionKept and SuspensionPersists: triggers that a client suspended stay
\* suspended, across restarts, refused writes and the resumption of the other
\* parts of a pause, as long as no other client uses the switches meanwhile.
THEOREM SuspensionsHold ==
  ASSUME NEW me, Clients = {me}
  PROVE  Spec => [](SuspensionKept /\ SuspensionPersists)
<1>1. SwitchInv => SuspensionKept
  BY DEF SwitchInv, Holds, SuspensionKept, GoalSwitches
<1>2. SwitchInv => SuspensionPersists
  BY DEF SwitchInv, SwitchTypes, Holds, SuspensionPersists, GoalRows, Restored, Rows
<1>3. QED
  BY <1>1, <1>2, SwitchInvariant, PTL

\* PauseKept: the emergency pause of a client holds in all its parts, across
\* restarts, until that client begins to resume one of them.
THEOREM PausesHold ==
  ASSUME NEW me, Clients = {me}
  PROVE  Spec => []PauseKept
<1>1. SwitchInv => PauseKept
  BY DEF SwitchInv, Holds, PauseKept, GoalSwitches
<1>2. QED
  BY <1>1, SwitchInvariant, PTL
=============================================================================
