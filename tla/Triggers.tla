------------------------------- MODULE Triggers -------------------------------
(***************************************************************************)
(* The triggers of the AI service: the calls that fire one trigger, its    *)
(* cooldown and hourly limit over durable firings, the scheduler, and the  *)
(* switches that suspend triggers, routines and the event fabric, alone or *)
(* together as the emergency pause of mission control.                     *)
(*                                                                         *)
(* Calls to fire different triggers share the dispatch lock only, so one   *)
(* trigger is enough. Time is kept as ages: an age no limit looks at any   *)
(* more is forgotten. A switch is TRUE when it stops something.            *)
(***************************************************************************)
EXTENDS Naturals, Sequences

CONSTANTS
  Callers,    \* callers of fire_agent_trigger besides the scheduler
  Scheduler,  \* the scheduler task
  Clients,    \* callers of the switches
  Cooldown,   \* cooldown_seconds
  Hour,       \* the hour of the hourly limit
  MaxPerHour, \* max_runs_per_hour
  Interval    \* interval_seconds of the schedule

ASSUME SchedulerApart == Scheduler \notin Callers
ASSUME TriggerBounds ==
  /\ Cooldown \in Nat /\ Hour \in Nat \ {0}
  /\ MaxPerHour \in Nat \ {0} /\ Interval \in Nat \ {0}

VARIABLES
  fire,                \* where each fire_agent_trigger call is
  age,                 \* age of the `now` that call read under the lock
  agent_trigger_firings, \* how many recorded firings have each age
  started,             \* history: firings whose run was spawned, by age
  schedule_last_fired, \* age of the scheduler's entry, or NoEntry
  uptime,              \* age of the daemon, up to Interval
  switch,              \* the switches in memory
  meta,                \* their rows in agent_runtime_meta
  writes,              \* the writes a client's call has still to make
  promise,             \* what each client's call promises when it returns
  kept                 \* history: promises made and not taken back since

firing  == <<fire, age, agent_trigger_firings, started, schedule_last_fired, uptime>>
control == <<switch, meta, writes, promise, kept>>
vars    == <<fire, age, agent_trigger_firings, started, schedule_last_fired, uptime,
             switch, meta, writes, promise, kept>>

-----------------------------------------------------------------------------
Firers   == Callers \cup {Scheduler}
FireStep == {"idle", "due", "checked", "admitted", "registered", "recorded"}

\* trigger_firings looks back the longer of the cooldown and one hour.
Lookback == IF Cooldown > Hour THEN Cooldown ELSE Hour
Ages     == 0..Lookback
TooOld   == Lookback + 1

NoFirings == [a \in Ages |-> 0]
OneMore(firings, a) == IF a \in Ages THEN [firings EXCEPT ![a] = @ + 1] ELSE firings
Aged(firings) == [a \in Ages |-> IF a = 0 THEN 0 ELSE firings[a - 1]]

\* How many firings are younger than n.
Within(firings, n) ==
  LET count[a \in 0..TooOld] == IF a = 0 THEN 0 ELSE count[a - 1] + firings[a - 1]
  IN count[n]

NoEntry == Interval + 1

\* A row that does not exist reads as false.
Switches == {"triggers", "routines", "fabric"}
Rows     == {"triggers_suspended", "mission_control_paused"}
Off(S)   == [s \in S |-> FALSE]

Init ==
  /\ fire = [f \in Firers |-> "idle"]
  /\ age = [f \in Firers |-> TooOld]
  /\ agent_trigger_firings = NoFirings
  /\ started = NoFirings
  /\ schedule_last_fired = NoEntry
  /\ uptime = 0
  /\ switch = Off(Switches)
  /\ meta = Off(Rows)
  /\ writes = [c \in Clients |-> <<>>]
  /\ promise = [c \in Clients |-> {}]
  /\ kept = {}

-----------------------------------------------------------------------------
(* fire_agent_trigger *)

FireMove(f, step) ==
  /\ fire' = [fire EXCEPT ![f] = step]
  /\ UNCHANGED <<schedule_last_fired, uptime, control>>

\* A client fires the trigger, or dispatches an event it matches.
Call(f) ==
  /\ fire[f] = "idle"
  /\ FireMove(f, "due")
  /\ UNCHANGED <<age, agent_trigger_firings, started>>

\* The switch is read before the dispatch lock is taken.
CheckSuspended(f) ==
  /\ fire[f] = "due"
  /\ FireMove(f, IF switch["triggers"] THEN "idle" ELSE "checked")
  /\ UNCHANGED <<age, agent_trigger_firings, started>>

\* Mutant: no dispatch lock.
NeverLocked == FALSE

\* The dispatch lock is held to the end of the call.
Dispatching == \E f \in Firers : fire[f] \in {"admitted", "registered", "recorded"}

Cooling == \E a \in Ages : a < Cooldown /\ agent_trigger_firings[a] > 0

\* Mutant: one more than the limit.
LimitPassed == Within(agent_trigger_firings, Hour) > MaxPerHour

LimitReached == Within(agent_trigger_firings, Hour) >= MaxPerHour

\* Under the lock: `now` is read, and the durable firings decide.
Dispatch(f) ==
  /\ fire[f] = "checked" /\ ~Dispatching
  /\ IF Cooling \/ LimitReached
       THEN FireMove(f, "idle") /\ UNCHANGED age
       ELSE FireMove(f, "admitted") /\ age' = [age EXCEPT ![f] = 0]
  /\ UNCHANGED <<agent_trigger_firings, started>>

\* register_agent_run
RegisterRun(f) ==
  /\ fire[f] = "admitted"
  /\ FireMove(f, "registered")
  /\ UNCHANGED <<age, agent_trigger_firings, started>>

\* The run is refused, or its firing cannot be recorded: nothing is started.
FireFails(f) ==
  /\ fire[f] \in {"admitted", "registered"}
  /\ FireMove(f, "idle")
  /\ age' = [age EXCEPT ![f] = TooOld]
  /\ UNCHANGED <<agent_trigger_firings, started>>

\* Mutant: a recording that is tried again counts twice.
RecordAgain(f) ==
  /\ fire[f] = "registered"
  /\ agent_trigger_firings' = OneMore(agent_trigger_firings, age[f])
  /\ UNCHANGED <<fire, age, started, schedule_last_fired, uptime, control>>

\* Mutant: the run is started and its firing recorded by nobody.
RecordNothing(f) ==
  /\ fire[f] = "registered"
  /\ FireMove(f, "recorded")
  /\ UNCHANGED <<age, agent_trigger_firings, started>>

\* record_trigger_firing, with the `now` of the decision.
RecordFiring(f) ==
  /\ fire[f] = "registered"
  /\ FireMove(f, "recorded")
  /\ agent_trigger_firings' = OneMore(agent_trigger_firings, age[f])
  /\ UNCHANGED <<age, started>>

Spawn(f) ==
  /\ fire[f] = "recorded"
  /\ FireMove(f, "idle")
  /\ started' = OneMore(started, age[f])
  /\ age' = [age EXCEPT ![f] = TooOld]
  /\ UNCHANGED agent_trigger_firings

Fire(f) ==
  \/ CheckSuspended(f) \/ Dispatch(f) \/ RegisterRun(f) \/ RecordFiring(f) \/ Spawn(f)

-----------------------------------------------------------------------------
(* start_trigger_scheduler *)

\* Mutant: a schedule without an entry is due at once.
DueWithoutEntry == schedule_last_fired >= Interval

Due == schedule_last_fired = Interval

\* Mutant: every look renews the entry.
RenewsEveryLook ==
  /\ fire[Scheduler] = "idle"
  /\ schedule_last_fired' = 0
  /\ fire' = [fire EXCEPT ![Scheduler] = IF Due THEN "due" ELSE "idle"]
  /\ UNCHANGED <<age, agent_trigger_firings, started, uptime, control>>

\* The first look only makes the entry; a due entry is renewed before the call.
SchedulerLooks ==
  /\ fire[Scheduler] = "idle"
  /\ schedule_last_fired = NoEntry \/ Due
  /\ schedule_last_fired' = 0
  /\ fire' = [fire EXCEPT ![Scheduler] = IF Due THEN "due" ELSE "idle"]
  /\ UNCHANGED <<age, agent_trigger_firings, started, uptime, control>>

-----------------------------------------------------------------------------
(* The switches *)

Row(r, v)    == [in |-> "meta", of |-> r, to |-> v]
Memory(s, v) == [in |-> "switch", of |-> s, to |-> v]
Audit        == [in |-> "audit", of |-> "", to |-> TRUE]

SuspendTriggers == <<Row("triggers_suspended", TRUE), Audit, Memory("triggers", TRUE)>>
ResumeTriggers  == <<Row("mission_control_paused", FALSE), Row("triggers_suspended", FALSE),
                     Audit, Memory("triggers", FALSE)>>
SetTriggersSuspended == {SuspendTriggers, ResumeTriggers}

SuspendRoutines == <<Memory("routines", TRUE)>>
ResumeRoutines  == <<Row("mission_control_paused", FALSE), Memory("routines", FALSE)>>

Disconnect == <<Memory("fabric", TRUE)>>
Reconnect  == <<Row("mission_control_paused", FALSE), Memory("fabric", FALSE)>>

\* Mutant: the pause counts on its own row for the triggers too.
PauseByLatch ==
  <<Row("mission_control_paused", TRUE), Memory("triggers", TRUE)>>
    \o SuspendRoutines \o Disconnect \o <<Audit>>

ActivateMissionControlPause ==
  <<Row("mission_control_paused", TRUE)>>
    \o SuspendTriggers \o SuspendRoutines \o Disconnect \o <<Audit>>

Operations ==
  SetTriggersSuspended
    \cup {SuspendRoutines, ResumeRoutines, Disconnect, Reconnect, ActivateMissionControlPause}

\* What holds once the call has returned, until a call that resumes begins.
Promised(op) ==
  IF op = ActivateMissionControlPause THEN {"pause", "triggers"}
  ELSE IF op = SuspendTriggers THEN {"triggers"}
  ELSE {}

TakenBack(op) ==
  IF op = ResumeTriggers THEN {"pause", "triggers"}
  ELSE IF op \in {ResumeRoutines, Reconnect} THEN {"pause"}
  ELSE {}

Begin(c, op) ==
  /\ writes[c] = <<>>
  /\ writes' = [writes EXCEPT ![c] = op]
  /\ promise' = [promise EXCEPT ![c] = Promised(op)]
  /\ kept' = kept \ TakenBack(op)
  /\ UNCHANGED <<switch, meta, firing>>

Write(c) ==
  /\ writes[c] # <<>>
  /\ LET w == Head(writes[c]) IN
       /\ switch' = IF w.in = "switch" THEN [switch EXCEPT ![w.of] = w.to] ELSE switch
       /\ meta' = IF w.in = "meta" THEN [meta EXCEPT ![w.of] = w.to] ELSE meta
  /\ writes' = [writes EXCEPT ![c] = Tail(@)]
  /\ IF Len(writes[c]) = 1
       THEN kept' = kept \cup promise[c] /\ promise' = [promise EXCEPT ![c] = {}]
       ELSE UNCHANGED <<kept, promise>>
  /\ UNCHANGED firing

\* The database refuses a write: the `?` leaves the call where it is.
WriteFails(c) ==
  /\ writes[c] # <<>> /\ Head(writes[c]).in # "switch"
  /\ writes' = [writes EXCEPT ![c] = <<>>]
  /\ promise' = [promise EXCEPT ![c] = {}]
  /\ UNCHANGED <<switch, meta, kept, firing>>

-----------------------------------------------------------------------------
(* Time, restart *)

Older(a, bound) == IF a < bound THEN a + 1 ELSE a

Tick ==
  /\ agent_trigger_firings' = Aged(agent_trigger_firings)
  /\ started' = Aged(started)
  /\ age' = [f \in Firers |-> Older(age[f], TooOld)]
  /\ schedule_last_fired' = Older(schedule_last_fired, Interval)
  /\ uptime' = Older(uptime, Interval)
  /\ UNCHANGED <<fire, control>>

\* Mutant: the latch suspends the triggers only.
LatchTriggersOnly ==
  [triggers |-> meta["triggers_suspended"] \/ meta["mission_control_paused"],
   routines |-> FALSE, fabric |-> FALSE]

\* What enable_agent_run_store makes of the rows.
Restored ==
  [triggers |-> meta["triggers_suspended"] \/ meta["mission_control_paused"],
   routines |-> meta["mission_control_paused"],
   fabric   |-> meta["mission_control_paused"]]

\* The daemon stops anywhere and starts again with its rows.
Restart ==
  /\ fire' = [f \in Firers |-> "idle"]
  /\ age' = [f \in Firers |-> TooOld]
  /\ schedule_last_fired' = NoEntry
  /\ uptime' = 0
  /\ switch' = Restored
  /\ writes' = [c \in Clients |-> <<>>]
  /\ promise' = [c \in Clients |-> {}]
  /\ UNCHANGED <<agent_trigger_firings, started, meta, kept>>

-----------------------------------------------------------------------------
Next ==
  \/ \E f \in Firers : Fire(f) \/ FireFails(f)
  \/ \E f \in Callers : Call(f)
  \/ SchedulerLooks
  \/ \E c \in Clients : (\E op \in Operations : Begin(c, op)) \/ Write(c) \/ WriteFails(c)
  \/ Tick \/ Restart

\* The runtime polls the scheduler and runs the calls, and the clock advances;
\* nobody has to call anything.
Spec ==
  /\ Init /\ [][Next]_vars
  /\ WF_vars(Tick) /\ WF_vars(SchedulerLooks)
  /\ \A f \in Firers : WF_vars(Fire(f))

-----------------------------------------------------------------------------
(* Properties *)

\* Every variable stays in its set; no age holds more firings than the limit.
TypeOK ==
  /\ fire \in [Firers -> FireStep]
  /\ age \in [Firers -> 0..TooOld]
  /\ agent_trigger_firings \in [Ages -> 0..MaxPerHour]
  /\ started \in [Ages -> 0..MaxPerHour]
  /\ schedule_last_fired \in 0..NoEntry
  /\ uptime \in 0..Interval
  /\ switch \in [Switches -> BOOLEAN]
  /\ meta \in [Rows -> BOOLEAN]
  /\ \A c \in Clients : writes[c] \in Seq([in : {"switch", "meta", "audit"},
                                            of : Switches \cup Rows \cup {""}, to : BOOLEAN])
  /\ promise \in [Clients -> SUBSET {"pause", "triggers"}]
  /\ kept \subseteq {"pause", "triggers"}

\* Two runs of a trigger are decided at least a cooldown apart, however many
\* callers and the scheduler fire it and wherever the daemon restarts
\* (trigger_dispatch, trigger_firings).
CooldownRespected ==
  \A a, b \in Ages :
    started[a] > 0 /\ started[b] > 0 /\ a <= b =>
      IF a = b THEN Cooldown > 0 => started[a] = 1 ELSE b - a >= Cooldown

\* In no hour are more than max_runs_per_hour runs of a trigger started, across
\* restarts and concurrent calls (fire_agent_trigger's hourly limit).
HourlyLimit == Within(started, Hour) <= MaxPerHour

\* A run that was started counts for the limits: its firing is recorded, and a
\* crash can only record a firing too many (record_trigger_firing before spawn).
StartsAreRecorded == \A a \in Ages : started[a] <= agent_trigger_firings[a]

\* docs/agent-sdk.md: scheduled triggers wait one full interval after startup
\* (start_trigger_scheduler's or_insert).
WaitsAfterStartup == fire[Scheduler] # "idle" => uptime = Interval

\* Triggers suspended by a call that returned stay suspended until a call that
\* resumes them begins: across restarts, and also when the suspension was part
\* of an emergency pause of which other parts are resumed
\* (set_triggers_suspended, activate_mission_control_pause).
SuspensionKept == "triggers" \in kept => switch["triggers"]

\* docs/mission-control.md: the emergency state is reapplied after a restart.
\* An emergency pause that returned holds in all its three parts until some
\* call that resumes one begins (enable_agent_run_store).
PauseKept == "pause" \in kept => \A s \in Switches : switch[s]

\* Unless it is suspended, restarted or refused for ever, a scheduled trigger
\* goes on starting runs, although the scheduler renews its entry before a
\* call that the limits may suppress (start_trigger_scheduler).
ScheduleGoesOn ==
  /\ <>[](~switch["triggers"])
  /\ <>[][~(Restart \/ \E f \in Firers : FireFails(f))]_vars
  => []<>(\E f \in Firers : fire[f] = "recorded")

\* docs/ipc.md: suspension blocks new scheduled and event-driven runs. No run
\* is started while a suspension that returned has not been taken back.
SuspensionBlocksRuns ==
  [][ "triggers" \in kept => \A f \in Firers : ~Spawn(f) ]_vars

\* docs/agent-sdk.md: the emergency switch persistently suspends. When no call
\* is under way, a suspension that returned and is in force survives a restart
\* (set_triggers_suspended).
SuspensionPersists ==
  /\ \A c \in Clients : writes[c] = <<>>
  /\ "triggers" \in kept /\ switch["triggers"]
  => Restored["triggers"]
=============================================================================
