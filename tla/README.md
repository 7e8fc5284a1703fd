# A specification of FocalDesk

FocalDesk is a Linux desktop written in Rust: a Wayland compositor, its shell,
a few dozen services and applications. Most of it is input and output. Three
parts have a correctness that rests on state, concurrency and failure:

- the AI service (`crates/focaldesk-ai`), which runs agents that propose
  mutations of the user's machine, asks the user before one is executed,
  supervises workflows of agents, fires agents from triggers, and picks all of it
  up again after a restart;
- logging in (`apps/focaldmd`, `apps/focaldm-greeter`), where a supervisor, PAM
  threads, session processes and a greeter hand a terminal to one another;
- the transfers of the file manager (`apps/focaldesk-files`), where threads copy
  and move what the user owns, and a window undoes it again.

File paths below are relative to the repository; `service.rs` and the like are
in `crates/focaldesk-ai/src/`.

## The system

### How the AI service runs

The server (`services/focaldesk-server`) owns one `AiService`. Every IPC
connection is served by a task of its own (`ipc.rs`), so client calls run
concurrently with each other and with the service's own tasks: one per agent
run, one per workflow run and the trigger scheduler. Shared state lives in
maps, each behind its own mutex; no lock is held across an `await`, and most
operations take several locks in turn. SQLite (`run_store.rs`) holds what
survives a restart. The hard behaviours follow from that shape: what one thread
read before it released a lock is stale when it acts on it, rows are saved after
the lock is released, and the daemon can stop between any two steps.

### How a user logs in

`focaldmd` runs one task (`supervise.rs`, `run`): it starts a greeter in a logind
session, serves the greeter's socket in a `select!` (`drive_greeter`), and gives
the terminal to the user's session once PAM let the user pass. Each login attempt
is a PAM transaction on a thread of its own (`pam.rs`), connected to the task by
channels; each session, the greeter's and the user's, is held open by a forked
process. What is hard: the threads, the processes, the user and the socket go on
while the task decides, a transaction can be cancelled between any two of its
steps, a greeter can crash or ignore a signal, and the terminal has room for one
session only.

### How files are transferred

A transfer is a thread (`transfer.rs`): for each item it stages a private copy
beside the destination, or renames the item away, looks at the destination once
more, and renames the stage into its place; what cannot be committed is rolled
back. The window (`main.rs`) starts and cancels transfers, keeps a bounded
history of undo steps in each tab and undoes them one per tick. Several transfers
and one undo can be under way at once, in one directory, without a lock; each
decides by looking at a path and acts by renaming. The process can end at any
point.

### Components and their state

| Component | State | Operations | What makes it correct | Status |
|---|---|---|---|---|
| Managed agent runs (`service.rs`, `run_store.rs`) | records, retry requests, cancellation senders, pending plans, rows, concurrency permits | register, execute, confirm, cancel, evict, recover | a confirmed mutation runs once, only when approved, never after an end; records of active runs are kept; tasks return | `AgentRuns` |
| Capability leases (`service.rs`, `capability.rs`) | live leases, their expiry, revocations | grant, revoke, authorize | a delayed mutation needs the lease when it is approved | in `AgentRuns` |
| Permission prompts (`permissions.rs`) | saved grants, dialog in progress | prompt, confirm | no answer is a refusal | outcomes only |
| Workflows (`workflow.rs`, `service.rs`) | status, node states, artifacts, row, child runs, deadline | start, supervise, pause, cancel, retry, recover | order of the DAG, parallelism and budget, children stop with the workflow, every workflow ends | `Workflows` |
| Triggers, scheduler, mission control (`service.rs`, `run_store.rs`) | durable firings, the scheduler's last-fired map, three switches, two rows | fire, dispatch an event, look at schedules, suspend, resume, pause all | cooldown and hourly limit across callers and restarts, switches that stay | `Triggers` |
| Routine engine, event fabric (`routine.rs`, `event.rs`) | suggestions and promotions; subscriptions and queues | evaluate, promote; publish, poll | a reviewed routine is promoted once; bounded queues | their switch, in `Triggers` |
| Login manager (`apps/focaldmd`, `apps/focaldm-greeter`, `focaldm-ipc`) | phase of the supervisor, session processes, PAM threads, receivers, reply channel, socket, the greeter's screen | start and drive the greeter, authenticate, hand over, reap, shut down | one session on the terminal, only authenticated users get one, answers reach their own login, handovers and threads end | `Login` |
| Files transfers (`apps/focaldesk-files/src/transfer.rs`) | stages, backups, the step of each thread | stage, commit, replace, roll back, cancel | nothing is lost, half shown or left behind | `FileTransfers` |
| Files application (`apps/focaldesk-files/src/main.rs`) | undo history of each tab, the undo on screen, open tabs | remember, expire, undo, retry, close | backups live as long as their record, undo is exact | its part in transfers, in `FileTransfers` |
| Providers, context, planner, packages, connectors | network and data | | | not modelled |
| Secrets, notifications, remote desktop, updates, launch | small state machines around D-Bus and processes | | | not modelled |
| Compositor, rendering, color, shell, other applications | one event loop over Wayland objects, pixels | | | not modelled |

`PROJECT.json` lists every component with its sources and the reason why it is
or is not modelled.

### How the components interact

- A trigger registers a run and spawns its task, as a client's call does; the
  run then goes through the same prompts (`fire_agent_trigger` →
  `register_agent_run` → `execute_agent_run`).
- A workflow's supervisor starts an agent run for each node and polls its
  record. It may find the record evicted. It cancels through `cancel_agent_run`.
- A run grants a lease when it registers; the lease is read again when a
  confirmed mutation is executed, by another thread, possibly much later.
- Mission control sets the switches of triggers, routines and event fabric, and
  a latch that a restart reads before anything else.
- The greeter and the daemon talk over a socket; the daemon and a PAM thread over
  channels, one for prompts, one for each answer, one for the outcome; the daemon
  and a session process over a pipe and signals.
- The transfers' threads, the undo and the other programs of the user meet in the
  file system only. A thread reports to the window when it ends.

## Modules

| Module | Contents |
|---|---|
| `PlanGate` | what the service promises about a mutation: an abstract specification |
| `AgentRuns` | managed runs, leases, confirmation, cancellation, checkpoints, restart |
| `MCAgentRuns` | run ids as a symmetry set |
| `AgentRunsProofs` | theorems about `AgentRuns`, for all values of its constants; that it implements `PlanGate` |
| `Workflows` | one workflow run and its clients |
| `MCWorkflows` | a DAG of three nodes and its limits |
| `WorkflowsProofs` | theorems about `Workflows`, for every DAG and limit |
| `Triggers` | one trigger, its callers and limits, the scheduler, the switches |
| `MCTriggers` | clients as a symmetry set |
| `TriggersProofs` | theorems about `Triggers`, for any callers and limits |
| `Login` | the display manager, its greeter, PAM threads and session processes |
| `LoginProofs` | theorems about `Login`, for any number of threads and processes |
| `MCLiveness` | `AgentRuns` or `Login`: the liveness of both, in one run |
| `FileTransfers` | transfers, their undo and the history of each tab, over one file system |
| `MCFileTransfers` | the items, names and tabs of the run |
| `FileTransfersProofs` | theorems about `FileTransfers`, for any transfers and paths: stages, overwrites |
| `FileHistoryProofs` | where undo steps wait, who owns a backup |
| `FileLossProofs` | that no item is lost |
| `FileUndoProofs` | that undo is exact |

### AgentRuns

A run is a record (`agent_runs`), a row (`store`), a task (`task`: where
`execute_agent_run` is), and possibly a plan that waits (`pending_agent_actions`),
a confirm call that removed the plan (`confirm`) and a cancel call (`cancel`). An
action is what a thread does between two acquisitions of a mutex.

| Code | Actions |
|---|---|
| `register_agent_run`, `insert_agent_run` | `Reserve`, `ReserveFails`, `Insert` |
| `execute_agent_run` | `PermissionDenied`, `PermissionGranted`, `ObserveCancel`, `Acquire`, `Finish`, `Propose`, `TimeOut`, `Return` |
| `confirm_agent_action`, `CapabilityExecutor` | `ClaimPlan`, `PlanExpired`, `PlanDenied`, `PromptRefused`, `PromptApproved`, `Authorize`, `ExecuteConfirmed`, `ExecuteFails` |
| `cancel_agent_run`, revocation, expiry | `CancelSend`, `CancelDropPlan` and the steps after it; the lease's own actions |
| `update_agent_run`, `persist_agent_run` | `UpdateAgentRun` leaves a clone in `unsaved`; `Save` writes it later |
| `enable_agent_run_store` | `Recover`, `Restart` |

An update clones the record under the lock and saves the clone after it. The
clones of a run's task, confirm call and cancel call are kept apart
(`unsaved[r][actor]`), so that they can be saved in any order; the event that
follows an update saves a second, fresher clone.

Merged steps: the look-up of the retry request with the save; the removal of
evicted records with that of their rows and requests; the insertion of a plan
with the update to `AwaitingConfirmation`. Left out: tool steps and their
observations, retries (a fresh registration), agent enablement and daily limits,
audit rows, purging of old leases, database errors, and a second concurrent
confirm or cancel call for one run, which finds the plan gone. `executed`,
`authority` and `recovered` are history variables the program does not have.

### PlanGate

`PlanGate` says what the confirmation of a mutation promises, without threads,
rows or timers. A run's mutation is `unborn`, `open`, `waiting`, `claimed`,
`approved`, `authorized`, and in the end `executed` or `void`; only `Authorize`
looks at the lease, no lease is ever renewed, and only what is on its way can be
called off. Three things follow: a mutation is executed at most once, never after
it was called off, and never without having been approved while its lease lived.

The mapping is `GateOf` in `AgentRuns`: a plan in `pending_agent_actions` waits; a
confirm call past it has claimed, approved or authorized it; otherwise what the
run's task does and whether the mutation was executed decide. `leased` is
`LiveLeases`, `executions` is `executed`. Most kinds of step of `AgentRuns` are
stutters of `PlanGate`; an eviction, a restart or a tick of the clock may call off
several mutations at once (`CallOff`), and a proposal may call off the plans that
expired by then (`Offer`).

### Workflows

The supervisor (`run_workflow`) reads a snapshot of the status, releases the
lock and acts: `SupTop` (state, deadline, pause), `SupPoll` (the children's
records), `SupCheck` and `SupComplete` (budget, completion, which nodes to
start), `SupStart`, `SupMarkRunning`, `SupStartFails`, `SupFail`, `FailWorkflow`,
`SupCancelChildren`, `SupSleep`. Between them the clients pause, resume, cancel
and retry (`SetPaused`, `CancelWorkflow`, `CancelVictims`, `RetryWorkflow`),
children end (`ChildEnds`, possibly with their record evicted), and the daemon
restarts (`Recover`, `Restart`). Each thread's `persist_workflow` is two steps:
clone, save. A start, or a retry, inserts and saves the run (`Begin`), then writes
its control event, and spawns the supervisor only if that write succeeds
(`RecordStart`); otherwise the run is `lost`: it claims to run and nobody
supervises it. A child run is its outcome only; an artifact costs one token.
Left out: the cap of 64 retained workflow runs, several workflow runs at once,
a supervisor that overlaps the retry of its own workflow, the other audit rows
(their errors do not decide what happens next), saves the database refuses,
internal events.

### Triggers

`fire_agent_trigger` is `CheckSuspended` (before the dispatch lock), `Dispatch`
(under it: cooldown and hourly limit over the durable firings), `RegisterRun`,
`RecordFiring`, `Spawn`, and `FireFails` where registration or recording can
fail. `SchedulerLooks` is one look of `start_trigger_scheduler` at the schedule.
The calls on the switches are sequences of single writes, to a row or to memory,
or of an audit row that can only fail: a client performs them one at a time,
among others, and a write that fails ends the call as the `?` does.

Time is kept as ages instead of timestamps: `Tick` makes all of them older, and
an age nothing compares any more is forgotten. So only the differences between
moments exist in the model, and the clock never steps back. Left out: several
triggers (their calls meet at the dispatch lock only, where one more caller
stands for them), event matching, the daily limits inside `register_agent_run`.

### Login

| Code | Actions |
|---|---|
| `run` | `StartGreeter`, `StartGreeterFails`, `Accept`, `GreeterCrashed`, `Closed`, `HandoffDone`, `SessionEnded`, `Shutdown`, `Stopped` |
| `drive_greeter`, the branches of its `select!` | `RecvCreate`, `RecvAnswer`, `RecvCancel`, `RecvPrompt`, `RecvSuccess`, `RecvFailure`, `ConnectionLost` |
| `terminate_and_reap`, `fork_session_holder` | `Kill`, `Die`, `HolderStep` |
| `run_transaction`, `GreeterConversation::ask` | `PamWork`, `Unwind`, `OpenUser`, `OpenUserFails` |
| the greeter's `LoginState` | `Connect`, `SubmitUsername`, `SubmitPrompt`, `CancelLogin`, `GreeterReads` |

A receiver that is dropped is a transaction that is no longer `rx`, `pending` or
`pending_reply`: its thread finds its channel closed at its next step (`Unwind`).
`passed` and `unwanted` are history variables: what PAM let pass, and what was
cancelled, or lost its greeter, while it was in flight. `ConnectionLost` is worth a remark: the `?` on
the end of the greeter's stream leaves `run`, so a crash of the greeter that is
noticed on its socket first ends the daemon with an error instead of starting a
new greeter, and the service manager (`focaldmd.service`, `Restart=on-failure`)
starts over. The model keeps that as it is and ends in `failed`.

Left out: informational PAM messages and notices, power actions, a user unknown
after authentication, the death of a session holder itself, the restart by the
service manager, and messages torn by a `recv` that a `select!` drops (one
hazard of `PROJECT.json` says what that would do).

### FileTransfers

| Code | Actions |
|---|---|
| `run_transfer_inner` | `Scan`, `EndOfRoots`, `SkipRoot`, `StageRoot`, `CopyEnds`, `RemoveSource`, `Back` |
| `commit_stage`, `available_destination` | `Decide`, `Place`, `Swap`, `Fill`, `Restore` |
| `start_local_transfer`, Cancel | `StartTransfer`, `CancelTransfer` |
| `poll` of a finished transfer, `remember_undo` | `Report`, `Push` |
| `undo_last_operation`, `run_progress_job` | `BeginUndo`, `UndoTick`, `UndoEnds` |
| `execute_undo_step` | `UndoRemove`, `UndoMove`, `UndoCarry`, `UndoDrop`, `UndoRefused` |
| `restore_replaced_copy`, `restore_replaced_move` | `UndoDisplace`, `UndoMove`, `UndoCarry`, `UndoFill`, `UndoDrop`, `UndoRefused` |
| closing a tab, closing the window | `CloseTab`, `CloseWindow` |

A step of a thread lies between two changes of the file system, so a look at a
path and the rename that follows are two steps. An item is named by the path it
had in the beginning; `torn` are paths whose item is not whole, because it is still
written or because a removal of it stopped (`RemoveHalf`). A transfer that copies
half an item makes another half.

A step of undo is as many steps as it makes changes, one at a time in `undo.at`: a
move is taken back by a rename (`UndoMove`), or, where that fails, by a copy that
grows at the visible name of the source (`carry`) and is complete or cut short
(`UndoCarry`), after which the item it was made of is removed (`drop`); the item
that a backup returns to gives way to a private name (`UndoDisplace`), or moves
back, before the backup is renamed (`fill`), and what had given way is renamed back
or removed. Each of these changes can fail, and what it leaves then is what the code
leaves: half a copy, half an item, a backup that is back although the step goes to
the history again. Between them the threads of transfers go on, and the process may
end; the window's own thread does nothing else (`Free`).

`order`, `overlapped`, `items`, `given_up` and `halfway` are history variables, and
so is the field `item` of a job, of an undo and of an undo step: what the thread
staged, what is carried, and what the step is about. With it `given_up` tells the
removal of a copy from that of something else: a rollback, the end of a move or an
undo that removes a path where another item is by then gives that one up, and so
does the removal of an item of which some half was left before (`halfway`), because
nobody looks whether the other copy is complete. The end of the process takes no
step: the properties hold in every state, so also in the one a crash leaves behind.

Simplifications: a directory is one item, which can be half copied or half removed
(no links, no metadata, no limits of the scan); the rollbacks of a transfer and of a
replaced item succeed, by renaming; the looks of an undo step at its paths and its
first change are one step; private names never collide (`PrivateNames`); each
transfer runs once; what another program does is left out. One undo runs at a time:
its dialog is modal, and the model leaves out that a user may close it by its title
bar, which does not end the undo, and start another, or do so from a second window
of the process. A transfer may start meanwhile, and then counts as overlapping.
`overlapped` counts a transfer until the window has heard its report.

## What is checked

Properties are defined, with the behaviour they are about, at the end of each
module.

| Run | Bounds | Shows |
|---|---|---|
| `agent_runs_safety` | 2 runs, 1 permit, 1 retained record, 1 pending plan, every timer 1 tick | single use of a plan, approval under a live lease, no plan of a run that is not waiting, no revival of finished or recovered runs, only finished runs evicted; `AgentRuns` implements `PlanGate` |
| `agent_runs_liveness` | 2 runs of 2 ticks, no plans; 2 PAM transactions, 2 session processes, the user types only while fewer than 2 messages are under way | every task returns; a cancellation during the prompt is honoured; one session on the terminal, for authenticated users whose login nobody gave up; answers reach their own login; handovers and threads end |
| `workflow` | 3 nodes (two feed the third), parallelism 1 or 2, budget 3 or 2, 1 tick to the deadline, 1 retry | order, parallelism, whole results, children stopped after a failure, nothing unsupervised after a restart, every workflow whose start succeeded ends |
| `triggers` | 1 caller and the scheduler, 1 client, cooldown 1, hour 3, limit 2, interval 2 | cooldown and hourly limit under concurrent calls and restarts, firings recorded first, no firing right after startup, suspensions and pauses kept, a schedule goes on |
| `file_transfers` | a copy of two items, a move of one item with the same name on one device or to another, 2 tabs, 1 record of history, 1 item that may be in the way, 1 alternative name | nothing lost, and nothing half shown or left behind by a transfer; nothing overwritten unless operations overlap; backups live as long as their records; undo is exact unless something stopped halfway, and removes only what its transfer put there |

Why the bounds are enough. Two runs are the least that compete for a permit, a
retained record and a pending plan, and each bound is one, so it is reached. The
properties of a run concern that run, its own threads, and whoever evicts it. A
deadline of one tick can pass before, between or after any two steps, since
`Tick` interleaves freely. Three nodes are the shape of the built-in
`workspace-troubleshooter` workflow, and have both independent and dependent
nodes; the budget of 2 is exceeded by the last node. With a cooldown of 1 and 2
firings in 3 ticks both limits refuse calls, each without the other. Evicting
more than one but not all finished records needs three runs and is not covered.

Two PAM transactions are a cancelled one that unwinds beside a new one; two
session processes are the greeter's and the user's, and either can take the place
of the other on the terminal. Fewer than two messages on the socket let an answer
cross a cancellation. `MCLiveness` checks two components in one run: they share
no variable and no step, so a behaviour of their product is one of each, and
nothing is lost when each behaviour follows one of them only.

The two transfers want the same destination name, so that one decides on what
the other changes; the first has two items, so that a fault or a cancellation
falls between them; with one record of history a second record makes the first
expire; one alternative name lets KeepBoth run out of names. The second may start in
the tab of the first or in the other (`TabOf`), so that two records meet in one
history, and that two of different tabs are undone in either order. The first may be
answered Replace or Keep Both, the second Replace, Skip or Keep Both (`Policies`):
each answer is taken, both want the one alternative name, and each may find what the
other replaced. A move of several items, and a transfer whose source is the
destination of another, are not in this instance: there only the proofs speak.

Fairness. The safety runs assume none. `TaskReturns`, `WorkflowEnds` and
`ScheduleGoesOn` assume weak fairness of the clock and of the tasks the
runtime polls: a task that can take a step takes it. The native dialog counts as
one, because `focaldesk-ipc/src/dialog.rs` bounds how long it waits. Nothing is
assumed of clients, users, providers or child runs: a provider may never answer
and a paused workflow may never be resumed. `ScheduleGoesOn` further supposes,
in its statement, that triggers are some day no longer suspended and that
restarts and failures end. `HandoffEnds` and `ThreadsEnd` assume weak fairness of
the supervision loop (`Supervise`, which includes the SIGKILL that
`terminate_and_reap` ends with), of each session process whose program is dead
(`HolderStep`), of a PAM thread that was told to open its session, and of one
whose channel is closed (`Unwind`): a module that no longer has anybody to ask
returns some day, as nothing can interrupt it. Nothing is assumed of the user or
the greeter, nor of the modules of a login that is still wanted.
`file_transfers` checks safety only.

Every property of these five runs is also checked against a deliberate fault in
the definitions it depends on: those operators are marked "Mutant" in the
modules and listed in `PROJECT.json` under `mutants`.

### Where the code and its documentation differ

These runs check a statement of the documentation, and TLC finds an execution
of the code that contradicts it.

| Run | Statement | Execution |
|---|---|---|
| `agent_runs_deadline` | the service deadline covers the entire run (`docs/agent-sdk.md:209`) | the `?` on the elapsed timeout leaves the record `Running`, without a sender, until a restart |
| `agent_runs_cancel` | cancelling discards an action awaiting confirmation (`docs/ipc.md:320`) | the plan is already at its native prompt: the run becomes `Cancelled`, the mutation is executed |
| `agent_runs_durable` | terminal history survives a restart (`docs/ipc.md:324`) | the task's older clone is saved after the confirm call's: a restart reports an executed run as failed |
| `agent_runs_retention` | at most 128 run records are retained (`docs/ipc.md:322`) | two registrations make room for one record and insert two |
| `workflow_cancel` | cancel explicitly cancels running children (`docs/agent-sdk.md:147`) | a child started but not marked `Running` yet is not found, and is not cancelled |
| `triggers_inflight` | suspension blocks new runs (`docs/ipc.md:355`) | a call past its only look at the switch starts its run after the suspension returned |
| `triggers_race` | the emergency switch suspends persistently (`docs/agent-sdk.md:121`) | a suspension and a resume overlap: memory is suspended, the rows are not, the next restart resumes |

## What is proved

Every theorem is proved with TLAPS for all values of the constants that the named
assumptions of its module allow. Each is about a safety property; where the
property is one that a run checks, the run shows it on a small instance first.

### Agent runs

`AgentRunsProofs`, for every finite set of runs and all bounds:

| Theorem | Property |
|---|---|
| `TypeCorrect` | `TypeOK` |
| `Invariant` | `IInv`, the inductive invariant |
| `ExecutedAtMostOnce` | `AtMostOnce` |
| `ExecutedUnderLease` | `ApprovedUnderLease` |
| `NoOrphanPlan` | `PlansAwait` |
| `FinishedForGood` | `FinishedStaysFinished` |
| `OnlyTerminalEvicted` | `EvictsOnlyTerminal` |
| `InterruptedForGood` | `RecoveryNeverRevives` |
| `CancelledAtPromptEnds` | `CancelledAtPromptNeverRuns` |

The assumptions are that `Runs` is finite, that the bounds are natural numbers,
positive where the code's are, and that a lease never outlives its run's timeout.

The argument. `AtMostOnce` is not inductive: nothing in it says why a plan that
is executed now was not executed before. `IInv` adds, for each run, that an
unregistered run has left no trace (`Unregistered`); that until its task decides
nobody else touches it and its state mirrors the task's step (`Undecided`); that
a registered plan was neither claimed nor dropped nor executed, and its run is
`AwaitingConfirmation` (`Unclaimed`); that a claimed plan is executed only past
`authorize`, and once (`Claimed`); that the lease can only get worse between
approval and authorization (`Approved`); and that an interrupted run has no
thread, plan or clone left (`Interrupted`). The proof has one step per action. The
four action properties follow from `IInv` and a case analysis of the step.

`FinishedStaysFinished` deserves the remark that no update looks at the state it
overwrites: it holds because whoever writes a state other than a terminal one is
the run's task before it decided, and `Undecided` excludes everybody else.

### The gate

`AgentRunsProofs` also proves `GateImplemented`: `AgentRuns` implements `PlanGate`
(`PlanGateSpec`). Most steps only leave a mutation where it is or call it off
(`StaysOrFalls`), and `CallingOff` maps such a step, of however many runs, to
PlanGate's. Six steps move a mutation on, and `IInv` tells where each finds its
run: without it, nothing would keep a confirm call from a plan that was executed.

### Login

`LoginProofs`, for any transactions, session processes and bound on the socket
(`LoginAssumption`: the names are distinct, there is a process):

| Theorem | Property |
|---|---|
| `LoginInvariant` | `LoginInv`, the inductive invariant |
| `LoginTypeCorrect` | `LoginTypeOK` |
| `NeverTwoOnTheVT` | `OneOnTheVT` |
| `UsersAreAuthenticated` | `OnlyAuthenticated` |
| `AnswersBelong` | `ReplyBelongs` |

That one session is on the terminal is not inductive: `LoginInv` adds that the
session not closed is the one the supervisor watches (`Watched`), that none is
left where one is about to be opened (`Vacant`), that requests are read only while
the greeter's is watched (`GreeterWatched`), that the transaction of a handoff is
parked or told and let its user pass (`Handoff`), that a transaction in flight
nobody wants any more has lost the greeter its outcome would be announced to
(`Abandoned`), and that whoever owns a session earned it (`Earned`).

### Triggers

`TriggersProofs`, for any callers and clients and all limits (`SchedulerApart`,
`TriggerBounds`):

| Theorem | Property |
|---|---|
| `TriggerInvariant` | `TriggerInv`, the invariant of the calls that fire |
| `StartsCount` | `StartsAreRecorded` |
| `ScheduleWaits` | `WaitsAfterStartup` |
| `CooldownKept` | `CooldownRespected` |
| `LimitInvariant` | `LimitInv`, the invariant of the hourly limit |
| `LimitKept` | `HourlyLimit` |
| `TriggersTyped` | `TypeOK` |
| `SwitchInvariant` | `SwitchInv`, the invariant of the switches, for one client |
| `SuspensionsHold` | `SuspensionKept` and `SuspensionPersists`, for one client |
| `PausesHold` | `PauseKept`, for one client |

`TriggerInv` says that one call at a time is under the dispatch lock (`Locked`),
that recorded firings are a cooldown apart (`Apart`), that what this call may add
is as far from them (`AdmittedApart`), that no run starts before its row
(`RecordedFirst`), and that the scheduler's entry is not older than the daemon
(`EntryYoung`). `LimitInv` adds that an admitted call leaves room for the firing it
is about to record, under the hour and at its own age; it rests on three facts
about `Within`, the number of firings younger than an age: it grows with the
age, one more firing adds one, and a tick moves the count by one age.
`SwitchInv` follows what a call still has to write: a promise
holds once the writes left are made. The last three theorems need the assumption
of one client: `triggers_race` shows that two lose a suspension.

### Workflows

`WorkflowsProofs`, for every set of nodes, dependency relation and set of limits
(`NodesFinite`, `DependsOnNodes`, `WorkflowBounds`):

| Theorem | Property |
|---|---|
| `WorkflowInvariant` | `WorkflowInv`, the inductive invariant |
| `WorkflowTypes` | `TypeOK` |
| `InOrder` | `StartsInOrder` |
| `ParallelismBound` | `ParallelismRespected` |
| `WholeResults` | `CompletedIsWhole` |
| `ChildrenStopped` | `FailureStopsChildren` |
| `AllSupervised` | `NoneUnsupervised` |
| `StaysFailed` | `FailedForGood` |

The supervisor acts on snapshots. `WorkflowInv` says what a snapshot is still good
for when it is used: nodes it polls are running or cancelled, and nodes it chose to
start are still pending (`Snapshot`). It relates the supervisor's place to the
state of the workflow, and a start that was lost to a workflow without agents
(`Placed`), and says that the active children of a workflow
that is not cancelled belong to nodes marked running or to the one being started
(`Tracked`), that a status, in memory, cloned or saved, has the artifacts of exactly
its completed nodes (`MemorySound`, `StoredSound`), that the row of a live workflow
is live once it was saved (`Saved`), and that the nodes that run or are about to
stay within the limit (`Bounded`). `DependsOn` may even be cyclic: order and parallelism do not
depend on its being a DAG; only that the workflow can complete does.

### Files

Four modules, for any transfers, paths, tabs and history limits
(`FilesAssumption`, and `PrivateNames`: a private name is never one a user sees).
Each extends the one before, and so does its invariant. The last one also uses
`TargetDirectory`: all names that are tried for the items of a transfer are in one
directory (`transfer.rs:188-195`, `available_destination`), so that an item that
is at one of them is at its own destination, and is skipped.

| Module | Theorem | Property |
|---|---|---|
| `FileTransfersProofs` | `FilesInvariant` | `FilesInv`, the first inductive invariant |
| | `FilesTypeCorrect` | `FilesTypeOK` |
| | `NothingHalfShown` | `VisibleWhole` |
| | `StagesSettle` | `StageSettled` |
| | `OverwritesOverlap` | `OverwritesOnlyInOverlap` |
| `FileHistoryProofs` | `HistoryInvariant` | `HistoryInv`: also the undo steps and the backups |
| | `BackupsKept` | `BackupsOwned` |
| `FileLossProofs` | `LossInvariant` | `LossInv`: also the copies of each item |
| | `ItemsKept` | `NothingLost` |
| `FileUndoProofs` | `UndoInvariant` | `UndoInv`: also what undoing would restore |
| | `UndoIsExact` | `UndoExact` |

`FilesInv` says in which steps of its thread a stage or a backup exists
(`StagesOf`, `BackupsOf`), that an item that is not whole, and of which no half was
left by something that stopped, is at a stage being copied or is the one an undo
carries (`OnlyTorn`), that a copy of half an item is known to be one (`CopyAt`), and
that an item is staged for a name other than its own (`AwayAt`). For as long as
operations do not overlap, it says that one is under way at a time (`Alone`) and that
there is nothing where a rename is going to (`ClearAt`, `ClearToFill`).

A backup is removed by whoever drops the record it belongs to: a full history, a
closed window, an undo that ends. That no other record needs it is not visible in
any one of these places. `Places` says that a step that can still be undone waits
at one place only: at its thread, in one record of one tab, or in the undo on
screen; `Kept` then makes the backups on disk those of the waiting steps and of the
items just being replaced, with one exception that is the code's: a waiting step
whose backup is back has what gave way for it still aside (`GaveWay`). `Restoring`
says which of the two holds in the middle of the step. The converse needs every tab
still open: closing a tab forgets its records and keeps their backups.

`NothingLost` says that an item not given up is whole somewhere, which is not
inductive: a rollback removes a whole copy because there is another one, and two
copies may each be the reason to remove the other. `Lossless` therefore counts: an
item has more paths where it is whole (`Whole`) than copies that a rollback, the
end of a move or an undo may still remove (`Copies`). "More" is an injection from
the copies and one more element, `Home`, to the paths (`Fits`), so that a step of the
code is a small change of a function: a rename exchanges a path, a copy adds both,
and a removal of either uses up a copy. What an undo carried back, and not yet
removed where it came from, is a copy too (`CarriedBack`, `DropsCopy`). An item of
which some half was left has no copies in this sense: whoever removes one gives it
up. `StageInv` says that the stage holds what the thread took. No condition on overlapping operations is needed, and none on the
names of sources and destinations.

`UndoExact` speaks of the last instant of an undo only. `UndoInv` says of every
instant what undoing would lead to. For a set of steps, `Restores` relates two looks
of the visible paths, without an order of the steps: a step's destination held what
its backup holds now, the source of a moved item held what its destination holds
now, and every other path is the same. So a step that fails, the ones after it and
a later retry need no case of their own. `Ends` says that the steps of the latest
transfer that wait (`Mine`) restore what it found (`was`) from what is there now;
while its thread is in the middle of an item, what is there now is meant without
that item (`Now`). `Link` says the same of two transfers that follow one another,
with what the later one found in place of what is there, and `Chained` of all of
them, as long as none was undone out of turn: when the latest is undone and leaves
`order`, the one before it takes its place by `RestoresNothing` and `Link`. A step of
a thread either leaves `Now` as it is (`ThreadKept`) or adds the step that undoes the
difference (`RestoresCommitted`, `ThreadNoted`), and a step of undo takes it away
(`RestoresUndone`). In the middle of a step of undo, what is there is meant as if the
step had not begun (`Calm`): each of its changes leaves that as it is, or is the last
one (`Unmoved`, `Undone`, `UndoTickShows`), and `Midway` keeps what the latest
transfer found in relation to it. For that the steps of a transfer must be about different paths
(`PathsApart`), which follows from `DistinctNames` and `TargetDirectory`, and the
thread must know where its item goes and what is at its source (`ThreadKnows`).
All of it holds only while nothing overlapped, and no removal or copy stopped halfway
(`Orderly`), as does the property: the counterexamples that overlapping operations
and half items give are the reason for these conditions.

### Only model-checked

All safety properties of the passing runs are proved but one, `RemovesOnlyHalves`.
What else remains to TLC are the liveness properties (`TaskReturns`, `WorkflowEnds`, `ScheduleGoesOn`,
`HandoffEnds`, `ThreadsEnd`): liveness under fairness is out of the prover's
reach.

The library's theorems of induction take an operator as a parameter, which the
provers cannot instantiate. Where a proof about `Within`, a recursive function,
needs induction, it takes the least element of the set of ages that would be a
counterexample (`WFMin`, with `NatLessThanWellFounded`). No module declares a
recursive operator.

## What the code does that no run points at

Reading and modelling showed the following. It is contained in the models unless
said otherwise. The first four contradict the documentation, in a single call rather
than by an interleaving.

- A workflow whose control event cannot be written when it starts stays `Running`, in
  memory and in its row, without the supervisor that would look at the deadline that
  `docs/agent-sdk.md:136-138` promises (`service.rs:1143-1156`). It has no agents, and
  a cancellation or a restart ends it (`sup = "lost"`).
- A backup is removed when the window closes, says `docs/files.md:28-29`. Closing a
  tab drops its history and leaves the backups of its records on disk
  (`main.rs:1072`), and closing the last window leaves the one of a transfer that is
  under way, whose thread ends with the process (`main.rs:1175`).
- Failed undo steps stay in the history so that they can be retried, says
  `docs/files.md:169-170`. If what a backup displaced cannot be removed, the step is
  kept without its backup, and every retry is refused (`main.rs:7835`).
- Partially failed moves remain undoable, says `docs/files.md:166-169`. If the removal
  of the source stops halfway after a copy to another device, the item is noted as a
  copy, and undoing it removes the only whole one (`transfer.rs:280`).
  `RemovesOnlyHalves` says that nothing else is destroyed this way.
- Undoing a move between devices copies the item to the visible name it had, unlike
  a transfer, which stages it: a crash or a full disk leaves half an item there
  (`main.rs:7765-7768`, `copy_path_recursively`), and the retry of that step is
  refused because something is at that name. `VisibleWhole` names this exception.
- What gave way for a restored item stays under its private name when it cannot be
  removed, and after a crash (`main.rs:7835`); so does an item that a move renamed
  away, if the process ends before it is committed (`transfer.rs:217`). Nothing
  looks for such names later.
- A rollback or an undo renames onto whatever is at the name by then, and an undo
  removes it, if another operation overlapped: hence the condition in
  `OverwritesOnlyInOverlap` and the one in `UndoExact`.
- An undo goes on after a step of it failed, and keeps that step for another try
  (`main.rs`, `run_progress_job`, `undo_last_operation`). If one transfer had two
  items of one name, the steps depend on one another, and those that went on
  without the failed one leave an arrangement that the retry makes no better.
  `UndoExact` is about transfers whose items have different names
  (`DistinctNames`).
- The error of a cancelled login can reach the greeter while it waits for the
  next one; it then ignores that one's prompts until the user presses Escape.
- The end of the greeter's stream leaves `run` through the `?` of `drive_greeter`
  (`supervise.rs:224`) and ends the daemon.
- `Connection::recv` is a branch of a `select!` and not safe to drop between a
  length and its body (not modelled, see `hazards`).
- The supervisor of a workflow can write `Completed` over a cancellation that was
  accepted meanwhile (`service.rs:1330`).
- A cancellation sent after the outcome was decided and before its sender is
  dropped is accepted without effect (`service.rs:2208`).
- An eviction that finds too few finished records has already removed some
  (`service.rs:2247`), and the registration then fails.

## Not modelled, and why

Most of the roughly 200,000 lines draw, lay out, parse, encode or call a device, a
bus, a database or a GPU: the compositor and its backends, the applications, the
settings, the shell. Their correctness is about data, pixels and protocols of
other programs, not about a state that several actors share; a model of them
would be a transliteration. So the modules stand for a small share of the lines:
the ones where concurrency, failure and restarts decide what is correct.

What would still pay off: the secrets daemon's collections and prompts, the
consent of remote desktop sessions, installation and rollback of packages, the
supervised processes of connectors, and within the AI service the promotion of a
routine and the bounded queues of event subscriptions. Each is a small machine
behind one lock, with fewer interleavings than what is modelled.

## Plan

1. Done: `AgentRuns`, `Workflows`, `Triggers` with their runs; `AgentRunsProofs`.
2. Done: `PlanGate` and that `AgentRuns` implements it, as a property of
   `agent_runs_safety` and as a theorem.
3. Done: `WorkflowsProofs` and `TriggersProofs`.
4. Done: `Login` with the handoffs that end, and `LoginProofs`.
5. Done: `FileTransfers`; `FileTransfersProofs` for its stages and overwrites,
   `FileHistoryProofs` for its backups, `FileLossProofs` for its items,
   `FileUndoProofs` for its undo.
6. Done: the hourly limit and the types of `Triggers`.
7. Left: the promotion of reviewed routines, bounded event
   subscriptions, the usage ledger beside the run's row, the secrets daemon and the
   connectors.
