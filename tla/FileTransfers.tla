---------------------------- MODULE FileTransfers ----------------------------
(***************************************************************************)
(* Copying and moving files in focaldesk-files, and undoing it: the thread *)
(* of each transfer (transfer.rs), which stages an item beside its         *)
(* destination, commits it by renaming and rolls back what it cannot       *)
(* commit; and the window (main.rs), which starts and cancels transfers,   *)
(* remembers what each did in the history of a tab, undoes it step by step *)
(* and deletes the backups it gives up.                                    *)
(*                                                                         *)
(* A step of a thread is what it does between two changes of the file      *)
(* system, so that threads, the window and the end of the process come in  *)
(* any order. An item is named by the path it was at in the beginning.     *)
(***************************************************************************)
EXTENDS Naturals, Sequences, FiniteSets, SequencesExt

CONSTANTS
  Jobs,      \* transfers the user starts: a bound
  Tabs,      \* tabs of the window
  TabOf,     \* TabOf[j]: the tabs transfer j may be started in
  Visible,   \* paths a user sees
  MayExist,  \* those, besides the sources, that may hold an item from the start
  Roots,     \* Roots[j]: the paths transfer j is asked to transfer
  Ops,       \* Ops[j]: what it may be asked: "copy", "move", or "move_far" (to another device)
  Policies,  \* Policies[j]: what its user may answer to a conflict: a bound
  Dest,      \* Dest[p]: the name of p in the target directory
  Tries,     \* Tries[p]: other names tried for p, in order: a bound on 10 000
  MaxUndo,   \* MAX_UNDO_RECORDS
  Absent     \* nothing at a path

OutOfOrder == 0

Sources == UNION {ToSet(Roots[j]) : j \in Jobs}

ASSUME FilesAssumption ==
  /\ Roots \in [Jobs -> Seq(Visible)] /\ Sources \subseteq Visible
  /\ MayExist \subseteq Visible \ Sources
  /\ Dest \in [Sources -> Visible] /\ MaxUndo \in Nat \ {0}
  /\ \A p \in Sources : Tries[Dest[p]] \in Seq(Visible)
  /\ Tabs # {} /\ Absent \notin Visible /\ OutOfOrder \notin Jobs /\ TabOf \in [Jobs -> SUBSET Tabs]
  /\ Policies \in [Jobs -> SUBSET {"Replace", "Skip", "KeepBoth"}]

VARIABLES
  fs,         \* what is at each path
  torn,       \* paths whose item is not whole: partly written, or partly removed
  job,        \* each transfer: its request, its thread and its report; of `item`,
              \* what it staged, the code keeps nothing: that is history
  history,    \* undo_history of each tab
  undo,       \* the undo job on screen
  open,       \* tabs of the window
  running,    \* whether the process lives
  order,      \* history: transfers in the order they started, until undone in
              \* the reverse order; OutOfOrder where another undo came in between
  overlapped, \* history: whether two operations were ever under way at once
  items,      \* history: the items there were in the beginning
  given_up,   \* history: items destroyed at some path, and how
  halfway     \* history: items some removal, or copy to a visible name, of which
              \* stopped halfway

disk      == <<fs, torn, given_up, halfway>>
window    == <<history, undo, open, running>>
ghosts    == <<order, overlapped, items>>
filesVars == <<disk, job, window, ghosts>>

\* Mutant: the copy grows at the destination.
StageInPlace(j) == Dest[Roots[j][job[j].root]]

\* Private names, unique_sibling: no other transfer has the same. Where an item
\* that is copied grows, and where one that is replaced goes.
Stage(j)  == <<j, job[j].root, "partial">>
Backup(s) == <<s.job, s.root, "replaced">>

\* Where an undo puts the item that replaced another one (transfer_undo_staging_path).
Displaced(s) == <<s.job, s.root, "displaced">>

Private   == {"partial", "replaced", "displaced"}
Hidden    == UNION {{<<j, i, k>> : i \in DOMAIN Roots[j], k \in Private} : j \in Jobs}
Paths     == Visible \cup Hidden

\* Names the program makes up are nobody else's.
ASSUME PrivateNames == Visible \cap Hidden = {}

\* Names a transfer gives to its items are in its target directory, and an item
\* that is there already is at its destination.
ASSUME TargetDirectory ==
  \A j \in Jobs : \A i, k \in DOMAIN Roots[j] :
    Roots[j][k] \in {Dest[Roots[j][i]]} \cup ToSet(Tries[Dest[Roots[j][i]]])
      => Dest[Roots[j][k]] = Roots[j][k]

Taken(p)  == fs[p] # Absent
Look      == [p \in Visible |-> fs[p]]

\* A thread is at work on the transfer; the window has not heard its report.
Active(j) == job[j].pc \notin {"idle", "report", "done"}
Busy      == \E j \in Jobs : job[j].pc \notin {"idle", "done"}
NoUndo    == [steps |-> <<>>, at |-> "step"]
\* The window's thread is between two ticks of an undo, or has none.
Free      == running /\ undo.at = "step"
Src(j)    == Roots[j][job[j].root]
DestOf(j) == Dest[Src(j)]

FilesInit ==
  /\ \E extra \in SUBSET MayExist : items = Sources \cup extra
  /\ fs = [p \in Paths |-> IF p \in items THEN p ELSE Absent]
  /\ torn = {} /\ given_up = {} /\ halfway = {}
  /\ job = [j \in Jobs |-> [pc |-> "idle"]]
  /\ history = [t \in Tabs |-> <<>>]
  /\ undo = NoUndo /\ open = Tabs /\ running = TRUE
  /\ order = <<>> /\ overlapped = FALSE

-----------------------------------------------------------------------------
(* The file system *)

Destroyed(ps, how) == {<<fs[p], how>> : p \in {q \in ps : Taken(q)}}

\* rename: what was at the new path is gone, and what is not whole stays so under
\* its new name.
Rename(from, to) ==
  /\ Taken(from)
  /\ fs' = [fs EXCEPT ![from] = Absent, ![to] = fs[from]]
  /\ torn' = IF from \in torn THEN (torn \ {from}) \cup {to} ELSE torn \ {to}
  /\ given_up' = given_up \cup Destroyed({to}, "overwritten")
  /\ UNCHANGED halfway

RemovePaths(ps) ==
  /\ fs' = [p \in Paths |-> IF p \in ps THEN Absent ELSE fs[p]]
  /\ torn' = torn \ ps
  /\ UNCHANGED halfway

\* A removal that fails, in a directory, after some of it is gone.
RemoveHalf(p) ==
  /\ Taken(p)
  /\ torn' = torn \cup {p} /\ halfway' = halfway \cup {fs[p]}
  /\ UNCHANGED fs

-----------------------------------------------------------------------------
(* The window: start_local_transfer, and its Cancel button *)

Conflicts(j) == \E p \in ToSet(Roots[j]) : Taken(Dest[p])

StartTransfer(j, tab, op, policy) ==
  /\ Free /\ tab \in open /\ job[j].pc = "idle"
  /\ Conflicts(j) \/ policy = "KeepBoth"
  /\ job' = [job EXCEPT ![j] =
       [pc |-> "scan", op |-> op, policy |-> policy, root |-> 1, cancelled |-> FALSE,
        target |-> Absent, backed |-> FALSE, item |-> Absent, whole |-> TRUE, steps |-> <<>>,
        tab |-> tab, was |-> Look]]
  /\ order' = Append(order, j)
  /\ overlapped' = (overlapped \/ Busy \/ undo # NoUndo)
  /\ UNCHANGED <<disk, window, items>>

CancelTransfer(j) ==
  /\ Free /\ Active(j) /\ ~job[j].cancelled
  /\ job' = [job EXCEPT ![j].cancelled = TRUE]
  /\ UNCHANGED <<disk, window, ghosts>>

-----------------------------------------------------------------------------
(* A transfer's thread: run_transfer_inner *)

At(j, pc) == running /\ job[j].pc = pc

Go(j, pc)   == job' = [job EXCEPT ![j].pc = pc] /\ UNCHANGED <<window, ghosts>>
NextRoot(j) == job' = [job EXCEPT ![j].pc = "root", ![j].root = @ + 1, ![j].target = Absent,
                                  ![j].backed = FALSE, ![j].item = Absent]
               /\ UNCHANGED <<window, ghosts>>

\* Nothing was changed when the scan fails or is cancelled, and nothing is
\* remembered of it.
Scan(j) ==
  /\ At(j, "scan")
  /\ UNCHANGED disk
  /\ \/ ~job[j].cancelled /\ Go(j, "root")
     \/ Go(j, "report")

\* The top of the loop over the roots.
EndOfRoots(j) ==
  /\ At(j, "root") /\ (job[j].root > Len(Roots[j]) \/ job[j].cancelled)
  /\ UNCHANGED disk /\ Go(j, "report")

AtRoot(j) == At(j, "root") /\ job[j].root <= Len(Roots[j]) /\ ~job[j].cancelled

Skips(j) == DestOf(j) = Src(j) \/ (job[j].policy = "Skip" /\ Taken(DestOf(j)))

SkipRoot(j) == AtRoot(j) /\ Skips(j) /\ UNCHANGED disk /\ NextRoot(j)

\* What is staged is whatever is at the source by then, whole or not.
Take(j, pc) == job' = [job EXCEPT ![j].pc = pc, ![j].item = fs[Src(j)], ![j].whole = Src(j) \notin torn]
               /\ UNCHANGED <<window, ghosts>>

\* A move on one device renames the item away from its source; otherwise the
\* copy of it grows where nobody sees it.
StageRoot(j) ==
  /\ AtRoot(j) /\ ~Skips(j)
  /\ \/ /\ job[j].op = "move"
        /\ Rename(Src(j), Stage(j)) /\ Take(j, "staged")
     \/ /\ job[j].op # "move" /\ Taken(Src(j))
        /\ fs' = [fs EXCEPT ![Stage(j)] = fs[Src(j)]]
        /\ torn' = torn \cup {Stage(j)}
        /\ halfway' = halfway \cup (IF Src(j) \in torn THEN {fs[Src(j)]} ELSE {})
        /\ UNCHANGED given_up /\ Take(j, "copying")
     \/ UNCHANGED disk /\ NextRoot(j)

\* copy_entry ends, or is cut short: then what it wrote is removed. The copy of
\* half an item is half an item.
CopyEnds(j) ==
  /\ At(j, "copying")
  /\ UNCHANGED given_up
  /\ \/ /\ torn' = IF job[j].whole THEN torn \ {Stage(j)} ELSE torn
        /\ UNCHANGED <<fs, halfway>> /\ Go(j, "staged")
     \/ RemovePaths({Stage(j)}) /\ NextRoot(j)

\* Mutant: the number in the name is never increased.
FirstName(ps) == {ps[i] : i \in DOMAIN ps \cap {1}}

\* available_destination: the first name nothing has, if there is one
FirstFree(ps) ==
  {ps[i] : i \in {k \in DOMAIN ps : ~Taken(ps[k]) /\ \A l \in 1..(k - 1) : Taken(ps[l])}}

\* The last look at the flag, and at what is at the destination (commit_stage).
Decide(j) ==
  /\ At(j, "staged") /\ UNCHANGED <<disk, window, ghosts>>
  /\ LET dest == DestOf(j)
         free == FirstFree(Tries[dest])
         goes(pc, target) == job' = [job EXCEPT ![j].pc = pc, ![j].target = target]
     IN \/ job[j].cancelled /\ goes("back", Absent)
        \/ ~job[j].cancelled /\ ~Taken(dest) /\ goes("place", dest)
        \/ /\ ~job[j].cancelled /\ Taken(dest)
           /\ \/ job[j].policy = "Skip" /\ goes("back", Absent)
              \/ job[j].policy = "Replace" /\ goes("swap", dest)
              \/ job[j].policy = "KeepBoth" /\ free = {} /\ goes("back", Absent)
              \/ job[j].policy = "KeepBoth" /\ \E p \in free : goes("place", p)

\* Mutant: the backup of a copy is forgotten.
ForgetBackup(j, moved) ==
  [kind |-> IF moved THEN (IF job[j].backed THEN "restore_move" ELSE "move_back")
                     ELSE "remove",
   job |-> j, root |-> job[j].root, dest |-> job[j].target, item |-> job[j].item]

\* Mutant: the undo forgets the name that was free.
UndoAtName(j, moved) ==
  [kind |-> IF moved THEN (IF job[j].backed THEN "restore_move" ELSE "move_back")
                     ELSE (IF job[j].backed THEN "restore_copy" ELSE "remove"),
   job |-> j, root |-> job[j].root, dest |-> DestOf(j), item |-> job[j].item]

\* The undo step that a committed root becomes (transfer_undo_step). What was
\* committed is history: the code keeps paths only.
UndoStep(j, moved) ==
  [kind |-> IF moved THEN (IF job[j].backed THEN "restore_move" ELSE "move_back")
                     ELSE (IF job[j].backed THEN "restore_copy" ELSE "remove"),
   job |-> j, root |-> job[j].root, dest |-> job[j].target, item |-> job[j].item]

Note(j, moved) ==
  /\ job' = [job EXCEPT ![j].pc = "root", ![j].root = @ + 1, ![j].target = Absent,
                        ![j].backed = FALSE, ![j].item = Absent,
                        ![j].steps = Append(@, UndoStep(j, moved))]
  /\ UNCHANGED <<window, ghosts>>

\* The stage becomes the destination. A move to another device still has its
\* source to remove.
Commit(j) ==
  /\ Rename(Stage(j), job[j].target)
  /\ IF job[j].op = "move_far" THEN Go(j, "source") ELSE Note(j, job[j].op = "move")

Place(j) ==
  /\ At(j, "place")
  /\ Commit(j) \/ (UNCHANGED disk /\ Go(j, "back"))

\* Replace: the item in the way goes to a private backup first...
Swap(j) ==
  /\ At(j, "swap")
  /\ \/ /\ Rename(job[j].target, <<j, job[j].root, "replaced">>)
        /\ job' = [job EXCEPT ![j].pc = "fill", ![j].backed = TRUE]
        /\ UNCHANGED <<window, ghosts>>
     \/ UNCHANGED disk /\ Go(j, "back")

Fill(j) ==
  /\ At(j, "fill")
  /\ Commit(j) \/ (UNCHANGED disk /\ Go(j, "restore"))

\* ... and comes back if the new one cannot take its place.
Restore(j) ==
  /\ At(j, "restore")
  /\ Rename(<<j, job[j].root, "replaced">>, job[j].target)
  /\ Go(j, "back")

\* Mutant: a rollback only removes.
DropStage(j) == At(j, "back") /\ RemovePaths({Stage(j)}) /\ UNCHANGED given_up /\ NextRoot(j)

\* Mutant: the rollback of a copy leaves it.
LeaveStage(j) ==
  /\ At(j, "back")
  /\ IF job[j].op = "move" THEN Rename(Stage(j), Src(j)) ELSE UNCHANGED disk
  /\ NextRoot(j)

\* The rollback of what was staged and not committed.
Back(j) ==
  /\ At(j, "back")
  /\ IF job[j].op = "move" THEN Rename(Stage(j), Src(j))
                           ELSE RemovePaths({Stage(j)}) /\ UNCHANGED given_up
  /\ NextRoot(j)

\* The source of a move to another device goes, or is gone already. Where it
\* stays, or half of it, the move becomes a copy. The copy may not stand for it:
\* something else is at the source by now, or half of it was copied.
RemoveSource(j) ==
  /\ At(j, "source")
  /\ LET lost == IF fs[Src(j)] = job[j].item /\ job[j].whole THEN {}
                                                           ELSE Destroyed({Src(j)}, "removed")
     IN \/ RemovePaths({Src(j)}) /\ given_up' = given_up \cup lost /\ Note(j, TRUE)
        \/ RemoveHalf(Src(j)) /\ given_up' = given_up \cup lost /\ Note(j, FALSE)
        \/ Taken(Src(j)) /\ UNCHANGED disk /\ Note(j, FALSE)

Worker(j) ==
  \/ Scan(j) \/ EndOfRoots(j) \/ SkipRoot(j) \/ StageRoot(j) \/ CopyEnds(j)
  \/ Decide(j) \/ Place(j) \/ Swap(j) \/ Fill(j) \/ Restore(j) \/ Back(j) \/ RemoveSource(j)

-----------------------------------------------------------------------------
(* The history: remember_undo, undo_last_operation, closing *)

IsBackup(s) == s.kind \in {"restore_copy", "restore_move"}
Backups(steps) == {Backup(s) : s \in {x \in ToSet(steps) : IsBackup(x)}}

\* cleanup_undo_record
Cleanup(ps) == RemovePaths(ps) /\ given_up' = given_up \cup Destroyed(ps, "expired")

\* Mutant: the expired record is dropped with its backups on disk.
PushOnly(tab, record) ==
  /\ history' = [history EXCEPT ![tab] = Append(IF Len(@) >= MaxUndo THEN Tail(@) ELSE @, record)]
  /\ UNCHANGED disk

\* Mutant: nothing expires.
PushForever(tab, record) ==
  history' = [history EXCEPT ![tab] = Append(@, record)] /\ UNCHANGED disk

\* At the limit the oldest record expires.
Push(tab, record) ==
  IF Len(history[tab]) >= MaxUndo
    THEN /\ history' = [history EXCEPT ![tab] = Append(Tail(@), record)]
         /\ Cleanup(Backups(Head(history[tab]).steps))
    ELSE /\ history' = [history EXCEPT ![tab] = Append(@, record)]
         /\ UNCHANGED disk

\* The window learns that a transfer is finished. A closed tab still has its
\* history as long as this waits.
Report(j) ==
  /\ Free /\ At(j, "report")
  /\ job' = [job EXCEPT ![j] = [pc |-> "done"]]
  /\ IF job[j].steps = <<>>
       THEN /\ \E i \in DOMAIN order : order[i] = j /\ order' = RemoveAt(order, i)
            /\ UNCHANGED <<disk, history>>
       ELSE /\ Push(job[j].tab, [job |-> j, steps |-> Reverse(job[j].steps), was |-> job[j].was])
            /\ UNCHANGED order
  /\ UNCHANGED <<undo, open, running, overlapped, items>>

BeginUndo(tab) ==
  /\ running /\ undo = NoUndo /\ tab \in open /\ history[tab] # <<>>
  /\ LET record == Last(history[tab])
     IN undo' = [job |-> record.job, steps |-> record.steps, was |-> record.was,
                 tab |-> tab, next |-> 1, failed |-> <<>>, at |-> "step", item |-> Absent]
  /\ history' = [history EXCEPT ![tab] = Front(@)]
  /\ overlapped' = (overlapped \/ Busy)
  /\ UNCHANGED <<disk, job, open, running, order, items>>

-----------------------------------------------------------------------------
(* A step of undo: execute_undo_step, move_path_exact, restore_replaced_copy,  *)
(* restore_replaced_move. The window's thread does nothing else meanwhile, but *)
(* the threads of transfers go on between any two changes it makes.            *)

InHand   == undo.steps[undo.next]
Origin(s) == Roots[s.job][s.root]

UndoAt(at) == running /\ undo # NoUndo /\ undo.at = at /\ undo.next <= Len(undo.steps)

UndoOnly == UNCHANGED <<job, history, open, running, ghosts>>

\* The step goes on, is done, or failed: that does not stop the job
\* (run_progress_job).
StepGoes(at, item) == undo' = [undo EXCEPT !.at = at, !.item = item] /\ UndoOnly
StepDone == undo' = [undo EXCEPT !.at = "step", !.item = Absent, !.next = @ + 1] /\ UndoOnly
StepFails ==
  /\ undo' = [undo EXCEPT !.at = "step", !.item = Absent, !.next = @ + 1, !.failed = Append(@, InHand)]
  /\ UndoOnly

\* What a removal destroys: nothing if it finds the item it is about, of which no
\* half was ever left, or only half an item.
Foreign(p, item) ==
  given_up' = given_up \cup
    (IF p \in torn \/ (fs[p] = item /\ item \notin halfway) THEN {} ELSE Destroyed({p}, "removed"))

\* RemoveCreated: fails intact, succeeds, or stops halfway.
UndoRemove ==
  /\ UndoAt("step") /\ InHand.kind = "remove"
  /\ \/ RemovePaths({InHand.dest}) /\ Foreign(InHand.dest, InHand.item) /\ StepDone
     \/ RemoveHalf(InHand.dest) /\ Foreign(InHand.dest, InHand.item) /\ StepFails

\* MoveBack, and the first half of RestoreReplacedMove: a rename, or else a copy
\* that grows where the user sees it.
UndoMove ==
  /\ UndoAt("step") /\ InHand.kind \in {"move_back", "restore_move"}
  /\ LET src  == Origin(InHand)
         dest == InHand.dest
     IN /\ ~Taken(src) /\ Taken(dest)
        /\ InHand.kind = "restore_move" => Taken(Backup(InHand))
        /\ \/ /\ Rename(dest, src)
              /\ IF InHand.kind = "move_back" THEN StepDone ELSE StepGoes("fill", Absent)
           \/ /\ fs' = [fs EXCEPT ![src] = fs[dest]] /\ torn' = torn \cup {src}
              /\ halfway' = halfway \cup (IF dest \in torn THEN {fs[dest]} ELSE {})
              /\ UNCHANGED given_up
              /\ StepGoes("carry", IF dest \in torn THEN Absent ELSE fs[dest])

\* Mutant: a copy that was cut short counts as complete.
CarryCutShort ==
  UndoAt("carry") /\ UNCHANGED disk /\ StepGoes("drop", undo.item)

\* The copy is complete, unless it was never whole or another thread changed what
\* is at its name; or it is cut short, and only gio removes what it wrote.
UndoCarry ==
  /\ UndoAt("carry") /\ UNCHANGED given_up
  /\ LET src  == Origin(InHand)
         mine == src \in torn /\ fs[src] = undo.item
         half == halfway' = halfway \cup ({undo.item} \ {Absent}) /\ UNCHANGED <<fs, torn>>
     IN \/ mine /\ torn' = torn \ {src} /\ UNCHANGED <<fs, halfway>> /\ StepGoes("drop", undo.item)
        \/ ~mine /\ half /\ StepGoes("drop", Absent)
        \/ (InHand.kind = "move_back" \/ ~mine) /\ half /\ StepFails
        \/ InHand.kind = "restore_move" /\ mine /\ RemovePaths({src}) /\ StepFails

\* The first half of RestoreReplacedCopy: what replaced the item gives way.
UndoDisplace ==
  /\ UndoAt("step") /\ InHand.kind = "restore_copy"
  /\ Taken(InHand.dest) /\ Taken(Backup(InHand)) /\ ~Taken(Displaced(InHand))
  /\ Rename(InHand.dest, Displaced(InHand))
  /\ StepGoes("fill", Absent)

\* The backup goes back to its place; or what had given way does.
UndoFill ==
  /\ UndoAt("fill")
  /\ LET copied == InHand.kind = "restore_copy"
         from   == IF copied THEN Displaced(InHand) ELSE Origin(InHand)
     IN \/ /\ Rename(Backup(InHand), InHand.dest)
           /\ IF copied THEN StepGoes("drop", InHand.item) ELSE StepDone
        \/ (copied \/ ~Taken(InHand.dest)) /\ Rename(from, InHand.dest) /\ StepFails
        \/ ~(Taken(from) /\ (copied \/ ~Taken(InHand.dest))) /\ UNCHANGED disk /\ StepFails

\* What is left behind is removed: the item that gave way, or the one a copy was
\* made of. When that fails, everything else was done and the step failed.
UndoDrop ==
  /\ UndoAt("drop")
  /\ LET left == IF InHand.kind = "restore_copy" THEN Displaced(InHand) ELSE InHand.dest
     IN \/ /\ Taken(left) /\ RemovePaths({left}) /\ Foreign(left, undo.item)
           /\ IF InHand.kind = "restore_move" THEN StepGoes("fill", Absent) ELSE StepDone
        \/ RemoveHalf(left) /\ Foreign(left, undo.item) /\ StepFails
        \/ /\ halfway' = halfway \cup ({fs[left]} \ {Absent}) /\ UNCHANGED <<fs, torn, given_up>>
           /\ StepFails

\* A step that cannot begin.
UndoRefused == UndoAt("step") /\ UNCHANGED disk /\ StepFails

UndoTick ==
  UndoRemove \/ UndoMove \/ UndoCarry \/ UndoDisplace \/ UndoFill \/ UndoDrop \/ UndoRefused

UndoneAll == undo # NoUndo /\ undo.next > Len(undo.steps) /\ undo.failed = <<>>

\* Failed steps, and those a cancellation left, go back to the history.
UndoEnds ==
  /\ Free /\ undo # NoUndo
  /\ LET left == undo.failed \o SubSeq(undo.steps, undo.next, Len(undo.steps))
     IN /\ IF left = <<>>
             THEN UNCHANGED <<disk, history>>
             ELSE Push(undo.tab, [job |-> undo.job, steps |-> left, was |-> undo.was])
        /\ order' = CASE Last(order) = undo.job /\ left = <<>> -> Front(order)
                      [] Last(order) \notin {undo.job, OutOfOrder} -> Append(order, OutOfOrder)
                      [] OTHER -> order
  /\ undo' = NoUndo
  /\ UNCHANGED <<job, open, running, overlapped, items>>

\* The tab goes, and its history with it: backups stay where they are.
CloseTab(tab) ==
  /\ Free /\ tab \in open /\ Cardinality(open) > 1
  /\ open' = open \ {tab} /\ history' = [history EXCEPT ![tab] = <<>>]
  /\ UNCHANGED <<disk, job, undo, running, ghosts>>

\* The last window closes: its backups are cleaned up, and the process ends with
\* its threads.
CloseWindow ==
  /\ Free
  /\ Cleanup(UNION {Backups(r.steps) : r \in UNION {ToSet(history[t]) : t \in open}})
  /\ history' = [t \in Tabs |-> IF t \in open THEN <<>> ELSE history[t]]
  /\ running' = FALSE
  /\ UNCHANGED <<job, undo, open, ghosts>>

FilesNext ==
  \/ \E j \in Jobs : \E t \in TabOf[j], op \in Ops[j], policy \in Policies[j] :
      StartTransfer(j, t, op, policy)
  \/ \E j \in Jobs : CancelTransfer(j) \/ Worker(j) \/ Report(j)
  \/ \E t \in Tabs : BeginUndo(t) \/ CloseTab(t)
  \/ UndoTick \/ UndoEnds \/ CloseWindow

FilesSpec == FilesInit /\ [][FilesNext]_filesVars

-----------------------------------------------------------------------------
(* Properties *)

WorkerStep == {"idle", "scan", "root", "copying", "staged", "place", "swap", "fill", "restore",
               "back", "source", "report", "done"}

\* Every variable stays in its set, and no history exceeds the limit.
FilesTypeOK ==
  /\ fs \in [Paths -> Visible \cup {Absent}] /\ torn \subseteq Paths
  /\ \A j \in Jobs :
       /\ job[j].pc \in WorkerStep
       /\ Active(j) => /\ job[j].root \in 1..(Len(Roots[j]) + 1)
                       /\ job[j].target \in Visible \cup {Absent}
  /\ \A t \in Tabs : Len(history[t]) <= MaxUndo
  /\ undo # NoUndo => /\ undo.next \in 1..(Len(undo.steps) + 1)
                      /\ undo.at \in {"step", "carry", "fill", "drop"}
                      /\ undo.item \in Visible \cup {Absent}
  /\ open \subseteq Tabs /\ open # {} /\ running \in BOOLEAN /\ overlapped \in BOOLEAN
  /\ order \in Seq(Jobs \cup {OutOfOrder})
  /\ given_up \subseteq Visible \X {"overwritten", "expired", "removed"}
  /\ halfway \subseteq Visible

\* A transfer never shows half an item at a name the user sees, whatever else runs
\* and wherever the process ends (unique_sibling, commit_stage): only the item an
\* undo carries back from another device, and one that an earlier removal or
\* carrying back left half, can be seen so (copy_path_recursively, remove_path).
VisibleWhole ==
  \A q \in torn \cap Visible : fs[q] \in halfway \/ (undo.at = "carry" /\ fs[q] = undo.item)

\* A finished transfer, cancelled or not, leaves no stage behind: its output is
\* removed, and an item it had moved away is back (the rollbacks of
\* run_transfer_inner).
StageSettled ==
  \A j \in Jobs : job[j].pc \in {"report", "done"} =>
    \A i \in DOMAIN Roots[j] : ~Taken(<<j, i, "partial">>)

\* No item is lost: at any instant, the end of the process included, each is
\* whole at some path, unless its backup expired or it was destroyed in one of
\* two known ways (overwritten between a check and a rename, or removed by a move
\* or an undo that no longer finds there what it moved or put there, or does not
\* know that the other copy of it is half).
NothingLost ==
  \A p \in items : (\E q \in Paths \ torn : fs[q] = p) \/ (\E g \in given_up : g[1] = p)

\* As long as operations do not overlap, nothing is ever overwritten: not by a
\* commit, by a rollback or by an undo (path_exists, available_destination,
\* move_path_exact).
OverwritesOnlyInOverlap == (\E g \in given_up : g[2] = "overwritten") => overlapped

\* While the window and its tabs are open, the backups on disk are those an undo
\* can still restore or a thread is about to report: none is deleted while its
\* record lives, and none outlives its record (remember_undo, cleanup_undo_record,
\* undo_last_operation). Only a step whose undo restored the backup and then could
\* not remove what it displaced stays without one (restore_replaced_copy).
BackupsOwned ==
  running /\ open = Tabs =>
    LET restoring(steps) == {s \in ToSet(steps) : IsBackup(s)}
        kept == UNION {restoring(r.steps) : r \in UNION {ToSet(history[t]) : t \in Tabs}}
        reported == UNION {restoring(job[j].steps) : j \in {k \in Jobs : job[k].pc \notin {"idle", "done"}}}
        inUse == {<<j, job[j].root, "replaced">> : j \in {k \in Jobs : Active(k) /\ job[k].backed}}
        owned == Backups(undo.steps) \cup {Backup(s) : s \in kept \cup reported} \cup inUse
    IN /\ \A s \in kept \cup reported : Taken(Backup(s)) \/ Taken(Displaced(s))
       /\ \A p \in Hidden : p[3] = "replaced" /\ Taken(p) => p \in owned

\* The items of a transfer have different names.
DistinctNames ==
  \A j \in Jobs : \A i, k \in DOMAIN Roots[j] : Dest[Roots[j][i]] = Dest[Roots[j][k]] => i = k

\* No transfer was undone, or is being undone, before a later one.
InTurn == OutOfOrder \notin ToSet(order) /\ (undo # NoUndo => order # <<>> /\ Last(order) = undo.job)

\* As long as nothing overlaps and transfers are undone in turn, what an undo or the
\* end of a move removes is there elsewhere, or is an item of which some half was
\* left before: an undo removes what its transfer put there and nothing of the
\* user's, whatever name was chosen, whatever failed and is tried again
\* (transfer_undo_step, remove_path, execute_undo_step).
RemovesOnlyHalves ==
  DistinctNames /\ ~overlapped /\ InTurn => \A g \in given_up : g[2] = "removed" => g[1] \in halfway

\* Nothing overlapped, and no removal or copy stopped halfway.
Orderly == ~overlapped /\ halfway = {}

\* Undoing the latest transfer, in one go or in several, puts every name back as
\* it was before, if nothing overlapped and no step failed halfway
\* (transfer_undo_step, execute_undo_step). Two items of one name must be undone in
\* order: a step that fails and is retried later finds the other's item in its place.
UndoExact ==
  DistinctNames =>
    (UndoneAll /\ Orderly /\ order # <<>> /\ Last(order) = undo.job => Look = undo.was)

=============================================================================
