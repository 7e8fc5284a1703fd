---------------------------- MODULE FileUndoProofs ----------------------------
(***************************************************************************)
(* Undo in FileTransfers is exact, proved for any transfers whose items    *)
(* have different names: what a transfer found at each path follows from   *)
(* what is there now, or from what the next transfer found, by its steps   *)
(* that wait to be undone, in whatever order.                              *)
(***************************************************************************)
EXTENDS FileLossProofs

(* What undoing steps restores *)

Moved(s)   == s.kind \in {"move_back", "restore_move"}
NamesOf(p) == {Dest[p]} \cup ToSet(Tries[Dest[p]])

\* What a step's destination held before it.
Under(d, s) == IF IsBackup(s) THEN d[Backup(s)] ELSE Absent

\* Undoing the steps S, in any order, on the disk d, turns look into was.
Restores(d, S, look, was) ==
  /\ \A s \in S : was[s.dest] = Under(d, s) /\ (Moved(s) => was[Origin(s)] = look[s.dest])
  /\ \A p \in Visible : (\A s \in S : p # s.dest /\ (Moved(s) => p # Origin(s))) => was[p] = look[p]

\* The steps of one transfer are about different paths.
PathsApart(S) ==
  \A s, z \in S : s.dest # Origin(z) /\ (s.dest = z.dest \/ Origin(s) = Origin(z) => s = z)

\* When nothing is left to undo, what is there is what was found.
LEMMA RestoresNothing ==
  ASSUME NEW d, NEW look \in Looks, NEW was \in Looks, Restores(d, {}, look, was)
  PROVE  look = was
BY DEF Restores, Looks

\* The same steps on the same backups.
LEMMA RestoresKept ==
  ASSUME NEW d, NEW e, NEW S, NEW look, NEW was, Restores(d, S, look, was),
         \A s \in S : IsBackup(s) => e[Backup(s)] = d[Backup(s)]
  PROVE  Restores(e, S, look, was)
BY DEF Restores, Under

\* A step is undone: what is left to do restores the rest.
LEMMA RestoresUndone ==
  ASSUME NEW d, NEW e, NEW S, NEW look, NEW after, NEW was, Restores(d, S, look, was), PathsApart(S),
         NEW x \in S, \A s \in S : s.dest \in Visible,
         \A s \in S \ {x} : IsBackup(s) => e[Backup(s)] = d[Backup(s)],
         after[x.dest] = Under(d, x), Moved(x) => after[Origin(x)] = look[x.dest],
         \A p \in Visible : p # x.dest /\ (Moved(x) => p # Origin(x)) => after[p] = look[p]
  PROVE  Restores(e, S \ {x}, after, was)
<1>1. was[x.dest] = after[x.dest] /\ (Moved(x) => was[Origin(x)] = after[Origin(x)])
  BY DEF Restores
<1>2. \A s \in S \ {x} : after[s.dest] = look[s.dest]
  BY DEF PathsApart
<1>3. \A s \in S \ {x} : was[s.dest] = Under(e, s) /\ (Moved(s) => was[Origin(s)] = after[s.dest])
  BY <1>2 DEF Restores, Under
<1>4. ASSUME NEW p \in Visible, \A s \in S \ {x} : p # s.dest /\ (Moved(s) => p # Origin(s))
      PROVE  was[p] = after[p]
  <2>1. CASE p = x.dest \/ (Moved(x) /\ p = Origin(x))
    BY <1>1, <2>1
  <2>2. CASE ~(p = x.dest \/ (Moved(x) /\ p = Origin(x)))
    BY <1>4, <2>2 DEF Restores
  <2>3. QED
    BY <2>1, <2>2
<1>5. QED
  BY <1>3, <1>4 DEF Restores

\* An item is committed: from then on its step is one more to undo.
LEMMA RestoresCommitted ==
  ASSUME NEW d, NEW e, NEW S, NEW look, NEW after, NEW was, Restores(d, S, look, was),
         NEW x, PathsApart(S \cup {x}), x \notin S, \A s \in S \cup {x} : s.dest \in Visible /\ Origin(s) \in Visible,
         \A s \in S : IsBackup(s) => e[Backup(s)] = d[Backup(s)],
         look[x.dest] = Under(e, x), Moved(x) => look[Origin(x)] = after[x.dest],
         \A p \in Visible : p # x.dest /\ (Moved(x) => p # Origin(x)) => after[p] = look[p]
  PROVE  Restores(e, S \cup {x}, after, was)
<1>1. \A s \in S : x.dest # s.dest /\ x.dest # Origin(s) /\ Origin(x) # s.dest /\ Origin(x) # Origin(s)
  BY DEF PathsApart
<1>2. was[x.dest] = look[x.dest] /\ was[Origin(x)] = look[Origin(x)]
  BY <1>1 DEF Restores
<1>3. \A s \in S : after[s.dest] = look[s.dest]
  BY <1>1
<1>4. \A s \in S \cup {x} : was[s.dest] = Under(e, s) /\ (Moved(s) => was[Origin(s)] = after[s.dest])
  BY <1>2, <1>3 DEF Restores, Under
<1>5. \A p \in Visible : (\A s \in S \cup {x} : p # s.dest /\ (Moved(s) => p # Origin(s))) => was[p] = after[p]
  BY DEF Restores
<1>6. QED
  BY <1>4, <1>5 DEF Restores

-----------------------------------------------------------------------------
(* The invariant *)

\* The steps of a transfer that wait.
Mine(j) == {s \in Waiting : s.job = j}

\* What is remembered to have been there when the transfer started.
Memo(j, w) ==
  \/ Operating(j) /\ w = job[j].was
  \/ \E t \in Tabs : \E n \in 1..Len(history[t]) : history[t][n].job = j /\ history[t][n].was = w
  \/ undo # NoUndo /\ undo.job = j /\ undo.was = w

\* What is there, but for the item that transfer j is at.
NowAt(j, p) ==
  IF job[j].pc \in {"fill", "restore", "source"} /\ p = job[j].target
    THEN IF job[j].backed THEN fs[Replaced(j, job[j].root)] ELSE Absent
    ELSE IF job[j].pc \in Staging /\ job[j].op = "move" /\ p = Src(j) THEN job[j].item ELSE fs[p]
Now(j) == [p \in Visible |-> NowAt(j, p)]

\* Steps do not meddle with each other: each is about an item that was not at
\* its destination, and has a destination of its own.
StepsApart ==
  /\ \A s \in Waiting : s.dest \in NamesOf(Origin(s)) /\ Dest[Origin(s)] # Origin(s)
  /\ \A s, z \in Waiting : s.job = z.job /\ s.dest = z.dest => s = z

\* What the thread at work knows: it is the latest, its item goes to a name of
\* its own, and what it committed is where it was put.
ThreadKnows(j) ==
  /\ order # <<>> /\ order[Len(order)] = j
  /\ job[j].pc \in Aimed =>
       /\ job[j].target \in NamesOf(Src(j)) /\ DestOf(j) # Src(j)
       /\ job[j].policy # "KeepBoth" => job[j].target = DestOf(j)
       /\ \A s \in Mine(j) : s.dest # job[j].target
  /\ \A s \in Mine(j) : Taken(s.dest) /\ (job[j].policy # "KeepBoth" => s.dest = Dest[Origin(s)])
  /\ job[j].pc \in Staging \cup {"source"} /\ job[j].op # "move" => fs[Src(j)] = job[j].item
  /\ job[j].pc = "source" => fs[job[j].target] = job[j].item /\ Taken(job[j].target)

\* A transfer is in the order once, and was started.
OrderOnce ==
  \A n \in 1..Len(order) : order[n] \in Jobs =>
    job[order[n]].pc # "idle" /\ \A m \in 1..Len(order) : order[m] = order[n] => m = n

InOrder(n) == \A m \in n..Len(order) : order[m] # OutOfOrder

Beginning(j) == undo # NoUndo /\ undo.job = j

\* What a transfer found follows from what the next one found...
Link(a, b) == \A w, v \in Looks : Memo(a, w) /\ Memo(b, v) => Restores(fs, Mine(a), v, w)
Chained ==
  \A n \in 1..(Len(order) - 1) : \A a, b \in Jobs :
    InOrder(n) /\ a = order[n] /\ b = order[n + 1] /\ ~Beginning(a) => Link(a, b)

\* ... and what the latest found from what is there.
Ends(j) == \A w \in Looks : Memo(j, w) => Restores(fs, Mine(j), Now(j), w)
Latest ==
  \A j \in Jobs : order # <<>> /\ j = order[Len(order)] /\ (undo = NoUndo \/ (undo.job = j /\ undo.at = "step")) => Ends(j)

Exact ==
  /\ StepsApart /\ OrderOnce /\ Chained /\ Latest
  /\ \A j \in Jobs : Operating(j) => ThreadKnows(j)

\* What is there, but for what the undo has done so far of the step x.
CalmOf(d, at, x) ==
  [p \in Paths |->
     CASE at # "step" /\ Moved(x) /\ p = Origin(x) -> Absent
       [] at = "fill" /\ Moved(x) /\ p = x.dest -> d[Origin(x)]
       [] at \in {"fill", "drop"} /\ ~Moved(x) /\ p = x.dest -> d[Displaced(x)]
       [] at = "drop" /\ ~Moved(x) /\ p = Backup(x) -> d[x.dest]
       [] OTHER -> d[p]]
Calm == CalmOf(fs, undo.at, InHand)

\* A step that goes on has the item it is about at hand.
AtHand ==
  /\ undo.at = "carry" =>
       /\ Origin(InHand) \in torn /\ fs[Origin(InHand)] = undo.item
       /\ fs[InHand.dest] = undo.item /\ undo.item # Absent
  /\ undo.at = "fill" /\ Moved(InHand) => Taken(Origin(InHand))
  /\ undo.at = "drop" /\ Moved(InHand) => fs[Origin(InHand)] = fs[InHand.dest] /\ Taken(InHand.dest)

\* In the middle of a step, what the latest transfer found follows from what
\* was there before the step.
Midway ==
  undo.at # "step" =>
    /\ AtHand
    /\ order # <<>> /\ order[Len(order)] = undo.job => Restores(Calm, Mine(undo.job), Calm, undo.was)

UndoInv == LossInv /\ (DistinctNames /\ Orderly => Exact /\ Midway)

-----------------------------------------------------------------------------
(* What a step leaves alone *)

\* Nothing is remembered that was not.
SameMemo(k) == \A w \in Looks : Memo(k, w)' => Memo(k, w)

\* The steps of a transfer that is remembered wait on, with their backups.
SameSteps(k) ==
  (\E w \in Looks : Memo(k, w)') =>
    /\ Mine(k)' = Mine(k)
    /\ \A s \in Mine(k) : IsBackup(s) => fs'[Backup(s)] = fs[Backup(s)]

\* Of two transfers, one after the other.
LEMMA LinkKept ==
  ASSUME NEW a, NEW b, Link(a, b), SameMemo(a), SameMemo(b), SameSteps(a)
  PROVE  Link(a, b)'
<1> SUFFICES ASSUME NEW w \in Looks, NEW v \in Looks, Memo(a, w)', Memo(b, v)'
             PROVE  Restores(fs', Mine(a)', v, w)
  BY DEF Link
<1>1. Restores(fs, Mine(a), v, w)
  BY DEF Link, SameMemo
<1>2. Mine(a)' = Mine(a) /\ \A s \in Mine(a) : IsBackup(s) => fs'[Backup(s)] = fs[Backup(s)]
  BY DEF SameSteps
<1>3. Restores(fs', Mine(a), v, w)
  BY <1>1, <1>2, RestoresKept
<1>4. QED
  BY <1>2, <1>3

\* Of the latest.
LEMMA EndsKept ==
  ASSUME NEW j, Ends(j), SameMemo(j), SameSteps(j), \A p \in Visible : NowAt(j, p)' = NowAt(j, p)
  PROVE  Ends(j)'
<1> SUFFICES ASSUME NEW w \in Looks, Memo(j, w)' PROVE Restores(fs', Mine(j)', Now(j)', w)
  BY DEF Ends
<1>1. Restores(fs, Mine(j), Now(j), w)
  BY DEF Ends, SameMemo
<1>2. Mine(j)' = Mine(j) /\ \A s \in Mine(j) : IsBackup(s) => fs'[Backup(s)] = fs[Backup(s)]
  BY DEF SameSteps
<1>3. Now(j)' = Now(j)
  BY DEF Now
<1>4. Restores(fs', Mine(j), Now(j), w)
  BY <1>1, <1>2, RestoresKept
<1>5. QED
  BY <1>2, <1>3, <1>4

\* Of the whole order, while it stays as it is.
LEMMA ChainKept ==
  ASSUME FilesInv, OrderOnce, Chained, order' = order, \A k \in Jobs : SameMemo(k),
         \A k \in Jobs : k = order[Len(order)] \/ (SameSteps(k) /\ ~Beginning(k)) \/ Beginning(k)'
  PROVE  Chained'
<1>1. order \in Seq(Jobs \cup {OutOfOrder}) /\ Len(order) \in Nat
  BY DEF FilesInv, Typed, GhostsTyped
<1> SUFFICES ASSUME NEW n \in 1..(Len(order) - 1), NEW a \in Jobs, NEW b \in Jobs,
                    InOrder(n), a = order[n], b = order[n + 1], ~Beginning(a)'
             PROVE  Link(a, b)'
  BY DEF Chained, InOrder
<1>2. n \in 1..Len(order) /\ Len(order) \in 1..Len(order) /\ n # Len(order)
  BY <1>1
<1>3. a # order[Len(order)]
  BY <1>2 DEF OrderOnce
<1>4. SameSteps(a) /\ ~Beginning(a)
  BY <1>3
<1>5. Link(a, b)
  BY <1>4 DEF Chained
<1>6. QED
  BY <1>4, <1>5, LinkKept

-----------------------------------------------------------------------------
(* The paths of a step *)

\* A name that is tried for an item is no source, unless of one that is there
\* already.
LEMMA NamesNotSource ==
  ASSUME NEW j \in Jobs, NEW i \in 1..Len(Roots[j]), NEW k \in 1..Len(Roots[j]),
         Dest[Roots[j][k]] # Roots[j][k], NEW p \in NamesOf(Roots[j][i])
  PROVE  p # Roots[j][k]
<1>1. DOMAIN Roots[j] = 1..Len(Roots[j])
  BY FilesAssumption
<1>2. QED
  BY <1>1, TargetDirectory DEF NamesOf

\* The paths of a step that waits.
LEMMA StepPaths ==
  ASSUME FilesInv, Places, NEW s \in Waiting
  PROVE  /\ s \in Step /\ s.job \in Jobs /\ s.root \in 1..Len(Roots[s.job]) /\ s.dest \in Visible
         /\ Origin(s) \in Visible /\ Backup(s) = Replaced(s.job, s.root)
         /\ Backup(s) \in Paths /\ Backup(s) \notin Visible
<1>1. s \in Step /\ s.job \in Jobs /\ s.root \in 1..Len(Roots[s.job]) /\ s.dest \in Visible
  BY WaitingAt DEF Step
<1>2. QED
  BY <1>1, VisiblePath, ReplacedPath DEF Origin, Backup, Replaced

\* Steps of one transfer, one for each item, each with a destination of its own,
\* are about different paths.
LEMMA NamesApart ==
  ASSUME DistinctNames, NEW j \in Jobs, NEW S,
         \A s \in S : /\ s.job = j /\ s.root \in 1..Len(Roots[j])
                     /\ s.dest \in NamesOf(Origin(s)) /\ Dest[Origin(s)] # Origin(s),
         \A s, z \in S : s.dest = z.dest \/ s.root = z.root => s = z
  PROVE  PathsApart(S)
<1> SUFFICES ASSUME NEW s \in S, NEW z \in S
             PROVE  s.dest # Origin(z) /\ (s.dest = z.dest \/ Origin(s) = Origin(z) => s = z)
  BY DEF PathsApart
<1>1. Origin(s) = Roots[j][s.root] /\ Origin(z) = Roots[j][z.root]
  BY DEF Origin
<1>2. s.dest # Origin(z)
  <2>1. /\ s.root \in 1..Len(Roots[j]) /\ z.root \in 1..Len(Roots[j])
        /\ s.dest \in NamesOf(Roots[j][s.root]) /\ Dest[Roots[j][z.root]] # Roots[j][z.root]
    BY <1>1
  <2>2. QED
    BY <1>1, <2>1, NamesNotSource
<1>3. ASSUME Origin(s) = Origin(z) PROVE s.root = z.root
  <2>1. s.root \in DOMAIN Roots[j] /\ z.root \in DOMAIN Roots[j]
    BY FilesAssumption
  <2>2. QED
    BY <1>1, <1>3, <2>1 DEF DistinctNames
<1>4. QED
  BY <1>2, <1>3

\* So are the steps of a transfer that wait.
LEMMA MineApart ==
  ASSUME FilesInv, Places, StepsApart, DistinctNames, NEW j
  PROVE  PathsApart(Mine(j)) /\ \A s \in Mine(j) : s.dest \in Visible /\ Origin(s) \in Visible
<1>1. \A s \in Mine(j) : s \in Waiting /\ s.job = j /\ j \in Jobs /\ s.root \in 1..Len(Roots[j])
  BY StepPaths DEF Mine
<1>2. \A s \in Mine(j) : s.dest \in Visible /\ Origin(s) \in Visible
  BY StepPaths DEF Mine
<1>3. CASE j \in Jobs
  <2>1. \A s \in Mine(j) : s.dest \in NamesOf(Origin(s)) /\ Dest[Origin(s)] # Origin(s)
    BY <1>1 DEF StepsApart
  <2>2. \A s, z \in Mine(j) : s.dest = z.dest \/ s.root = z.root => s = z
    BY <1>1, WaitsOnce DEF StepsApart
  <2>3. QED
    BY <1>1, <1>2, <1>3, <2>1, <2>2, NamesApart
<1>4. CASE j \notin Jobs
  BY <1>1, <1>2, <1>4 DEF PathsApart
<1>5. QED
  BY <1>3, <1>4

\* Fewer steps are as much apart.
LEMMA FewerApart ==
  ASSUME StepsApart, Waiting' \subseteq Waiting
  PROVE  StepsApart'
BY DEF StepsApart

-----------------------------------------------------------------------------
(* Steps that are given up *)

\* What is done of them leaves alone.
LEMMA DropSpares ==
  ASSUME FilesInv, Places, NEW D \in SUBSET Waiting, Drop(D) \/ UNCHANGED disk
  PROVE  /\ \A p \in Visible : fs'[p] = fs[p]
         /\ \A s \in Waiting \ D : fs'[Backup(s)] = fs[Backup(s)]
         /\ \A j \in Jobs : \A i \in 1..Len(Roots[j]) :
              (\A s \in D : ~(s.job = j /\ s.root = i)) => fs'[Replaced(j, i)] = fs[Replaced(j, i)]
<1>1. ASSUME NEW p \in Paths, p \notin BackupsIn(D) PROVE fs'[p] = fs[p]
  <2>1. CASE Drop(D)
    BY <1>1, <2>1 DEF Drop, Cleanup, RemovePaths
  <2>2. CASE UNCHANGED disk
    BY <2>2 DEF disk
  <2>3. QED
    BY <2>1, <2>2
<1>2. ASSUME NEW p \in Visible PROVE fs'[p] = fs[p]
  <2>1. p \in Paths /\ p \notin BackupsIn(D)
    BY StepPaths DEF Paths, BackupsIn
  <2>2. QED
    BY <1>1, <2>1
<1>3. ASSUME NEW j \in Jobs, NEW i \in 1..Len(Roots[j]), \A s \in D : ~(s.job = j /\ s.root = i)
      PROVE  fs'[Replaced(j, i)] = fs[Replaced(j, i)]
  <2>1. Replaced(j, i) \in Paths
    BY ReplacedPath
  <2>2. ASSUME NEW s \in D PROVE Backup(s) # Replaced(j, i)
    BY <1>3, StepPaths, ReplacedPath
  <2>3. Replaced(j, i) \notin BackupsIn(D)
    BY <2>2 DEF BackupsIn
  <2>4. QED
    BY <1>1, <2>1, <2>3
<1>4. ASSUME NEW s \in Waiting \ D PROVE fs'[Backup(s)] = fs[Backup(s)]
  <2>1. s.job \in Jobs /\ s.root \in 1..Len(Roots[s.job]) /\ Backup(s) = Replaced(s.job, s.root)
    BY StepPaths
  <2>2. \A z \in D : ~(z.job = s.job /\ z.root = s.root)
    BY WaitsOnce
  <2>3. QED
    BY <1>3, <2>1, <2>2
<1>5. QED
  BY <1>2, <1>3, <1>4

\* A transfer that is still remembered keeps its steps; what is there stays, and
\* so does what a thread has put aside.
LEMMA ForgettingKeeps ==
  ASSUME FilesInv, Places, NEW D \in SUBSET Waiting, Waiting' = Waiting \ D, Forgotten(D),
         Drop(D) \/ UNCHANGED disk, undo' = undo \/ undo' = NoUndo,
         \A k \in Jobs : Operating(k)' => job'[k] = job[k]
  PROVE  /\ \A k \in Jobs : SameSteps(k)
         /\ \A p \in Visible : fs'[p] = fs[p]
         /\ \A k \in Jobs : Operating(k)' => \A p \in Visible : NowAt(k, p)' = NowAt(k, p)
<1>1. /\ \A p \in Visible : fs'[p] = fs[p]
      /\ \A s \in Waiting \ D : fs'[Backup(s)] = fs[Backup(s)]
      /\ \A j \in Jobs : \A i \in 1..Len(Roots[j]) :
           (\A s \in D : ~(s.job = j /\ s.root = i)) => fs'[Replaced(j, i)] = fs[Replaced(j, i)]
  BY DropSpares
<1>2. ASSUME NEW s \in D PROVE job[s.job].pc = "done" /\ s.job \in Jobs /\ ~Beginning(s.job)' /\ NotRecorded(s.job)'
  <2>1. InHistory(s) /\ NotRecorded(s.job)' /\ s.job \in Jobs
    BY WaitingAt DEF Forgotten
  <2>2. job[s.job].pc = "done" /\ ~NotRecorded(s.job)
    BY <2>1, OnePlace
  <2>3. ~Beginning(s.job)
    BY <2>2 DEF Beginning, Places, UndoSteps
  <2>4. QED
    BY <2>1, <2>2, <2>3 DEF Beginning
<1>3. ASSUME NEW s \in D PROVE ~Operating(s.job)'
  BY <1>2 DEF Operating
<1>4. ASSUME NEW k \in Jobs, NEW w \in Looks, Memo(k, w)', NEW s \in D PROVE s.job # k
  BY <1>2, <1>3, <1>4 DEF Memo, Beginning, NotRecorded
<1>5. ASSUME NEW k \in Jobs PROVE SameSteps(k)
  <2> SUFFICES ASSUME NEW w \in Looks, Memo(k, w)'
               PROVE  /\ Mine(k)' = Mine(k)
                      /\ \A s \in Mine(k) : fs'[Backup(s)] = fs[Backup(s)]
    BY DEF SameSteps
  <2>1. \A s \in D : s.job # k
    BY <1>4
  <2>2. QED
    BY <1>1, <2>1 DEF Mine
<1>6. ASSUME NEW k \in Jobs, Operating(k)', NEW p \in Visible PROVE NowAt(k, p)' = NowAt(k, p)
  <2>1. job'[k] = job[k] /\ Operating(k)
    BY <1>6 DEF Operating
  <2>2. \A s \in D : s.job # k
    BY <1>2, <2>1 DEF Operating
  <2>3. ASSUME job[k].pc \in {"fill", "restore", "source"}
        PROVE  fs'[Replaced(k, job[k].root)] = fs[Replaced(k, job[k].root)]
    <3>1. job[k].root \in 1..Len(Roots[k])
      BY <2>3, Staged DEF Staging
    <3>2. QED
      BY <1>1, <2>2, <3>1
  <2>4. QED
    BY <1>1, <2>1, <2>3 DEF NowAt, Src, Replaced
<1>7. QED
  BY <1>1, <1>5, <1>6

-----------------------------------------------------------------------------
(* The window *)

\* Where no thread is at work, what is there is what is there.
LEMMA NowIdle ==
  ASSUME NEW j, ~Operating(j)
  PROVE  \A p : NowAt(j, p) = fs[p]
BY DEF NowAt, Operating, Staging

\* A thread knows what it knew, when its transfer is where it was.
LEMMA KnowsKept ==
  ASSUME FilesInv, Places, NEW j \in Jobs, Operating(j), ThreadKnows(j), order' = order,
         Mine(j)' \subseteq Mine(j), \A p \in Visible : fs'[p] = fs[p],
         job'[j].pc = job[j].pc, job'[j].op = job[j].op, job'[j].policy = job[j].policy,
         job'[j].root = job[j].root, job'[j].target = job[j].target, job'[j].item = job[j].item
  PROVE  ThreadKnows(j)'
<1>1. \A s \in Mine(j) : s.dest \in Visible
  BY StepPaths DEF Mine
<1>2. ASSUME job[j].pc \in Staging \cup {"source"} PROVE Src(j) \in Visible
  BY <1>2, Staged, VisiblePath DEF Src
<1>3. ASSUME job[j].pc = "source" PROVE job[j].target \in Visible
  BY <1>3, Staged DEF Aimed
<1>4. QED
  BY <1>1, <1>2, <1>3 DEF ThreadKnows, Taken, Src, DestOf

\* A tab is closed, or the window.
LEMMA CloseExact ==
  ASSUME FilesInv, Places, Exact, CloseWindow \/ \E tab \in Tabs : CloseTab(tab)
  PROVE  Exact'
<1>1. /\ undo.at = "step" /\ undo' = undo /\ job' = job /\ order' = order
      /\ \A t \in Tabs : history'[t] = <<>> \/ history'[t] = history[t]
  <2>1. history \in [Tabs -> Seq(Record)]
    BY DEF FilesInv, Typed, WindowTyped
  <2>2. QED
    BY <2>1 DEF CloseWindow, CloseTab, Free, ghosts
<1>2. PICK D \in SUBSET Waiting : Waiting' = Waiting \ D /\ Forgotten(D) /\ (Drop(D) \/ UNCHANGED disk)
  BY CloseTabWaits, CloseWindowWaits
<1>3. /\ \A k \in Jobs : SameSteps(k)
      /\ \A p \in Visible : fs'[p] = fs[p]
      /\ \A k \in Jobs : Operating(k)' => \A p \in Visible : NowAt(k, p)' = NowAt(k, p)
  BY <1>1, <1>2, ForgettingKeeps
<1>4. ASSUME NEW k \in Jobs PROVE SameMemo(k)
  <2>1. ASSUME NEW t \in Tabs, NEW n \in 1..Len(history'[t]) PROVE history'[t] = history[t]
    <3>1. Len(<<>>) = 0
      OBVIOUS
    <3>2. QED
      BY <1>1, <3>1
  <2>2. \A w : Memo(k, w)' => Memo(k, w)
    BY <1>1, <2>1 DEF Memo, Operating
  <2>3. QED
    BY <2>2 DEF SameMemo
<1>5. ASSUME NEW k \in Jobs PROVE \A p \in Visible : NowAt(k, p)' = NowAt(k, p)
  <2>1. CASE Operating(k)
    BY <1>1, <1>3, <2>1 DEF Operating
  <2>2. CASE ~Operating(k)
    <3>1. ~Operating(k)'
      BY <1>1, <2>2 DEF Operating
    <3>2. (\A p : NowAt(k, p) = fs[p]) /\ (\A p : NowAt(k, p)' = fs'[p])
      BY <2>2, <3>1, NowIdle DEF NowAt, Operating, Staging
    <3>3. QED
      BY <1>1, <1>3, <3>2
  <2>3. QED
    BY <2>1, <2>2
<1>6. StepsApart'
  BY <1>2, FewerApart DEF Exact
<1>7. OrderOnce'
  BY <1>1 DEF Exact, OrderOnce
<1>8. Chained'
  BY <1>1, <1>3, <1>4, ChainKept DEF Exact, Beginning
<1>9. Latest'
  <2> SUFFICES ASSUME NEW j \in Jobs, order # <<>>, j = order[Len(order)], undo = NoUndo \/ undo.job = j
               PROVE  Ends(j)'
    BY <1>1 DEF Latest
  <2>1. Ends(j)
    BY <1>1 DEF Exact, Latest
  <2>2. QED
    BY <1>3, <1>4, <1>5, <2>1, EndsKept
<1>10. ASSUME NEW j \in Jobs, Operating(j)' PROVE ThreadKnows(j)'
  <2>1. Operating(j) /\ ThreadKnows(j) /\ Mine(j)' \subseteq Mine(j)
    BY <1>1, <1>2, <1>10 DEF Operating, Exact, Mine
  <2>2. QED
    BY <1>1, <1>3, <2>1, KnowsKept
<1>11. QED
  BY <1>6, <1>7, <1>8, <1>9, <1>10 DEF Exact

\* A transfer starts, alone: it found what is there.
LEMMA StartExact ==
  ASSUME FilesInv, Places, Exact, ~overlapped', NEW j \in Jobs, NEW tab, NEW op, NEW policy,
         StartTransfer(j, tab, op, policy)
  PROVE  Exact'
<1>1. /\ job[j].pc = "idle" /\ undo = NoUndo /\ undo' = undo /\ history' = history /\ fs' = fs
      /\ order' = Append(order, j) /\ \A k \in Jobs : ~Operating(k)
      /\ \E new : new.pc = "scan" /\ new.steps = <<>> /\ new.was = Look /\ job' = [job EXCEPT ![j] = new]
  BY DEF StartTransfer, Busy, Operating, disk, window
<1>2. /\ job'[j].pc = "scan" /\ job'[j].steps = <<>> /\ job'[j].was = Look
      /\ \A k \in Jobs \ {j} : job'[k] = job[k]
  BY <1>1 DEF FilesInv, Typed, JobsTyped
<1>3. /\ order \in Seq(Jobs \cup {OutOfOrder}) /\ Len(order) \in Nat /\ Len(order') = Len(order) + 1
      /\ order'[Len(order) + 1] = j /\ order' # <<>> /\ \A n \in 1..Len(order) : order'[n] = order[n]
  <2>1. order \in Seq(Jobs \cup {OutOfOrder})
    BY DEF FilesInv, Typed, GhostsTyped
  <2>2. QED
    BY <1>1, <2>1, AppendProperties
<1>4. Operating(j)' /\ \A k \in Jobs \ {j} : ~Operating(k)'
  BY <1>1, <1>2 DEF Operating
<1>5. Waiting' = Waiting
  BY <1>1, <1>2, <1>4, GoesOn
<1>6. Mine(j) = {} /\ \A k : Mine(k)' = Mine(k)
  BY <1>1, <1>5, WaitingAt DEF Mine
<1>7. ASSUME NEW k \in Jobs PROVE SameSteps(k) /\ (k # j => SameMemo(k)) /\ Now(k) = Look
  <2>1. SameSteps(k)
    BY <1>1, <1>6 DEF SameSteps
  <2>2. k # j => SameMemo(k)
    BY <1>1, <1>2 DEF SameMemo, Memo, Operating
  <2>3. \A p : NowAt(k, p) = fs[p]
    BY <1>1, NowIdle
  <2>4. Now(k) = Look
    BY <2>3 DEF Now, Look
  <2>5. QED
    BY <2>1, <2>2, <2>4
<1>8. ASSUME NEW w, Memo(j, w)' PROVE w = Look
  <2>1. \A t \in Tabs : \A n \in 1..Len(history[t]) : history[t][n].job # j
    BY <1>1 DEF Places, HistorySteps
  <2>2. QED
    BY <1>1, <1>2, <1>8, <2>1 DEF Memo
<1>9. ASSUME NEW n \in 1..Len(order), order[n] \in Jobs PROVE order[n] # j
  BY <1>1, <1>9 DEF Exact, OrderOnce
<1>10. StepsApart'
  BY <1>5, FewerApart DEF Exact
<1>11. OrderOnce'
  <2> SUFFICES ASSUME NEW n \in 1..Len(order'), order'[n] \in Jobs
               PROVE  job'[order'[n]].pc # "idle" /\ \A m \in 1..Len(order') : order'[m] = order'[n] => m = n
    BY DEF OrderOnce
  <2>1. CASE n = Len(order) + 1
    <3>1. \A m \in 1..Len(order) : order'[m] # j
      BY <1>3, <1>9
    <3>2. \A m \in 1..Len(order') : m \in 1..Len(order) \/ m = Len(order) + 1
      BY <1>3
    <3>3. QED
      BY <1>2, <1>3, <2>1, <3>1, <3>2
  <2>2. CASE n \in 1..Len(order)
    <3>1. order'[n] = order[n] /\ order[n] # j /\ order[n] \in Jobs
      BY <1>3, <1>9, <2>2
    <3>2. job[order[n]].pc # "idle" /\ \A m \in 1..Len(order) : order[m] = order[n] => m = n
      BY <2>2, <3>1 DEF Exact, OrderOnce
    <3>3. \A m \in 1..Len(order') : m \in 1..Len(order) \/ m = Len(order) + 1
      BY <1>3
    <3>4. QED
      BY <1>2, <1>3, <3>1, <3>2, <3>3
  <2>3. QED
    BY <1>3, <2>1, <2>2
<1>12. Chained'
  <2> SUFFICES ASSUME NEW n \in 1..(Len(order') - 1), NEW a \in Jobs, NEW b \in Jobs,
                      InOrder(n)', a = order'[n], b = order'[n + 1]
               PROVE  Link(a, b)'
    BY DEF Chained
  <2>1. n \in 1..Len(order) /\ a = order[n] /\ a # j
    BY <1>3, <1>9
  <2>2. CASE n # Len(order)
    <3>1. n \in 1..(Len(order) - 1) /\ n + 1 \in 1..Len(order) /\ b = order[n + 1] /\ b # j
      BY <1>3, <1>9, <2>1, <2>2
    <3>2. InOrder(n)
      BY <1>3, <3>1 DEF InOrder
    <3>3. Link(a, b)
      BY <1>1, <2>1, <3>1, <3>2 DEF Exact, Chained, Beginning
    <3>4. QED
      BY <1>7, <2>1, <3>1, <3>3, LinkKept
  <2>3. CASE n = Len(order)
    <3>1. b = j /\ order # <<>>
      BY <1>3, <2>1, <2>3
    <3>2. Ends(a)
      BY <1>1, <2>1, <2>3, <3>1 DEF Exact, Latest
    <3>3. ASSUME NEW w \in Looks, NEW v \in Looks, Memo(a, w)', Memo(j, v)'
          PROVE  Restores(fs', Mine(a)', v, w)
      <4>1. v = Now(a)
        BY <1>7, <1>8, <3>3
      <4>2. Memo(a, w)
        BY <1>7, <2>1, <3>3 DEF SameMemo
      <4>3. QED
        BY <1>1, <1>6, <3>2, <4>1, <4>2 DEF Ends
    <3>4. QED
      BY <3>1, <3>3 DEF Link
  <2>4. QED
    BY <2>2, <2>3
<1>13. Latest'
  <2>1. ASSUME NEW w \in Looks, Memo(j, w)' PROVE Restores(fs', Mine(j)', Now(j)', w)
    <3>1. \A p \in Visible : w[p] = fs'[p]
      BY <1>1, <1>8, <2>1 DEF Look
    <3>2. \A p \in Visible : NowAt(j, p)' = fs'[p]
      BY <1>2 DEF NowAt, Staging
    <3>3. \A p \in Visible : Now(j)'[p] = w[p]
      BY <3>1, <3>2 DEF Now
    <3>4. QED
      BY <1>6, <3>3 DEF Restores
  <2>2. QED
    BY <1>3, <2>1 DEF Latest, Ends
<1>14. ThreadKnows(j)'
  BY <1>2, <1>3, <1>6 DEF ThreadKnows, Aimed, Staging
<1>15. QED
  BY <1>4, <1>10, <1>11, <1>12, <1>13, <1>14 DEF Exact

\* A record is added to a tab: the others are old ones.
LEMMA PushedFrom ==
  ASSUME FilesInv, NEW tab \in Tabs, NEW record \in Record, Push(tab, record),
         NEW t \in Tabs, NEW n \in 1..Len(history'[t])
  PROVE  history'[t][n] = record \/ \E m \in 1..Len(history[t]) : history'[t][n] = history[t][m]
<1>1. PICK k \in {0, 1} :
        /\ k <= Len(history[tab]) /\ Len(history'[tab]) = Len(history[tab]) - k + 1
        /\ \A m \in 1..(Len(history[tab]) - k) : history'[tab][m] = history[tab][m + k]
        /\ history'[tab][Len(history[tab]) - k + 1] = record
        /\ \A u \in Tabs \ {tab} : history'[u] = history[u]
  BY PushDoes
<1>2. Len(history[tab]) \in Nat
  BY RecordAt
<1>3. CASE t # tab
  BY <1>1, <1>3
<1>4. CASE t = tab /\ n = Len(history[tab]) - k + 1
  BY <1>1, <1>4
<1>5. CASE t = tab /\ n # Len(history[tab]) - k + 1
  <2>1. n \in 1..(Len(history[tab]) - k) /\ n + k \in 1..Len(history[tab])
    BY <1>1, <1>2, <1>5
  <2>2. QED
    BY <1>1, <1>5, <2>1
<1>6. QED
  BY <1>3, <1>4, <1>5

\* The latest transfer leaves the order, with nothing left to undo: what is there
\* is what it found, and what the one before it left.
LEMMA CutExact ==
  ASSUME FilesInv, Places, Exact, NEW j \in Jobs, order # <<>>, order[Len(order)] = j,
         order' \in Seq(Jobs \cup {OutOfOrder}), Len(order') = Len(order) - 1,
         \A n \in 1..(Len(order) - 1) : order'[n] = order[n],
         NEW v \in Looks, Memo(j, v), \A p \in Visible : v[p] = fs[p] /\ fs'[p] = fs[p],
         undo' = NoUndo, \A k \in Jobs : SameMemo(k) /\ SameSteps(k) /\ (k # j => ~Beginning(k)),
         \A k \in Jobs : ~Operating(k)' /\ (job[k].pc # "idle" => job'[k].pc # "idle"),
         Waiting' \subseteq Waiting
  PROVE  Exact'
<1>1. order \in Seq(Jobs \cup {OutOfOrder}) /\ Len(order) \in Nat \ {0}
  <2>1. order \in Seq(Jobs \cup {OutOfOrder})
    BY DEF FilesInv, Typed, GhostsTyped
  <2>2. QED
    BY <2>1, EmptySeq
<1>2. ASSUME NEW n \in 1..(Len(order) - 1), order[n] \in Jobs PROVE order[n] # j
  <2>1. n \in 1..Len(order) /\ Len(order) \in 1..Len(order) /\ n # Len(order)
    BY <1>1
  <2>2. QED
    BY <2>1 DEF Exact, OrderOnce
<1>3. ASSUME NEW n \in 1..(Len(order) - 1), NEW a \in Jobs, NEW b \in Jobs,
             a = order[n], b = order[n + 1],
             \A m \in n..(Len(order) - 1) : order[m] # OutOfOrder
      PROVE  Link(a, b) /\ a # j
  <2>1. ASSUME NEW m \in n..Len(order) PROVE order[m] # OutOfOrder
    <3>1. m \in n..(Len(order) - 1) \/ m = Len(order)
      BY <1>1
    <3>2. QED
      BY <1>3, <3>1, FilesAssumption
  <2>2. a # j /\ ~Beginning(a)
    BY <1>2, <1>3
  <2>3. QED
    BY <1>3, <2>1, <2>2 DEF Exact, Chained, InOrder
<1>4. StepsApart'
  BY FewerApart DEF Exact
<1>5. OrderOnce'
  <2> SUFFICES ASSUME NEW n \in 1..Len(order'), order'[n] \in Jobs
               PROVE  job'[order'[n]].pc # "idle" /\ \A m \in 1..Len(order') : order'[m] = order'[n] => m = n
    BY DEF OrderOnce
  <2>1. n \in 1..Len(order) /\ order'[n] = order[n]
    BY <1>1
  <2>2. job[order[n]].pc # "idle" /\ \A m \in 1..Len(order) : order[m] = order[n] => m = n
    BY <2>1 DEF Exact, OrderOnce
  <2>3. \A m \in 1..Len(order') : m \in 1..Len(order) /\ order'[m] = order[m]
    BY <1>1
  <2>4. QED
    BY <2>1, <2>2, <2>3
<1>6. Chained'
  <2> SUFFICES ASSUME NEW n \in 1..(Len(order') - 1), NEW a \in Jobs, NEW b \in Jobs,
                      InOrder(n)', a = order'[n], b = order'[n + 1]
               PROVE  Link(a, b)'
    BY DEF Chained
  <2>1. n \in 1..(Len(order) - 1) /\ n + 1 \in 1..(Len(order) - 1)
    BY <1>1
  <2>2. \A m \in n..(Len(order) - 1) : order[m] # OutOfOrder
    BY <1>1, <2>1 DEF InOrder
  <2>3. Link(a, b)
    BY <1>3, <2>1, <2>2
  <2>4. QED
    BY <2>3, LinkKept
<1>7. Latest'
  <2> SUFFICES ASSUME NEW a \in Jobs, order' # <<>>, a = order'[Len(order')], NEW w \in Looks, Memo(a, w)'
               PROVE  Restores(fs', Mine(a)', Now(a)', w)
    BY DEF Latest, Ends
  <2>1. Len(order) - 1 \in 1..(Len(order) - 1) /\ a = order[Len(order) - 1]
    <3>1. Len(order') # 0
      BY EmptySeq
    <3>2. QED
      BY <1>1, <3>1
  <2>2. Link(a, j)
    <3>1. \A m \in (Len(order) - 1)..(Len(order) - 1) : order[m] # OutOfOrder
      BY <1>1, <2>1, FilesAssumption
    <3>2. j = order[(Len(order) - 1) + 1]
      BY <1>1
    <3>3. QED
      BY <1>3, <2>1, <3>1, <3>2
  <2>3. Restores(fs, Mine(a), v, w)
    BY <2>2 DEF Link, SameMemo
  <2>4. Mine(a)' = Mine(a) /\ \A s \in Mine(a) : IsBackup(s) => fs'[Backup(s)] = fs[Backup(s)]
    BY DEF SameSteps
  <2>5. Restores(fs', Mine(a), v, w)
    BY <2>3, <2>4, RestoresKept
  <2>6. \A p \in Visible : NowAt(a, p)' = fs'[p]
    BY DEF NowAt, Operating, Staging
  <2>7. Now(a)' = v
    BY <2>6 DEF Now, Looks
  <2>8. QED
    BY <2>4, <2>5, <2>7
<1>8. QED
  BY <1>4, <1>5, <1>6, <1>7 DEF Exact

\* The front of a sequence.
LEMMA FrontKeeps ==
  ASSUME NEW S, NEW s \in Seq(S), s # <<>>
  PROVE  Len(Front(s)) = Len(s) - 1 /\ \A n \in 1..(Len(s) - 1) : Front(s)[n] = s[n]
<1>1. Len(s) \in Nat \ {0} /\ \A i \in 1..Len(s) : s[i] \in S
  BY EmptySeq, ElementOfSeq, LenProperties
<1> DEFINE m == Len(s) - 1
<1>2. m \in Nat /\ \A i \in 1..m : s[i] \in S
  BY <1>1
<1>3. \A n \in 1..(m - 1 + 1) : SubSeq(s, 1, m)[n] = s[1 + n - 1]
  <2> HIDE DEF m
  <2>1. QED
    BY <1>2, SubSeqProperties
<1>4. \A n \in 1..m : Front(s)[n] = s[n]
  <2> HIDE DEF m
  <2>1. \A n \in 1..m : n \in 1..(m - 1 + 1) /\ 1 + n - 1 = n
    BY <1>2
  <2>2. Front(s) = SubSeq(s, 1, m)
    BY DEF Front, m
  <2>3. QED
    BY <1>3, <2>1, <2>2
<1>5. QED
  BY <1>4, LastIn

\* The window learns of the only transfer: its record remembers what the thread
\* did.
LEMMA ReportExact ==
  ASSUME FilesInv, FilesInv', Places, Exact, ~overlapped, NEW j \in Jobs, Report(j)
  PROVE  Exact'
<1>1. /\ job[j].pc = "report" /\ Operating(j) /\ undo' = undo
      /\ job' = [job EXCEPT ![j] = [pc |-> "done"]]
  BY DEF Report, At, Operating
<1>2. job[j] \in Live /\ job'[j].pc = "done" /\ \A k \in Jobs \ {j} : job'[k] = job[k]
  BY <1>1, LiveAt DEF FilesInv, Typed, JobsTyped
<1>3. undo = NoUndo /\ (\A k \in Jobs \ {j} : ~Operating(k)) /\ \A k \in Jobs : ~Operating(k)'
  BY <1>1, <1>2 DEF FilesInv, Alone, Operating
<1>4. order # <<>> /\ order[Len(order)] = j
  BY <1>1 DEF Exact, ThreadKnows
<1>5. order \in Seq(Jobs \cup {OutOfOrder}) /\ Len(order) \in Nat \ {0} /\ order' \in Seq(Jobs \cup {OutOfOrder})
  <2>1. order \in Seq(Jobs \cup {OutOfOrder}) /\ order' \in Seq(Jobs \cup {OutOfOrder})
    BY DEF FilesInv, Typed, GhostsTyped
  <2>2. QED
    BY <1>4, <2>1, EmptySeq
<1>6. Ends(j) /\ \A p : NowAt(j, p) = fs[p]
  BY <1>1, <1>3, <1>4 DEF Exact, Latest, NowAt, Staging
<1>7. PICK D \in SUBSET Waiting : Waiting' = Waiting \ D /\ Drop(D) /\ Forgotten(D)
  BY ReportWaits
<1>8. (\A k \in Jobs : SameSteps(k)) /\ \A p \in Visible : fs'[p] = fs[p]
  BY <1>1, <1>3, <1>7, ForgettingKeeps
<1>9. ASSUME NEW t \in Tabs, NEW n \in 1..Len(history'[t])
      PROVE  \/ history'[t][n].job = j /\ history'[t][n].was = job[j].was
             \/ \E m \in 1..Len(history[t]) : history'[t][n] = history[t][m]
  <2>1. CASE job[j].steps = <<>>
    BY <2>1 DEF Report
  <2>2. CASE job[j].steps # <<>>
    <3> DEFINE record == [job |-> j, steps |-> Reverse(job[j].steps), was |-> job[j].was]
    <3>1. Push(job[j].tab, record) /\ job[j].tab \in Tabs
      BY <1>2, <2>2 DEF Report, Live
    <3>2. record \in Record
      BY <1>2, ReverseIn DEF Live, Record
    <3>3. history'[t][n] = record \/ \E m \in 1..Len(history[t]) : history'[t][n] = history[t][m]
      BY <3>1, <3>2, PushedFrom
    <3>4. QED
      BY <3>3
  <2>3. QED
    BY <2>1, <2>2
<1>10. ASSUME NEW k \in Jobs PROVE SameMemo(k) /\ ~Beginning(k)
  <2>1. ASSUME NEW w, Memo(k, w)' PROVE Memo(k, w)
    <3>1. PICK t \in Tabs : \E n \in 1..Len(history'[t]) : history'[t][n].job = k /\ history'[t][n].was = w
      BY <1>1, <1>3, <2>1 DEF Memo
    <3>2. PICK n \in 1..Len(history'[t]) : history'[t][n].job = k /\ history'[t][n].was = w
      BY <3>1
    <3>3. QED
      BY <1>1, <1>9, <3>2 DEF Memo
  <2>2. QED
    BY <1>3, <2>1 DEF SameMemo, Beginning
<1>11. CASE job[j].steps = <<>>
  <2>1. PICK i \in DOMAIN order : order[i] = j /\ order' = RemoveAt(order, i)
    BY <1>11 DEF Report
  <2>2. i = Len(order)
    <3>1. i \in 1..Len(order) /\ Len(order) \in 1..Len(order)
      BY <1>5
    <3>2. QED
      BY <1>4, <2>1, <3>1 DEF Exact, OrderOnce
  <2>3. Len(order') = Len(order) - 1 /\ \A n \in 1..(Len(order) - 1) : order'[n] = order[n]
    BY <1>5, <2>1, <2>2 DEF RemoveAt
  <2>4. job[j].was \in Looks /\ Memo(j, job[j].was)
    BY <1>1, <1>2 DEF Live, Memo
  <2>5. Mine(j) = {}
    <3>1. ASSUME NEW s \in Mine(j) PROVE Among(s, <<>>)
      BY <1>1, <1>11, WaitingAt DEF Mine
    <3>2. QED
      BY <3>1 DEF Among
  <2>6. \A p \in Visible : job[j].was[p] = fs[p]
    <3>1. Restores(fs, {}, Now(j), job[j].was)
      BY <1>6, <2>4, <2>5 DEF Ends
    <3>2. QED
      BY <1>6, <3>1 DEF Restores, Now
  <2>7. \A k \in Jobs : job[k].pc # "idle" => job'[k].pc # "idle"
    BY <1>2
  <2>8. QED
    BY <1>1, <1>3, <1>4, <1>5, <1>7, <1>8, <1>10, <2>3, <2>4, <2>6, <2>7, CutExact
<1>12. CASE job[j].steps # <<>>
  <2>1. order' = order
    BY <1>12 DEF Report
  <2>2. StepsApart'
    BY <1>7, FewerApart DEF Exact
  <2>3. OrderOnce'
    BY <1>2, <2>1 DEF Exact, OrderOnce
  <2>4. Chained'
    BY <1>8, <1>10, <2>1, ChainKept DEF Exact
  <2>5. \A p \in Visible : NowAt(j, p)' = NowAt(j, p)
    BY <1>2, <1>6, <1>8 DEF NowAt, Staging
  <2>6. Ends(j)'
    BY <1>6, <1>8, <1>10, <2>5, EndsKept
  <2>7. Latest'
    BY <1>4, <2>1, <2>6 DEF Latest
  <2>8. QED
    BY <1>3, <2>2, <2>3, <2>4, <2>7 DEF Exact
<1>13. QED
  BY <1>11, <1>12

\* Undo begins, alone: it remembers what the record did.
LEMMA BeginUndoExact ==
  ASSUME FilesInv, FilesInv', Places, Exact, ~overlapped', NEW tab \in Tabs, BeginUndo(tab)
  PROVE  Exact'
<1>1. /\ undo = NoUndo /\ history[tab] # <<>> /\ job' = job /\ order' = order /\ UNCHANGED disk
      /\ undo'.job = Last(history[tab]).job /\ undo'.was = Last(history[tab]).was
      /\ history' = [history EXCEPT ![tab] = Front(@)]
      /\ \A k \in Jobs : ~Operating(k) /\ ~Operating(k)'
  BY DEF BeginUndo, Busy, Operating
<1>2. Waiting' = Waiting
  BY BeginUndoWaits
<1>3. fs' = fs
  BY <1>1 DEF disk
<1>4. /\ history[tab] \in Seq(Record) /\ Len(history[tab]) \in 1..Len(history[tab])
      /\ Last(history[tab]) = history[tab][Len(history[tab])]
  <2>1. history[tab] \in Seq(Record)
    BY RecordAt
  <2>2. Len(history[tab]) \in Nat \ {0}
    BY <1>1, <2>1, EmptySeq
  <2>3. QED
    BY <2>1, <2>2 DEF Last
<1>5. ASSUME NEW t \in Tabs, NEW n \in 1..Len(history'[t])
      PROVE  n \in 1..Len(history[t]) /\ history'[t][n] = history[t][n]
  <2>1. CASE t # tab
    BY <1>1, <2>1 DEF FilesInv, Typed, WindowTyped
  <2>2. CASE t = tab
    <3>1. history'[t] = Front(history[t])
      BY <1>1, <2>2 DEF FilesInv, Typed, WindowTyped
    <3>2. QED
      BY <1>4, <2>2, <3>1 DEF Front
  <2>3. QED
    BY <2>1, <2>2
<1>6. ASSUME NEW k \in Jobs PROVE SameMemo(k) /\ SameSteps(k) /\ ~Beginning(k)
  <2>1. ASSUME NEW w, Memo(k, w)' PROVE Memo(k, w)
    <3>1. CASE \E t \in Tabs : \E n \in 1..Len(history'[t]) : history'[t][n].job = k /\ history'[t][n].was = w
      BY <1>5, <3>1 DEF Memo
    <3>2. CASE undo' # NoUndo /\ undo'.job = k /\ undo'.was = w
      BY <1>1, <1>4, <3>2 DEF Memo
    <3>3. QED
      BY <1>1, <2>1, <3>1, <3>2 DEF Memo
  <2>2. QED
    BY <1>1, <1>2, <1>3, <2>1 DEF SameMemo, SameSteps, Beginning, Mine
<1>7. StepsApart'
  BY <1>2, FewerApart DEF Exact
<1>8. OrderOnce'
  BY <1>1 DEF Exact, OrderOnce
<1>9. Chained'
  BY <1>1, <1>6, ChainKept DEF Exact
<1>10. Latest'
  <2> SUFFICES ASSUME NEW j \in Jobs, order # <<>>, j = order[Len(order)] PROVE Ends(j)'
    BY <1>1 DEF Latest
  <2>1. Ends(j)
    BY <1>1 DEF Exact, Latest
  <2>2. \A p \in Visible : NowAt(j, p)' = NowAt(j, p)
    BY <1>1, <1>3 DEF NowAt, Src, Replaced
  <2>3. QED
    BY <1>6, <2>1, <2>2, EndsKept
<1>11. QED
  BY <1>1, <1>7, <1>8, <1>9, <1>10 DEF Exact

\* A step of undo is about its own paths.
LEMMA UndoElsewhere ==
  ASSUME FilesInv, UndoTick, NEW p \in Paths,
         p \notin {InHand.dest, Origin(InHand), Backup(InHand), Displaced(InHand)}
  PROVE  fs'[p] = fs[p]
<1> DEFINE s == InHand
           own == {s.dest, Origin(s), Backup(s), Displaced(s)}
<1>1. PICK at : UndoAt(at)
  BY DEF UndoTick, UndoRemove, UndoMove, UndoCarry, UndoDisplace, UndoFill, UndoDrop, UndoRefused
<1>2. /\ fs \in [Paths -> Visible \cup {Absent}] /\ p \notin own
      /\ s.dest \in own /\ Origin(s) \in own /\ Backup(s) \in own /\ Displaced(s) \in own
  BY <1>1, AsidePaths
<1> HIDE DEF s, own
<1>3. ASSUME NEW from \in own, NEW to \in own, Rename(from, to) PROVE fs'[p] = fs[p]
  BY <1>2, <1>3 DEF Rename
<1>4. ASSUME NEW q \in own, RemovePaths({q}) \/ RemoveHalf(q) PROVE fs'[p] = fs[p]
  BY <1>2, <1>4 DEF RemovePaths, RemoveHalf
<1>5. CASE UndoRemove \/ UndoDrop \/ UndoRefused
  BY <1>2, <1>4, <1>5 DEF UndoRemove, UndoDrop, UndoRefused, disk, s
<1>6. CASE UndoMove
  BY <1>2, <1>3, <1>6 DEF UndoMove, s
<1>7. CASE UndoCarry
  BY <1>2, <1>4, <1>7 DEF UndoCarry, s
<1>8. CASE UndoDisplace \/ UndoFill
  BY <1>2, <1>3, <1>8 DEF UndoDisplace, UndoFill, disk, s
<1>9. QED
  BY <1>5, <1>6, <1>7, <1>8 DEF UndoTick

\* Between two steps of undo there is nothing to take back.
LEMMA CalmBetween ==
  ASSUME NEW d, NEW x, NEW p \in Paths
  PROVE  CalmOf(d, "step", x)[p] = d[p]
BY DEF CalmOf

\* What a step of undo does, but for where what it displaces goes: as long as it is
\* not done, it is as if it had not begun.
Unmoved ==
  /\ Waiting' = Waiting
  /\ \A p \in Paths : p # Displaced(InHand) => Calm'[p] = Calm[p]
Undone ==
  /\ Waiting' = Waiting \ {InHand} /\ undo'.at = "step"
  /\ Calm'[InHand.dest] = Under(Calm, InHand)
  /\ Moved(InHand) => Calm'[Origin(InHand)] = Calm[InHand.dest]
  /\ \A p \in Paths \ {InHand.dest, Backup(InHand), Displaced(InHand)} :
       (Moved(InHand) => p # Origin(InHand)) => Calm'[p] = Calm[p]

LEMMA UndoTickShows ==
  ASSUME FilesInv, Places, Restoring, AtHand, ~overlapped, halfway' = {}, UndoTick,
         InHand.dest # Origin(InHand)
  PROVE  AtHand' /\ (Unmoved \/ Undone)
<1> DEFINE s == InHand
           d == s.dest
           src == Origin(s)
           b == Backup(s)
           away == Displaced(s)
<1>1. PICK at : UndoAt(at)
  BY DEF UndoTick, UndoRemove, UndoMove, UndoCarry, UndoDisplace, UndoFill, UndoDrop, UndoRefused
<1>2. /\ fs \in [Paths -> Visible \cup {Absent}] /\ d \in Paths /\ src \in Paths /\ b \in Paths /\ away \in Paths
      /\ d # src /\ d # b /\ d # away /\ src # b /\ src # away /\ b # away
      /\ s.kind \in Kind /\ undo.at = at /\ undo.item \in Visible \cup {Absent} /\ s.item \in Visible \cup {Absent}
  BY <1>1, StepInHand, AsidePaths DEF UndoAt, Step
<1>3. (Moved(s) <=> s.kind \in {"move_back", "restore_move"}) /\ (IsBackup(s) <=> s.kind \in {"restore_copy", "restore_move"})
  BY DEF Moved, IsBackup
<1>4. /\ at = "carry" => Moved(s) /\ src \in torn /\ fs[src] = undo.item /\ fs[d] = undo.item /\ undo.item # Absent
      /\ at = "fill" => s.kind \in {"restore_copy", "restore_move"} /\ fs[d] = Absent
      /\ at = "fill" /\ Moved(s) => fs[src] # Absent
      /\ at \in {"fill", "drop"} /\ s.kind = "restore_copy" => fs[away] # Absent
      /\ at = "drop" => s.kind # "remove"
      /\ at = "drop" /\ Moved(s) => fs[src] = fs[d] /\ fs[d] # Absent
  BY <1>2, <1>3 DEF AtHand, Restoring, Taken, FilesInv, ClearToFill
<1>5. /\ Calm = CalmOf(fs, at, s)
      /\ \A p \in Paths :
           CalmOf(fs, at, s)[p] =
             CASE at # "step" /\ Moved(s) /\ p = src -> Absent
               [] at = "fill" /\ Moved(s) /\ p = d -> fs[src]
               [] at \in {"fill", "drop"} /\ ~Moved(s) /\ p = d -> fs[away]
               [] at = "drop" /\ ~Moved(s) /\ p = b -> fs[d]
               [] OTHER -> fs[p]
  BY <1>2 DEF Calm, CalmOf
<1> HIDE DEF s, d, src, b, away
\* The step goes on.
<1>6. ASSUME NEW to \in {"carry", "fill", "drop"}, NEW item \in Visible \cup {Absent}, StepGoes(to, item),
             \A p \in Paths : p # away => CalmOf(fs', to, s)[p] = CalmOf(fs, at, s)[p],
             to = "carry" => src \in torn' /\ fs'[src] = item /\ fs'[d] = item /\ item # Absent,
             to = "fill" /\ Moved(s) => fs'[src] # Absent,
             to = "drop" /\ Moved(s) => fs'[src] = fs'[d] /\ fs'[d] # Absent
      PROVE  AtHand' /\ Unmoved
  <2>1. Waiting' = Waiting /\ undo'.at = to /\ undo'.item = item /\ InHand' = InHand
    BY <1>1, <1>6, GoesWaits
  <2>2. Calm' = CalmOf(fs', to, s)
    BY <2>1 DEF Calm, s, CalmOf
  <2>3. Unmoved
    BY <1>5, <1>6, <2>1, <2>2 DEF Unmoved, away, s
  <2>4. AtHand'
    BY <1>6, <2>1 DEF AtHand, Taken, Moved, Origin, src, d, s
  <2>5. QED
    BY <2>3, <2>4
\* It has failed.
<1>7. ASSUME StepFails, \A p \in Paths : p # away => fs'[p] = CalmOf(fs, at, s)[p]
      PROVE  AtHand' /\ Unmoved
  <2>1. Waiting' = Waiting /\ undo'.at = "step"
    BY <1>1, <1>7, FailsWaits
  <2>2. \A p \in Paths : Calm'[p] = fs'[p]
    BY <2>1 DEF Calm, CalmOf
  <2>3. QED
    BY <1>5, <1>7, <2>1, <2>2 DEF Unmoved, AtHand, away, s
\* It is done.
<1>8. ASSUME StepDone,
             fs'[d] = IF IsBackup(s) THEN CalmOf(fs, at, s)[b] ELSE Absent,
             Moved(s) => fs'[src] = CalmOf(fs, at, s)[d],
             \A p \in Paths \ {d, b, away} : (Moved(s) => p # src) => fs'[p] = CalmOf(fs, at, s)[p]
      PROVE  AtHand' /\ Undone
  <2>1. Waiting' = Waiting \ {InHand} /\ undo'.at = "step"
    BY <1>1, <1>8, DoneWaits
  <2>2. \A p \in Paths : Calm'[p] = fs'[p]
    BY <2>1 DEF Calm, CalmOf
  <2>3. QED
    BY <1>2, <1>5, <1>8, <2>1, <2>2 DEF Undone, AtHand, Under, away, b, src, d, s
<1>9. ASSUME NEW p, RemoveHalf(p) PROVE FALSE
  BY <1>9 DEF RemoveHalf
<1>10. CASE UndoRemove
  <2>1. at = "step" /\ s.kind = "remove" /\ RemovePaths({d}) /\ StepDone
    BY <1>2, <1>9, <1>10 DEF UndoRemove, UndoAt, d, s
  <2>2. QED
    BY <1>2, <1>3, <1>5, <1>8, <2>1 DEF RemovePaths
<1>11. CASE UndoMove
  <2>1. /\ at = "step" /\ Moved(s) /\ fs[src] = Absent /\ fs[d] # Absent
        /\ \/ Rename(d, src) /\ s.kind = "move_back" /\ StepDone
           \/ Rename(d, src) /\ s.kind = "restore_move" /\ StepGoes("fill", Absent)
           \/ /\ fs' = [fs EXCEPT ![src] = fs[d]] /\ torn' = torn \cup {src} /\ d \notin torn
              /\ StepGoes("carry", fs[d])
    BY <1>2, <1>3, <1>11 DEF UndoMove, UndoAt, Taken, d, src, s
  <2>2. CASE Rename(d, src) /\ s.kind = "move_back" /\ StepDone
    <3>1. fs' = [fs EXCEPT ![d] = Absent, ![src] = fs[d]]
      BY <2>2 DEF Rename
    <3>2. QED
      BY <1>2, <1>3, <1>5, <1>8, <2>1, <2>2, <3>1
  <2>3. CASE Rename(d, src) /\ s.kind = "restore_move" /\ StepGoes("fill", Absent)
    <3>1. fs' = [fs EXCEPT ![d] = Absent, ![src] = fs[d]]
      BY <2>3 DEF Rename
    <3>2. \A p \in Paths : CalmOf(fs', "fill", s)[p] = CalmOf(fs, at, s)[p]
      BY <1>2, <2>1, <3>1 DEF CalmOf, d, src
    <3>3. fs'[src] # Absent
      BY <1>2, <2>1, <3>1
    <3>4. QED
      BY <1>6, <2>3, <3>2, <3>3
  <2>4. CASE /\ fs' = [fs EXCEPT ![src] = fs[d]] /\ torn' = torn \cup {src}
             /\ StepGoes("carry", fs[d])
    <3>1. \A p \in Paths : CalmOf(fs', "carry", s)[p] = CalmOf(fs, at, s)[p]
      BY <1>2, <2>1, <2>4 DEF CalmOf, d, src
    <3>2. src \in torn' /\ fs'[src] = fs[d] /\ fs'[d] = fs[d] /\ fs[d] \in Visible \cup {Absent}
      BY <1>2, <2>4
    <3>3. QED
      BY <1>6, <2>1, <2>4, <3>1, <3>2
  <2>5. QED
    BY <2>1, <2>2, <2>3, <2>4
<1>12. CASE UndoCarry
  <2>1. at = "carry" /\ src \in torn /\ fs[src] = undo.item
    BY <1>2, <1>4, <1>12 DEF UndoCarry, UndoAt
  <2>2. \/ fs' = fs /\ StepGoes("drop", undo.item)
        \/ RemovePaths({src}) /\ StepFails
    BY <1>4, <1>12, <2>1 DEF UndoCarry, src, s
  <2>3. CASE fs' = fs /\ StepGoes("drop", undo.item)
    <3>1. \A p \in Paths : CalmOf(fs', "drop", s)[p] = CalmOf(fs, at, s)[p]
      BY <1>2, <1>4, <2>1, <2>3 DEF CalmOf
    <3>2. QED
      BY <1>2, <1>4, <1>6, <2>1, <2>3, <3>1
  <2>4. CASE RemovePaths({src}) /\ StepFails
    BY <1>2, <1>4, <1>5, <1>7, <2>1, <2>4 DEF RemovePaths
  <2>5. QED
    BY <2>2, <2>3, <2>4
<1>13. CASE UndoDisplace
  <2>1. at = "step" /\ ~Moved(s) /\ Rename(d, away) /\ StepGoes("fill", Absent)
    BY <1>2, <1>3, <1>13 DEF UndoDisplace, UndoAt, d, away, s
  <2>2. fs' = [fs EXCEPT ![d] = Absent, ![away] = fs[d]]
    BY <2>1 DEF Rename
  <2>3. \A p \in Paths : p # away => CalmOf(fs', "fill", s)[p] = CalmOf(fs, at, s)[p]
    BY <1>2, <2>1, <2>2 DEF CalmOf, d, away
  <2>4. QED
    BY <1>6, <2>1, <2>3
<1>14. CASE UndoFill
  <2>1. /\ at = "fill"
        /\ \/ Rename(b, d) /\ ~Moved(s) /\ StepGoes("drop", s.item)
           \/ Rename(b, d) /\ s.kind = "restore_move" /\ StepDone
           \/ ~Moved(s) /\ Rename(away, d) /\ StepFails
           \/ Moved(s) /\ Rename(src, d) /\ StepFails
    BY <1>2, <1>3, <1>4, <1>14 DEF UndoFill, UndoAt, Taken, b, d, away, src, s
  <2>2. CASE Rename(b, d) /\ ~Moved(s) /\ StepGoes("drop", s.item)
    <3>1. fs' = [fs EXCEPT ![b] = Absent, ![d] = fs[b]]
      BY <2>2 DEF Rename
    <3>2. \A p \in Paths : CalmOf(fs', "drop", s)[p] = CalmOf(fs, at, s)[p]
      BY <1>2, <2>1, <2>2, <3>1 DEF CalmOf, b, d, away
    <3>3. QED
      BY <1>2, <1>6, <2>2, <3>2
  <2>3. CASE Rename(b, d) /\ s.kind = "restore_move" /\ StepDone
    <3>1. fs' = [fs EXCEPT ![b] = Absent, ![d] = fs[b]]
      BY <2>3 DEF Rename
    <3>2. QED
      BY <1>2, <1>3, <1>5, <1>8, <2>1, <2>3, <3>1
  <2>4. CASE ~Moved(s) /\ Rename(away, d) /\ StepFails
    <3>1. fs' = [fs EXCEPT ![away] = Absent, ![d] = fs[away]]
      BY <2>4 DEF Rename
    <3>2. QED
      BY <1>2, <1>5, <1>7, <2>1, <2>4, <3>1
  <2>5. CASE Moved(s) /\ Rename(src, d) /\ StepFails
    <3>1. fs' = [fs EXCEPT ![src] = Absent, ![d] = fs[src]]
      BY <2>5 DEF Rename
    <3>2. QED
      BY <1>2, <1>5, <1>7, <2>1, <2>5, <3>1
  <2>6. QED
    BY <2>1, <2>2, <2>3, <2>4, <2>5
<1>15. CASE UndoDrop
  <2>1. /\ at = "drop"
        /\ \/ ~Moved(s) /\ s.kind = "restore_copy" /\ RemovePaths({away}) /\ StepDone
           \/ s.kind = "move_back" /\ RemovePaths({d}) /\ StepDone
           \/ s.kind = "restore_move" /\ RemovePaths({d}) /\ StepGoes("fill", Absent)
    BY <1>2, <1>3, <1>4, <1>9, <1>15 DEF UndoDrop, UndoAt, Kind, d, away, s
  <2>2. CASE ~Moved(s) /\ s.kind = "restore_copy" /\ RemovePaths({away}) /\ StepDone
    BY <1>2, <1>3, <1>5, <1>8, <2>1, <2>2 DEF RemovePaths
  <2>3. CASE s.kind = "move_back" /\ RemovePaths({d}) /\ StepDone
    BY <1>2, <1>3, <1>4, <1>5, <1>8, <2>1, <2>3 DEF RemovePaths
  <2>4. CASE s.kind = "restore_move" /\ RemovePaths({d}) /\ StepGoes("fill", Absent)
    <3>1. Moved(s) /\ \A p \in Paths : fs'[p] = IF p = d THEN Absent ELSE fs[p]
      BY <1>3, <2>4 DEF RemovePaths
    <3>2. \A p \in Paths : CalmOf(fs', "fill", s)[p] = CalmOf(fs, at, s)[p]
      BY <1>2, <1>4, <2>1, <3>1 DEF CalmOf, d, src
    <3>3. fs'[src] # Absent
      BY <1>2, <1>4, <2>1, <3>1
    <3>4. QED
      BY <1>6, <2>4, <3>2, <3>3
  <2>5. QED
    BY <2>1, <2>2, <2>3, <2>4
<1>16. CASE UndoRefused
  <2>1. at = "step" /\ fs' = fs /\ StepFails
    BY <1>2, <1>16 DEF UndoRefused, UndoAt, disk
  <2>2. QED
    BY <1>2, <1>5, <1>7, <2>1
<1>17. QED
  BY <1>10, <1>11, <1>12, <1>13, <1>14, <1>15, <1>16 DEF UndoTick

\* What is left of the latest transfer's steps restores what it found, in the
\* middle of a step too.
LEMMA Underway ==
  ASSUME FilesInv, Places, Exact, Midway, undo # NoUndo, \A k \in Jobs : ~Operating(k),
         order # <<>>, order[Len(order)] = undo.job
  PROVE  Restores(Calm, Mine(undo.job), Calm, undo.was)
<1>1. CASE undo.at # "step"
  BY <1>1 DEF Midway
<1>2. CASE undo.at = "step"
  <2>1. undo.job \in Jobs /\ undo.was \in Looks /\ Memo(undo.job, undo.was)
    BY UndoTyped DEF Undoing, Memo
  <2>2. Restores(fs, Mine(undo.job), Now(undo.job), undo.was)
    BY <1>2, <2>1 DEF Exact, Latest, Ends
  <2>3. \A p \in Visible : p \in Paths /\ Now(undo.job)[p] = fs[p]
    BY <2>1, NowIdle DEF Now, Paths
  <2>4. \A p \in Paths : Calm[p] = fs[p]
    BY <1>2, CalmBetween DEF Calm
  <2>5. \A s \in Mine(undo.job) : /\ s.dest \in Visible /\ Origin(s) \in Visible /\ Backup(s) \in Paths
    BY StepPaths DEF Mine
  <2>6. QED
    BY <2>2, <2>3, <2>4, <2>5 DEF Restores, Under
<1>3. QED
  BY <1>1, <1>2

\* A step of undo: what is left to do restores the rest.
LEMMA UndoTickExact ==
  ASSUME FilesInv, FilesInv', Places, Restoring, Exact, Midway, DistinctNames, ~overlapped, halfway' = {}, UndoTick
  PROVE  Exact' /\ Midway'
<1> DEFINE x == InHand
<1>0. PICK at : UndoAt(at)
  BY DEF UndoTick, UndoRemove, UndoMove, UndoCarry, UndoDisplace, UndoFill, UndoDrop, UndoRefused
<1>1. /\ undo # NoUndo /\ undo \in Undoing /\ job' = job /\ history' = history /\ order' = order
      /\ undo' # NoUndo /\ undo'.job = undo.job /\ undo'.was = undo.was
  <2>1. /\ undo \in Undoing /\ undo # NoUndo
        /\ (\E to \in {"carry", "fill", "drop"} : \E item \in Visible \cup {Absent} : StepGoes(to, item)) \/ StepDone \/ StepFails
    <3>1. /\ undo \in Undoing /\ undo # NoUndo /\ fs \in [Paths -> Visible \cup {Absent}] /\ InHand.dest \in Paths
          /\ undo.item \in Visible \cup {Absent} /\ InHand.item \in Visible \cup {Absent}
      BY <1>0, StepInHand, AsidePaths DEF UndoAt, Paths
    <3>2. QED
      BY <3>1 DEF UndoTick, UndoRemove, UndoMove, UndoCarry, UndoDisplace, UndoFill, UndoDrop, UndoRefused
  <2>2. UndoOnly /\ undo' \in Undoing
    BY <1>0, <2>1, StepTyped
  <2>3. undo'.job = undo.job /\ undo'.was = undo.was
    BY <1>0, <2>1, GoesWaits, DoneWaits, FailsWaits
  <2>4. QED
    BY <2>1, <2>2, <2>3, UndoFields DEF UndoOnly, ghosts
<1>2. \A k \in Jobs : ~Operating(k) /\ ~Operating(k)'
  BY <1>1 DEF FilesInv, Alone, Operating
<1>3. \A k \in Jobs : \A p : NowAt(k, p) = fs[p] /\ NowAt(k, p)' = fs'[p]
  BY <1>2 DEF NowAt, Operating, Staging
<1>4. ASSUME NEW k, NEW w PROVE Memo(k, w)' <=> Memo(k, w)
  BY <1>1 DEF Memo, Operating
<1>5. \A k \in Jobs : SameMemo(k)
  BY <1>4 DEF SameMemo
<1>6. OrderOnce'
  BY <1>1 DEF Exact, OrderOnce
<1>7. /\ x \in Waiting /\ x.job = undo.job /\ x.job \in Jobs /\ x.root \in 1..Len(Roots[x.job]) /\ x \in Mine(undo.job)
      /\ x.dest \in Visible /\ Origin(x) \in Visible
  <2>1. undo.next \in 1..Len(undo.steps)
    BY <1>0, StepInHand
  <2>2. QED
    BY <1>1, <2>1, InHandWaits, StepPaths DEF Mine
<1>8. PathsApart(Mine(undo.job)) /\ \A s \in Mine(undo.job) : s.dest \in Visible /\ Origin(s) \in Visible
  BY MineApart DEF Exact
<1>9. AtHand /\ x.dest # Origin(x)
  BY <1>7, <1>8 DEF PathsApart, Midway, AtHand
<1>10. AtHand' /\ (Unmoved \/ Undone)
  BY <1>9, UndoTickShows
\* Backups and what is displaced, by the step they are of.
<1>11. /\ \A s \in Waiting : Backup(s) \in Paths \ Visible /\ Backup(s) # Displaced(x) /\ (s # x => Backup(s) # Backup(x))
       /\ Displaced(x) \notin Visible /\ Backup(x) \notin Visible /\ Visible \subseteq Paths
  <2>1. Displaced(x) = GaveWay(x.job, x.root)
    BY DEF Displaced, GaveWay
  <2>2. ASSUME NEW s \in Waiting
        PROVE  s.job \in Jobs /\ s.root \in 1..Len(Roots[s.job]) /\ Backup(s) = Replaced(s.job, s.root)
    BY StepPaths
  <2>3. \A s \in Waiting : Backup(s) \in Paths \ Visible /\ Backup(s) # Displaced(x)
    BY <1>7, <2>1, <2>2, ReplacedPath
  <2>4. ASSUME NEW s \in Waiting, s # x PROVE Backup(s) # Backup(x)
    <3>1. ~(x.job = s.job /\ x.root = s.root)
      BY <1>7, <2>4, WaitsOnce
    <3>2. QED
      BY <1>7, <2>2, <3>1, ReplacedPath
  <2>5. Displaced(x) \notin Visible /\ Backup(x) \notin Visible
    BY <1>7, <2>1, <2>3, ReplacedPath
  <2>6. QED
    BY <2>3, <2>4, <2>5 DEF Paths
<1>12. ASSUME NEW k \in Jobs, k # undo.job PROVE SameSteps(k) /\ ~Beginning(k)
  <2>1. Mine(k)' = Mine(k)
    BY <1>7, <1>10, <1>12 DEF Unmoved, Undone, Mine
  <2>2. ASSUME NEW s \in Mine(k) PROVE fs'[Backup(s)] = fs[Backup(s)]
    <3>1. s \in Waiting /\ s # x
      BY <1>7, <1>12, <2>2 DEF Mine
    <3>2. /\ Backup(s) \in Paths /\ Backup(s) # x.dest /\ Backup(s) # Origin(x)
          /\ Backup(s) # Backup(x) /\ Backup(s) # Displaced(x)
      BY <1>7, <1>11, <3>1
    <3>3. QED
      BY <3>2, UndoElsewhere
  <2>3. QED
    BY <1>12, <2>1, <2>2 DEF SameSteps, Beginning
<1>13. StepsApart'
  <2>1. Waiting' \subseteq Waiting
    BY <1>10 DEF Unmoved, Undone
  <2>2. QED
    BY <2>1, FewerApart DEF Exact
<1>14. Chained'
  BY <1>1, <1>5, <1>12, ChainKept DEF Exact, Beginning
<1>15. ASSUME order # <<>>, order[Len(order)] = undo.job
       PROVE  Restores(Calm', Mine(undo.job)', Calm', undo.was)
  <2>1. Restores(Calm, Mine(undo.job), Calm, undo.was)
    BY <1>1, <1>2, <1>15, Underway
  <2>2. CASE Unmoved
    <3>1. Mine(undo.job)' = Mine(undo.job)
      BY <1>1, <2>2 DEF Unmoved, Mine
    <3>2. \A p \in Visible : Calm'[p] = Calm[p]
      BY <1>11, <2>2 DEF Unmoved
    <3>3. \A s \in Mine(undo.job) : Calm'[Backup(s)] = Calm[Backup(s)]
      BY <1>11, <2>2 DEF Unmoved, Mine
    <3>4. QED
      BY <1>8, <2>1, <3>1, <3>2, <3>3 DEF Restores, Under
  <2>3. CASE Undone
    <3>1. Mine(undo.job)' = Mine(undo.job) \ {x}
      BY <1>1, <2>3 DEF Undone, Mine
    <3>2. /\ Calm'[x.dest] = Under(Calm, x) /\ (Moved(x) => Calm'[Origin(x)] = Calm[x.dest])
          /\ \A p \in Visible : p # x.dest /\ (Moved(x) => p # Origin(x)) => Calm'[p] = Calm[p]
      BY <1>11, <2>3 DEF Undone
    <3>3. \A s \in Mine(undo.job) \ {x} : Calm'[Backup(s)] = Calm[Backup(s)]
      <4>1. ASSUME NEW s \in Mine(undo.job) \ {x} PROVE Calm'[Backup(s)] = Calm[Backup(s)]
        <5>1. s \in Waiting /\ s # x
          BY <4>1 DEF Mine
        <5>2. Backup(s) \in Paths \ {x.dest, Backup(x), Displaced(x)} /\ Backup(s) # Origin(x)
          BY <1>7, <1>11, <5>1
        <5>3. QED
          BY <2>3, <5>2 DEF Undone
      <4>2. QED
        BY <4>1
    <3>4. Restores(Calm', Mine(undo.job) \ {x}, Calm', undo.was)
      BY <1>7, <1>8, <2>1, <3>2, <3>3, RestoresUndone
    <3>5. QED
      BY <3>1, <3>4
  <2>4. QED
    BY <1>10, <2>2, <2>3
<1>16. Midway'
  <2> SUFFICES ASSUME order' # <<>>, order'[Len(order')] = undo'.job
               PROVE  Restores(Calm', Mine(undo.job)', Calm', undo'.was)
    BY <1>10 DEF Midway
  <2>1. QED
    BY <1>1, <1>15
<1>17. Latest'
  <2> SUFFICES ASSUME NEW j \in Jobs, order # <<>>, j = order[Len(order)], undo.job = j, undo'.at = "step",
                      NEW w \in Looks, Memo(j, w)'
               PROVE  Restores(fs', Mine(j)', Now(j)', w)
    BY <1>1 DEF Latest, Ends
  <2>1. w = undo.was
    <3>1. NotRecorded(j)
      BY <1>1 DEF Places, UndoSteps
    <3>2. QED
      BY <1>1, <1>2, <1>4, <3>1 DEF Memo, NotRecorded
  <2>2. \A p \in Paths : Calm'[p] = fs'[p]
    BY DEF Calm, CalmOf
  <2>3. \A p \in Visible : p \in Paths /\ Now(j)'[p] = fs'[p]
    BY <1>3, <1>11 DEF Now
  <2>4. \A s \in Mine(j)' : s.dest \in Visible /\ Origin(s) \in Visible /\ Backup(s) \in Paths
    BY <1>8, <1>10, <1>11 DEF Mine, Unmoved, Undone
  <2>5. Restores(Calm', Mine(j)', Calm', w)
    <3>1. Mine(undo.job)' = Mine(j)'
      BY <1>1 DEF Mine
    <3>2. QED
      BY <1>15, <2>1, <3>1
  <2>6. QED
    BY <2>2, <2>3, <2>4, <2>5 DEF Restores, Under
<1>18. QED
  BY <1>2, <1>6, <1>13, <1>14, <1>16, <1>17 DEF Exact

\* Undo ends: either everything is undone, or what is left is remembered again,
\* or it was not the latest.
LEMMA UndoEndsExact ==
  ASSUME FilesInv, FilesInv', Places, Exact, ~overlapped, UndoEnds
  PROVE  Exact'
<1>1. undo # NoUndo /\ undo.at = "step" /\ undo' = NoUndo /\ job' = job
  BY DEF UndoEnds, Free
<1>2. undo \in Undoing /\ undo.job \in Jobs /\ undo.tab \in Tabs /\ LeftOf(undo) \in Seq(Step) /\ undo.was \in Looks
  <2>1. undo \in Undoing /\ undo.next \in 1..(Len(undo.steps) + 1) /\ undo.job \in Jobs /\ undo.tab \in Tabs
    BY <1>1, UndoTyped
  <2>2. QED
    BY <2>1, LeftAt DEF Undoing
<1>3. \A k \in Jobs : ~Operating(k) /\ ~Operating(k)'
  BY <1>1 DEF FilesInv, Alone, Operating
<1>4. \A k \in Jobs : \A p : NowAt(k, p) = fs[p] /\ NowAt(k, p)' = fs'[p]
  BY <1>3 DEF NowAt, Operating, Staging
<1>5. PICK D \in SUBSET Waiting : Waiting' = Waiting \ D /\ Drop(D) /\ Forgotten(D)
  BY UndoEndsWaits
<1>6. (\A k \in Jobs : SameSteps(k)) /\ \A p \in Visible : fs'[p] = fs[p]
  BY <1>1, <1>3, <1>5, ForgettingKeeps
<1>7. ASSUME NEW t \in Tabs, NEW n \in 1..Len(history'[t])
      PROVE  \/ history'[t][n].job = undo.job /\ history'[t][n].was = undo.was
             \/ \E m \in 1..Len(history[t]) : history'[t][n] = history[t][m]
  <2>1. CASE LeftOf(undo) = <<>>
    BY <2>1 DEF UndoEnds, LeftOf
  <2>2. CASE LeftOf(undo) # <<>>
    <3> DEFINE record == [job |-> undo.job, steps |-> LeftOf(undo), was |-> undo.was]
    <3>1. Push(undo.tab, record)
      BY <2>2 DEF UndoEnds, LeftOf
    <3>2. record \in Record
      BY <1>2 DEF Record
    <3>3. history'[t][n] = record \/ \E m \in 1..Len(history[t]) : history'[t][n] = history[t][m]
      BY <1>2, <3>1, <3>2, PushedFrom
    <3>4. QED
      BY <3>3
  <2>3. QED
    BY <2>1, <2>2
<1>8. ASSUME NEW k \in Jobs PROVE SameMemo(k)
  <2>1. ASSUME NEW w, Memo(k, w)' PROVE Memo(k, w)
    <3>1. PICK t \in Tabs : \E n \in 1..Len(history'[t]) : history'[t][n].job = k /\ history'[t][n].was = w
      BY <1>1, <1>3, <2>1 DEF Memo
    <3>2. PICK n \in 1..Len(history'[t]) : history'[t][n].job = k /\ history'[t][n].was = w
      BY <3>1
    <3>3. QED
      BY <1>1, <1>7, <3>2 DEF Memo
  <2>2. QED
    BY <2>1 DEF SameMemo
<1>9. order \in Seq(Jobs \cup {OutOfOrder}) /\ order' \in Seq(Jobs \cup {OutOfOrder}) /\ Len(order) \in Nat
  BY DEF FilesInv, Typed, GhostsTyped
<1>10. StepsApart'
  BY <1>5, FewerApart DEF Exact
<1>11. order' = CASE Last(order) = undo.job /\ LeftOf(undo) = <<>> -> Front(order)
                  [] Last(order) \notin {undo.job, OutOfOrder} -> Append(order, OutOfOrder)
                  [] OTHER -> order
  BY DEF UndoEnds, LeftOf
<1>12. CASE order' = Append(order, OutOfOrder)
  <2>1. /\ Len(order') = Len(order) + 1 /\ order'[Len(order) + 1] = OutOfOrder
        /\ \A n \in 1..Len(order) : order'[n] = order[n]
    BY <1>9, <1>12
  <2>2. OrderOnce'
    <3> SUFFICES ASSUME NEW n \in 1..Len(order'), order'[n] \in Jobs
                 PROVE  job[order'[n]].pc # "idle" /\ \A m \in 1..Len(order') : order'[m] = order'[n] => m = n
      BY <1>1 DEF OrderOnce
    <3>1. n \in 1..Len(order) /\ order'[n] = order[n]
      BY <1>9, <2>1, FilesAssumption
    <3>2. ASSUME NEW m \in 1..Len(order'), order'[m] = order[n] PROVE m \in 1..Len(order) /\ order[m] = order[n]
      <4>1. m \in 1..Len(order) \/ m = Len(order) + 1
        BY <1>9, <2>1
      <4>2. m # Len(order) + 1
        BY <2>1, <3>1, <3>2, FilesAssumption
      <4>3. QED
        BY <2>1, <3>2, <4>1, <4>2
    <3>3. QED
      BY <3>1, <3>2 DEF Exact, OrderOnce
  <2>3. Chained'
    <3>1. \A n \in 1..(Len(order') - 1) : Len(order') \in n..Len(order') /\ order'[Len(order')] = OutOfOrder
      BY <1>9, <2>1
    <3>2. QED
      BY <3>1 DEF Chained, InOrder
  <2>4. Latest'
    BY <2>1, FilesAssumption DEF Latest
  <2>5. QED
    BY <1>3, <1>10, <2>2, <2>3, <2>4 DEF Exact
<1>13. CASE order = <<>> /\ order' = <<>>
  <2>1. Len(<<>>) = 0
    OBVIOUS
  <2>2. OrderOnce' /\ Latest'
    BY <1>13, <2>1 DEF OrderOnce, Latest
  <2>3. Chained'
    <3>1. Len(order') - 1 = -1
      BY <1>13, <2>1
    <3>2. \A n \in 1..(Len(order') - 1) : FALSE
      BY <3>1
    <3>3. QED
      BY <3>2 DEF Chained
  <2>4. QED
    BY <1>3, <1>10, <2>2, <2>3 DEF Exact
<1>14. CASE order # <<>> /\ Last(order) = undo.job /\ LeftOf(undo) = <<>> /\ order' = Front(order)
  <2>1. Len(order) \in Nat \ {0} /\ order[Len(order)] = undo.job
    BY <1>9, <1>14, EmptySeq DEF Last
  <2>2. Len(order') = Len(order) - 1 /\ \A n \in 1..(Len(order) - 1) : order'[n] = order[n]
    BY <1>9, <1>14, FrontKeeps
  <2>3. Memo(undo.job, undo.was)
    BY <1>1 DEF Memo
  <2>4. Mine(undo.job) = {}
    <3>1. ASSUME NEW s \in Mine(undo.job) PROVE Among(s, LeftOf(undo))
      <4>1. NotRecorded(undo.job)
        BY <1>1 DEF Places, UndoSteps
      <4>2. QED
        BY <1>3, <4>1, OnePlace DEF Mine, Waiting, InUndo
    <3>2. QED
      BY <1>14, <3>1 DEF Among
  <2>5. \A p \in Visible : undo.was[p] = fs[p]
    <3>1. Ends(undo.job)
      BY <1>1, <1>2, <1>14, <2>1 DEF Exact, Latest
    <3>2. Restores(fs, {}, Now(undo.job), undo.was)
      BY <1>2, <2>3, <2>4, <3>1 DEF Ends
    <3>3. QED
      BY <1>2, <1>4, <3>2 DEF Restores, Now
  <2>6. \A k \in Jobs : k # undo.job => ~Beginning(k)
    BY DEF Beginning
  <2>7. QED
    BY <1>1, <1>2, <1>3, <1>5, <1>6, <1>8, <1>9, <1>14, <2>1, <2>2, <2>3, <2>5, <2>6, CutExact
<1>15. CASE order' = order /\ Last(order) \in {undo.job, OutOfOrder} /\ order # <<>>
  <2>1. Len(order) \in Nat \ {0} /\ order[Len(order)] \in {undo.job, OutOfOrder}
    BY <1>9, <1>15, EmptySeq DEF Last
  <2>2. OrderOnce'
    BY <1>1, <1>15 DEF Exact, OrderOnce
  <2>3. CASE order[Len(order)] = OutOfOrder
    <3>1. \A n \in 1..(Len(order) - 1) : Len(order) \in n..Len(order)
      BY <2>1
    <3>2. Chained' /\ Latest'
      BY <1>15, <2>3, <3>1, FilesAssumption DEF Chained, InOrder, Latest
    <3>3. QED
      BY <1>3, <1>10, <2>2, <3>2 DEF Exact
  <2>4. CASE order[Len(order)] = undo.job
    <3>1. Chained'
      BY <1>6, <1>8, <1>15, <2>4, ChainKept DEF Exact, Beginning
    <3>2. PICK j \in Jobs : j = undo.job
      BY <1>2
    <3>3. Ends(j)
      BY <1>1, <1>15, <2>4, <3>2 DEF Exact, Latest
    <3>4. \A p \in Visible : NowAt(j, p)' = NowAt(j, p)
      BY <1>4, <1>6
    <3>5. Ends(j)'
      BY <1>6, <1>8, <3>3, <3>4, EndsKept
    <3>6. Latest'
      BY <1>15, <2>4, <3>2, <3>5 DEF Latest
    <3>7. QED
      BY <1>3, <1>10, <2>2, <3>1, <3>6 DEF Exact
  <2>5. QED
    BY <2>1, <2>3, <2>4
<1>16. QED
  <2>1. CASE order = <<>>
    <3>1. order' = <<>> \/ order' = Append(order, OutOfOrder)
      <4>1. Front(<<>>) = <<>>
        BY DEF Front
      <4>2. QED
        BY <1>11, <2>1, <4>1
    <3>2. QED
      BY <1>12, <1>13, <2>1, <3>1
  <2>2. CASE order # <<>>
    BY <1>11, <1>12, <1>14, <1>15, <2>2
  <2>3. QED
    BY <2>1, <2>2

-----------------------------------------------------------------------------
(* The steps of a thread *)

\* What was asked of a transfer, and what it found, does not change.
Asking(j) == job'[j].was = job[j].was /\ job'[j].policy = job[j].policy /\ job'[j].op = job[j].op

LEMMA WorkerAsked ==
  ASSUME FilesInv, NEW j \in Jobs, Worker(j)
  PROVE  Operating(j) /\ Asking(j) /\ order' = order /\ overlapped' = overlapped
<1>1. Operating(j)
  BY DEF Worker, Scan, EndOfRoots, SkipRoot, StageRoot, CopyEnds, Decide, Place, Swap, Fill, Restore, Back,
         RemoveSource, AtRoot, At, Operating
<1>2. job \in [Jobs -> Live \cup Resting] /\ {"was", "policy", "op"} \subseteq DOMAIN job[j]
  BY <1>1, LiveAt
<1>3. \/ \E pc : Go(j, pc)
      \/ NextRoot(j)
      \/ \E pc : Take(j, pc)
      \/ \E moved : Note(j, moved)
      \/ Decide(j)
      \/ job' = [job EXCEPT ![j].pc = "fill", ![j].backed = TRUE] /\ UNCHANGED <<window, ghosts>>
  BY DEF Worker, Scan, EndOfRoots, SkipRoot, StageRoot, CopyEnds, Place, Swap, Fill, Restore, Back, RemoveSource, Commit
<1>4. ASSUME NEW pc, Go(j, pc) PROVE Asking(j) /\ UNCHANGED ghosts
  BY <1>2, <1>4 DEF Go, Asking
<1>5. ASSUME NextRoot(j) PROVE Asking(j) /\ UNCHANGED ghosts
  BY <1>2, <1>5 DEF NextRoot, Asking
<1>6. ASSUME NEW pc, Take(j, pc) PROVE Asking(j) /\ UNCHANGED ghosts
  BY <1>2, <1>6 DEF Take, Asking
<1>7. ASSUME NEW moved, Note(j, moved) PROVE Asking(j) /\ UNCHANGED ghosts
  BY <1>2, <1>7 DEF Note, Asking
<1>8. ASSUME Decide(j) PROVE Asking(j) /\ UNCHANGED ghosts
  <2>1. PICK pc, target : job' = [job EXCEPT ![j].pc = pc, ![j].target = target]
    BY <1>8 DEF Decide
  <2>2. QED
    BY <1>2, <1>8, <2>1 DEF Decide, Asking
<1>9. ASSUME job' = [job EXCEPT ![j].pc = "fill", ![j].backed = TRUE], UNCHANGED <<window, ghosts>>
      PROVE  Asking(j) /\ UNCHANGED ghosts
  BY <1>2, <1>9 DEF Asking
<1>10. QED
  BY <1>1, <1>3, <1>4, <1>5, <1>6, <1>7, <1>8, <1>9 DEF ghosts

\* A thread that is at a path of its item's has one.
LEMMA AtPaths ==
  ASSUME FilesInv, NEW j \in Jobs, AtRoot(j) \/ job[j].pc \in Staging \cup {"source"}
  PROVE  /\ job[j].root \in 1..Len(Roots[j]) /\ Src(j) \in Visible /\ DestOf(j) \in Visible
         /\ Stage(j) \in Paths /\ Stage(j) \notin Visible
         /\ Replaced(j, job[j].root) \in Paths /\ Replaced(j, job[j].root) \notin Visible
         /\ Stage(j) # Replaced(j, job[j].root) /\ Visible \subseteq Paths
<1>1. job[j].root \in 1..Len(Roots[j])
  <2>1. CASE AtRoot(j)
    <3>1. job[j].pc = "root" /\ job[j].root <= Len(Roots[j])
      BY <2>1 DEF AtRoot, At
    <3>2. Roots[j] \in Seq(Visible)
      BY FilesAssumption
    <3>3. Len(Roots[j]) \in Nat
      BY <3>2, LenProperties
    <3>4. job[j].root \in 1..(Len(Roots[j]) + 1)
      BY <3>1 DEF FilesInv, Typed, JobsTyped
    <3>5. QED
      BY <3>1, <3>3, <3>4
  <2>2. CASE job[j].pc \in Staging \cup {"source"}
    BY <2>2, Staged
  <2>3. QED
    BY <2>1, <2>2
<1>2. Replaced(j, job[j].root) \in Paths /\ Replaced(j, job[j].root) \notin Visible /\ Stage(j) # Replaced(j, job[j].root)
  BY <1>1, ReplacedPath
<1>3. QED
  BY <1>1, <1>2, OwnPrivate

\* Backups of other items stay as they are.
LEMMA WorkerBackups ==
  ASSUME FilesInv, NEW j \in Jobs, Worker(j), NEW k \in Jobs, NEW i \in 1..Len(Roots[k]), k # j \/ i # job[j].root
  PROVE  fs'[Replaced(k, i)] = fs[Replaced(k, i)]
<1> DEFINE b == Replaced(k, i)
<1>1. /\ b \in Paths /\ b \notin Visible /\ b # Stage(j)
      /\ job[j].root \in 1..Len(Roots[j]) => b # Replaced(j, job[j].root)
  BY ReplacedPath
<1>2. fs \in [Paths -> Visible \cup {Absent}]
  BY DEF FilesInv, Typed, DiskTyped
<1>3. ASSUME NEW from, NEW to, Rename(from, to), b # from, b # to PROVE fs'[b] = fs[b]
  BY <1>3, RenameElsewhere
<1>4. ASSUME NEW p, RemovePaths({p}), b # p PROVE fs'[b] = fs[b]
  BY <1>4, RemoveElsewhere
<1>5. AtRoot(j) \/ job[j].pc \in Staging \cup {"source"} => job[j].root \in 1..Len(Roots[j]) /\ Src(j) \in Visible
  BY AtPaths
<1>6. job[j].pc \in Aimed => job[j].target \in Visible
  BY DEF FilesInv, Typed, JobsTyped
<1>7. CASE UNCHANGED disk
  BY <1>7 DEF disk
<1>8. CASE StageRoot(j)
  <2>1. b # Src(j)
    BY <1>1, <1>5, <1>8 DEF StageRoot
  <2>2. CASE Rename(Src(j), Stage(j))
    BY <1>1, <1>3, <2>1, <2>2
  <2>3. CASE fs' = [fs EXCEPT ![Stage(j)] = fs[Src(j)]]
    BY <1>1, <1>2, <2>3
  <2>4. QED
    BY <1>7, <1>8, <2>2, <2>3 DEF StageRoot
<1>9. CASE CopyEnds(j)
  BY <1>1, <1>4, <1>9 DEF CopyEnds
<1>10. CASE Place(j) \/ Fill(j)
  <2>1. job[j].target # b
    BY <1>1, <1>6, <1>10 DEF Place, Fill, At, Aimed
  <2>2. UNCHANGED disk \/ Rename(Stage(j), job[j].target)
    BY <1>10 DEF Place, Fill, Commit
  <2>3. QED
    BY <1>1, <1>3, <1>7, <2>1, <2>2
<1>11. CASE Swap(j) \/ Restore(j)
  <2>1. job[j].target # b /\ b # Replaced(j, job[j].root)
    BY <1>1, <1>5, <1>6, <1>11 DEF Swap, Restore, At, Aimed, Staging
  <2>2. \/ UNCHANGED disk
        \/ Rename(job[j].target, Replaced(j, job[j].root))
        \/ Rename(Replaced(j, job[j].root), job[j].target)
    BY <1>11 DEF Swap, Restore, Replaced
  <2>3. QED
    BY <1>3, <1>7, <2>1, <2>2
<1>12. CASE Back(j)
  <2>1. b # Src(j)
    BY <1>1, <1>5, <1>12 DEF Back, At, Staging
  <2>2. Rename(Stage(j), Src(j)) \/ RemovePaths({Stage(j)})
    BY <1>12 DEF Back
  <2>3. QED
    BY <1>1, <1>3, <1>4, <2>1, <2>2
<1>13. CASE RemoveSource(j)
  <2>1. b # Src(j)
    BY <1>1, <1>5, <1>13 DEF RemoveSource, At
  <2>2. QED
    BY <1>4, <1>7, <1>13, <2>1 DEF RemoveSource, RemoveHalf
<1>14. QED
  BY <1>7, <1>8, <1>9, <1>10, <1>11, <1>12, <1>13 DEF Worker, Scan, EndOfRoots, SkipRoot, Decide, disk

\* The only transfer goes on: what was there before its item, or before what it
\* committed, is what was there before.
LEMMA ThreadExact ==
  ASSUME FilesInv, Places, Exact, ~overlapped, NEW j \in Jobs, Operating(j), Operating(j)', Elsewhere(j), Asking(j),
         order' = order, StepsApart', Ends(j)', ThreadKnows(j)',
         \A s \in Waiting : fs'[Backup(s)] = fs[Backup(s)], \A k \in Jobs \ {j} : Mine(k)' = Mine(k)
  PROVE  Exact'
<1>1. undo = NoUndo /\ undo' = NoUndo /\ history' = history /\ \A k \in Jobs \ {j} : ~Operating(k) /\ ~Operating(k)'
  BY DEF FilesInv, Alone, Elsewhere, Operating
<1>2. order # <<>> /\ order[Len(order)] = j
  BY DEF Exact, ThreadKnows
<1>3. ASSUME NEW k \in Jobs PROVE SameMemo(k) /\ ~Beginning(k) /\ (k # j => SameSteps(k))
  <2>1. \A w : Memo(k, w)' => Memo(k, w)
    BY <1>1 DEF Memo, Elsewhere, Asking
  <2>2. QED
    BY <1>1, <2>1 DEF SameMemo, SameSteps, Beginning, Mine
<1>4. OrderOnce'
  BY DEF Exact, OrderOnce, Elsewhere, Operating
<1>5. Chained'
  BY <1>2, <1>3, ChainKept DEF Exact
<1>6. Latest'
  BY <1>2 DEF Latest
<1>7. QED
  BY <1>1, <1>4, <1>5, <1>6 DEF Exact

\* It remembers nothing new.
LEMMA ThreadKept ==
  ASSUME FilesInv, Places, Exact, ~overlapped, NEW j \in Jobs, Operating(j), Operating(j)', Elsewhere(j), Asking(j),
         order' = order, ThreadKnows(j)', Waiting' = Waiting, \A p \in Visible : NowAt(j, p)' = NowAt(j, p),
         \A s \in Waiting : fs'[Backup(s)] = fs[Backup(s)]
  PROVE  Exact'
<1>1. \A k : Mine(k)' = Mine(k)
  BY DEF Mine
<1>2. SameSteps(j)
  BY <1>1 DEF SameSteps, Mine
<1>3. SameMemo(j)
  BY DEF SameMemo, Memo, Elsewhere, Asking
<1>4. Ends(j)
  <2>1. undo = NoUndo /\ order # <<>> /\ order[Len(order)] = j
    BY DEF FilesInv, Alone, Exact, ThreadKnows
  <2>2. QED
    BY <2>1 DEF Exact, Latest
<1>5. Ends(j)'
  BY <1>2, <1>3, <1>4, EndsKept
<1>6. StepsApart'
  BY FewerApart DEF Exact
<1>7. QED
  BY <1>1, <1>5, <1>6, ThreadExact

\* It remembers what it committed: the step restores what was there before it.
LEMMA ThreadNoted ==
  ASSUME FilesInv, Places, Exact, DistinctNames, ~overlapped, NEW j \in Jobs, job[j].pc \in Aimed,
         Elsewhere(j), Asking(j), order' = order, job'[j].pc = "root",
         NEW new \in Step, new.job = j, new.root = job[j].root, new.dest = job[j].target, Waiting' = Waiting \cup {new},
         \A s \in Waiting : fs'[Backup(s)] = fs[Backup(s)],
         NowAt(j, new.dest) = Under(fs', new), Moved(new) => NowAt(j, Origin(new)) = fs'[new.dest],
         \A p \in Visible : p # new.dest /\ (Moved(new) => p # Origin(new)) => fs'[p] = NowAt(j, p),
         fs'[new.dest] # Absent
  PROVE  Exact'
<1>1. /\ Operating(j) /\ Operating(j)' /\ undo = NoUndo /\ order # <<>> /\ order[Len(order)] = j
      /\ job[j].root \in 1..Len(Roots[j]) /\ Origin(new) = Src(j)
  <2>1. Operating(j) /\ Operating(j)'
    BY DEF Operating, Aimed
  <2>2. job[j].root \in 1..Len(Roots[j])
    BY Staged DEF Aimed, Staging
  <2>3. QED
    BY <2>1, <2>2 DEF FilesInv, Alone, Exact, ThreadKnows, Origin, Src
<1>2. /\ new.dest \in NamesOf(Origin(new)) /\ Dest[Origin(new)] # Origin(new)
      /\ job[j].policy # "KeepBoth" => new.dest = Dest[Origin(new)]
      /\ \A s \in Mine(j) : s.dest # new.dest
  BY <1>1 DEF Exact, ThreadKnows, DestOf
<1>3. \A s \in Mine(j) : s \in Waiting /\ s.job = j /\ s.root < new.root /\ s.root \in 1..Len(Roots[j]) /\ s # new
  BY <1>1, WaitingAt DEF Mine, Step
<1>4. Mine(j)' = Mine(j) \cup {new} /\ \A k \in Jobs \ {j} : Mine(k)' = Mine(k)
  BY DEF Mine
<1>5. PathsApart(Mine(j) \cup {new})
  <2>1. \A s \in Mine(j) \cup {new} : /\ s.job = j /\ s.root \in 1..Len(Roots[j])
                                     /\ s.dest \in NamesOf(Origin(s)) /\ Dest[Origin(s)] # Origin(s)
    BY <1>1, <1>2, <1>3 DEF Exact, StepsApart
  <2>2. ASSUME NEW s \in Mine(j) \cup {new}, NEW z \in Mine(j) \cup {new}, s.dest = z.dest \/ s.root = z.root
        PROVE  s = z
    <3>1. CASE s \in Mine(j) /\ z \in Mine(j)
      BY <1>3, <2>2, <3>1, WaitsOnce DEF Exact, StepsApart
    <3>2. CASE s = new \/ z = new
      BY <1>1, <1>2, <1>3, <2>2, <3>2
    <3>3. QED
      BY <3>1, <3>2
  <2>3. QED
    BY <2>1, <2>2, NamesApart
<1>6. \A s \in Mine(j) \cup {new} : s.dest \in Visible /\ Origin(s) \in Visible
  BY <1>1, <1>3, StepPaths, VisiblePath DEF Step, Src
<1>7. Ends(j)'
  <2> SUFFICES ASSUME NEW w \in Looks, Memo(j, w)' PROVE Restores(fs', Mine(j)', Now(j)', w)
    BY DEF Ends
  <2>1. Memo(j, w)
    BY <1>1 DEF Memo, Elsewhere, Asking
  <2>2. Restores(fs, Mine(j), Now(j), w)
    BY <1>1, <2>1 DEF Exact, Latest, Ends
  <2>3. \A p \in Visible : Now(j)[p] = NowAt(j, p) /\ Now(j)'[p] = fs'[p]
    BY DEF Now, NowAt, Staging
  <2>4. new \notin Mine(j) /\ \A s \in Mine(j) : fs'[Backup(s)] = fs[Backup(s)]
    BY <1>3
  <2>5. /\ Now(j)[new.dest] = Under(fs', new) /\ (Moved(new) => Now(j)[Origin(new)] = Now(j)'[new.dest])
        /\ \A p \in Visible : p # new.dest /\ (Moved(new) => p # Origin(new)) => Now(j)'[p] = Now(j)[p]
    BY <1>6, <2>3
  <2>6. Restores(fs', Mine(j) \cup {new}, Now(j)', w)
    BY <1>5, <1>6, <2>2, <2>4, <2>5, RestoresCommitted
  <2>7. QED
    BY <1>4, <2>6
<1>8. StepsApart'
  <2>1. \A s, z \in Waiting \cup {new} : s.job = z.job /\ s.dest = z.dest => s = z
    <3> SUFFICES ASSUME NEW s \in Waiting \cup {new}, NEW z \in Waiting \cup {new}, s.job = z.job, s.dest = z.dest
                 PROVE  s = z
      OBVIOUS
    <3>1. CASE s.job = j
      <4>1. s \in Mine(j) \cup {new} /\ z \in Mine(j) \cup {new}
        BY <3>1 DEF Mine
      <4>2. QED
        BY <1>5, <4>1 DEF PathsApart
    <3>2. CASE s.job # j
      BY <3>2 DEF Exact, StepsApart
    <3>3. QED
      BY <3>1, <3>2
  <2>2. QED
    BY <1>2, <2>1 DEF Exact, StepsApart
<1>9. ThreadKnows(j)'
  <2>1. ASSUME NEW s \in Mine(j) PROVE fs'[s.dest] # Absent /\ (job[j].policy # "KeepBoth" => s.dest = Dest[Origin(s)])
    <3>1. s.dest \in Visible /\ s.dest # new.dest /\ s.dest # Origin(new)
      BY <1>5, <1>6, <2>1, <1>2 DEF PathsApart
    <3>2. Taken(s.dest) /\ (job[j].policy # "KeepBoth" => s.dest = Dest[Origin(s)])
      BY <1>1, <2>1 DEF Exact, ThreadKnows
    <3>3. NowAt(j, s.dest) = fs[s.dest]
      BY <1>1, <3>1 DEF NowAt
    <3>4. QED
      BY <3>1, <3>2, <3>3 DEF Taken
  <2>2. \A s \in Mine(j)' : fs'[s.dest] # Absent /\ (job[j].policy # "KeepBoth" => s.dest = Dest[Origin(s)])
    BY <1>2, <1>4, <2>1
  <2>3. QED
    BY <1>1, <2>2 DEF ThreadKnows, Taken, Aimed, Staging, Asking
<1>10. QED
  BY <1>1, <1>4, <1>7, <1>8, <1>9, ThreadExact

\* The item a thread is at has other paths than the items it committed.
LEMMA ItemApart ==
  ASSUME FilesInv, Places, Exact, DistinctNames, NEW j \in Jobs, Operating(j),
         job[j].root \in 1..Len(Roots[j]), DestOf(j) # Src(j)
  PROVE  /\ \A s \in Mine(j) : s.dest \in Visible /\ s.dest # Src(j) /\ Dest[Origin(s)] # DestOf(j)
         /\ \A p \in NamesOf(Src(j)) : p # Src(j)
<1>1. \A p \in NamesOf(Src(j)) : p # Src(j)
  BY NamesNotSource DEF Src, DestOf
<1>2. ASSUME NEW s \in Mine(j) PROVE s.dest \in Visible /\ s.dest # Src(j) /\ Dest[Origin(s)] # DestOf(j)
  <2>1. /\ s \in Waiting /\ s.job = j /\ s.root \in 1..Len(Roots[j]) /\ s.root < job[j].root
        /\ s.dest \in Visible /\ Origin(s) = Roots[j][s.root] /\ job[j].root \in Nat
    BY StepPaths, WaitingAt, LiveAt DEF Mine, Origin
  <2>2. s.dest # Src(j)
    <3>1. s.dest \in NamesOf(Roots[j][s.root])
      BY <2>1 DEF Exact, StepsApart
    <3>2. QED
      BY <2>1, <3>1, NamesNotSource DEF Src, DestOf
  <2>3. Dest[Origin(s)] # DestOf(j)
    <3>1. s.root \in DOMAIN Roots[j] /\ job[j].root \in DOMAIN Roots[j] /\ s.root # job[j].root
      BY <2>1, FilesAssumption
    <3>2. QED
      BY <2>1, <3>1 DEF DistinctNames, DestOf, Src
  <2>4. QED
    BY <2>1, <2>2, <2>3
<1>3. QED
  BY <1>1, <1>2

\* Backups of steps that wait are those of other items.
LEMMA WaitingBackups ==
  ASSUME FilesInv, Places, NEW j \in Jobs, Worker(j), NEW s \in Waiting
  PROVE  fs'[Backup(s)] = fs[Backup(s)]
<1>1. s.job \in Jobs /\ s.root \in 1..Len(Roots[s.job]) /\ Backup(s) = Replaced(s.job, s.root)
  BY StepPaths
<1>2. s.job # j \/ s.root # job[j].root
  <2>1. Operating(j) /\ job[j].root \in Nat
    BY WorkerAsked, LiveAt
  <2>2. s.job = j => s.root < job[j].root /\ s.root \in Nat
    BY <1>1, <2>1, WaitingAt
  <2>3. QED
    BY <2>1, <2>2
<1>3. QED
  BY <1>1, <1>2, WorkerBackups

\* A thread's step that commits nothing.
LEMMA GoesExact ==
  ASSUME FilesInv, Places, Exact, ~overlapped, NEW j \in Jobs, Worker(j), Elsewhere(j), Operating(j)',
         job'[j].steps = job[j].steps, job'[j].root \in {job[j].root, job[j].root + 1},
         \A p \in Visible : NowAt(j, p)' = NowAt(j, p),
         order' = order /\ Mine(j)' = Mine(j) /\ Asking(j) => ThreadKnows(j)'
  PROVE  Exact'
<1>1. Operating(j) /\ Asking(j) /\ order' = order
  BY WorkerAsked
<1>2. Waiting' = Waiting
  BY <1>1, GoesOn DEF Elsewhere
<1>3. Mine(j)' = Mine(j)
  BY <1>2 DEF Mine
<1>4. QED
  BY <1>1, <1>2, <1>3, WaitingBackups, ThreadKept

\* One that ends with nothing staged.
LEMMA RestsExact ==
  ASSUME FilesInv, Places, Exact, ~overlapped, NEW j \in Jobs, Worker(j), Elsewhere(j),
         job'[j].pc \in {"root", "report"},
         job'[j].steps = job[j].steps, job'[j].root \in {job[j].root, job[j].root + 1},
         \A p \in Visible : fs'[p] = NowAt(j, p), \A s \in Mine(j) : fs'[s.dest] = fs[s.dest]
  PROVE  Exact'
<1>1. Operating(j) /\ Operating(j)' /\ ThreadKnows(j)
  BY WorkerAsked DEF Operating, Exact
<1>2. \A p \in Visible : NowAt(j, p)' = NowAt(j, p)
  BY DEF NowAt, Staging
<1>3. order' = order /\ Mine(j)' = Mine(j) /\ Asking(j) => ThreadKnows(j)'
  BY <1>1 DEF ThreadKnows, Aimed, Staging, Asking, Taken
<1>4. QED
  BY <1>1, <1>2, <1>3, GoesExact

\* Scanning, the end of the loop, and an item that is skipped.
LEMMA LoopExact ==
  ASSUME FilesInv, Places, Exact, ~overlapped, NEW j \in Jobs, Scan(j) \/ EndOfRoots(j) \/ SkipRoot(j)
  PROVE  Exact'
<1>1. Worker(j) /\ Operating(j) /\ job[j].pc \in {"scan", "root"} /\ fs' = fs
  BY DEF Worker, Scan, EndOfRoots, SkipRoot, AtRoot, At, Operating, disk
<1>2. \A p \in Visible : fs'[p] = NowAt(j, p)
  BY <1>1 DEF NowAt, Staging
<1>3. CASE \E pc \in {"root", "report"} : Go(j, pc)
  BY <1>1, <1>2, <1>3, GoDoes, RestsExact
<1>4. CASE NextRoot(j)
  BY <1>1, <1>2, <1>4, NextRootDoes, RestsExact
<1>5. QED
  BY <1>3, <1>4 DEF Scan, EndOfRoots, SkipRoot

\* The item is renamed away, its copy begins, or neither is possible.
LEMMA StageExact ==
  ASSUME FilesInv, Places, Exact, DistinctNames, ~overlapped, NEW j \in Jobs, StageRoot(j)
  PROVE  Exact'
<1>1. Worker(j) /\ Operating(j) /\ job[j].pc = "root" /\ ThreadKnows(j) /\ DestOf(j) # Src(j)
  BY DEF Worker, StageRoot, AtRoot, At, Operating, Skips, Exact
<1>2. /\ job[j].root \in 1..Len(Roots[j]) /\ Src(j) \in Visible /\ Stage(j) \in Paths /\ Stage(j) \notin Visible
      /\ Visible \subseteq Paths
  BY AtPaths DEF StageRoot
<1>3. \A p : NowAt(j, p) = fs[p]
  BY <1>1 DEF NowAt, Staging
<1>4. \A s \in Mine(j) : s.dest \in Visible /\ s.dest # Src(j)
  BY <1>1, <1>2, ItemApart
<1>5. fs \in [Paths -> Visible \cup {Absent}]
  BY DEF FilesInv, Typed, DiskTyped
<1>6. CASE job[j].op = "move" /\ Rename(Src(j), Stage(j)) /\ Take(j, "staged")
  <2>1. /\ Elsewhere(j) /\ job'[j].pc = "staged" /\ job'[j].op = "move" /\ job'[j].root = job[j].root
        /\ job'[j].item = fs[Src(j)] /\ job'[j].steps = job[j].steps
    BY <1>1, <1>6, TakeDoes
  <2>2. \A p \in Visible : p # Src(j) => fs'[p] = fs[p]
    BY <1>2, <1>5, <1>6 DEF Rename
  <2>3. \A p \in Visible : NowAt(j, p)' = NowAt(j, p)
    BY <1>3, <2>1, <2>2 DEF NowAt, Staging, Src
  <2>4. order' = order /\ Mine(j)' = Mine(j) /\ Asking(j) => ThreadKnows(j)'
    BY <1>1, <1>4, <2>1, <2>2 DEF ThreadKnows, Aimed, Staging, Asking, Taken
  <2>5. QED
    BY <1>1, <2>1, <2>3, <2>4, GoesExact DEF Operating
<1>7. CASE job[j].op # "move" /\ fs' = [fs EXCEPT ![Stage(j)] = fs[Src(j)]] /\ Take(j, "copying")
  <2>1. /\ Elsewhere(j) /\ job'[j].pc = "copying" /\ job'[j].op = job[j].op /\ job'[j].root = job[j].root
        /\ job'[j].item = fs[Src(j)] /\ job'[j].steps = job[j].steps
    BY <1>1, <1>7, TakeDoes
  <2>2. \A p \in Visible : fs'[p] = fs[p]
    BY <1>2, <1>5, <1>7
  <2>3. \A p \in Visible : NowAt(j, p)' = NowAt(j, p)
    BY <1>3, <1>7, <2>1, <2>2 DEF NowAt
  <2>4. fs'[Src(j)] = job'[j].item
    BY <1>2, <2>1, <2>2
  <2>5. order' = order /\ Mine(j)' = Mine(j) /\ Asking(j) => ThreadKnows(j)'
    BY <1>1, <1>4, <2>1, <2>2, <2>4 DEF ThreadKnows, Aimed, Asking, Taken, Src
  <2>6. QED
    BY <1>1, <2>1, <2>3, <2>5, GoesExact DEF Operating
<1>8. CASE UNCHANGED disk /\ NextRoot(j)
  BY <1>1, <1>3, <1>8, NextRootDoes, RestsExact DEF disk
<1>9. QED
  BY <1>6, <1>7, <1>8 DEF StageRoot

\* The copy is complete, or it is cut short and removed.
LEMMA CopyExact ==
  ASSUME FilesInv, Places, Exact, ~overlapped, NEW j \in Jobs, CopyEnds(j)
  PROVE  Exact'
<1>1. Worker(j) /\ Operating(j) /\ job[j].pc = "copying" /\ ThreadKnows(j) /\ job[j].op # "move"
  BY DEF Worker, CopyEnds, At, Operating, Exact, FilesInv, JobInv, AwayAt
<1>2. Src(j) \in Visible /\ Stage(j) \notin Visible /\ Visible \subseteq Paths /\ \A s \in Mine(j) : s.dest \in Visible
  BY <1>1, AtPaths, StepPaths DEF Staging, Mine
<1>3. \A p : NowAt(j, p) = fs[p]
  BY <1>1 DEF NowAt
<1>4. \A p \in Visible : fs'[p] = fs[p]
  BY <1>2 DEF CopyEnds, RemovePaths
<1>5. CASE Go(j, "staged")
  <2>1. /\ Elsewhere(j) /\ job'[j].pc = "staged" /\ job'[j].op = job[j].op /\ job'[j].root = job[j].root
        /\ job'[j].item = job[j].item /\ job'[j].steps = job[j].steps
    BY <1>1, <1>5, GoDoes
  <2>2. \A p \in Visible : NowAt(j, p)' = NowAt(j, p)
    BY <1>1, <1>3, <1>4, <2>1 DEF NowAt
  <2>3. order' = order /\ Mine(j)' = Mine(j) /\ Asking(j) => ThreadKnows(j)'
    BY <1>1, <1>2, <1>4, <2>1 DEF ThreadKnows, Aimed, Staging, Asking, Taken, Src
  <2>4. QED
    BY <1>1, <2>1, <2>2, <2>3, GoesExact DEF Operating
<1>6. CASE NextRoot(j)
  BY <1>1, <1>2, <1>3, <1>4, <1>6, NextRootDoes, RestsExact
<1>7. QED
  BY <1>5, <1>6 DEF CopyEnds

\* The name that was decided on is the item's own, and no other item's.
LEMMA DecideExact ==
  ASSUME FilesInv, Places, Exact, DistinctNames, ~overlapped, NEW j \in Jobs, Decide(j)
  PROVE  Exact'
<1>1. Worker(j) /\ Operating(j) /\ job[j].pc = "staged" /\ ThreadKnows(j) /\ DestOf(j) # Src(j) /\ fs' = fs
  BY DEF Worker, Decide, At, Operating, Exact, FilesInv, JobInv, AwayAt, Staging, disk
<1>2. /\ Elsewhere(j) /\ job'[j].pc \in {"back", "place", "swap"}
      /\ job'[j].op = job[j].op /\ job'[j].root = job[j].root
      /\ job'[j].item = job[j].item /\ job'[j].steps = job[j].steps
  BY DecideDoes
<1>3. job[j].root \in 1..Len(Roots[j]) /\ Src(j) \in Visible
  BY <1>1, AtPaths DEF Staging
<1>4. \A p \in Visible : NowAt(j, p)' = NowAt(j, p)
  BY <1>1, <1>2 DEF NowAt, Staging, Src
<1>5. \A s \in Mine(j) : s.dest \in Visible /\ Dest[Origin(s)] # DestOf(j)
  BY <1>1, <1>3, ItemApart
<1>6. job'[j].pc # "back" =>
        /\ job'[j].target \in NamesOf(Src(j)) /\ (job[j].policy # "KeepBoth" => job'[j].target = DestOf(j))
        /\ ~Taken(job'[j].target) \/ (job[j].policy # "KeepBoth" /\ job'[j].target = DestOf(j))
  <2>1. PICK pc, target :
          /\ job' = [job EXCEPT ![j].pc = pc, ![j].target = target]
          /\ \/ pc = "back"
             \/ ~Taken(DestOf(j)) /\ target = DestOf(j)
             \/ job[j].policy = "Replace" /\ target = DestOf(j)
             \/ job[j].policy = "KeepBoth" /\ target \in FirstFree(Tries[DestOf(j)])
    BY DEF Decide
  <2>2. job'[j].pc = pc /\ job'[j].target = target
    BY <1>1, <2>1, LiveAt
  <2>3. ASSUME target \in FirstFree(Tries[DestOf(j)]) PROVE target \in NamesOf(Src(j)) /\ ~Taken(target)
    <3>1. \E k \in DOMAIN Tries[DestOf(j)] : target = Tries[DestOf(j)][k] /\ ~Taken(Tries[DestOf(j)][k])
      BY <2>3 DEF FirstFree
    <3>2. Tries[DestOf(j)] \in Seq(Visible)
      BY <1>3, VisiblePath, FilesAssumption DEF DestOf, Src
    <3>3. QED
      BY <3>1, <3>2 DEF NamesOf, DestOf, ToSet
  <2>4. DestOf(j) \in NamesOf(Src(j))
    BY DEF NamesOf, DestOf
  <2>5. QED
    BY <2>1, <2>2, <2>3, <2>4
<1>7. ASSUME job'[j].pc # "back", NEW s \in Mine(j) PROVE s.dest # job'[j].target
  <2>1. Taken(s.dest) /\ (job[j].policy # "KeepBoth" => s.dest = Dest[Origin(s)])
    BY <1>1, <1>7 DEF ThreadKnows
  <2>2. QED
    BY <1>5, <1>6, <1>7, <2>1
<1>8. order' = order /\ Mine(j)' = Mine(j) /\ Asking(j) => ThreadKnows(j)'
  <2> SUFFICES ASSUME order' = order, Mine(j)' = Mine(j), Asking(j) PROVE ThreadKnows(j)'
    OBVIOUS
  <2>1. job'[j].pc \in Aimed =>
          /\ job'[j].target \in NamesOf(Src(j)) /\ DestOf(j) # Src(j)
          /\ job'[j].policy # "KeepBoth" => job'[j].target = DestOf(j)
          /\ \A s \in Mine(j) : s.dest # job'[j].target
    BY <1>1, <1>2, <1>6, <1>7 DEF Aimed, Asking
  <2>2. QED
    BY <1>1, <1>2, <2>1 DEF ThreadKnows, Asking, Taken, Src, DestOf, Staging
<1>9. QED
  BY <1>1, <1>2, <1>4, <1>8, GoesExact DEF Operating

\* What a thread knows of where its item goes.
LEMMA AimedAt ==
  ASSUME FilesInv, Places, Exact, DistinctNames, NEW j \in Jobs, job[j].pc \in Aimed
  PROVE  /\ Operating(j) /\ ThreadKnows(j) /\ job[j].root \in 1..Len(Roots[j]) /\ DestOf(j) # Src(j)
         /\ job[j].target \in Visible /\ job[j].target # Src(j) /\ Src(j) \in Visible
         /\ Stage(j) \in Paths /\ Stage(j) \notin Visible /\ Visible \subseteq Paths
         /\ Replaced(j, job[j].root) \in Paths /\ Replaced(j, job[j].root) \notin Visible
         /\ Stage(j) # Replaced(j, job[j].root)
         /\ \A s \in Mine(j) : s.dest \in Visible /\ s.dest # Src(j) /\ s.dest # job[j].target
<1>1. job[j].pc \in Staging \cup {"source"} /\ Operating(j) /\ ThreadKnows(j)
  BY DEF Aimed, Staging, Operating, Exact
<1>2. DestOf(j) # Src(j) /\ job[j].target \in NamesOf(Src(j)) /\ \A s \in Mine(j) : s.dest # job[j].target
  BY <1>1 DEF ThreadKnows
<1>3. QED
  BY <1>1, <1>2, Staged, AtPaths, ItemApart

\* What a thread knows goes on as long as its transfer is at the same item.
LEMMA AimedKnows ==
  ASSUME FilesInv, Places, Exact, DistinctNames, NEW j \in Jobs, job[j].pc \in Aimed,
         job'[j].pc \in Aimed \cup {"back"}, order' = order, Mine(j)' = Mine(j), Asking(j),
         job'[j].root = job[j].root, job'[j].target = job[j].target, job'[j].item = job[j].item,
         \A s \in Mine(j) : fs'[s.dest] = fs[s.dest],
         job[j].op # "move" => fs[Src(j)] = job[j].item /\ fs'[Src(j)] = fs[Src(j)],
         job'[j].pc = "source" => fs'[job[j].target] = job[j].item /\ fs'[job[j].target] # Absent
  PROVE  ThreadKnows(j)'
<1>1. ThreadKnows(j)
  BY DEF Exact, Operating, Aimed
<1>2. QED
  BY <1>1 DEF ThreadKnows, Asking, Taken, Src, DestOf

\* What is committed is remembered with what was there before.
LEMMA NoteExact ==
  ASSUME FilesInv, Places, Exact, DistinctNames, ~overlapped, NEW j \in Jobs, Worker(j), job[j].pc \in Aimed,
         NEW moved \in BOOLEAN, Note(j, moved), fs'[job[j].target] # Absent,
         NowAt(j, job[j].target) = IF job[j].backed THEN fs'[Replaced(j, job[j].root)] ELSE Absent,
         moved => NowAt(j, Src(j)) = fs'[job[j].target],
         \A p \in Visible : p # job[j].target /\ (moved => p # Src(j)) => fs'[p] = NowAt(j, p)
  PROVE  Exact'
<1> DEFINE new == UndoStep(j, moved)
<1>1. /\ Elsewhere(j) /\ job'[j].pc = "root" /\ job'[j].root = job[j].root + 1
      /\ job'[j].steps = Append(job[j].steps, new) /\ new \in Step /\ new.job = j /\ new.root = job[j].root
      /\ new.kind \in {"move_back", "restore_move"} <=> moved
      /\ IsBackup(new) <=> job[j].backed
  BY NoteDoes
<1>2. new.dest = job[j].target
  BY DEF UndoStep
<1>3. /\ Origin(new) = Src(j) /\ Backup(new) = Replaced(j, job[j].root) /\ (Moved(new) <=> moved)
      /\ job[j].backed \in BOOLEAN
  BY <1>1, LiveAt DEF Origin, Src, Backup, Replaced, Moved, Operating, Aimed
<1> HIDE DEF new
<1>4. Operating(j) /\ Asking(j) /\ order' = order
  BY WorkerAsked
<1>5. Waiting' = Waiting \cup {new}
  BY <1>1, <1>4, Noted DEF Elsewhere
<1>6. NowAt(j, new.dest) = Under(fs', new)
  BY <1>1, <1>2, <1>3 DEF Under
<1>7. Moved(new) => NowAt(j, Origin(new)) = fs'[new.dest]
  BY <1>2, <1>3
<1>8. \A p \in Visible : p # new.dest /\ (Moved(new) => p # Origin(new)) => fs'[p] = NowAt(j, p)
  BY <1>2, <1>3
<1>9. QED
  BY <1>1, <1>2, <1>4, <1>5, <1>6, <1>7, <1>8, WaitingBackups, ThreadNoted

\* The stage becomes the destination, which is free.
LEMMA CommitExact ==
  ASSUME FilesInv, Places, Exact, DistinctNames, ~overlapped, NEW j \in Jobs, StageInv(j),
         Worker(j), job[j].pc \in {"place", "fill"}, Commit(j)
  PROVE  Exact'
<1>1. job[j].pc \in Aimed /\ Rename(Stage(j), job[j].target)
  BY DEF Aimed, Commit
<1>2. /\ Operating(j) /\ ThreadKnows(j) /\ job[j].root \in 1..Len(Roots[j])
      /\ job[j].target \in Visible /\ job[j].target # Src(j) /\ Src(j) \in Visible
      /\ Stage(j) \in Paths /\ Stage(j) \notin Visible /\ Visible \subseteq Paths
      /\ Replaced(j, job[j].root) \in Paths /\ Replaced(j, job[j].root) \notin Visible
      /\ Stage(j) # Replaced(j, job[j].root)
      /\ \A s \in Mine(j) : s.dest \in Visible /\ s.dest # job[j].target
  BY <1>1, AimedAt
<1>3. fs[job[j].target] = Absent /\ fs[Stage(j)] = job[j].item /\ fs[Stage(j)] # Absent
  BY <1>1 DEF FilesInv, JobInv, ClearAt, Taken, StageInv, Staging, Rename
<1>4. fs \in [Paths -> Visible \cup {Absent}]
  BY DEF FilesInv, Typed, DiskTyped
<1>5. /\ fs'[job[j].target] = job[j].item /\ fs'[job[j].target] # Absent
      /\ \A p \in Visible : p # job[j].target => fs'[p] = fs[p]
      /\ fs'[Replaced(j, job[j].root)] = fs[Replaced(j, job[j].root)]
  BY <1>1, <1>2, <1>3, <1>4 DEF Rename
<1>6. NowAt(j, job[j].target) = IF job[j].backed THEN fs[Replaced(j, job[j].root)] ELSE Absent
  <2>1. CASE job[j].pc = "place"
    BY <1>2, <1>3, <2>1 DEF NowAt, FilesInv, JobInv, BackupsOf
  <2>2. CASE job[j].pc = "fill"
    BY <2>2 DEF NowAt
  <2>3. QED
    BY <2>1, <2>2
<1>7. \A p \in Visible : p # job[j].target =>
        NowAt(j, p) = IF job[j].op = "move" /\ p = Src(j) THEN job[j].item ELSE fs[p]
  BY DEF NowAt, Staging
<1>8. CASE job[j].op = "move_far"
  <2>1. Go(j, "source")
    BY <1>8 DEF Commit
  <2>2. /\ Elsewhere(j) /\ job'[j].pc = "source" /\ job'[j].op = "move_far" /\ job'[j].root = job[j].root
        /\ job'[j].target = job[j].target /\ job'[j].backed = job[j].backed /\ job'[j].item = job[j].item
        /\ job'[j].steps = job[j].steps
    BY <1>2, <1>8, <2>1, GoDoes
  <2>3. ASSUME NEW p \in Visible PROVE NowAt(j, p)' = NowAt(j, p)
    <3>1. CASE p = job[j].target
      BY <1>5, <1>6, <2>2, <3>1 DEF NowAt
    <3>2. CASE p # job[j].target
      BY <1>5, <1>7, <1>8, <2>2, <3>2 DEF NowAt
    <3>3. QED
      BY <3>1, <3>2
  <2>4. fs[Src(j)] = job[j].item /\ fs'[Src(j)] = fs[Src(j)] /\ \A s \in Mine(j) : fs'[s.dest] = fs[s.dest]
    BY <1>1, <1>2, <1>5, <1>8 DEF ThreadKnows, Staging
  <2>5. order' = order /\ Mine(j)' = Mine(j) /\ Asking(j) => ThreadKnows(j)'
    BY <1>1, <1>5, <2>2, <2>4, AimedKnows DEF Aimed
  <2>6. QED
    BY <1>2, <2>2, <2>3, <2>5, GoesExact DEF Operating
<1>9. CASE job[j].op # "move_far"
  <2>1. Note(j, job[j].op = "move")
    BY <1>9 DEF Commit
  <2>2. \A p \in Visible : p # job[j].target /\ (job[j].op = "move" => p # Src(j)) => fs'[p] = NowAt(j, p)
    BY <1>5, <1>7
  <2>3. job[j].op = "move" => NowAt(j, Src(j)) = fs'[job[j].target]
    BY <1>2, <1>5, <1>7
  <2> DEFINE moved == job[j].op = "move"
  <2>4. moved \in BOOLEAN /\ Note(j, moved)
    BY <2>1
  <2>5. /\ moved => NowAt(j, Src(j)) = fs'[job[j].target]
        /\ \A p \in Visible : p # job[j].target /\ (moved => p # Src(j)) => fs'[p] = NowAt(j, p)
    BY <2>2, <2>3
  <2> HIDE DEF moved
  <2>6. QED
    BY <1>1, <1>5, <1>6, <2>4, <2>5, NoteExact
<1>10. QED
  BY <1>8, <1>9

\* A rename that fails sends the thread to the rollback.
LEMMA FailExact ==
  ASSUME FilesInv, Places, Exact, DistinctNames, ~overlapped, NEW j \in Jobs, Worker(j), UNCHANGED disk,
         \/ job[j].pc \in {"place", "swap"} /\ Go(j, "back")
         \/ job[j].pc = "fill" /\ Go(j, "restore")
  PROVE  Exact'
<1>1. job[j].pc \in Aimed /\ Operating(j) /\ fs' = fs /\ ThreadKnows(j)
  BY DEF Aimed, Operating, disk, Exact
<1>2. /\ Elsewhere(j) /\ job'[j].pc = (IF job[j].pc = "fill" THEN "restore" ELSE "back")
      /\ job'[j].op = job[j].op /\ job'[j].root = job[j].root
      /\ job'[j].target = job[j].target /\ job'[j].backed = job[j].backed /\ job'[j].item = job[j].item
      /\ job'[j].steps = job[j].steps
  BY <1>1, GoDoes
<1>3. \A p \in Visible : NowAt(j, p)' = NowAt(j, p)
  BY <1>1, <1>2 DEF NowAt, Staging, Src, Replaced
<1>4. job[j].op # "move" => fs[Src(j)] = job[j].item
  BY <1>1 DEF ThreadKnows, Aimed, Staging
<1>5. order' = order /\ Mine(j)' = Mine(j) /\ Asking(j) => ThreadKnows(j)'
  BY <1>1, <1>2, <1>4, AimedKnows DEF Aimed
<1>6. QED
  BY <1>1, <1>2, <1>3, <1>5, GoesExact DEF Operating

\* The item in the way goes to the backup: it is what was there.
LEMMA SwapExact ==
  ASSUME FilesInv, Places, Exact, DistinctNames, ~overlapped, NEW j \in Jobs, Swap(j)
  PROVE  Exact'
<1>1. Worker(j) /\ job[j].pc = "swap" /\ job[j].pc \in Aimed
  BY DEF Worker, Swap, At, Aimed
<1>2. /\ Operating(j) /\ ThreadKnows(j)
      /\ job[j].target \in Visible /\ job[j].target # Src(j) /\ Src(j) \in Visible
      /\ Visible \subseteq Paths
      /\ Replaced(j, job[j].root) \in Paths /\ Replaced(j, job[j].root) \notin Visible
      /\ \A s \in Mine(j) : s.dest \in Visible /\ s.dest # job[j].target
  BY <1>1, AimedAt
<1>3. fs \in [Paths -> Visible \cup {Absent}]
  BY DEF FilesInv, Typed, DiskTyped
<1>4. CASE /\ Rename(job[j].target, Replaced(j, job[j].root))
           /\ job' = [job EXCEPT ![j].pc = "fill", ![j].backed = TRUE] /\ UNCHANGED <<window, ghosts>>
  <2>1. /\ Elsewhere(j) /\ job'[j].pc = "fill" /\ job'[j].op = job[j].op /\ job'[j].root = job[j].root
        /\ job'[j].backed = TRUE /\ job'[j].item = job[j].item /\ job'[j].steps = job[j].steps
    BY <1>1, <1>4, SwapDoes
  <2>2. job'[j].target = job[j].target
    BY <1>2, <1>4, LiveAt
  <2>3. /\ fs'[Replaced(j, job[j].root)] = fs[job[j].target]
        /\ \A p \in Visible : p # job[j].target => fs'[p] = fs[p]
    BY <1>2, <1>3, <1>4 DEF Rename
  <2>4. ASSUME NEW p \in Visible PROVE NowAt(j, p)' = NowAt(j, p)
    <3>1. CASE p = job[j].target
      BY <1>1, <1>2, <2>1, <2>2, <2>3, <3>1 DEF NowAt
    <3>2. CASE p # job[j].target
      BY <1>1, <2>1, <2>2, <2>3, <3>2 DEF NowAt, Staging, Src
    <3>3. QED
      BY <3>1, <3>2
  <2>5. /\ job[j].op # "move" => fs[Src(j)] = job[j].item /\ fs'[Src(j)] = fs[Src(j)]
        /\ \A s \in Mine(j) : fs'[s.dest] = fs[s.dest]
    BY <1>1, <1>2, <2>3 DEF ThreadKnows, Staging
  <2>6. order' = order /\ Mine(j)' = Mine(j) /\ Asking(j) => ThreadKnows(j)'
    BY <1>1, <2>1, <2>2, <2>5, AimedKnows DEF Aimed
  <2>7. QED
    BY <1>1, <2>1, <2>4, <2>6, GoesExact DEF Operating
<1>5. CASE UNCHANGED disk /\ Go(j, "back")
  BY <1>1, <1>5, FailExact
<1>6. QED
  BY <1>4, <1>5 DEF Swap, Replaced

\* The backup comes back to where it was.
LEMMA RestoreExact ==
  ASSUME FilesInv, Places, Exact, DistinctNames, ~overlapped, NEW j \in Jobs, Restore(j)
  PROVE  Exact'
<1>1. Worker(j) /\ job[j].pc = "restore" /\ job[j].pc \in Aimed /\ Go(j, "back")
      /\ Rename(Replaced(j, job[j].root), job[j].target)
  BY DEF Worker, Restore, At, Aimed, Replaced
<1>2. /\ Operating(j) /\ ThreadKnows(j) /\ job[j].root \in 1..Len(Roots[j])
      /\ job[j].target \in Visible /\ job[j].target # Src(j) /\ Src(j) \in Visible
      /\ Visible \subseteq Paths
      /\ Replaced(j, job[j].root) \in Paths /\ Replaced(j, job[j].root) \notin Visible
      /\ \A s \in Mine(j) : s.dest \in Visible /\ s.dest # job[j].target
  BY <1>1, AimedAt
<1>3. fs \in [Paths -> Visible \cup {Absent}]
  BY DEF FilesInv, Typed, DiskTyped
<1>4. job[j].backed
  <2>1. Taken(<<j, job[j].root, "replaced">>) /\ job[j].root \in Nat
    BY <1>1, <1>2 DEF Rename, Replaced
  <2>2. QED
    BY <1>2, <2>1 DEF FilesInv, JobInv, BackupsOf
<1>5. /\ Elsewhere(j) /\ job'[j].pc = "back" /\ job'[j].op = job[j].op /\ job'[j].root = job[j].root
      /\ job'[j].target = job[j].target /\ job'[j].item = job[j].item
      /\ job'[j].steps = job[j].steps
  BY <1>1, <1>2, GoDoes
<1>6. /\ fs'[job[j].target] = fs[Replaced(j, job[j].root)]
      /\ \A p \in Visible : p # job[j].target => fs'[p] = fs[p]
  BY <1>1, <1>2, <1>3 DEF Rename
<1>7. ASSUME NEW p \in Visible PROVE NowAt(j, p)' = NowAt(j, p)
  <2>1. CASE p = job[j].target
    BY <1>1, <1>2, <1>4, <1>5, <1>6, <2>1 DEF NowAt, Src
  <2>2. CASE p # job[j].target
    BY <1>1, <1>5, <1>6, <2>2 DEF NowAt, Staging, Src
  <2>3. QED
    BY <2>1, <2>2
<1>8. /\ job[j].op # "move" => fs[Src(j)] = job[j].item /\ fs'[Src(j)] = fs[Src(j)]
      /\ \A s \in Mine(j) : fs'[s.dest] = fs[s.dest]
  BY <1>1, <1>2, <1>6 DEF ThreadKnows, Staging
<1>9. order' = order /\ Mine(j)' = Mine(j) /\ Asking(j) => ThreadKnows(j)'
  BY <1>1, <1>5, <1>8, AimedKnows
<1>10. QED
  BY <1>1, <1>5, <1>7, <1>9, GoesExact DEF Operating

\* What was staged goes back to where it was, or is removed.
LEMMA BackExact ==
  ASSUME FilesInv, Places, Exact, DistinctNames, ~overlapped, NEW j \in Jobs, StageInv(j), Back(j)
  PROVE  Exact'
<1>1. Worker(j) /\ job[j].pc = "back" /\ Operating(j) /\ NextRoot(j) /\ DestOf(j) # Src(j)
  BY DEF Worker, Back, At, Operating, FilesInv, JobInv, AwayAt, Staging
<1>2. /\ job[j].root \in 1..Len(Roots[j]) /\ Src(j) \in Visible /\ Stage(j) \in Paths /\ Stage(j) \notin Visible
      /\ Visible \subseteq Paths
  BY <1>1, AtPaths DEF Staging
<1>3. \A s \in Mine(j) : s.dest \in Visible /\ s.dest # Src(j)
  BY <1>1, <1>2, ItemApart
<1>4. fs \in [Paths -> Visible \cup {Absent}]
  BY DEF FilesInv, Typed, DiskTyped
<1>5. CASE job[j].op = "move" /\ Rename(Stage(j), Src(j))
  <2>1. fs[Stage(j)] = job[j].item
    BY <1>1 DEF StageInv, Staging
  <2>2. fs'[Src(j)] = job[j].item /\ \A p \in Visible : p # Src(j) => fs'[p] = fs[p]
    BY <1>2, <1>4, <1>5, <2>1 DEF Rename
  <2>3. \A p \in Visible : fs'[p] = NowAt(j, p)
    BY <1>1, <1>5, <2>2 DEF NowAt, Staging
  <2>4. QED
    BY <1>1, <1>3, <2>2, <2>3, NextRootDoes, RestsExact
<1>6. CASE job[j].op # "move" /\ RemovePaths({Stage(j)})
  <2>1. \A p \in Visible : fs'[p] = fs[p] /\ fs'[p] = NowAt(j, p)
    BY <1>1, <1>2, <1>6 DEF RemovePaths, NowAt
  <2>2. QED
    BY <1>1, <1>3, <2>1, NextRootDoes, RestsExact
<1>7. QED
  BY <1>5, <1>6 DEF Back

\* The source of a move to another device is removed, or stays: in both cases the
\* step says so.
LEMMA SourceExact ==
  ASSUME FilesInv, Places, Exact, DistinctNames, ~overlapped, halfway' = {}, NEW j \in Jobs, StageInv(j),
         RemoveSource(j)
  PROVE  Exact'
<1>1. Worker(j) /\ job[j].pc = "source" /\ job[j].pc \in Aimed /\ job[j].op # "move"
  BY DEF Worker, RemoveSource, At, Aimed, StageInv
<1>2. /\ ThreadKnows(j) /\ job[j].target \in Visible /\ job[j].target # Src(j) /\ Src(j) \in Visible
      /\ Visible \subseteq Paths
      /\ Replaced(j, job[j].root) \in Paths /\ Replaced(j, job[j].root) \notin Visible
  BY <1>1, AimedAt
<1>3. fs[Src(j)] = job[j].item /\ fs[job[j].target] = job[j].item /\ fs[job[j].target] # Absent
  BY <1>1, <1>2 DEF ThreadKnows, Taken
<1>4. /\ NowAt(j, job[j].target) = IF job[j].backed THEN fs[Replaced(j, job[j].root)] ELSE Absent
      /\ \A p \in Visible : p # job[j].target => NowAt(j, p) = fs[p]
  BY <1>1 DEF NowAt
<1>5. CASE RemovePaths({Src(j)}) /\ Note(j, TRUE)
  <2>1. /\ fs'[job[j].target] = fs[job[j].target]
        /\ fs'[Replaced(j, job[j].root)] = fs[Replaced(j, job[j].root)]
        /\ \A p \in Visible : p # Src(j) => fs'[p] = fs[p]
    BY <1>2, <1>5 DEF RemovePaths
  <2>2. /\ NowAt(j, Src(j)) = fs'[job[j].target]
        /\ \A p \in Visible : p # job[j].target /\ p # Src(j) => fs'[p] = NowAt(j, p)
    BY <1>2, <1>3, <1>4, <2>1
  <2>3. QED
    BY <1>1, <1>3, <1>4, <1>5, <2>1, <2>2, NoteExact
<1>6. CASE UNCHANGED disk /\ Note(j, FALSE)
  <2>1. fs' = fs
    BY <1>6 DEF disk
  <2>2. QED
    BY <1>1, <1>3, <1>4, <1>6, <2>1, NoteExact
<1>7. ~RemoveHalf(Src(j))
  BY DEF RemoveHalf
<1>8. QED
  BY <1>5, <1>6, <1>7 DEF RemoveSource

\* Every step of a thread is remembered exactly.
LEMMA WorkerExact ==
  ASSUME LossInv, Exact, DistinctNames, ~overlapped, halfway' = {}, NEW j \in Jobs, Worker(j)
  PROVE  Exact'
<1>1. FilesInv /\ Places /\ StageInv(j)
  BY DEF LossInv, HistoryInv
<1>2. CASE Scan(j) \/ EndOfRoots(j) \/ SkipRoot(j)
  BY <1>1, <1>2, LoopExact
<1>3. CASE StageRoot(j)
  BY <1>1, <1>3, StageExact
<1>4. CASE CopyEnds(j)
  BY <1>1, <1>4, CopyExact
<1>5. CASE Decide(j)
  BY <1>1, <1>5, DecideExact
<1>6. CASE Place(j) \/ Fill(j)
  <2>1. job[j].pc \in {"place", "fill"}
    BY <1>6 DEF Place, Fill, At
  <2>2. CASE Commit(j)
    BY <1>1, <2>1, <2>2, CommitExact
  <2>3. CASE ~Commit(j)
    BY <1>1, <1>6, <2>3, FailExact DEF Place, Fill, At
  <2>4. QED
    BY <2>2, <2>3
<1>7. CASE Swap(j)
  BY <1>1, <1>7, SwapExact
<1>8. CASE Restore(j)
  BY <1>1, <1>8, RestoreExact
<1>9. CASE Back(j)
  BY <1>1, <1>9, BackExact
<1>10. CASE RemoveSource(j)
  BY <1>1, <1>10, SourceExact
<1>11. QED
  BY <1>2, <1>3, <1>4, <1>5, <1>6, <1>7, <1>8, <1>9, <1>10 DEF Worker

-----------------------------------------------------------------------------
(* The theorems *)

\* Cancelling only raises a flag.
LEMMA CancelExact ==
  ASSUME FilesInv, Places, Exact, ~overlapped, NEW j \in Jobs, CancelTransfer(j)
  PROVE  Exact'
<1>1. Operating(j) /\ job' = [job EXCEPT ![j].cancelled = TRUE]
  BY DEF CancelTransfer, Active, Operating
<1>2. /\ \A k \in Jobs \ {j} : job'[k] = job[k]
      /\ job'[j].pc = job[j].pc /\ job'[j].op = job[j].op /\ job'[j].policy = job[j].policy
      /\ job'[j].root = job[j].root /\ job'[j].target = job[j].target /\ job'[j].backed = job[j].backed
      /\ job'[j].item = job[j].item /\ job'[j].steps = job[j].steps /\ job'[j].was = job[j].was
  BY <1>1, LiveAt
<1>3. Elsewhere(j) /\ Operating(j)' /\ Asking(j) /\ order' = order /\ fs' = fs
  BY <1>1, <1>2 DEF CancelTransfer, Elsewhere, Operating, Asking, disk, window, ghosts
<1>4. Waiting' = Waiting
  BY <1>1, <1>2, <1>3, GoesOn DEF Elsewhere
<1>5. \A p \in Visible : NowAt(j, p)' = NowAt(j, p)
  BY <1>2, <1>3 DEF NowAt, Src, Replaced
<1>6. ThreadKnows(j)'
  <2>1. ThreadKnows(j) /\ Mine(j)' \subseteq Mine(j)
    BY <1>1, <1>4 DEF Exact, Mine
  <2>2. QED
    BY <1>1, <1>2, <1>3, <2>1, KnowsKept
<1>7. QED
  BY <1>1, <1>3, <1>4, <1>5, <1>6, ThreadKept

\* Nothing happens.
LEMMA SameExact ==
  ASSUME Exact, Midway, UNCHANGED filesVars
  PROVE  Exact' /\ Midway'
<1>1. UNCHANGED <<fs, torn, job, history, undo, order>>
  BY DEF filesVars, disk, window, ghosts
<1>2. \A s : (AtThread(s)' <=> AtThread(s)) /\ (InHistory(s)' <=> InHistory(s)) /\ (InUndo(s)' <=> InUndo(s))
  BY <1>1 DEF AtThread, Operating, InHistory, InUndo
<1>3. Waiting' = Waiting
  BY <1>2 DEF Waiting
<1>4. \A k : Mine(k)' = Mine(k)
  BY <1>3 DEF Mine
<1>5. \A k, w : Memo(k, w)' <=> Memo(k, w)
  BY <1>1 DEF Memo, Operating
<1>6. \A k, p : NowAt(k, p)' = NowAt(k, p)
  BY <1>1 DEF NowAt, Src, Replaced
<1>7. \A k : Now(k)' = Now(k)
  BY <1>6 DEF Now
<1>8. StepsApart' /\ OrderOnce'
  BY <1>1, <1>3 DEF Exact, StepsApart, OrderOnce
<1>9. Chained'
  <2>1. \A a, b : Link(a, b)' <=> Link(a, b)
    BY <1>1, <1>4, <1>5 DEF Link
  <2>2. QED
    BY <1>1, <2>1 DEF Exact, Chained, InOrder, Beginning
<1>10. Latest'
  <2>1. \A k : Ends(k)' <=> Ends(k)
    BY <1>1, <1>4, <1>5, <1>7 DEF Ends
  <2>2. QED
    BY <1>1, <2>1 DEF Exact, Latest
<1>11. ASSUME NEW k \in Jobs, Operating(k)' PROVE ThreadKnows(k)'
  BY <1>1, <1>4, <1>11 DEF Exact, ThreadKnows, Operating, Taken, Src, DestOf
<1>12. Midway'
  BY <1>1, <1>4 DEF Midway, AtHand, Taken, Calm, CalmOf, InHand
<1>13. QED
  BY <1>8, <1>9, <1>10, <1>11, <1>12 DEF Exact

\* When the window opens nothing was transferred.
LEMMA UndoInitInv == FilesInit => UndoInv
<1> SUFFICES ASSUME FilesInit PROVE UndoInv
  OBVIOUS
<1>1. LossInv /\ order = <<>> /\ \A j \in Jobs : ~Operating(j)
  BY LossInitInv DEF FilesInit, Operating
<1>2. Waiting = {}
  <2>1. \A t \in Tabs : Len(history[t]) = 0
    BY DEF FilesInit
  <2>2. QED
    BY <1>1, <2>1 DEF Waiting, AtThread, InHistory, InUndo, FilesInit
<1>3. StepsApart
  BY <1>2 DEF StepsApart
<1>4. OrderOnce /\ Chained /\ Latest
  <2>1. \A n \in 1..Len(order) : FALSE
    BY <1>1
  <2>2. \A n \in 1..(Len(order) - 1) : FALSE
    <3>1. Len(order) - 1 = -1
      BY <1>1
    <3>2. QED
      BY <3>1
  <2>3. QED
    BY <1>1, <2>1, <2>2 DEF OrderOnce, Chained, Latest
<1>5. Midway
  BY DEF FilesInit, NoUndo, Midway
<1>6. QED
  BY <1>1, <1>3, <1>4, <1>5 DEF UndoInv, Exact

\* Every step keeps what is known of undoing.
LEMMA UndoStepInv == UndoInv /\ [FilesNext]_filesVars => UndoInv'
<1> SUFFICES ASSUME UndoInv, [FilesNext]_filesVars PROVE UndoInv'
  OBVIOUS
<1>1. LossInv /\ LossInv'
  BY LossStepInv DEF UndoInv
<1>2. FilesInv /\ FilesInv' /\ Places
  BY <1>1 DEF LossInv, HistoryInv
<1> SUFFICES ASSUME DistinctNames, Orderly' PROVE Exact' /\ Midway'
  BY <1>1 DEF UndoInv, DistinctNames
<1>0. ~overlapped' /\ halfway' = {}
  BY DEF Orderly
<1>3. ~overlapped /\ Exact /\ Midway /\ Restoring
  <2>1. (overlapped => overlapped') /\ halfway \subseteq halfway'
    <3>1. CASE \E j \in Jobs : Worker(j)
      BY <1>2, <3>1, WorkerAsked, WorkerGhosts
    <3>2. CASE UndoTick
      BY <3>2, UndoGhosts DEF UndoTick, UndoRemove, UndoMove, UndoCarry, UndoDisplace, UndoFill, UndoDrop, UndoRefused,
                              StepGoes, StepDone, StepFails, UndoOnly, ghosts
    <3>3. ASSUME NEW tab, NEW record, Push(tab, record) PROVE halfway' = halfway
      BY <3>3 DEF Push, Cleanup, RemovePaths, disk
    <3>4. ASSUME NEW j \in Jobs, NEW tab, NEW op, NEW policy,
                 Report(j) \/ CancelTransfer(j) \/ StartTransfer(j, tab, op, policy)
          PROVE  (overlapped => overlapped') /\ halfway' = halfway
      <4>1. overlapped' = overlapped \/ overlapped' = (overlapped \/ Busy \/ undo # NoUndo)
        BY <3>4 DEF StartTransfer, CancelTransfer, Report, ghosts
      <4>2. halfway' = halfway
        BY <3>3, <3>4 DEF StartTransfer, CancelTransfer, Report, disk
      <4>3. overlapped \in BOOLEAN /\ overlapped' \in BOOLEAN
        BY <1>2 DEF FilesInv, Typed, GhostsTyped
      <4>4. ASSUME overlapped = TRUE PROVE overlapped' = TRUE
        BY <4>1, <4>3, <4>4
      <4>5. QED
        BY <4>2, <4>3, <4>4
    <3>5. CASE UndoEnds
      BY <3>3, <3>5 DEF UndoEnds, disk
    <3>6. CASE CloseWindow \/ UNCHANGED filesVars
      BY <3>6 DEF CloseWindow, Cleanup, RemovePaths, disk, ghosts, filesVars
    <3>7. ASSUME NEW tab \in Tabs, BeginUndo(tab) \/ CloseTab(tab)
          PROVE  (overlapped => overlapped') /\ halfway' = halfway
      <4>1. overlapped' = overlapped \/ overlapped' = (overlapped \/ Busy)
        BY <3>7 DEF BeginUndo, CloseTab, ghosts
      <4>2. halfway' = halfway
        BY <3>7 DEF BeginUndo, CloseTab, disk
      <4>3. overlapped \in BOOLEAN /\ overlapped' \in BOOLEAN
        BY <1>2 DEF FilesInv, Typed, GhostsTyped
      <4>4. ASSUME overlapped = TRUE PROVE overlapped' = TRUE
        BY <4>1, <4>3, <4>4
      <4>5. QED
        BY <4>2, <4>3, <4>4
    <3>8. QED
      BY <3>1, <3>2, <3>4, <3>5, <3>6, <3>7 DEF FilesNext
  <2>2. Orderly
    BY <1>0, <2>1 DEF Orderly
  <2>3. QED
    BY <2>2 DEF UndoInv, LossInv, HistoryInv, Accounts, Orderly
<1>4. CASE UNCHANGED filesVars
  BY <1>3, <1>4, SameExact
<1>5. ASSUME NEW j \in Jobs, Worker(j) PROVE Exact' /\ undo'.at = "step"
  <2>1. undo = NoUndo
    BY <1>2, <1>3, <1>5, WorkerAsked DEF FilesInv, Alone
  <2>2. undo' = undo
    BY <1>5 DEF Worker, Scan, EndOfRoots, SkipRoot, StageRoot, CopyEnds, Decide, Place, Swap, Fill, Restore, Back,
                RemoveSource, Commit, Go, Take, NextRoot, Note, window
  <2>3. QED
    BY <1>0, <1>1, <1>3, <1>5, <2>1, <2>2, WorkerExact DEF NoUndo
<1>6. ASSUME NEW j \in Jobs, CancelTransfer(j) \/ Report(j) PROVE Exact' /\ undo'.at = "step"
  <2>1. undo'.at = "step"
    BY <1>6 DEF CancelTransfer, Report, Free, window
  <2>2. QED
    BY <1>2, <1>3, <1>6, <2>1, CancelExact, ReportExact
<1>7. ASSUME NEW j \in Jobs, NEW tab, NEW op, NEW policy, StartTransfer(j, tab, op, policy)
      PROVE  Exact' /\ undo'.at = "step"
  <2>1. undo'.at = "step"
    BY <1>7 DEF StartTransfer, Free, window
  <2>2. QED
    BY <1>0, <1>2, <1>3, <1>7, <2>1, StartExact
<1>8. ASSUME NEW tab \in Tabs, BeginUndo(tab) \/ CloseTab(tab) PROVE Exact' /\ undo'.at = "step"
  <2>1. undo'.at = "step"
    BY <1>8 DEF BeginUndo, CloseTab, Free
  <2>2. QED
    BY <1>0, <1>2, <1>3, <1>8, <2>1, BeginUndoExact, CloseExact
<1>9. CASE UndoEnds \/ CloseWindow
  <2>1. undo'.at = "step"
    BY <1>9 DEF UndoEnds, CloseWindow, Free, NoUndo
  <2>2. Exact'
    BY <1>2, <1>3, <1>9, UndoEndsExact, CloseExact
  <2>3. QED
    BY <2>1, <2>2 DEF Midway
<1>10. CASE UndoTick
  BY <1>0, <1>2, <1>3, <1>10, UndoTickExact
<1>11. undo'.at = "step" => Midway'
  BY DEF Midway
<1>12. QED
  BY <1>4, <1>5, <1>6, <1>7, <1>8, <1>9, <1>10, <1>11 DEF FilesNext

\* What each transfer found follows from what the next one found by the steps of
\* its own that wait, and what the latest found from what is there, between two
\* changes of a step of undo from what was there before the step: whatever is
\* committed, rolled back, remembered, undone, failed, retried and expired
\* (commit_stage, transfer_undo_step, remember_undo, execute_undo_step).
THEOREM UndoInvariant == FilesSpec => []UndoInv
<1>1. QED
  BY UndoInitInv, UndoStepInv, PTL DEF FilesSpec

\* Undoing the latest transfer, in one go or in several, puts every name back as
\* it was before, if nothing overlapped, its items have different names and no
\* removal or copy stopped halfway (transfer_undo_step, execute_undo_step).
THEOREM UndoIsExact == FilesSpec => []UndoExact
<1>1. UndoInv => UndoExact
  <2> SUFFICES ASSUME UndoInv, DistinctNames, UndoneAll, Orderly, order # <<>>, Last(order) = undo.job
               PROVE  Look = undo.was
    BY DEF UndoExact
  <2>1. FilesInv /\ Places /\ Exact /\ ~overlapped
    BY DEF UndoInv, LossInv, HistoryInv, Orderly
  <2>2. undo # NoUndo /\ undo.next > Len(undo.steps) /\ undo.failed = <<>>
    BY DEF UndoneAll
  <2>0. undo.at = "step"
    BY <2>1, <2>2, UndoTyped DEF FilesInv, Typed, WindowTyped, Undoing
  <2>3. undo \in Undoing /\ undo.next \in 1..(Len(undo.steps) + 1) /\ undo.job \in Jobs /\ undo.was \in Looks
    BY <2>1, <2>2, UndoTyped DEF Undoing
  <2>4. \A k \in Jobs : ~Operating(k)
    BY <2>1, <2>2 DEF FilesInv, Alone
  <2>5. Len(LeftOf(undo)) = 0
    <3>1. Len(LeftOf(undo)) = Len(undo.failed) + (Len(undo.steps) - undo.next + 1) /\ Len(undo.steps) \in Nat
      BY <2>3, LeftAt
    <3>2. QED
      BY <2>2, <2>3, <3>1
  <2>6. Mine(undo.job) = {}
    <3>1. NotRecorded(undo.job)
      BY <2>1, <2>2 DEF Places, UndoSteps
    <3>2. ASSUME NEW s \in Mine(undo.job) PROVE Among(s, LeftOf(undo))
      BY <2>1, <2>4, <3>1, OnePlace DEF Mine, Waiting, InUndo
    <3>3. QED
      BY <2>5, <3>2 DEF Among
  <2>7. Ends(undo.job) /\ Memo(undo.job, undo.was)
    BY <2>0, <2>1, <2>2, <2>3 DEF Exact, Latest, Last, Memo
  <2>8. Now(undo.job) = Look
    BY <2>3, <2>4 DEF Now, NowAt, Look, Operating, Staging
  <2>9. Look \in Looks
    BY <2>1 DEF Look, Looks, FilesInv, Typed, DiskTyped, Paths
  <2>10. QED
    BY <2>3, <2>6, <2>7, <2>8, <2>9, RestoresNothing DEF Ends
<1>2. QED
  BY <1>1, UndoInvariant, PTL
=============================================================================
