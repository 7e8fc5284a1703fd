-------------------------- MODULE FileTransfersProofs --------------------------
(***************************************************************************)
(* FileTransfers, proved for any transfers, tabs and paths: a transfer     *)
(* never shows half an item, a finished transfer leaves no stage behind,   *)
(* and nothing is overwritten as long as operations do not overlap. The    *)
(* histories of the tabs and what becomes of each item are the subject of  *)
(* FileHistoryProofs and FileLossProofs.                                   *)
(***************************************************************************)
EXTENDS FileTransfers, SequenceTheorems, FiniteSetTheorems, TLAPS

(* What the variables hold *)

Kind == {"remove", "move_back", "restore_copy", "restore_move"}
Step == {s \in [kind : Kind, job : Jobs, root : Nat, dest : Visible, item : Visible \cup {Absent}] :
           s.root \in 1..Len(Roots[s.job])}
Looks == [Visible -> Visible \cup {Absent}]
Record == [job : Jobs, steps : Seq(Step), was : Looks]
Undoing == [job : Jobs, steps : Seq(Step), was : Looks, tab : Tabs,
            next : Nat \ {0}, failed : Seq(Step), at : {"step", "carry", "fill", "drop"},
            item : Visible \cup {Absent}]

Policy == {"Replace", "Skip", "KeepBoth"}
Resting == {[pc |-> "idle"], [pc |-> "done"]}
LiveStep == WorkerStep \ {"idle", "done"}
Asked == UNION {Ops[j] : j \in Jobs}
Live == [pc : LiveStep, op : Asked, policy : Policy, root : Nat \ {0}, cancelled : BOOLEAN, target : Visible \cup {Absent},
         backed : BOOLEAN, item : Visible \cup {Absent}, whole : BOOLEAN, steps : Seq(Step), tab : Tabs, was : Looks]

DiskTyped ==
  /\ fs \in [Paths -> Visible \cup {Absent}] /\ torn \subseteq Paths
  /\ given_up \subseteq Visible \X {"overwritten", "expired", "removed"}
  /\ halfway \subseteq Visible

\* From the item that is staged until it is committed, and its source removed.
Staging == {"copying", "staged", "place", "swap", "fill", "restore", "back"}
Aimed   == {"place", "swap", "fill", "restore", "source"}

JobsTyped ==
  /\ job \in [Jobs -> Live \cup Resting]
  /\ \A j \in Jobs :
       /\ job[j].pc \in Staging \cup {"source"} => job[j].root \in 1..Len(Roots[j])
       /\ job[j].pc \notin {"idle", "done"} => job[j].root \in 1..(Len(Roots[j]) + 1)
       /\ job[j].pc \in Aimed => job[j].target \in Visible

WindowTyped ==
  /\ history \in [Tabs -> Seq(Record)]
  /\ \A t \in Tabs : Len(history[t]) <= MaxUndo
  /\ undo \in Undoing \cup {NoUndo}
  /\ undo # NoUndo => undo.next \in 1..(Len(undo.steps) + 1)
  /\ undo.at # "step" => undo.next \in 1..Len(undo.steps)
  /\ open \subseteq Tabs /\ open # {} /\ running \in BOOLEAN

GhostsTyped == order \in Seq(Jobs \cup {OutOfOrder}) /\ overlapped \in BOOLEAN

Typed == DiskTyped /\ JobsTyped /\ WindowTyped /\ GhostsTyped

-----------------------------------------------------------------------------
(* Paths and sequences *)

\* Where a private name is a path, and what it differs from.
LEMMA PrivatePath ==
  ASSUME NEW j \in Jobs, NEW i \in 1..Len(Roots[j]), NEW k \in Private
  PROVE  <<j, i, k>> \in Hidden /\ <<j, i, k>> \in Paths /\ <<j, i, k>> \notin Visible
<1>1. DOMAIN Roots[j] = 1..Len(Roots[j])
  BY FilesAssumption
<1>2. <<j, i, k>> \in Hidden
  BY <1>1 DEF Hidden
<1>3. QED
  BY <1>2, PrivateNames DEF Paths

\* A source and its destination are visible.
LEMMA VisiblePath ==
  ASSUME NEW j \in Jobs, NEW i \in 1..Len(Roots[j])
  PROVE  /\ Roots[j][i] \in Visible /\ Roots[j][i] \in Paths /\ Roots[j][i] \in Sources
         /\ Dest[Roots[j][i]] \in Visible /\ Dest[Roots[j][i]] \in Paths
<1>1. Roots[j] \in Seq(Visible)
  BY FilesAssumption
<1>2. Roots[j][i] \in Visible /\ i \in DOMAIN Roots[j]
  BY <1>1
<1>3. Roots[j][i] \in Sources
  BY <1>2 DEF Sources, ToSet
<1>4. QED
  BY <1>2, <1>3, FilesAssumption DEF Paths

\* The reverse of a sequence has the same elements.
LEMMA ReverseIn ==
  ASSUME NEW S, NEW s \in Seq(S)
  PROVE  Reverse(s) \in Seq(S)
<1>1. \A i \in 1..Len(s) : Len(s) - i + 1 \in 1..Len(s)
  OBVIOUS
<1>2. QED
  BY <1>1, IsASeq DEF Reverse

\* Parts of a sequence.
LEMMA PartIn ==
  ASSUME NEW S, NEW s \in Seq(S), NEW m \in Nat \ {0}, NEW n \in Int, n <= Len(s)
  PROVE  SubSeq(s, m, n) \in Seq(S)
BY SubSeqProperties

\* The last element, and what comes before it.
LEMMA LastIn ==
  ASSUME NEW S, NEW s \in Seq(S), s # <<>>
  PROVE  /\ Last(s) \in S /\ Front(s) \in Seq(S) /\ Len(Front(s)) = Len(s) - 1
<1>1. Len(s) \in Nat \ {0} /\ \A i \in 1..Len(s) : s[i] \in S
  BY EmptySeq, ElementOfSeq, LenProperties
<1>2. Last(s) \in S
  BY <1>1 DEF Last
<1>3. SubSeq(s, 1, Len(s) - 1) \in Seq(S)
  BY <1>1, PartIn
<1>4. Len(SubSeq(s, 1, Len(s) - 1)) = Len(s) - 1
  <2> DEFINE n == Len(s) - 1
  <2>1. n \in Nat /\ \A i \in 1..n : s[i] \in S
    BY <1>1
  <2> HIDE DEF n
  <2>2. Len(SubSeq(s, 1, n)) = IF 1 <= n THEN n - 1 + 1 ELSE 0
    BY <2>1, SubSeqProperties
  <2>3. Len(SubSeq(s, 1, n)) = n
    BY <2>1, <2>2
  <2>4. QED
    BY <2>3 DEF n
<1>5. QED
  BY <1>2, <1>3, <1>4 DEF Front

-----------------------------------------------------------------------------
(* What an operation of the file system does *)

\* What is destroyed was an item.
LEMMA DestroyedTyped ==
  ASSUME DiskTyped, NEW ps \in SUBSET Paths, NEW how \in {"overwritten", "expired", "removed"}
  PROVE  Destroyed(ps, how) \subseteq Visible \X {"overwritten", "expired", "removed"}
BY DEF DiskTyped, Destroyed, Taken

\* A rename stays in the types.
LEMMA RenameTyped ==
  ASSUME DiskTyped, NEW from \in Paths, NEW to \in Paths, Rename(from, to)
  PROVE  DiskTyped'
<1>1. Destroyed({to}, "overwritten") \subseteq Visible \X {"overwritten", "expired", "removed"}
  BY DestroyedTyped
<1>2. QED
  BY <1>1 DEF DiskTyped, Rename

\* A removal stays in the types.
LEMMA RemoveTyped ==
  ASSUME DiskTyped, NEW ps, RemovePaths(ps)
  PROVE  fs' \in [Paths -> Visible \cup {Absent}] /\ torn' \subseteq Paths /\ halfway' \subseteq Visible
BY DEF DiskTyped, RemovePaths

-----------------------------------------------------------------------------
(* A step of a thread changes one transfer *)

\* A transfer that is under way has all its fields.
LEMMA IsLive ==
  ASSUME JobsTyped, NEW j \in Jobs, job[j].pc \notin {"idle", "done"}
  PROVE  job[j] \in Live
BY DEF JobsTyped, Resting

\* What a live transfer becomes, field by field.
LEMMA JobMoves ==
  ASSUME JobsTyped, NEW j \in Jobs, NEW new \in Live, job' = [job EXCEPT ![j] = new],
         new.pc \in Staging \cup {"source"} => new.root \in 1..Len(Roots[j]),
         new.root \in 1..(Len(Roots[j]) + 1),
         new.pc \in Aimed => new.target \in Visible
  PROVE  JobsTyped' /\ job'[j] = new /\ \A k \in Jobs \ {j} : job'[k] = job[k]
BY DEF JobsTyped

\* Go changes the step only.
LEMMA GoTyped ==
  ASSUME JobsTyped, NEW j \in Jobs, job[j].pc \notin {"idle", "done"},
         NEW pc \in LiveStep, Go(j, pc),
         pc \in Staging \cup {"source"} => job[j].root \in 1..Len(Roots[j]),
         pc \in Aimed => job[j].target \in Visible
  PROVE  /\ JobsTyped' /\ job'[j] = [job[j] EXCEPT !.pc = pc]
         /\ \A k \in Jobs \ {j} : job'[k] = job[k]
<1>1. job[j] \in Live /\ job[j].root \in 1..(Len(Roots[j]) + 1)
  BY IsLive DEF JobsTyped
<1> DEFINE new == [job[j] EXCEPT !.pc = pc]
<1>2. new \in Live /\ new.pc = pc /\ new.root = job[j].root /\ new.target = job[j].target
  BY <1>1 DEF Live
<1>3. job' = [job EXCEPT ![j] = new]
  BY DEF Go
<1> HIDE DEF new
<1>4. JobsTyped' /\ job'[j] = new /\ \A k \in Jobs \ {j} : job'[k] = job[k]
  BY <1>1, <1>2, <1>3, JobMoves
<1>5. QED
  BY <1>4 DEF new

\* Take notes what is staged.
LEMMA TakeTyped ==
  ASSUME JobsTyped, NEW j \in Jobs, job[j].pc = "root", job[j].root \in 1..Len(Roots[j]),
         fs[Src(j)] \in Visible \cup {Absent}, NEW pc \in {"staged", "copying"}, Take(j, pc)
  PROVE  /\ JobsTyped' /\ job'[j] = [job[j] EXCEPT !.pc = pc, !.item = fs[Src(j)], !.whole = Src(j) \notin torn]
         /\ \A k \in Jobs \ {j} : job'[k] = job[k]
<1>1. job[j] \in Live /\ job[j].root \in 1..(Len(Roots[j]) + 1)
  BY IsLive DEF JobsTyped
<1> DEFINE new == [job[j] EXCEPT !.pc = pc, !.item = fs[Src(j)], !.whole = Src(j) \notin torn]
<1>2. new \in Live /\ new.pc = pc /\ new.root = job[j].root
  <2>1. pc \in LiveStep
    BY DEF LiveStep, WorkerStep
  <2>2. QED
    BY <1>1, <2>1 DEF Live
<1>3. job' = [job EXCEPT ![j] = new] /\ pc \notin Aimed
  BY DEF Take, Aimed
<1> HIDE DEF new
<1>4. JobsTyped' /\ job'[j] = new /\ \A k \in Jobs \ {j} : job'[k] = job[k]
  BY <1>1, <1>2, <1>3, JobMoves
<1>5. QED
  BY <1>4 DEF new

\* NextRoot goes on with the next item.
LEMMA NextRootTyped ==
  ASSUME JobsTyped, NEW j \in Jobs, job[j].pc \notin {"idle", "done"}, NextRoot(j),
         job[j].root \in 1..Len(Roots[j])
  PROVE  /\ JobsTyped'
         /\ job'[j] = [job[j] EXCEPT !.pc = "root", !.root = @ + 1, !.target = Absent, !.backed = FALSE,
                                     !.item = Absent]
         /\ \A k \in Jobs \ {j} : job'[k] = job[k]
<1>1. job[j] \in Live
  BY IsLive
<1> DEFINE new == [job[j] EXCEPT !.pc = "root", !.root = @ + 1, !.target = Absent, !.backed = FALSE,
                                 !.item = Absent]
<1>2. new \in Live /\ new.pc = "root" /\ new.root = job[j].root + 1
  <2>1. "root" \in LiveStep /\ job[j].root + 1 \in Nat \ {0}
    BY <1>1 DEF LiveStep, WorkerStep
  <2>2. QED
    BY <1>1, <2>1 DEF Live
<1>3. job' = [job EXCEPT ![j] = new]
  BY DEF NextRoot
<1>4. Len(Roots[j]) \in Nat
  BY FilesAssumption
<1> HIDE DEF new
<1>5. JobsTyped' /\ job'[j] = new /\ \A k \in Jobs \ {j} : job'[k] = job[k]
  <2>1. new.root \in 1..(Len(Roots[j]) + 1) /\ new.pc \notin Staging \cup {"source"} \cup Aimed
    BY <1>2, <1>4 DEF Staging, Aimed
  <2>2. QED
    BY <1>2, <1>3, <2>1, JobMoves
<1>6. QED
  BY <1>5 DEF new

\* Note remembers how the item that was committed can be undone.
LEMMA NoteTyped ==
  ASSUME JobsTyped, NEW j \in Jobs, job[j].pc \in Aimed, NEW moved \in BOOLEAN, Note(j, moved)
  PROVE  /\ JobsTyped' /\ UndoStep(j, moved) \in Step
         /\ job'[j] = [job[j] EXCEPT !.pc = "root", !.root = @ + 1, !.target = Absent,
                                    !.backed = FALSE, !.item = Absent, !.steps = Append(@, UndoStep(j, moved))]
         /\ \A k \in Jobs \ {j} : job'[k] = job[k]
<1>1. job[j] \in Live /\ job[j].root \in 1..Len(Roots[j]) /\ job[j].target \in Visible
  BY IsLive DEF Aimed, JobsTyped, Staging
<1>2. UndoStep(j, moved) \in Step
  BY <1>1 DEF UndoStep, Step, Kind, Live
<1> DEFINE new == [job[j] EXCEPT !.pc = "root", !.root = @ + 1, !.target = Absent, !.backed = FALSE,
                                 !.item = Absent, !.steps = Append(@, UndoStep(j, moved))]
<1>3. Append(job[j].steps, UndoStep(j, moved)) \in Seq(Step)
  BY <1>1, <1>2, AppendProperties DEF Live
<1>4. new \in Live /\ new.pc = "root" /\ new.root = job[j].root + 1
  <2>1. "root" \in LiveStep /\ job[j].root + 1 \in Nat \ {0}
    BY <1>1 DEF LiveStep, WorkerStep
  <2>2. QED
    BY <1>1, <1>3, <2>1 DEF Live
<1>5. job' = [job EXCEPT ![j] = new]
  BY DEF Note
<1>6. Len(Roots[j]) \in Nat
  BY FilesAssumption
<1> HIDE DEF new
<1>7. JobsTyped' /\ job'[j] = new /\ \A k \in Jobs \ {j} : job'[k] = job[k]
  <2>1. new.root \in 1..(Len(Roots[j]) + 1) /\ new.pc \notin Staging \cup {"source"} \cup Aimed
    BY <1>1, <1>4, <1>6 DEF Staging, Aimed
  <2>2. QED
    BY <1>4, <1>5, <2>1, JobMoves
<1>8. QED
  BY <1>2, <1>7 DEF new

-----------------------------------------------------------------------------
(* The invariant *)

Operating(j) == job[j].pc \notin {"idle", "done"}

\* What is not whole is the stage of a copy under way, or known to be half, or
\* loose: an undo is carrying it back. There is only one such path.
CopyStage(p) == \E j \in Jobs : job[j].pc = "copying" /\ p = Stage(j)
Loose(p)     == fs[p] \notin halfway /\ ~CopyStage(p)

OnlyTorn ==
  \A p \in torn :
    /\ Taken(p)
    /\ Loose(p) => /\ undo.at = "carry" /\ fs[p] = undo.item
                   /\ \A q \in torn : Loose(q) => q = p

\* A copy of half an item is known to be one.
CopyAt(j) == job[j].pc = "copying" /\ ~job[j].whole => fs[Stage(j)] \in halfway

\* A stage exists between staging and committing, and for one item at a time.
StagesOf(j) ==
  \A i \in 1..Len(Roots[j]) :
    Taken(<<j, i, "partial">>) => job[j].pc \in Staging /\ job[j].root = i

\* A backup is made once, for an item that was committed or is about to be.
BackupsOf(j) ==
  /\ \A i \in 1..Len(Roots[j]) : Taken(<<j, i, "replaced">>) =>
       /\ job[j].pc # "idle"
       /\ Operating(j) => i < job[j].root \/ (i = job[j].root /\ job[j].backed)
  /\ job[j].pc \in {"scan", "root", "copying", "staged", "place", "swap"} => ~job[j].backed

\* An item is not transferred to where it is; one that is replaced is at the
\* destination that was asked for.
AwayAt(j) ==
  /\ job[j].pc \in Staging => DestOf(j) # Src(j)
  /\ job[j].pc \in {"swap", "fill", "restore"} => job[j].target = DestOf(j)
  /\ job[j].pc = "copying" => job[j].op # "move"

\* Unless operations overlap, there is nothing where a rename is going to.
ClearAt(j) ==
  ~overlapped => /\ job[j].pc \in {"place", "fill", "restore"} => ~Taken(job[j].target)
                 /\ job[j].pc \in Staging /\ job[j].op = "move" => ~Taken(Src(j))

\* Unless operations overlap, one is under way at a time.
Alone ==
  ~overlapped => /\ \A j, k \in Jobs : Operating(j) /\ Operating(k) => j = k
                 /\ undo # NoUndo => \A j \in Jobs : ~Operating(j)

\* Then the place an undo fills is free, too.
ClearToFill == ~overlapped /\ undo.at = "fill" => ~Taken(InHand.dest)

JobInv(j) == StagesOf(j) /\ BackupsOf(j) /\ AwayAt(j) /\ CopyAt(j) /\ ClearAt(j)

FilesInv ==
  /\ Typed /\ OnlyTorn /\ Alone /\ ClearToFill /\ OverwritesOnlyInOverlap
  /\ \A j \in Jobs : JobInv(j)

\* What the steps of one transfer leave alone of another.
Apart(j) ==
  /\ \A k \in Jobs \ {j} :
       /\ job'[k] = job[k]
       /\ \A i \in 1..Len(Roots[k]), kind \in Private :
            /\ fs'[<<k, i, kind>>] \in {fs[<<k, i, kind>>], Absent}
            /\ kind = "partial" => fs'[<<k, i, kind>>] = fs[<<k, i, kind>>]
  /\ overlapped' = overlapped /\ undo' = undo /\ halfway \subseteq halfway'

\* The other transfers keep their invariant while one makes a step.
LEMMA OthersKept ==
  ASSUME FilesInv, NEW j \in Jobs, Operating(j), Apart(j), NEW k \in Jobs \ {j}
  PROVE  JobInv(k)'
<1>1. JobInv(k) /\ (~overlapped => ~Operating(k))
  BY DEF FilesInv, Alone
<1>2. StagesOf(k)'
  BY <1>1 DEF JobInv, StagesOf, Apart, Taken, Private
<1>3. BackupsOf(k)'
  BY <1>1 DEF JobInv, BackupsOf, Apart, Taken, Operating, Private
<1>4. AwayAt(k)'
  BY <1>1 DEF JobInv, AwayAt, Apart, DestOf, Src
<1>5. ClearAt(k)'
  BY <1>1 DEF Apart, ClearAt, Operating, Staging
<1>6. CopyAt(k)'
  <2>1. job[k].pc = "copying" => job[k].root \in 1..Len(Roots[k])
    BY DEF FilesInv, Typed, JobsTyped, Staging
  <2>2. QED
    BY <1>1, <2>1 DEF JobInv, CopyAt, Apart, Stage, Private
<1>7. QED
  BY <1>2, <1>3, <1>4, <1>5, <1>6 DEF JobInv

\* The paths a thread renames and removes: visible ones and its own private ones.
OwnPaths(j) ==
  Visible \cup {<<j, i, kind>> : i \in 1..Len(Roots[j]), kind \in Private}

\* None of them is a private path of another transfer.
LEMMA OwnPath ==
  ASSUME NEW j \in Jobs, NEW p \in OwnPaths(j)
  PROVE  /\ p \in Paths
         /\ \A k \in Jobs \ {j} : \A i \in 1..Len(Roots[k]), kind \in Private :
              p # <<k, i, kind>>
<1>1. CASE p \in Visible
  BY <1>1, PrivatePath DEF Paths, Private
<1>2. CASE \E i \in 1..Len(Roots[j]), kind \in Private : p = <<j, i, kind>>
  <2>1. PICK i \in 1..Len(Roots[j]), kind \in Private : p = <<j, i, kind>>
    BY <1>2
  <2>2. p \in Paths
    BY <2>1, PrivatePath DEF Private
  <2>3. QED
    BY <2>1, <2>2
<1>3. QED
  BY <1>1, <1>2 DEF OwnPaths

\* Where a torn path comes from in a step of a thread: it was torn already, it is
\* known to be half now, it is another one renamed, or the stage of a new copy.
TornFrom(j, p, from, to) ==
  \/ p \in torn /\ (p = from => to = from) /\ fs'[p] = fs[p] /\ (job[j].pc = "copying" => p # Stage(j))
  \/ fs'[p] \in halfway'
  \/ p = to /\ from \in torn \cap OwnPaths(j) /\ fs'[p] = fs[from] /\ job[j].pc # "copying"
  \/ fs'[p] # Absent /\ job'[j].pc = "copying" /\ p = Stage(j)'

\* Then at most what an undo is carrying back is loose.
LEMMA TornKept ==
  ASSUME FilesInv, NEW j \in Jobs, Apart(j), halfway' \subseteq Visible, NEW from, NEW to,
         \A p \in torn' : TornFrom(j, p, from, to)
  PROVE  OnlyTorn'
<1>1. ASSUME NEW p \in torn' PROVE Taken(p)'
  <2>1. TornFrom(j, p, from, to)
    OBVIOUS
  <2>2. QED
    BY <2>1, FilesAssumption DEF TornFrom, Taken, FilesInv, OnlyTorn
<1>2. ASSUME NEW p \in torn', Loose(p)'
      PROVE  \E o \in torn : /\ Loose(o) /\ fs[o] = fs'[p]
                             /\ (o = p /\ (o = from => to = from)) \/ (o = from /\ p = to)
  <2>1. TornFrom(j, p, from, to) /\ fs'[p] \notin halfway' /\ fs'[p] \notin halfway /\ ~CopyStage(p)'
    BY <1>2 DEF Loose, Apart
  <2>2. CASE p \in torn /\ (p = from => to = from) /\ fs'[p] = fs[p] /\ (job[j].pc = "copying" => p # Stage(j))
    <3>1. ASSUME NEW k \in Jobs, job[k].pc = "copying", p = Stage(k) PROVE FALSE
      <4>1. k # j
        BY <2>2, <3>1
      <4>2. job'[k] = job[k]
        BY <4>1 DEF Apart
      <4>3. QED
        BY <2>1, <3>1, <4>2 DEF CopyStage, Stage
    <3>2. QED
      BY <2>1, <2>2, <3>1 DEF Loose, CopyStage
  <2>3. CASE p = to /\ from \in torn \cap OwnPaths(j) /\ fs'[p] = fs[from] /\ job[j].pc # "copying"
    <3>1. ASSUME NEW k \in Jobs, job[k].pc = "copying", from = Stage(k) PROVE FALSE
      <4>1. k # j /\ job[k].root \in 1..Len(Roots[k])
        BY <2>3, <3>1 DEF FilesInv, Typed, JobsTyped, Staging
      <4>2. QED
        BY <2>3, <3>1, <4>1, OwnPath DEF Stage, Private
    <3>2. QED
      BY <2>1, <2>3, <3>1 DEF Loose, CopyStage
  <2>4. CASE job'[j].pc = "copying" /\ p = Stage(j)'
    BY <2>1, <2>4 DEF CopyStage
  <2>5. QED
    BY <2>1, <2>2, <2>3, <2>4 DEF TornFrom
<1>3. ASSUME NEW p \in torn', Loose(p)'
      PROVE  /\ undo'.at = "carry" /\ fs'[p] = undo'.item
             /\ \A q \in torn' : Loose(q)' => q = p
  <2>1. PICK o \in torn : /\ Loose(o) /\ fs[o] = fs'[p]
                          /\ (o = p /\ (o = from => to = from)) \/ (o = from /\ p = to)
    BY <1>2, <1>3
  <2>2. undo.at = "carry" /\ fs[o] = undo.item /\ \A q \in torn : Loose(q) => q = o
    BY <2>1 DEF FilesInv, OnlyTorn
  <2>3. ASSUME NEW q \in torn', Loose(q)' PROVE q = p
    <3>1. PICK r \in torn : Loose(r) /\ ((r = q /\ (r = from => to = from)) \/ (r = from /\ q = to))
      BY <1>2, <2>3
    <3>2. QED
      BY <2>1, <2>2, <3>1
  <2>4. QED
    BY <2>1, <2>2, <2>3 DEF Apart
<1>4. QED
  BY <1>1, <1>3 DEF OnlyTorn

\* And what is known of overlaps, as long as the transfer stays under way.
LEMMA AloneKept ==
  ASSUME Alone, NEW j \in Jobs, Operating(j), Apart(j)
  PROVE  Alone'
BY DEF Alone, Apart, Operating

\* No undo is under way beside the thread, unless operations overlap.
LEMMA ClearToFillKept ==
  ASSUME FilesInv, NEW j \in Jobs, Operating(j), Apart(j)
  PROVE  ClearToFill'
<1>1. ~overlapped => undo = NoUndo
  BY DEF FilesInv, Alone
<1>2. QED
  BY <1>1 DEF ClearToFill, Apart, NoUndo

-----------------------------------------------------------------------------
(* The steps of a thread *)

\* The private paths of the item a transfer is at are among them.
LEMMA OwnPrivate ==
  ASSUME NEW j \in Jobs, job[j].root \in 1..Len(Roots[j])
  PROVE  /\ Stage(j) \in OwnPaths(j) /\ <<j, job[j].root, "replaced">> \in OwnPaths(j)
         /\ Stage(j) \in Paths /\ <<j, job[j].root, "replaced">> \in Paths
         /\ Stage(j) \notin Visible /\ <<j, job[j].root, "replaced">> \notin Visible
         /\ Src(j) \in Visible /\ DestOf(j) \in Visible
         /\ Visible \subseteq OwnPaths(j) /\ Visible \subseteq Paths
<1>1. Stage(j) \in OwnPaths(j) /\ <<j, job[j].root, "replaced">> \in OwnPaths(j)
  BY DEF OwnPaths, Stage, Private
<1>2. /\ Stage(j) \in Paths /\ <<j, job[j].root, "replaced">> \in Paths
      /\ Stage(j) \notin Visible /\ <<j, job[j].root, "replaced">> \notin Visible
  BY PrivatePath DEF Stage, Private
<1>3. Src(j) \in Visible /\ DestOf(j) \in Visible
  BY VisiblePath DEF Src, DestOf
<1>4. QED
  BY <1>1, <1>2, <1>3 DEF OwnPaths, Paths

\* A thread's rename, where nothing is or operations overlap.
LEMMA RenameOwn ==
  ASSUME FilesInv, NEW j \in Jobs, job[j].pc # "copying", NEW from \in OwnPaths(j), NEW to \in OwnPaths(j),
         Rename(from, to), overlapped' = overlapped,
         ~overlapped => ~Taken(to)
  PROVE  /\ DiskTyped' /\ halfway' = halfway /\ OverwritesOnlyInOverlap'
         /\ \A p \in Paths : fs'[p] = IF p = to THEN fs[from] ELSE IF p = from THEN Absent ELSE fs[p]
         /\ \A k \in Jobs \ {j} : \A i \in 1..Len(Roots[k]), kind \in Private :
              fs'[<<k, i, kind>>] = fs[<<k, i, kind>>]
         /\ \A p \in torn' : TornFrom(j, p, from, to)
<1>1. from \in Paths /\ to \in Paths /\ DiskTyped
  BY OwnPath DEF FilesInv, Typed
<1>2. DiskTyped' /\ halfway' = halfway
  BY <1>1, RenameTyped DEF Rename
<1>4. OverwritesOnlyInOverlap'
  <2>1. CASE overlapped
    BY <2>1 DEF OverwritesOnlyInOverlap
  <2>2. CASE ~overlapped
    <3>1. given_up' = given_up
      BY <2>2 DEF Rename, Destroyed
    <3>2. QED
      BY <3>1 DEF FilesInv, OverwritesOnlyInOverlap
  <2>3. QED
    BY <2>1, <2>2
<1>5. \A p \in Paths : fs'[p] = IF p = to THEN fs[from] ELSE IF p = from THEN Absent ELSE fs[p]
  BY <1>1 DEF Rename, DiskTyped
<1>6. ASSUME NEW k \in Jobs \ {j}, NEW i \in 1..Len(Roots[k]), NEW kind \in Private
      PROVE  fs'[<<k, i, kind>>] = fs[<<k, i, kind>>]
  <2>1. <<k, i, kind>> \in Paths /\ <<k, i, kind>> # from /\ <<k, i, kind>> # to
    BY OwnPath, PrivatePath DEF Private
  <2>2. QED
    BY <1>5, <2>1
<1>7. ASSUME NEW p \in torn' PROVE TornFrom(j, p, from, to)
  <2>1. CASE p = to /\ from \in torn
    BY <1>1, <1>5, <2>1 DEF TornFrom
  <2>2. CASE ~(p = to /\ from \in torn)
    <3>1. p \in torn /\ p # to /\ p # from
      BY <1>7, <2>2 DEF Rename
    <3>2. p \in Paths
      BY <1>1, <3>1 DEF DiskTyped
    <3>3. QED
      BY <1>5, <3>1, <3>2 DEF TornFrom
  <2>3. QED
    BY <2>1, <2>2
<1>8. QED
  BY <1>2, <1>4, <1>5, <1>6, <1>7

\* What a step of one transfer has to keep, besides what it leaves alone.
LEMMA Assemble ==
  ASSUME FilesInv, NEW j \in Jobs, Operating(j), Apart(j), DiskTyped', JobsTyped', OnlyTorn',
         OverwritesOnlyInOverlap', JobInv(j)', WindowTyped', GhostsTyped'
  PROVE  FilesInv'
<1>1. Alone'
  BY AloneKept DEF FilesInv
<1>2. \A k \in Jobs : JobInv(k)'
  BY OthersKept
<1>3. ClearToFill'
  BY ClearToFillKept
<1>4. QED
  BY <1>1, <1>2, <1>3 DEF FilesInv, Typed

\* The window's part does not change in a thread's step.
LEMMA WindowKept ==
  ASSUME FilesInv, UNCHANGED <<window, ghosts>>
  PROVE  WindowTyped' /\ GhostsTyped' /\ overlapped' = overlapped /\ undo' = undo
<1> USE DEF window, ghosts
<1>1. WindowTyped'
  BY DEF FilesInv, Typed, WindowTyped
<1>2. QED
  BY <1>1 DEF FilesInv, Typed, GhostsTyped

\* A step of a thread that changes nothing on disk.
LEMMA ThinkingKeeps ==
  ASSUME FilesInv, NEW j \in Jobs, Operating(j), UNCHANGED <<disk, window, ghosts>>,
         JobsTyped', \A k \in Jobs \ {j} : job'[k] = job[k], job[j].pc # "copying", JobInv(j)'
  PROVE  FilesInv'
<1> USE DEF disk
<1>1. WindowTyped' /\ GhostsTyped' /\ overlapped' = overlapped /\ undo' = undo
  BY WindowKept
<1>2. DiskTyped' /\ OverwritesOnlyInOverlap'
  BY <1>1 DEF FilesInv, Typed, DiskTyped, OverwritesOnlyInOverlap
<1>3. Apart(j)
  BY <1>1 DEF Apart
<1>4. OnlyTorn'
  <2>1. \A p \in torn' : TornFrom(j, p, Absent, Absent)
    BY DEF TornFrom
  <2>2. QED
    BY <1>2, <1>3, <2>1, TornKept DEF DiskTyped
<1>5. QED
  BY <1>1, <1>2, <1>3, <1>4, Assemble

\* A step of a thread that renames something.
LEMMA MovingKeeps ==
  ASSUME FilesInv, NEW j \in Jobs, Operating(j), job[j].pc # "copying",
         NEW from \in OwnPaths(j), NEW to \in OwnPaths(j), Rename(from, to),
         ~overlapped => ~Taken(to), UNCHANGED <<window, ghosts>>,
         JobsTyped', \A k \in Jobs \ {j} : job'[k] = job[k],
         (\A p \in Paths : fs'[p] = IF p = to THEN fs[from] ELSE IF p = from THEN Absent ELSE fs[p])
           => JobInv(j)'
  PROVE  FilesInv'
<1>1. WindowTyped' /\ GhostsTyped' /\ overlapped' = overlapped /\ undo' = undo
  BY WindowKept
<1>2. /\ DiskTyped' /\ halfway' = halfway /\ OverwritesOnlyInOverlap'
      /\ \A p \in Paths : fs'[p] = IF p = to THEN fs[from] ELSE IF p = from THEN Absent ELSE fs[p]
      /\ \A k \in Jobs \ {j} : \A i \in 1..Len(Roots[k]), kind \in Private :
           fs'[<<k, i, kind>>] = fs[<<k, i, kind>>]
      /\ \A p \in torn' : TornFrom(j, p, from, to)
  BY <1>1, RenameOwn
<1>3. Apart(j)
  BY <1>1, <1>2 DEF Apart
<1>4. OnlyTorn'
  BY <1>2, <1>3, TornKept DEF DiskTyped
<1>5. QED
  BY <1>1, <1>2, <1>3, <1>4, Assemble

\* A step of a thread that removes what is at one path.
LEMMA RemovingKeeps ==
  ASSUME FilesInv, NEW j \in Jobs, Operating(j), NEW p \in OwnPaths(j), RemovePaths({p}),
         job[j].pc = "copying" => p = Stage(j),
         \/ UNCHANGED given_up
         \/ given_up' = given_up \cup Destroyed({p}, "removed"),
         UNCHANGED <<window, ghosts>>,
         JobsTyped', \A k \in Jobs \ {j} : job'[k] = job[k],
         (\A q \in Paths : fs'[q] = IF q = p THEN Absent ELSE fs[q]) => JobInv(j)'
  PROVE  FilesInv'
<1>1. WindowTyped' /\ GhostsTyped' /\ overlapped' = overlapped /\ undo' = undo
  BY WindowKept
<1>2. p \in Paths /\ DiskTyped
  BY OwnPath DEF FilesInv, Typed
<1>3. Destroyed({p}, "removed") \subseteq Visible \X {"overwritten", "expired", "removed"}
  BY <1>2, DestroyedTyped
<1>4. DiskTyped'
  BY <1>2, <1>3, RemoveTyped DEF DiskTyped
<1>5. OverwritesOnlyInOverlap'
  BY <1>1 DEF FilesInv, OverwritesOnlyInOverlap, Destroyed
<1>6. \A q \in Paths : fs'[q] = IF q = p THEN Absent ELSE fs[q]
  BY DEF RemovePaths
<1>7. Apart(j)
  <2>1. ASSUME NEW k \in Jobs \ {j}, NEW i \in 1..Len(Roots[k]), NEW kind \in Private
        PROVE  fs'[<<k, i, kind>>] = fs[<<k, i, kind>>]
    BY <1>6, PrivatePath, OwnPath DEF Private
  <2>2. QED
    BY <1>1, <2>1 DEF Apart, RemovePaths
<1>8. OnlyTorn'
  <2>1. ASSUME NEW q \in torn' PROVE TornFrom(j, q, p, p)
    <3>1. q \in torn /\ q # p /\ q \in Paths
      BY <1>2 DEF RemovePaths, DiskTyped
    <3>2. QED
      BY <1>6, <3>1 DEF TornFrom
  <2>2. QED
    BY <1>4, <1>7, <2>1, TornKept DEF DiskTyped
<1>9. QED
  BY <1>1, <1>4, <1>5, <1>6, <1>7, <1>8, Assemble

\* Scanning, the end of the loop, and an item that is skipped.
LEMMA LoopKeeps ==
  ASSUME FilesInv, NEW j \in Jobs, Scan(j) \/ EndOfRoots(j) \/ SkipRoot(j)
  PROVE  FilesInv'
<1>1. JobsTyped /\ JobInv(j)
  BY DEF FilesInv, Typed
<1>2. CASE \E pc \in {"root", "report"} : Go(j, pc) /\ job[j].pc \in {"scan", "root"} /\ UNCHANGED disk
  <2>1. PICK pc \in {"root", "report"} : Go(j, pc) /\ job[j].pc \in {"scan", "root"}
    BY <1>2
  <2>2. pc \in LiveStep /\ pc \notin Staging \cup Aimed \cup {"source"} /\ Operating(j)
    BY <2>1 DEF LiveStep, WorkerStep, Staging, Aimed, Operating
  <2>3. /\ JobsTyped' /\ job'[j] = [job[j] EXCEPT !.pc = pc]
        /\ \A k \in Jobs \ {j} : job'[k] = job[k]
    BY <1>1, <2>1, <2>2, GoTyped DEF Operating
  <2>4. job'[j].pc = pc /\ job'[j].root = job[j].root /\ job'[j].backed = job[j].backed
    BY <1>1, <2>2, <2>3, IsLive DEF Live, Operating
  <2>5. fs' = fs /\ overlapped' = overlapped
    BY <1>2, <2>1 DEF Go, ghosts, disk
  <2>6. JobInv(j)'
    BY <1>1, <2>1, <2>2, <2>4, <2>5 DEF JobInv, StagesOf, BackupsOf, AwayAt, CopyAt, ClearAt, Operating, Taken, Staging
  <2>7. QED
    BY <1>2, <2>1, <2>2, <2>3, <2>6, ThinkingKeeps DEF Go
<1>3. CASE SkipRoot(j)
  <2>1. job[j].pc = "root" /\ Operating(j) /\ job[j].root \in 1..Len(Roots[j]) /\ NextRoot(j) /\ UNCHANGED disk
    BY <1>1, <1>3, FilesAssumption DEF SkipRoot, AtRoot, At, Operating, JobsTyped
  <2>2. /\ JobsTyped' /\ \A k \in Jobs \ {j} : job'[k] = job[k]
        /\ job'[j] = [job[j] EXCEPT !.pc = "root", !.root = @ + 1, !.target = Absent, !.backed = FALSE,
                                    !.item = Absent]
    BY <1>1, <2>1, NextRootTyped
  <2>3. job'[j].pc = "root" /\ job'[j].root = job[j].root + 1 /\ job'[j].backed = FALSE
    BY <1>1, <2>1, <2>2, IsLive DEF Live
  <2>4. fs' = fs /\ overlapped' = overlapped
    BY <2>1 DEF NextRoot, ghosts, disk
  <2>5. JobInv(j)'
    BY <1>1, <2>1, <2>3, <2>4 DEF JobInv, StagesOf, BackupsOf, AwayAt, CopyAt, ClearAt, Operating, Taken, Staging
  <2>6. QED
    BY <2>1, <2>2, <2>5, ThinkingKeeps DEF NextRoot
<1>4. QED
  BY <1>2, <1>3 DEF Scan, EndOfRoots, At

\* The item is renamed away, its copy begins, or neither is possible.
LEMMA StageKeeps ==
  ASSUME FilesInv, NEW j \in Jobs, StageRoot(j)
  PROVE  FilesInv'
<1>1. /\ JobsTyped /\ DiskTyped /\ JobInv(j) /\ Operating(j) /\ job[j] \in Live
      /\ job[j].pc = "root" /\ job[j].root \in 1..Len(Roots[j]) /\ DestOf(j) # Src(j)
  <2>1. JobsTyped /\ DiskTyped /\ JobInv(j)
    BY DEF FilesInv, Typed
  <2>2. AtRoot(j) /\ ~Skips(j)
    BY DEF StageRoot
  <2>3. job[j].pc = "root" /\ job[j].root <= Len(Roots[j]) /\ Operating(j) /\ DestOf(j) # Src(j)
    BY <2>2 DEF AtRoot, At, Skips, Operating
  <2>4. job[j] \in Live /\ job[j].root \in 1..(Len(Roots[j]) + 1)
    BY <2>1, <2>3, IsLive DEF JobsTyped
  <2>5. QED
    BY <2>1, <2>3, <2>4, FilesAssumption
<1>2. /\ Stage(j) \in OwnPaths(j) /\ Stage(j) \in Paths /\ Stage(j) \notin Visible
      /\ Src(j) \in Visible /\ Src(j) \in OwnPaths(j) /\ Src(j) \in Paths
  BY <1>1, OwnPrivate
<1>3. ~Taken(Stage(j))
  BY <1>1 DEF JobInv, StagesOf, Stage, Staging
<1>4. CASE job[j].op = "move" /\ Rename(Src(j), Stage(j)) /\ Take(j, "staged")
  <2>1. WindowTyped' /\ GhostsTyped' /\ overlapped' = overlapped /\ undo' = undo
    BY <1>4, WindowKept DEF Take
  <2>2. fs[Src(j)] \in Visible \cup {Absent}
    BY <1>1, <1>2 DEF DiskTyped
  <2>3. /\ JobsTyped'
        /\ job'[j] = [job[j] EXCEPT !.pc = "staged", !.item = fs[Src(j)], !.whole = Src(j) \notin torn]
        /\ \A k \in Jobs \ {j} : job'[k] = job[k]
    BY <1>1, <1>4, <2>2, TakeTyped
  <2>4. /\ job'[j].pc = "staged" /\ job'[j].root = job[j].root /\ job'[j].backed = job[j].backed
        /\ job'[j].op = "move"
    BY <1>1, <1>4, <2>3 DEF Live
  <2>6. ASSUME \A p \in Paths : fs'[p] = IF p = Stage(j) THEN fs[Src(j)] ELSE IF p = Src(j) THEN Absent ELSE fs[p]
        PROVE  JobInv(j)'
    <3>1. StagesOf(j)'
      <4>1. \A i \in 1..Len(Roots[j]) : i # job[j].root => fs'[<<j, i, "partial">>] = fs[<<j, i, "partial">>]
        BY <1>2, <2>6, PrivatePath DEF Stage, Private
      <4>2. QED
        BY <1>1, <2>4, <4>1 DEF JobInv, StagesOf, Taken, Staging
    <3>2. BackupsOf(j)'
      <4>1. \A i \in 1..Len(Roots[j]) : fs'[<<j, i, "replaced">>] = fs[<<j, i, "replaced">>]
        BY <1>2, <2>6, PrivatePath DEF Stage, Private
      <4>2. QED
        BY <1>1, <2>4, <4>1 DEF JobInv, BackupsOf, Taken, Operating
    <3>3. AwayAt(j)' /\ ClearAt(j)'
      <4>1. Src(j)' = Src(j) /\ DestOf(j)' = DestOf(j)
        BY <2>4 DEF Src, DestOf
      <4>2. fs'[Src(j)] = Absent
        BY <1>2, <2>6
      <4>3. QED
        BY <1>1, <2>4, <4>1, <4>2 DEF AwayAt, ClearAt, Taken
    <3>4. CopyAt(j)'
      BY <2>4 DEF CopyAt
    <3>5. QED
      BY <3>1, <3>2, <3>3, <3>4 DEF JobInv
  <2>7. UNCHANGED <<window, ghosts>>
    BY <1>4 DEF Take
  <2>8. QED
    BY <1>1, <1>2, <1>3, <1>4, <2>3, <2>6, <2>7, MovingKeeps
<1>5. CASE /\ job[j].op # "move" /\ Taken(Src(j))
           /\ fs' = [fs EXCEPT ![Stage(j)] = fs[Src(j)]]
           /\ torn' = torn \cup {Stage(j)}
           /\ halfway' = halfway \cup (IF Src(j) \in torn THEN {fs[Src(j)]} ELSE {})
           /\ UNCHANGED given_up /\ Take(j, "copying")
  <2>1. WindowTyped' /\ GhostsTyped' /\ overlapped' = overlapped /\ undo' = undo
    BY <1>5, WindowKept DEF Take
  <2>2. fs[Src(j)] \in Visible \cup {Absent}
    BY <1>1, <1>2 DEF DiskTyped
  <2>3. /\ JobsTyped'
        /\ job'[j] = [job[j] EXCEPT !.pc = "copying", !.item = fs[Src(j)], !.whole = Src(j) \notin torn]
        /\ \A k \in Jobs \ {j} : job'[k] = job[k]
    BY <1>1, <1>5, <2>2, TakeTyped
  <2>4. /\ job'[j].pc = "copying" /\ job'[j].root = job[j].root /\ job'[j].backed = job[j].backed
        /\ job'[j].op # "move" /\ (~job'[j].whole => Src(j) \in torn)
    BY <1>1, <1>5, <2>3 DEF Live
  <2>5. DiskTyped' /\ OverwritesOnlyInOverlap'
    <3>1. halfway' \subseteq Visible
      BY <1>1, <1>5, <2>2 DEF DiskTyped, Taken
    <3>2. QED
      BY <1>1, <1>2, <1>5, <2>1, <3>1 DEF FilesInv, DiskTyped, OverwritesOnlyInOverlap
  <2>6. \A p \in Paths : p # Stage(j) => fs'[p] = fs[p]
    BY <1>1, <1>5 DEF DiskTyped
  <2>8. StagesOf(j)'
    <3>1. \A i \in 1..Len(Roots[j]) : i # job[j].root => fs'[<<j, i, "partial">>] = fs[<<j, i, "partial">>]
      BY <2>6, PrivatePath DEF Stage, Private
    <3>2. QED
      BY <1>1, <2>4, <3>1 DEF JobInv, StagesOf, Taken, Staging
  <2>9. BackupsOf(j)'
    <3>1. \A i \in 1..Len(Roots[j]) : fs'[<<j, i, "replaced">>] = fs[<<j, i, "replaced">>]
      BY <2>6, PrivatePath DEF Stage, Private
    <3>2. QED
      BY <1>1, <2>4, <3>1 DEF JobInv, BackupsOf, Taken, Operating
  <2>10. AwayAt(j)' /\ ClearAt(j)'
    <3>1. Src(j)' = Src(j) /\ DestOf(j)' = DestOf(j)
      BY <2>4 DEF Src, DestOf
    <3>2. QED
      BY <1>1, <2>4, <3>1 DEF AwayAt, ClearAt
  <2>11. Apart(j)
    <3>1. ASSUME NEW k \in Jobs \ {j}, NEW i \in 1..Len(Roots[k]), NEW kind \in Private
          PROVE  fs'[<<k, i, kind>>] = fs[<<k, i, kind>>]
      BY <2>6, PrivatePath DEF Stage, Private
    <3>2. QED
      BY <1>5, <2>1, <2>3, <3>1 DEF Apart
  <2>12. Stage(j)' = Stage(j) /\ fs'[Stage(j)] = fs[Src(j)]
    BY <1>1, <1>2, <1>5, <2>4 DEF Stage, DiskTyped
  <2>13. CopyAt(j)'
    BY <1>5, <2>4, <2>12 DEF CopyAt
  <2>14. OnlyTorn'
    <3>1. ASSUME NEW p \in torn' PROVE TornFrom(j, p, Absent, Absent)
      <4>1. CASE p = Stage(j)
        BY <1>5, <2>4, <2>12, <4>1 DEF TornFrom, Taken
      <4>2. CASE p # Stage(j)
        BY <1>1, <1>5, <2>6, <4>2 DEF TornFrom, DiskTyped
      <4>3. QED
        BY <4>1, <4>2
    <3>2. QED
      BY <2>5, <2>11, <3>1, TornKept DEF DiskTyped
  <2>15. QED
    BY <1>1, <2>1, <2>3, <2>5, <2>8, <2>9, <2>10, <2>11, <2>13, <2>14, Assemble DEF JobInv
<1>6. CASE UNCHANGED disk /\ NextRoot(j)
  <2>1. /\ JobsTyped' /\ \A k \in Jobs \ {j} : job'[k] = job[k]
        /\ job'[j] = [job[j] EXCEPT !.pc = "root", !.root = @ + 1, !.target = Absent, !.backed = FALSE,
                                    !.item = Absent]
    BY <1>1, <1>6, NextRootTyped
  <2>2. job'[j].pc = "root" /\ job'[j].root = job[j].root + 1 /\ job'[j].backed = FALSE
    BY <1>1, <2>1 DEF Live
  <2>3. fs' = fs /\ overlapped' = overlapped
    BY <1>6 DEF NextRoot, ghosts, disk
  <2>4. JobInv(j)'
    BY <1>1, <2>2, <2>3 DEF JobInv, StagesOf, BackupsOf, AwayAt, CopyAt, ClearAt, Operating, Taken, Staging
  <2>5. QED
    BY <1>1, <1>6, <2>1, <2>4, ThinkingKeeps DEF NextRoot
<1>7. QED
  BY <1>4, <1>5, <1>6 DEF StageRoot

\* Going on with the next item, once nothing is left at the stage.
LEMMA NextItem ==
  ASSUME FilesInv, NEW j \in Jobs, job[j].pc \in Staging \cup {"source"},
         job'[j].pc = "root", job'[j].root = job[j].root + 1, job'[j].backed = FALSE,
         ~Taken(Stage(j)) \/ fs'[Stage(j)] = Absent,
         \A i \in 1..Len(Roots[j]), kind \in Private :
           fs'[<<j, i, kind>>] \in {fs[<<j, i, kind>>], Absent}
  PROVE  JobInv(j)'
<1>1. JobInv(j) /\ job[j].root \in 1..Len(Roots[j])
  BY DEF FilesInv, Typed, JobsTyped
<1>2. StagesOf(j)'
  <2>1. \A i \in 1..Len(Roots[j]) : ~Taken(<<j, i, "partial">>) \/ i = job[j].root
    BY <1>1 DEF JobInv, StagesOf, Staging
  <2>2. fs'[<<j, job[j].root, "partial">>] = Absent
    BY <1>1 DEF Stage, Taken, Private
  <2>3. QED
    BY <2>1, <2>2 DEF StagesOf, Taken, Private
<1>3. BackupsOf(j)'
  <2>1. Operating(j) /\ job[j].root \in Nat
    BY <1>1, FilesAssumption DEF Operating, Staging
  <2>2. ASSUME NEW i \in 1..Len(Roots[j]), fs'[<<j, i, "replaced">>] # Absent
        PROVE  i < job'[j].root
    <3>1. fs[<<j, i, "replaced">>] # Absent
      BY <2>2 DEF Private
    <3>2. i <= job[j].root
      BY <1>1, <2>1, <3>1 DEF JobInv, BackupsOf, Taken
    <3>3. QED
      BY <2>1, <3>2
  <2>3. QED
    BY <2>2 DEF BackupsOf, Taken
<1>4. AwayAt(j)' /\ CopyAt(j)' /\ ClearAt(j)'
  BY DEF AwayAt, CopyAt, ClearAt, Staging
<1>5. QED
  BY <1>2, <1>3, <1>4 DEF JobInv

\* What is known of a transfer that is past staging.
LEMMA Staged ==
  ASSUME FilesInv, NEW j \in Jobs, job[j].pc \in Staging \cup {"source"}
  PROVE  /\ JobsTyped /\ DiskTyped /\ JobInv(j) /\ Operating(j) /\ job[j] \in Live
         /\ job[j].root \in 1..Len(Roots[j])
         /\ job[j].pc \in Aimed => job[j].target \in Visible
<1>1. /\ JobsTyped /\ DiskTyped /\ JobInv(j) /\ Operating(j) /\ job[j].root \in 1..Len(Roots[j])
      /\ job[j].pc \in Aimed => job[j].target \in Visible
  BY DEF FilesInv, Typed, JobsTyped, Operating, Staging
<1>2. job[j] \in Live
  BY <1>1, IsLive DEF Operating
<1>3. QED
  BY <1>1, <1>2

\* The copy is complete, or it is cut short and removed.
LEMMA CopyKeeps ==
  ASSUME FilesInv, NEW j \in Jobs, CopyEnds(j)
  PROVE  FilesInv'
<1>1. /\ JobsTyped /\ DiskTyped /\ JobInv(j) /\ Operating(j) /\ job[j] \in Live
      /\ job[j].root \in 1..Len(Roots[j]) /\ job[j].pc = "copying"
  BY Staged DEF CopyEnds, At, Staging
<1>2. CASE /\ torn' = IF job[j].whole THEN torn \ {Stage(j)} ELSE torn
           /\ UNCHANGED <<fs, halfway>> /\ Go(j, "staged")
  <2>1. WindowTyped' /\ GhostsTyped' /\ overlapped' = overlapped /\ undo' = undo
    BY <1>2, WindowKept DEF Go
  <2>2. "staged" \in LiveStep /\ "staged" \notin Aimed
    BY DEF LiveStep, WorkerStep, Aimed
  <2>3. /\ JobsTyped' /\ job'[j] = [job[j] EXCEPT !.pc = "staged"]
        /\ \A k \in Jobs \ {j} : job'[k] = job[k]
    BY <1>1, <1>2, <2>2, GoTyped
  <2>4. /\ job'[j].pc = "staged" /\ job'[j].root = job[j].root /\ job'[j].backed = job[j].backed
        /\ job'[j].op = job[j].op
    BY <1>1, <2>3 DEF Live
  <2>5. DiskTyped' /\ OverwritesOnlyInOverlap'
    BY <1>1, <1>2, <2>1 DEF CopyEnds, FilesInv, DiskTyped, OverwritesOnlyInOverlap
  <2>7. JobInv(j)'
    <3>1. StagesOf(j)' /\ BackupsOf(j)'
      BY <1>1, <1>2, <2>4 DEF JobInv, StagesOf, BackupsOf, Taken, Staging, Operating
    <3>2. AwayAt(j)' /\ CopyAt(j)' /\ ClearAt(j)'
      BY <1>1, <2>4 DEF JobInv, AwayAt, CopyAt, ClearAt, Staging, DestOf, Src
    <3>3. QED
      BY <3>1, <3>2 DEF JobInv
  <2>8. Apart(j)
    BY <1>2, <2>1, <2>3 DEF Apart
  <2>9. OnlyTorn'
    <3>1. ASSUME NEW p \in torn' PROVE TornFrom(j, p, Absent, Absent)
      <4>1. CASE p = Stage(j)
        BY <1>1, <1>2, <4>1 DEF TornFrom, JobInv, CopyAt
      <4>2. CASE p # Stage(j)
        BY <1>2, <4>2 DEF TornFrom
      <4>3. QED
        BY <4>1, <4>2
    <3>2. QED
      BY <2>5, <2>8, <3>1, TornKept DEF DiskTyped
  <2>10. QED
    BY <1>1, <2>1, <2>3, <2>5, <2>7, <2>8, <2>9, Assemble
<1>3. CASE RemovePaths({Stage(j)}) /\ NextRoot(j)
  <2>1. /\ JobsTyped' /\ \A k \in Jobs \ {j} : job'[k] = job[k]
        /\ job'[j] = [job[j] EXCEPT !.pc = "root", !.root = @ + 1, !.target = Absent, !.backed = FALSE,
                                    !.item = Absent]
    BY <1>1, <1>3, NextRootTyped DEF Operating
  <2>2. job'[j].pc = "root" /\ job'[j].root = job[j].root + 1 /\ job'[j].backed = FALSE
    BY <1>1, <2>1 DEF Live
  <2>3. Stage(j) \in OwnPaths(j) /\ Stage(j) \in Paths
    BY <1>1, OwnPrivate
  <2>4. ASSUME \A q \in Paths : fs'[q] = IF q = Stage(j) THEN Absent ELSE fs[q]
        PROVE  JobInv(j)'
    <3>1. \A i \in 1..Len(Roots[j]), kind \in Private :
            fs'[<<j, i, kind>>] \in {fs[<<j, i, kind>>], Absent}
      BY <2>4, PrivatePath DEF Private
    <3>2. fs'[Stage(j)] = Absent
      BY <2>3, <2>4
    <3>3. QED
      BY <1>1, <2>2, <3>1, <3>2, NextItem DEF Staging
  <2>5. UNCHANGED <<window, ghosts>> /\ UNCHANGED given_up
    BY <1>3 DEF NextRoot, CopyEnds
  <2>6. QED
    BY <1>1, <1>3, <2>1, <2>3, <2>4, <2>5, RemovingKeeps
<1>4. QED
  BY <1>2, <1>3 DEF CopyEnds

\* The last look decides where the item goes, or that it does not.
LEMMA DecideKeeps ==
  ASSUME FilesInv, NEW j \in Jobs, Decide(j)
  PROVE  FilesInv'
<1>1. /\ JobsTyped /\ JobInv(j) /\ Operating(j) /\ job[j] \in Live
      /\ job[j].root \in 1..Len(Roots[j]) /\ job[j].pc = "staged"
  BY Staged DEF Decide, At, Staging
<1>2. DestOf(j) \in Visible
  BY <1>1, OwnPrivate
<1>3. \A p \in FirstFree(Tries[DestOf(j)]) : p \in Visible /\ ~Taken(p)
  <2>1. Tries[DestOf(j)] \in Seq(Visible)
    BY <1>1, VisiblePath, FilesAssumption DEF DestOf, Src
  <2>2. QED
    BY <2>1 DEF FirstFree
<1>4. PICK pc \in {"back", "place", "swap"}, target \in Visible \cup {Absent} :
        /\ job' = [job EXCEPT ![j].pc = pc, ![j].target = target]
        /\ pc # "back" => target \in Visible
        /\ pc = "place" => ~Taken(target)
        /\ pc = "swap" => target = DestOf(j)
  BY <1>2, <1>3 DEF Decide
<1> DEFINE new == [job[j] EXCEPT !.pc = pc, !.target = target]
<1>5. /\ new \in Live /\ new.pc = pc /\ new.target = target /\ new.root = job[j].root
      /\ new.backed = job[j].backed /\ new.op = job[j].op
  <2>1. pc \in LiveStep
    BY DEF LiveStep, WorkerStep
  <2>2. QED
    BY <1>1, <2>1 DEF Live
<1>6. job' = [job EXCEPT ![j] = new]
  BY <1>4
<1> HIDE DEF new
<1>7. JobsTyped' /\ job'[j] = new /\ \A k \in Jobs \ {j} : job'[k] = job[k]
  <2>1. new.root \in 1..(Len(Roots[j]) + 1) /\ new.root \in 1..Len(Roots[j])
    BY <1>1, <1>5 DEF JobsTyped, Operating
  <2>2. new.pc \in Aimed => new.target \in Visible
    BY <1>4, <1>5 DEF Aimed
  <2>3. QED
    BY <1>1, <1>5, <1>6, <2>1, <2>2, JobMoves
<1>8. fs' = fs /\ overlapped' = overlapped
  BY DEF Decide, disk, ghosts
<1>9. JobInv(j)'
  <2>1. StagesOf(j)' /\ BackupsOf(j)'
    BY <1>1, <1>5, <1>7, <1>8 DEF JobInv, StagesOf, BackupsOf, Taken, Staging, Operating
  <2>2. DestOf(j)' = DestOf(j) /\ Src(j)' = Src(j)
    BY <1>5, <1>7 DEF DestOf, Src
  <2>3. AwayAt(j)' /\ CopyAt(j)' /\ ClearAt(j)'
    BY <1>1, <1>4, <1>5, <1>7, <1>8, <2>2 DEF JobInv, AwayAt, CopyAt, ClearAt, Staging, Taken
  <2>4. QED
    BY <2>1, <2>3 DEF JobInv
<1>10. QED
  BY <1>1, <1>7, <1>9, ThinkingKeeps DEF Decide

\* Whatever is committed replaces nothing, unless operations overlap.
LEMMA CommitKeeps ==
  ASSUME FilesInv, NEW j \in Jobs, job[j].pc \in {"place", "fill"}, Commit(j)
  PROVE  FilesInv'
<1>1. /\ JobsTyped /\ JobInv(j) /\ Operating(j) /\ job[j] \in Live
      /\ job[j].root \in 1..Len(Roots[j]) /\ job[j].target \in Visible
      /\ job[j].pc \in Aimed /\ job[j].pc \in Staging
  BY Staged DEF Staging, Aimed
<1>2. /\ Stage(j) \in OwnPaths(j) /\ Stage(j) \in Paths /\ Stage(j) # job[j].target
      /\ job[j].target \in OwnPaths(j)
  BY <1>1, OwnPrivate
<1>3. ~overlapped => ~Taken(job[j].target)
  BY <1>1 DEF JobInv, ClearAt
<1>4. Rename(Stage(j), job[j].target) /\ UNCHANGED <<window, ghosts>>
  BY DEF Commit, Go, Note
<1>5. ASSUME \A p \in Paths : fs'[p] = IF p = job[j].target THEN fs[Stage(j)]
                                       ELSE IF p = Stage(j) THEN Absent ELSE fs[p]
      PROVE  /\ fs'[Stage(j)] = Absent
             /\ \A i \in 1..Len(Roots[j]), kind \in Private :
                  fs'[<<j, i, kind>>] \in {fs[<<j, i, kind>>], Absent}
  BY <1>1, <1>2, <1>5, PrivatePath DEF Private
<1>6. CASE Go(j, "source")
  <2>1. "source" \in LiveStep
    BY DEF LiveStep, WorkerStep
  <2>2. /\ JobsTyped' /\ job'[j] = [job[j] EXCEPT !.pc = "source"]
        /\ \A k \in Jobs \ {j} : job'[k] = job[k]
    BY <1>1, <1>6, <2>1, GoTyped DEF Operating
  <2>3. job'[j].pc = "source" /\ job'[j].root = job[j].root /\ job'[j].backed = job[j].backed
    BY <1>1, <2>2 DEF Live
  <2>4. ASSUME \A p \in Paths : fs'[p] = IF p = job[j].target THEN fs[Stage(j)]
                                         ELSE IF p = Stage(j) THEN Absent ELSE fs[p]
        PROVE  JobInv(j)'
    <3>1. StagesOf(j)'
      <4>1. \A i \in 1..Len(Roots[j]) : ~Taken(<<j, i, "partial">>) \/ i = job[j].root
        BY <1>1 DEF JobInv, StagesOf
      <4>2. fs'[<<j, job[j].root, "partial">>] = Absent
        BY <1>5, <2>4 DEF Stage
      <4>3. QED
        BY <1>5, <2>4, <4>1, <4>2 DEF StagesOf, Taken, Private
    <3>2. BackupsOf(j)'
      BY <1>1, <1>5, <2>3, <2>4 DEF JobInv, BackupsOf, Taken, Operating, Private
    <3>3. AwayAt(j)' /\ CopyAt(j)' /\ ClearAt(j)'
      BY <2>3 DEF AwayAt, CopyAt, ClearAt, Staging
    <3>4. QED
      BY <3>1, <3>2, <3>3 DEF JobInv
  <2>5. QED
    BY <1>1, <1>2, <1>3, <1>4, <2>2, <2>4, MovingKeeps, job[j].pc # "copying"
<1>7. CASE Note(j, job[j].op = "move")
  <2>1. /\ JobsTyped' /\ \A k \in Jobs \ {j} : job'[k] = job[k]
        /\ job'[j].pc = "root" /\ job'[j].root = job[j].root + 1 /\ job'[j].backed = FALSE
    <3>1. (job[j].op = "move") \in BOOLEAN
      OBVIOUS
    <3>2. /\ JobsTyped' /\ \A k \in Jobs \ {j} : job'[k] = job[k]
          /\ job'[j] = [job[j] EXCEPT !.pc = "root", !.root = @ + 1, !.target = Absent, !.backed = FALSE,
                                      !.item = Absent, !.steps = Append(@, UndoStep(j, job[j].op = "move"))]
      BY <1>1, <1>7, <3>1, NoteTyped
    <3>3. QED
      BY <1>1, <3>2 DEF Live
  <2>2. ASSUME \A p \in Paths : fs'[p] = IF p = job[j].target THEN fs[Stage(j)]
                                         ELSE IF p = Stage(j) THEN Absent ELSE fs[p]
        PROVE  JobInv(j)'
    BY <1>1, <1>5, <2>1, <2>2, NextItem
  <2>3. QED
    BY <1>1, <1>2, <1>3, <1>4, <2>1, <2>2, MovingKeeps, job[j].pc # "copying"
<1>8. QED
  BY <1>6, <1>7 DEF Commit

\* A rename that fails sends the thread to the rollback.
LEMMA FailKeeps ==
  ASSUME FilesInv, NEW j \in Jobs, UNCHANGED disk,
         \/ job[j].pc \in {"place", "swap"} /\ Go(j, "back")
         \/ job[j].pc = "fill" /\ Go(j, "restore")
  PROVE  FilesInv'
<1>1. /\ JobsTyped /\ JobInv(j) /\ Operating(j) /\ job[j] \in Live
      /\ job[j].root \in 1..Len(Roots[j]) /\ job[j].target \in Visible
  BY Staged DEF Staging, Aimed
<1>2. PICK pc \in {"back", "restore"} :
        /\ Go(j, pc)
        /\ pc = "back" => job[j].pc \in {"place", "swap"}
        /\ pc = "restore" => job[j].pc = "fill"
  OBVIOUS
<1>3. pc \in LiveStep
  BY DEF LiveStep, WorkerStep
<1>4. /\ JobsTyped' /\ job'[j] = [job[j] EXCEPT !.pc = pc]
      /\ \A k \in Jobs \ {j} : job'[k] = job[k]
  BY <1>1, <1>2, <1>3, GoTyped DEF Operating
<1>5. /\ job'[j].pc = pc /\ job'[j].root = job[j].root /\ job'[j].backed = job[j].backed
      /\ job'[j].op = job[j].op /\ job'[j].target = job[j].target
  BY <1>1, <1>3, <1>4 DEF Live
<1>6. fs' = fs /\ overlapped' = overlapped
  BY <1>2 DEF Go, disk, ghosts
<1>7. JobInv(j)'
  <2>1. StagesOf(j)' /\ BackupsOf(j)'
    BY <1>1, <1>2, <1>5, <1>6 DEF JobInv, StagesOf, BackupsOf, Taken, Staging, Operating
  <2>2. DestOf(j)' = DestOf(j) /\ Src(j)' = Src(j)
    BY <1>5 DEF DestOf, Src
  <2>3. AwayAt(j)' /\ CopyAt(j)' /\ ClearAt(j)'
    BY <1>1, <1>2, <1>5, <1>6, <2>2 DEF JobInv, AwayAt, CopyAt, ClearAt, Staging, Taken
  <2>4. QED
    BY <2>1, <2>3 DEF JobInv
<1>8. QED
  BY <1>1, <1>2, <1>4, <1>7, ThinkingKeeps, job[j].pc # "copying" DEF Go

\* The item in the way goes to a backup that was not made yet.
LEMMA SwapKeeps ==
  ASSUME FilesInv, NEW j \in Jobs, Swap(j)
  PROVE  FilesInv'
<1>1. job[j].pc = "swap"
  BY DEF Swap, At
<1>2. /\ JobsTyped /\ JobInv(j) /\ Operating(j) /\ job[j] \in Live
      /\ job[j].root \in 1..Len(Roots[j]) /\ job[j].target \in Visible
  BY <1>1, Staged DEF Staging, Aimed
<1> DEFINE backup == <<j, job[j].root, "replaced">>
<1>3. /\ backup \in OwnPaths(j) /\ backup \in Paths /\ backup \notin Visible
      /\ job[j].target \in OwnPaths(j) /\ job[j].target \in Paths /\ Src(j) \in Visible
      /\ Src(j) \in Paths
  BY <1>2, OwnPrivate
<1>4. ~Taken(backup)
  BY <1>1, <1>2 DEF JobInv, BackupsOf, Operating
<1>6. CASE Rename(job[j].target, backup) /\ job' = [job EXCEPT ![j].pc = "fill", ![j].backed = TRUE]
           /\ UNCHANGED <<window, ghosts>>
  <2> DEFINE new == [job[j] EXCEPT !.pc = "fill", !.backed = TRUE]
  <2>1. /\ new \in Live /\ new.pc = "fill" /\ new.target = job[j].target /\ new.root = job[j].root
        /\ new.backed = TRUE /\ new.op = job[j].op
    <3>1. "fill" \in LiveStep
      BY DEF LiveStep, WorkerStep
    <3>2. QED
      BY <1>2, <3>1 DEF Live
  <2>2. job' = [job EXCEPT ![j] = new]
    BY <1>6
  <2> HIDE DEF new
  <2>3. JobsTyped' /\ job'[j] = new /\ \A k \in Jobs \ {j} : job'[k] = job[k]
    <3>1. new.root \in 1..(Len(Roots[j]) + 1) /\ new.root \in 1..Len(Roots[j])
      BY <1>2, <2>1 DEF JobsTyped, Operating
    <3>2. QED
      BY <1>2, <2>1, <2>2, <3>1, JobMoves
  <2>4. ASSUME \A p \in Paths : fs'[p] = IF p = backup THEN fs[job[j].target]
                                         ELSE IF p = job[j].target THEN Absent ELSE fs[p]
        PROVE  JobInv(j)'
    <3>1. StagesOf(j)'
      <4>1. \A i \in 1..Len(Roots[j]) : fs'[<<j, i, "partial">>] = fs[<<j, i, "partial">>]
        BY <1>2, <2>4, PrivatePath DEF Private
      <4>2. QED
        BY <1>1, <1>2, <2>1, <2>3, <4>1 DEF JobInv, StagesOf, Taken, Staging
    <3>2. BackupsOf(j)'
      <4>1. \A i \in 1..Len(Roots[j]) : i # job[j].root => fs'[<<j, i, "replaced">>] = fs[<<j, i, "replaced">>]
        BY <1>2, <2>4, PrivatePath DEF Private
      <4>2. QED
        BY <1>1, <1>2, <2>1, <2>3, <4>1 DEF JobInv, BackupsOf, Taken, Operating
    <3>3. DestOf(j)' = DestOf(j) /\ Src(j)' = Src(j)
      BY <2>1, <2>3 DEF DestOf, Src
    <3>4. AwayAt(j)' /\ CopyAt(j)'
      BY <1>1, <1>2, <2>1, <2>3, <3>3 DEF JobInv, AwayAt, CopyAt, Staging
    <3>5. ClearAt(j)'
      <4>1. fs'[job[j].target] = Absent /\ (fs'[Src(j)] = fs[Src(j)] \/ fs'[Src(j)] = Absent)
        BY <1>3, <1>2, <2>4
      <4>2. overlapped' = overlapped
        BY <1>6 DEF ghosts
      <4>3. QED
        BY <1>1, <1>2, <2>1, <2>3, <3>3, <4>1, <4>2 DEF JobInv, ClearAt, Staging, Taken
    <3>6. QED
      BY <3>1, <3>2, <3>4, <3>5 DEF JobInv
  <2>5. QED
    <3> HIDE DEF backup
    <3>1. job[j].pc # "copying" /\ UNCHANGED <<window, ghosts>> /\ (~overlapped => ~Taken(backup))
      BY <1>1, <1>4, <1>6
    <3>2. QED
      BY <1>2, <1>3, <1>6, <2>3, <2>4, <3>1, MovingKeeps
<1>7. QED
  BY <1>1, <1>6, FailKeeps DEF Swap

\* The backup comes back to where nothing is, unless operations overlap.
LEMMA RestoreKeeps ==
  ASSUME FilesInv, NEW j \in Jobs, Restore(j)
  PROVE  FilesInv'
<1>1. job[j].pc = "restore" /\ Go(j, "back")
  BY DEF Restore, At
<1>2. /\ JobsTyped /\ JobInv(j) /\ Operating(j) /\ job[j] \in Live
      /\ job[j].root \in 1..Len(Roots[j]) /\ job[j].target \in Visible
  BY <1>1, Staged DEF Staging, Aimed
<1> DEFINE backup == <<j, job[j].root, "replaced">>
<1>3. /\ backup \in OwnPaths(j) /\ backup \in Paths /\ backup \notin Visible
      /\ job[j].target \in OwnPaths(j) /\ job[j].target \in Paths /\ Src(j) \in Visible
      /\ Src(j) \in Paths
  BY <1>2, OwnPrivate
<1>4. ~overlapped => ~Taken(job[j].target)
  BY <1>1, <1>2 DEF JobInv, ClearAt
<1>5. "back" \in LiveStep
  BY DEF LiveStep, WorkerStep
<1>6. /\ JobsTyped' /\ job'[j] = [job[j] EXCEPT !.pc = "back"]
      /\ \A k \in Jobs \ {j} : job'[k] = job[k]
  BY <1>1, <1>2, <1>5, GoTyped DEF Operating
<1>7. /\ job'[j].pc = "back" /\ job'[j].root = job[j].root /\ job'[j].backed = job[j].backed
      /\ job'[j].op = job[j].op
  BY <1>2, <1>5, <1>6 DEF Live
<1>8. ASSUME \A p \in Paths : fs'[p] = IF p = job[j].target THEN fs[backup]
                                       ELSE IF p = backup THEN Absent ELSE fs[p]
      PROVE  JobInv(j)'
  <2>1. \A i \in 1..Len(Roots[j]), kind \in Private :
          fs'[<<j, i, kind>>] \in {fs[<<j, i, kind>>], Absent}
    BY <1>2, <1>8, PrivatePath DEF Private
  <2>2. StagesOf(j)' /\ BackupsOf(j)'
    BY <1>1, <1>2, <1>7, <2>1 DEF JobInv, StagesOf, BackupsOf, Taken, Staging, Operating, Private
  <2>3. DestOf(j)' = DestOf(j) /\ Src(j)' = Src(j)
    BY <1>7 DEF DestOf, Src
  <2>4. AwayAt(j)' /\ CopyAt(j)' /\ Src(j) # job[j].target
    BY <1>1, <1>2, <1>7, <2>3 DEF JobInv, AwayAt, CopyAt, Staging
  <2>5. ClearAt(j)'
    <3>1. fs'[Src(j)] = fs[Src(j)]
      BY <1>3, <1>8, <2>4
    <3>2. overlapped' = overlapped
      BY <1>1 DEF Go, ghosts
    <3>3. QED
      BY <1>1, <1>2, <1>7, <2>3, <3>1, <3>2 DEF JobInv, ClearAt, Staging, Taken
  <2>6. QED
    BY <2>2, <2>4, <2>5 DEF JobInv
<1>9. job[j].pc # "copying" /\ UNCHANGED <<window, ghosts>> /\ Rename(backup, job[j].target)
  BY <1>1, <1>2 DEF Restore, Go
<1> HIDE DEF backup
<1>10. QED
  BY <1>2, <1>3, <1>4, <1>6, <1>8, <1>9, MovingKeeps

\* What was staged goes back, or is removed.
LEMMA BackKeeps ==
  ASSUME FilesInv, NEW j \in Jobs, Back(j)
  PROVE  FilesInv'
<1>1. job[j].pc = "back" /\ NextRoot(j) /\ UNCHANGED <<window, ghosts>>
  BY DEF Back, At, NextRoot
<1>2. /\ JobsTyped /\ JobInv(j) /\ Operating(j) /\ job[j] \in Live
      /\ job[j].root \in 1..Len(Roots[j])
  BY <1>1, Staged DEF Staging
<1>3. /\ Stage(j) \in OwnPaths(j) /\ Stage(j) \in Paths /\ Stage(j) \notin Visible
      /\ Src(j) \in Visible /\ Src(j) \in OwnPaths(j)
  BY <1>2, OwnPrivate
<1>4. /\ JobsTyped' /\ \A k \in Jobs \ {j} : job'[k] = job[k]
      /\ job'[j] = [job[j] EXCEPT !.pc = "root", !.root = @ + 1, !.target = Absent, !.backed = FALSE,
                                  !.item = Absent]
  BY <1>1, <1>2, NextRootTyped DEF Operating
<1>5. job'[j].pc = "root" /\ job'[j].root = job[j].root + 1 /\ job'[j].backed = FALSE
  BY <1>2, <1>4 DEF Live
<1>6. ASSUME \A p \in Paths : p \notin Visible => fs'[p] = IF p = Stage(j) THEN Absent ELSE fs[p]
      PROVE  JobInv(j)'
  <2>1. fs'[Stage(j)] = Absent
    BY <1>3, <1>6
  <2>2. \A i \in 1..Len(Roots[j]), kind \in Private :
          fs'[<<j, i, kind>>] \in {fs[<<j, i, kind>>], Absent}
    BY <1>6, PrivatePath DEF Private
  <2>3. QED
    BY <1>1, <1>5, <2>1, <2>2, NextItem DEF Staging
<1>7. CASE job[j].op = "move"
  <2>1. ~overlapped => ~Taken(Src(j))
    BY <1>1, <1>2, <1>7 DEF JobInv, ClearAt, Staging
  <2>2. Rename(Stage(j), Src(j))
    BY <1>7 DEF Back
  <2>3. ASSUME \A p \in Paths : fs'[p] = IF p = Src(j) THEN fs[Stage(j)]
                                         ELSE IF p = Stage(j) THEN Absent ELSE fs[p]
        PROVE  JobInv(j)'
    BY <1>3, <1>6, <2>3
  <2>4. QED
    BY <1>1, <1>2, <1>3, <1>4, <2>1, <2>2, <2>3, MovingKeeps
<1>8. CASE job[j].op # "move"
  <2>1. RemovePaths({Stage(j)}) /\ UNCHANGED given_up
    BY <1>8 DEF Back
  <2>2. ASSUME \A q \in Paths : fs'[q] = IF q = Stage(j) THEN Absent ELSE fs[q]
        PROVE  JobInv(j)'
    BY <1>6, <2>2
  <2>3. QED
    BY <1>1, <1>2, <1>3, <1>4, <2>1, <2>2, RemovingKeeps
<1>9. QED
  BY <1>7, <1>8

\* The source of a move to another device is removed, or stays.
LEMMA SourceKeeps ==
  ASSUME FilesInv, NEW j \in Jobs, RemoveSource(j)
  PROVE  FilesInv'
<1>1. job[j].pc = "source"
  BY DEF RemoveSource, At
<1>2. /\ JobsTyped /\ JobInv(j) /\ Operating(j) /\ job[j] \in Live
      /\ job[j].root \in 1..Len(Roots[j])
  BY <1>1, Staged
<1>3. PICK moved \in BOOLEAN : Note(j, moved)
  BY DEF RemoveSource
<1>4. /\ JobsTyped' /\ \A k \in Jobs \ {j} : job'[k] = job[k]
      /\ job'[j] = [job[j] EXCEPT !.pc = "root", !.root = @ + 1, !.target = Absent, !.backed = FALSE,
                                  !.item = Absent, !.steps = Append(@, UndoStep(j, moved))]
  BY <1>1, <1>2, <1>3, NoteTyped DEF Aimed
<1>5. job'[j].pc = "root" /\ job'[j].root = job[j].root + 1 /\ job'[j].backed = FALSE
  BY <1>2, <1>4 DEF Live
<1>6. UNCHANGED <<window, ghosts>>
  BY <1>3 DEF Note
<1>7. ~Taken(Stage(j))
  BY <1>1, <1>2 DEF JobInv, StagesOf, Stage, Staging
<1>8. PICK lost \in {{}, Destroyed({Src(j)}, "removed")} :
        \/ RemovePaths({Src(j)}) /\ given_up' = given_up \cup lost
        \/ RemoveHalf(Src(j)) /\ given_up' = given_up \cup lost
        \/ UNCHANGED disk
  BY DEF RemoveSource
<1>9. Src(j) \in OwnPaths(j) /\ Src(j) \in Visible /\ Src(j) \in Paths
  BY <1>2, OwnPrivate
<1>10. CASE RemovePaths({Src(j)}) /\ given_up' = given_up \cup lost
  <2>1. \/ UNCHANGED given_up
        \/ given_up' = given_up \cup Destroyed({Src(j)}, "removed")
    BY <1>8, <1>10
  <2>2. ASSUME \A q \in Paths : fs'[q] = IF q = Src(j) THEN Absent ELSE fs[q]
        PROVE  JobInv(j)'
    <3>1. \A i \in 1..Len(Roots[j]), kind \in Private :
            fs'[<<j, i, kind>>] \in {fs[<<j, i, kind>>], Absent}
      BY <2>2, PrivatePath DEF Private
    <3>2. QED
      BY <1>1, <1>5, <1>7, <3>1, NextItem
  <2>3. QED
    BY <1>1, <1>2, <1>4, <1>6, <1>9, <1>10, <2>1, <2>2, RemovingKeeps
<1>11. CASE RemoveHalf(Src(j)) /\ given_up' = given_up \cup lost
  <2>1. WindowTyped' /\ GhostsTyped' /\ overlapped' = overlapped /\ undo' = undo
    BY <1>6, WindowKept
  <2>2. JobInv(j)'
    BY <1>1, <1>5, <1>7, <1>11, NextItem DEF RemoveHalf
  <2>3. DiskTyped'
    <3>1. DiskTyped /\ Destroyed({Src(j)}, "removed") \subseteq Visible \X {"overwritten", "expired", "removed"}
      BY <1>9, DestroyedTyped DEF FilesInv, Typed
    <3>2. fs[Src(j)] \in Visible
      BY <1>9, <1>11, <3>1 DEF RemoveHalf, Taken, DiskTyped
    <3>3. given_up' \subseteq Visible \X {"overwritten", "expired", "removed"}
      BY <1>8, <1>11, <3>1 DEF DiskTyped
    <3>4. QED
      BY <1>9, <1>11, <3>1, <3>2, <3>3 DEF RemoveHalf, DiskTyped
  <2>4. OverwritesOnlyInOverlap'
    BY <1>8, <1>11, <2>1 DEF FilesInv, OverwritesOnlyInOverlap, Destroyed
  <2>5. Apart(j)
    BY <1>4, <1>11, <2>1 DEF Apart, RemoveHalf
  <2>6. OnlyTorn'
    <3>1. ASSUME NEW p \in torn' PROVE TornFrom(j, p, Absent, Absent)
      BY <1>1, <1>11 DEF RemoveHalf, TornFrom
    <3>2. QED
      BY <2>3, <2>5, <3>1, TornKept DEF DiskTyped
  <2>7. QED
    BY <1>2, <1>4, <2>1, <2>2, <2>3, <2>4, <2>5, <2>6, Assemble
<1>12. CASE UNCHANGED disk
  <2>1. JobInv(j)'
    BY <1>1, <1>5, <1>7, <1>12, NextItem DEF disk
  <2>2. QED
    BY <1>1, <1>2, <1>4, <1>6, <1>12, <2>1, ThinkingKeeps
<1>13. QED
  BY <1>8, <1>10, <1>11, <1>12

\* Every step of a transfer's thread keeps the invariant.
LEMMA WorkerKeeps ==
  ASSUME FilesInv, NEW j \in Jobs, Worker(j)
  PROVE  FilesInv'
<1>1. CASE Place(j)
  BY <1>1, CommitKeeps, FailKeeps DEF Place, At
<1>2. CASE Fill(j)
  BY <1>2, CommitKeeps, FailKeeps DEF Fill, At
<1>3. QED
  BY <1>1, <1>2, LoopKeeps, StageKeeps, CopyKeeps, DecideKeeps, SwapKeeps, RestoreKeeps,
     BackKeeps, SourceKeeps DEF Worker

-----------------------------------------------------------------------------
(* The steps of the window *)

\* Paths of which none is a stage.
NoStage(ps) == \A j \in Jobs : \A i \in 1..Len(Roots[j]) : <<j, i, "partial">> \notin ps

\* The backups that steps of undo know of are paths, and no stages.
LEMMA BackupPaths ==
  ASSUME NEW steps \in Seq(Step)
  PROVE  Backups(steps) \subseteq Paths /\ NoStage(Backups(steps))
<1>1. ASSUME NEW s \in Step
      PROVE  Backup(s) \in Paths /\ \A j \in Jobs : \A i \in 1..Len(Roots[j]) : <<j, i, "partial">> # Backup(s)
  BY PrivatePath DEF Step, Backup, Private
<1>2. ToSet(steps) \subseteq Step
  BY DEF ToSet
<1>3. QED
  BY <1>1, <1>2 DEF Backups, NoStage

\* What may change on disk without disturbing a transfer.
Shrinks ==
  /\ DiskTyped' /\ halfway' = halfway
  /\ \A p \in torn' : p \in torn /\ fs'[p] = fs[p]
  /\ \A p \in Paths : fs'[p] \in {fs[p], Absent}
  /\ \A j \in Jobs : \A i \in 1..Len(Roots[j]) : fs'[<<j, i, "partial">>] = fs[<<j, i, "partial">>]
  /\ \A g \in given_up' : g[2] = "overwritten" => g \in given_up

\* Deleting backups is such a change.
LEMMA CleanupShrinks ==
  ASSUME DiskTyped, NEW ps \in SUBSET Paths, NoStage(ps), Cleanup(ps)
  PROVE  Shrinks
<1>1. fs' \in [Paths -> Visible \cup {Absent}] /\ torn' \subseteq Paths /\ halfway' \subseteq Visible
  BY RemoveTyped DEF Cleanup
<1>2. Destroyed(ps, "expired") \subseteq Visible \X {"overwritten", "expired", "removed"}
  BY DestroyedTyped
<1>3. DiskTyped'
  BY <1>1, <1>2 DEF Cleanup, DiskTyped
<1>4. /\ halfway' = halfway /\ \A p \in Paths : fs'[p] \in {fs[p], Absent}
      /\ \A p \in Paths \ ps : fs'[p] = fs[p]
  BY DEF Cleanup, RemovePaths
<1>6. \A p \in torn' : p \in torn /\ fs'[p] = fs[p]
  BY <1>4 DEF Cleanup, RemovePaths, DiskTyped
<1>7. \A j \in Jobs : \A i \in 1..Len(Roots[j]) : fs'[<<j, i, "partial">>] = fs[<<j, i, "partial">>]
  BY <1>4, PrivatePath DEF NoStage, Private
<1>5. \A g \in given_up' : g[2] = "overwritten" => g \in given_up
  BY DEF Cleanup, Destroyed
<1>8. QED
  BY <1>3, <1>4, <1>5, <1>6, <1>7 DEF Shrinks

\* So is nothing at all.
LEMMA SameShrinks ==
  ASSUME DiskTyped, UNCHANGED disk
  PROVE  Shrinks
BY DEF Shrinks, DiskTyped, disk

\* A record that enters the history, at the limit in the place of the oldest.
LEMMA PushShrinks ==
  ASSUME DiskTyped, WindowTyped, NEW tab \in Tabs, NEW record \in Record, Push(tab, record)
  PROVE  /\ Shrinks /\ history' \in [Tabs -> Seq(Record)]
         /\ \A t \in Tabs : Len(history'[t]) <= MaxUndo
<1>1. history[tab] \in Seq(Record) /\ Len(history[tab]) <= MaxUndo /\ MaxUndo \in Nat \ {0}
  BY FilesAssumption DEF WindowTyped
<1>2. CASE Len(history[tab]) >= MaxUndo
  <2>1. history[tab] # <<>> /\ Head(history[tab]) \in Record /\ Tail(history[tab]) \in Seq(Record)
        /\ Len(Tail(history[tab])) = Len(history[tab]) - 1
    BY <1>1, <1>2, HeadTailProperties, EmptySeq
  <2>2. /\ Append(Tail(history[tab]), record) \in Seq(Record)
        /\ Len(Append(Tail(history[tab]), record)) = Len(history[tab])
    BY <1>1, <2>1, AppendProperties
  <2>3. Backups(Head(history[tab]).steps) \subseteq Paths /\ NoStage(Backups(Head(history[tab]).steps))
    BY <2>1, BackupPaths DEF Record
  <2>4. history' = [history EXCEPT ![tab] = Append(Tail(@), record)] /\ Cleanup(Backups(Head(history[tab]).steps))
    BY <1>2 DEF Push
  <2>5. Shrinks
    BY <2>3, <2>4, CleanupShrinks
  <2>6. QED
    BY <1>1, <2>2, <2>4, <2>5 DEF WindowTyped
<1>3. CASE ~(Len(history[tab]) >= MaxUndo)
  <2>1. history' = [history EXCEPT ![tab] = Append(@, record)] /\ UNCHANGED disk
    BY <1>3 DEF Push
  <2>2. /\ Append(history[tab], record) \in Seq(Record)
        /\ Len(Append(history[tab], record)) = Len(history[tab]) + 1
    BY <1>1, AppendProperties
  <2>3. Len(history[tab]) + 1 <= MaxUndo
    BY <1>1, <1>3
  <2>4. Shrinks
    BY <2>1, SameShrinks
  <2>5. QED
    BY <2>1, <2>2, <2>3, <2>4 DEF WindowTyped
<1>4. QED
  BY <1>2, <1>3

\* A step of the window that leaves the transfers alone.
LEMMA WindowKeeps ==
  ASSUME FilesInv, Shrinks, job' = job, WindowTyped', GhostsTyped', Alone',
         overlapped => overlapped', undo' = undo \/ (undo.at = "step" /\ undo'.at = "step")
  PROVE  FilesInv'
<1>1. JobsTyped'
  BY DEF FilesInv, Typed, JobsTyped
<1>2. OnlyTorn'
  <2>1. \A p : CopyStage(p)' <=> CopyStage(p)
    BY DEF CopyStage, Stage
  <2>2. \A p \in torn' : p \in torn /\ (Taken(p)' <=> Taken(p)) /\ (Loose(p)' <=> Loose(p)) /\ fs'[p] = fs[p]
    BY <2>1 DEF Loose, Shrinks, Taken
  <2>3. QED
    BY <2>2 DEF FilesInv, OnlyTorn
<1>6. ClearToFill'
  <2>1. SUFFICES ASSUME undo' = undo, undo.at = "fill", ~overlapped PROVE ~Taken(InHand.dest)'
    BY DEF ClearToFill
  <2>2. undo # NoUndo /\ InHand \in Step
    <3>1. undo \in Undoing /\ undo.next \in 1..Len(undo.steps)
      BY <2>1 DEF FilesInv, Typed, WindowTyped, NoUndo
    <3>2. QED
      BY <2>1, <3>1 DEF InHand, Undoing, NoUndo
  <2>3. InHand.dest \in Paths
    BY <2>2 DEF Step, Paths
  <2>4. QED
    BY <2>1, <2>3 DEF FilesInv, ClearToFill, Shrinks, Taken, InHand
<1>3. OverwritesOnlyInOverlap'
  BY DEF FilesInv, OverwritesOnlyInOverlap, Shrinks
<1>4. ASSUME NEW j \in Jobs PROVE JobInv(j)'
  <2>1. JobInv(j)
    BY DEF FilesInv
  <2>2. \A i \in 1..Len(Roots[j]), kind \in Private :
          fs'[<<j, i, kind>>] \in {fs[<<j, i, kind>>], Absent}
    BY PrivatePath DEF Shrinks, Private
  <2>3. StagesOf(j)' /\ BackupsOf(j)' /\ AwayAt(j)'
    BY <2>1, <2>2 DEF JobInv, StagesOf, BackupsOf, AwayAt, Operating, Taken, DestOf, Src, Private
  <2>6. CopyAt(j)'
    <3>1. job[j].pc = "copying" => job[j].root \in 1..Len(Roots[j])
      BY DEF FilesInv, Typed, JobsTyped, Staging
    <3>2. QED
      BY <2>1, <3>1 DEF JobInv, CopyAt, Shrinks, Stage
  <2>4. ClearAt(j)'
    <3>1. job[j].pc \in {"place", "fill", "restore"} => job[j].target \in Paths
      BY DEF FilesInv, Typed, JobsTyped, Aimed, Paths
    <3>2. job[j].pc \in Staging => Src(j) \in Paths
      BY VisiblePath DEF FilesInv, Typed, JobsTyped, Src
    <3>3. QED
      BY <2>1, <3>1, <3>2 DEF JobInv, ClearAt, Shrinks, Taken, Src
  <2>5. QED
    BY <2>3, <2>4, <2>6 DEF JobInv
<1>5. QED
  BY <1>1, <1>2, <1>3, <1>4, <1>6 DEF FilesInv, Typed, Shrinks

\* A transfer starts: it overlaps with any that is under way.
LEMMA StartKeeps ==
  ASSUME FilesInv, NEW j \in Jobs, NEW tab \in TabOf[j], NEW op \in Ops[j], NEW policy \in Policy,
         StartTransfer(j, tab, op, policy)
  PROVE  FilesInv'
<1>1. /\ JobsTyped /\ DiskTyped /\ WindowTyped /\ GhostsTyped /\ job[j].pc = "idle"
      /\ tab \in Tabs
  BY FilesAssumption DEF FilesInv, Typed, StartTransfer
<1> DEFINE new == [pc |-> "scan", op |-> op, policy |-> policy, root |-> 1, cancelled |-> FALSE,
                   target |-> Absent, backed |-> FALSE, item |-> Absent, whole |-> TRUE, steps |-> <<>>,
                   tab |-> tab, was |-> Look]
<1>2. new \in Live /\ new.pc = "scan" /\ new.root = 1 /\ new.backed = FALSE
  <2>1. "scan" \in LiveStep /\ op \in Asked
    BY DEF LiveStep, WorkerStep, Asked
  <2>2. Look \in Looks
    BY <1>1 DEF Look, Looks, DiskTyped, Paths
  <2>3. <<>> \in Seq(Step)
    OBVIOUS
  <2>4. QED
    BY <1>1, <2>1, <2>2, <2>3 DEF Live
<1>3. job' = [job EXCEPT ![j] = new]
  BY DEF StartTransfer
<1> HIDE DEF new
<1>4. JobsTyped' /\ job'[j] = new /\ \A k \in Jobs \ {j} : job'[k] = job[k]
  <2>1. Len(Roots[j]) \in Nat
    BY FilesAssumption
  <2>2. new.pc \notin Staging \cup {"source"} \cup Aimed /\ new.root \in 1..(Len(Roots[j]) + 1)
    BY <1>2, <2>1 DEF Staging, Aimed
  <2>3. QED
    BY <1>1, <1>2, <1>3, <2>2, JobMoves
<1>5. /\ WindowTyped' /\ undo' = undo /\ fs' = fs /\ torn' = torn /\ given_up' = given_up
      /\ halfway' = halfway
  BY <1>1 DEF StartTransfer, WindowTyped, window, disk
<1>6. DiskTyped'
  BY <1>1, <1>5 DEF DiskTyped
<1>7. GhostsTyped' /\ overlapped' = (overlapped \/ Busy \/ undo # NoUndo)
  BY <1>1, AppendProperties DEF StartTransfer, GhostsTyped
<1>8. OnlyTorn' /\ ClearToFill'
  <2>1. \A k \in Jobs : job[k].pc = "copying" => k # j /\ job'[k] = job[k]
    BY <1>1, <1>4
  <2>2. \A k \in Jobs : job'[k].pc = "copying" => k # j /\ job'[k] = job[k]
    BY <1>2, <1>4
  <2>3. \A p : CopyStage(p)' <=> CopyStage(p)
    BY <2>1, <2>2 DEF CopyStage, Stage
  <2>4. \A p : (Loose(p)' <=> Loose(p)) /\ (Taken(p)' <=> Taken(p))
    BY <1>5, <2>3 DEF Loose, Taken
  <2>5. OnlyTorn'
    BY <1>5, <2>4 DEF FilesInv, OnlyTorn
  <2>6. undo.at = "step" /\ undo'.at = "step"
    BY <1>5 DEF StartTransfer, Free
  <2>7. QED
    BY <2>5, <2>6 DEF ClearToFill
<1>9. Alone'
  <2>1. ~overlapped' => undo' = NoUndo /\ \A k \in Jobs : ~Operating(k)
    BY <1>5, <1>7 DEF Operating, Busy
  <2>2. \A k \in Jobs \ {j} : Operating(k)' <=> Operating(k)
    BY <1>4 DEF Operating
  <2>3. QED
    BY <2>1, <2>2 DEF Alone
<1>10. OverwritesOnlyInOverlap'
  BY <1>5, <1>7 DEF FilesInv, OverwritesOnlyInOverlap
<1>11. ASSUME NEW k \in Jobs \ {j} PROVE JobInv(k)'
  <2>1. JobInv(k) /\ job'[k] = job[k]
    BY <1>4 DEF FilesInv
  <2>2. QED
    BY <1>5, <1>7, <2>1
       DEF JobInv, StagesOf, BackupsOf, AwayAt, CopyAt, ClearAt, Operating, Taken, DestOf, Src, Stage
<1>12. JobInv(j)'
  <2>1. JobInv(j)
    BY DEF FilesInv
  <2>2. QED
    BY <1>1, <1>2, <1>4, <1>5, <2>1 DEF JobInv, StagesOf, BackupsOf, AwayAt, CopyAt, ClearAt, Operating, Taken, Staging
<1>13. QED
  BY <1>4, <1>5, <1>6, <1>7, <1>8, <1>9, <1>10, <1>11, <1>12 DEF FilesInv, Typed

\* Cancelling only raises a flag.
LEMMA CancelKeeps ==
  ASSUME FilesInv, NEW j \in Jobs, CancelTransfer(j)
  PROVE  FilesInv'
<1>1. JobsTyped /\ DiskTyped /\ JobInv(j) /\ job[j].pc \notin {"idle", "done"} /\ job[j] \in Live
  BY IsLive DEF FilesInv, Typed, CancelTransfer, Active
<1> DEFINE new == [job[j] EXCEPT !.cancelled = TRUE]
<1>2. /\ new \in Live /\ new.pc = job[j].pc /\ new.root = job[j].root /\ new.op = job[j].op
      /\ new.target = job[j].target /\ new.backed = job[j].backed /\ new.whole = job[j].whole
  BY <1>1 DEF Live
<1>3. job' = [job EXCEPT ![j] = new]
  BY DEF CancelTransfer
<1> HIDE DEF new
<1>4. JobsTyped' /\ job'[j] = new /\ \A k \in Jobs \ {j} : job'[k] = job[k]
  <2>1. /\ new.pc \in Staging \cup {"source"} => new.root \in 1..Len(Roots[j])
        /\ new.root \in 1..(Len(Roots[j]) + 1)
        /\ new.pc \in Aimed => new.target \in Visible
    BY <1>1, <1>2 DEF JobsTyped
  <2>2. QED
    BY <1>1, <1>2, <1>3, <2>1, JobMoves
<1>5. WindowTyped' /\ GhostsTyped' /\ overlapped' = overlapped /\ undo' = undo
  BY WindowKept DEF CancelTransfer
<1>6. fs' = fs /\ torn' = torn /\ given_up' = given_up /\ halfway' = halfway
  BY DEF CancelTransfer, disk
<1>7. DiskTyped' /\ OverwritesOnlyInOverlap'
  BY <1>1, <1>5, <1>6 DEF DiskTyped, FilesInv, OverwritesOnlyInOverlap
<1>8. OnlyTorn'
  <2>1. \A k \in Jobs : job'[k].pc = job[k].pc /\ Stage(k)' = Stage(k)
    BY <1>2, <1>4 DEF Stage
  <2>2. QED
    BY <1>5, <1>6, <2>1 DEF FilesInv, OnlyTorn, Loose, CopyStage, Taken
<1>9. JobInv(j)'
  BY <1>1, <1>2, <1>4, <1>5, <1>6
     DEF JobInv, StagesOf, BackupsOf, AwayAt, CopyAt, ClearAt, Operating, Taken, DestOf, Src, Stage
<1>10. Apart(j) /\ Operating(j)
  BY <1>1, <1>4, <1>5, <1>6 DEF Apart, Operating
<1>11. QED
  BY <1>4, <1>5, <1>7, <1>8, <1>9, <1>10, Assemble

\* The window hears of a finished transfer, and remembers what it did.
LEMMA ReportKeeps ==
  ASSUME FilesInv, NEW j \in Jobs, Report(j)
  PROVE  FilesInv'
<1>1. /\ JobsTyped /\ DiskTyped /\ WindowTyped /\ GhostsTyped /\ JobInv(j) /\ job[j] \in Live
      /\ job[j].pc = "report" /\ Operating(j)
  BY IsLive DEF FilesInv, Typed, Report, At, Operating
<1>2. /\ job' = [job EXCEPT ![j] = [pc |-> "done"]]
      /\ undo' = undo /\ open' = open /\ running' = running /\ overlapped' = overlapped
  BY DEF Report
<1>3. JobsTyped' /\ job'[j].pc = "done" /\ \A k \in Jobs \ {j} : job'[k] = job[k]
  <2>1. [pc |-> "done"] \in Resting
    BY DEF Resting
  <2>2. job' \in [Jobs -> Live \cup Resting] /\ job'[j] = [pc |-> "done"]
        /\ \A k \in Jobs \ {j} : job'[k] = job[k]
    BY <1>1, <1>2, <2>1 DEF JobsTyped
  <2>3. job'[j].pc = "done"
    BY <2>2
  <2>4. QED
    BY <1>1, <2>2, <2>3 DEF JobsTyped, Staging, Aimed
<1>4. /\ Shrinks /\ history' \in [Tabs -> Seq(Record)]
      /\ \A t \in Tabs : Len(history'[t]) <= MaxUndo
      /\ order' \in Seq(Jobs \cup {OutOfOrder})
  <2>1. CASE job[j].steps = <<>>
    <3>1. UNCHANGED <<disk, history>>
      BY <2>1 DEF Report
    <3>2. PICK i \in DOMAIN order : order' = RemoveAt(order, i)
      BY <2>1 DEF Report
    <3>3. order \in Seq(Jobs \cup {OutOfOrder}) /\ i \in 1..Len(order)
      BY <1>1, <3>2 DEF GhostsTyped
    <3>4. SubSeq(order, 1, i - 1) \in Seq(Jobs \cup {OutOfOrder})
      BY <3>3, SubSeqProperties
    <3>5. SubSeq(order, i + 1, Len(order)) \in Seq(Jobs \cup {OutOfOrder})
      BY <3>3, SubSeqProperties
    <3>6. order' \in Seq(Jobs \cup {OutOfOrder})
      BY <3>2, <3>4, <3>5, ConcatProperties DEF RemoveAt
    <3>7. QED
      BY <1>1, <3>1, <3>6, SameShrinks DEF WindowTyped
  <2>2. CASE job[j].steps # <<>>
    <3> DEFINE record == [job |-> j, steps |-> Reverse(job[j].steps), was |-> job[j].was]
    <3>1. job[j].tab \in Tabs /\ job[j].steps \in Seq(Step) /\ job[j].was \in Looks
      BY <1>1 DEF Live
    <3>2. record \in Record
      BY <3>1, ReverseIn DEF Record
    <3>3. Push(job[j].tab, record) /\ order' = order
      BY <2>2 DEF Report
    <3> HIDE DEF record
    <3>4. QED
      BY <1>1, <3>1, <3>2, <3>3, PushShrinks DEF GhostsTyped
  <2>3. QED
    BY <2>1, <2>2
<1>5. WindowTyped' /\ GhostsTyped'
  BY <1>1, <1>2, <1>4 DEF WindowTyped, GhostsTyped
<1>6. DiskTyped' /\ OverwritesOnlyInOverlap'
  BY <1>2, <1>4 DEF Shrinks, FilesInv, OverwritesOnlyInOverlap
<1>7. Apart(j)
  <2>1. ASSUME NEW k \in Jobs, NEW i \in 1..Len(Roots[k]), NEW kind \in Private
        PROVE  /\ fs'[<<k, i, kind>>] \in {fs[<<k, i, kind>>], Absent}
               /\ kind = "partial" => fs'[<<k, i, kind>>] = fs[<<k, i, kind>>]
    BY <1>4, PrivatePath DEF Shrinks, Private
  <2>2. QED
    BY <1>2, <1>3, <1>4, <2>1 DEF Apart, Shrinks
<1>8. OnlyTorn'
  <2>1. \A p \in torn' : TornFrom(j, p, Absent, Absent)
    BY <1>1, <1>4 DEF Shrinks, TornFrom
  <2>2. QED
    BY <1>6, <1>7, <2>1, TornKept DEF DiskTyped
<1>9. JobInv(j)'
  <2>1. \A i \in 1..Len(Roots[j]) : fs'[<<j, i, "partial">>] = Absent
    BY <1>1, <1>4, PrivatePath DEF JobInv, StagesOf, Staging, Shrinks, Taken, Private
  <2>2. QED
    BY <1>3, <2>1 DEF JobInv, StagesOf, BackupsOf, AwayAt, CopyAt, ClearAt, Operating, Taken, Staging
<1>10. QED
  BY <1>1, <1>3, <1>5, <1>6, <1>7, <1>8, <1>9, Assemble

\* Undo begins: it overlaps with any transfer that is under way.
LEMMA BeginUndoKeeps ==
  ASSUME FilesInv, NEW tab \in Tabs, BeginUndo(tab)
  PROVE  FilesInv'
<1>1. JobsTyped /\ DiskTyped /\ WindowTyped /\ GhostsTyped
  BY DEF FilesInv, Typed
<1> DEFINE record == Last(history[tab])
<1>2. /\ history[tab] \in Seq(Record) /\ history[tab] # <<>> /\ record \in Record
      /\ Front(history[tab]) \in Seq(Record) /\ Len(Front(history[tab])) <= MaxUndo
  <2>1. history[tab] \in Seq(Record) /\ history[tab] # <<>> /\ Len(history[tab]) <= MaxUndo
    BY <1>1 DEF BeginUndo, WindowTyped
  <2>2. /\ Last(history[tab]) \in Record /\ Front(history[tab]) \in Seq(Record)
        /\ Len(Front(history[tab])) = Len(history[tab]) - 1
    BY <2>1, LastIn
  <2>3. Len(history[tab]) \in Nat /\ MaxUndo \in Nat
    BY <2>1, FilesAssumption
  <2>4. QED
    BY <2>1, <2>2, <2>3
<1>3. history' = [history EXCEPT ![tab] = Front(@)]
  BY DEF BeginUndo
<1>4. /\ history' \in [Tabs -> Seq(Record)]
      /\ \A t \in Tabs : Len(history'[t]) <= MaxUndo
  BY <1>1, <1>2, <1>3 DEF WindowTyped
<1>5. undo' = [job |-> record.job, steps |-> record.steps, was |-> record.was,
               tab |-> tab, next |-> 1, failed |-> <<>>, at |-> "step", item |-> Absent]
  BY DEF BeginUndo
<1> HIDE DEF record
<1>6. undo' \in Undoing /\ undo'.next \in 1..(Len(undo'.steps) + 1) /\ undo'.at = "step"
  <2>1. record.job \in Jobs /\ record.steps \in Seq(Step) /\ record.was \in Looks
        /\ Len(record.steps) \in Nat
    BY <1>2 DEF Record
  <2>2. <<>> \in Seq(Step)
    OBVIOUS
  <2>3. undo' \in Undoing
    BY <1>5, <2>1, <2>2 DEF Undoing
  <2>4. undo'.next = 1 /\ undo'.steps = record.steps /\ undo'.at = "step"
    BY <1>5
  <2>5. QED
    BY <2>1, <2>3, <2>4
<1>7. WindowTyped'
  BY <1>1, <1>4, <1>6 DEF BeginUndo, WindowTyped
<1>8. GhostsTyped' /\ overlapped' = (overlapped \/ Busy) /\ job' = job /\ UNCHANGED disk
  BY <1>1 DEF BeginUndo, GhostsTyped
<1>9. Alone' /\ undo.at = "step"
  BY <1>8 DEF FilesInv, Alone, Operating, Busy, BeginUndo, NoUndo
<1>10. QED
  BY <1>1, <1>6, <1>7, <1>8, <1>9, SameShrinks, WindowKeeps

\* A tab is closed, or the window and with it the process.
LEMMA CloseKeeps ==
  ASSUME FilesInv, CloseWindow \/ \E tab \in Tabs : CloseTab(tab)
  PROVE  FilesInv'
<1>1. JobsTyped /\ DiskTyped /\ WindowTyped /\ GhostsTyped
  BY DEF FilesInv, Typed
<1>2. <<>> \in Seq(Record) /\ Len(<<>>) <= MaxUndo
  BY FilesAssumption
<1>3. CASE \E tab \in Tabs : CloseTab(tab)
  <2>1. PICK tab \in Tabs : CloseTab(tab)
    BY <1>3
  <2>2. open \ {tab} # {}
    <3>1. open # {tab}
      <4>1. Cardinality({tab}) = 1 /\ Cardinality(open) > 1
        BY <2>1, FS_Singleton DEF CloseTab
      <4>2. QED
        BY <4>1
    <3>2. QED
      BY <1>1, <3>1 DEF WindowTyped
  <2>3. /\ history' \in [Tabs -> Seq(Record)]
        /\ \A t \in Tabs : Len(history'[t]) <= MaxUndo
    BY <1>1, <1>2, <2>1 DEF CloseTab, WindowTyped
  <2>4. WindowTyped'
    BY <1>1, <2>1, <2>2, <2>3 DEF CloseTab, WindowTyped
  <2>5. GhostsTyped' /\ overlapped' = overlapped /\ job' = job /\ UNCHANGED disk /\ undo' = undo
    BY <1>1, <2>1 DEF CloseTab, GhostsTyped, ghosts
  <2>6. Alone'
    BY <2>5 DEF FilesInv, Alone, Operating
  <2>7. QED
    BY <1>1, <2>4, <2>5, <2>6, SameShrinks, WindowKeeps
<1>4. CASE CloseWindow
  <2> DEFINE ps == UNION {Backups(r.steps) : r \in UNION {ToSet(history[t]) : t \in open}}
  <2>1. ps \subseteq Paths /\ NoStage(ps)
    <3>1. ASSUME NEW t \in open, NEW r \in ToSet(history[t])
          PROVE  Backups(r.steps) \subseteq Paths /\ NoStage(Backups(r.steps))
      <4>1. r \in Record
        BY <1>1 DEF WindowTyped, ToSet
      <4>2. QED
        BY <4>1, BackupPaths DEF Record
    <3>2. QED
      BY <3>1 DEF NoStage
  <2>2. Cleanup(ps)
    BY <1>4 DEF CloseWindow
  <2> HIDE DEF ps
  <2>3. Shrinks
    BY <1>1, <2>1, <2>2, CleanupShrinks
  <2>4. /\ history' \in [Tabs -> Seq(Record)]
        /\ \A t \in Tabs : Len(history'[t]) <= MaxUndo
    BY <1>1, <1>2, <1>4 DEF CloseWindow, WindowTyped
  <2>5. WindowTyped'
    BY <1>1, <1>4, <2>4 DEF CloseWindow, WindowTyped
  <2>6. GhostsTyped' /\ overlapped' = overlapped /\ job' = job /\ undo' = undo
    BY <1>1, <1>4 DEF CloseWindow, GhostsTyped, ghosts
  <2>7. Alone'
    BY <2>6 DEF FilesInv, Alone, Operating
  <2>8. QED
    BY <2>3, <2>5, <2>6, <2>7, WindowKeeps
<1>5. QED
  BY <1>3, <1>4

\* What the step of an undo in hand is about: names a user sees, and private ones
\* that are no stages.
UndoPaths == Visible \cup {p \in Hidden : p[3] # "partial"}

LEMMA UndoPath ==
  ASSUME NEW p \in UndoPaths
  PROVE  p \in Paths /\ \A j \in Jobs : \A i \in 1..Len(Roots[j]) : p # <<j, i, "partial">>
<1>1. ASSUME NEW j \in Jobs, NEW i \in 1..Len(Roots[j]) PROVE p # <<j, i, "partial">>
  <2>1. <<j, i, "partial">> \notin Visible /\ <<j, i, "partial">>[3] = "partial"
    BY PrivatePath DEF Private
  <2>2. QED
    BY <2>1 DEF UndoPaths
<1>2. QED
  BY <1>1 DEF UndoPaths, Paths

LEMMA StepInHand ==
  ASSUME FilesInv, NEW at, UndoAt(at)
  PROVE  /\ undo \in Undoing /\ undo.next \in 1..Len(undo.steps) /\ InHand \in Step
         /\ InHand.dest \in Visible /\ Origin(InHand) \in Visible
         /\ InHand.item \in Visible \cup {Absent} /\ undo.item \in Visible \cup {Absent}
         /\ Backup(InHand) \in UndoPaths \ Visible /\ Displaced(InHand) \in UndoPaths \ Visible
<1>1. undo \in Undoing /\ undo.next \in 1..Len(undo.steps)
  BY DEF FilesInv, Typed, WindowTyped, UndoAt, Undoing
<1>2. InHand \in Step
  BY <1>1 DEF InHand, Undoing
<1>3. InHand.job \in Jobs /\ InHand.root \in 1..Len(Roots[InHand.job])
  BY <1>2 DEF Step
<1>4. Origin(InHand) \in Visible
  BY <1>3, VisiblePath DEF Origin
<1>5. Backup(InHand) \in UndoPaths \ Visible /\ Displaced(InHand) \in UndoPaths \ Visible
  BY <1>3, PrivatePath DEF UndoPaths, Backup, Displaced, Private
<1>6. QED
  BY <1>1, <1>2, <1>4, <1>5 DEF Step, Undoing

\* The step in hand goes on, is done or has failed.
LEMMA StepTyped ==
  ASSUME FilesInv, NEW at, UndoAt(at),
         \/ \E to \in {"carry", "fill", "drop"}, item \in Visible \cup {Absent} : StepGoes(to, item)
         \/ StepDone \/ StepFails
  PROVE  /\ WindowTyped' /\ GhostsTyped' /\ JobsTyped' /\ UndoOnly
         /\ job' = job /\ overlapped' = overlapped /\ undo' \in Undoing
<1>1. /\ JobsTyped /\ WindowTyped /\ GhostsTyped /\ undo \in Undoing /\ undo.next \in 1..Len(undo.steps)
      /\ InHand \in Step /\ undo.next \in Nat
  BY StepInHand DEF FilesInv, Typed
<1>2. UndoOnly
  BY DEF StepGoes, StepDone, StepFails
<1>3. undo.next + 1 \in Nat \ {0} /\ Append(undo.failed, InHand) \in Seq(Step)
      /\ undo.next + 1 \in 1..(Len(undo.steps) + 1) /\ Len(undo.steps) \in Nat
  BY <1>1, AppendProperties DEF Undoing
<1>4. /\ undo' \in Undoing /\ undo'.next \in 1..(Len(undo'.steps) + 1)
      /\ undo'.at # "step" => undo'.next \in 1..Len(undo'.steps)
  <2>1. CASE \E to \in {"carry", "fill", "drop"}, item \in Visible \cup {Absent} : StepGoes(to, item)
    <3>1. PICK to \in {"carry", "fill", "drop"}, item \in Visible \cup {Absent} : StepGoes(to, item)
      BY <2>1
    <3>2. undo' = [undo EXCEPT !.at = to, !.item = item]
      BY <3>1 DEF StepGoes
    <3>3. undo' \in Undoing /\ undo'.next = undo.next /\ undo'.steps = undo.steps
      BY <1>1, <3>2 DEF Undoing
    <3>4. QED
      BY <1>1, <1>3, <3>3
  <2>2. CASE StepDone
    <3>1. undo' \in Undoing /\ undo'.next = undo.next + 1 /\ undo'.steps = undo.steps /\ undo'.at = "step"
      BY <1>1, <1>3, <2>2 DEF Undoing, StepDone
    <3>2. QED
      BY <1>3, <3>1
  <2>3. CASE StepFails
    <3> DEFINE failed == Append(undo.failed, InHand)
    <3>1. undo' = [undo EXCEPT !.at = "step", !.item = Absent, !.next = undo.next + 1, !.failed = failed]
      BY <2>3 DEF StepFails
    <3>2. failed \in Seq(Step)
      BY <1>3
    <3> HIDE DEF failed
    <3>3. undo' \in Undoing /\ undo'.next = undo.next + 1 /\ undo'.steps = undo.steps /\ undo'.at = "step"
      BY <1>1, <1>3, <3>1, <3>2 DEF Undoing
    <3>4. QED
      BY <1>3, <3>3
  <2>4. QED
    BY <2>1, <2>2, <2>3
<1>5. WindowTyped' /\ GhostsTyped' /\ JobsTyped'
  BY <1>1, <1>2, <1>4 DEF UndoOnly, ghosts, WindowTyped, GhostsTyped, JobsTyped
<1>6. QED
  BY <1>2, <1>4, <1>5 DEF UndoOnly, ghosts

\* What a change that a step of undo makes on disk has to keep.
Undisturbed ==
  /\ DiskTyped' /\ OnlyTorn' /\ halfway \subseteq halfway'
  /\ ~overlapped => \A g \in given_up' : g[2] = "overwritten" => g \in given_up
  /\ \A j \in Jobs : \A i \in 1..Len(Roots[j]) :
       /\ fs'[<<j, i, "partial">>] = fs[<<j, i, "partial">>]
       /\ fs'[<<j, i, "replaced">>] \in {fs[<<j, i, "replaced">>], Absent}

LEMMA UndoStepKeeps ==
  ASSUME FilesInv, NEW at, UndoAt(at), Undisturbed, ClearToFill',
         \/ \E to \in {"carry", "fill", "drop"}, item \in Visible \cup {Absent} : StepGoes(to, item)
         \/ StepDone \/ StepFails
  PROVE  FilesInv'
<1>1. /\ WindowTyped' /\ GhostsTyped' /\ JobsTyped' /\ job' = job /\ overlapped' = overlapped
  BY StepTyped
<1>2. Alone' /\ (~overlapped => \A j \in Jobs : ~Operating(j))
  BY <1>1 DEF FilesInv, Alone, Operating, UndoAt
<1>3. OverwritesOnlyInOverlap'
  BY <1>1 DEF Undisturbed, FilesInv, OverwritesOnlyInOverlap
<1>4. ASSUME NEW j \in Jobs PROVE JobInv(j)'
  <2>1. JobInv(j)
    BY DEF FilesInv
  <2>2. StagesOf(j)' /\ BackupsOf(j)' /\ AwayAt(j)'
    BY <1>1, <2>1 DEF Undisturbed, JobInv, StagesOf, BackupsOf, AwayAt, Operating, Taken, DestOf, Src
  <2>3. CopyAt(j)'
    <3>1. job[j].pc = "copying" => job[j].root \in 1..Len(Roots[j])
      BY DEF FilesInv, Typed, JobsTyped, Staging
    <3>2. QED
      BY <1>1, <2>1, <3>1 DEF Undisturbed, JobInv, CopyAt, Stage
  <2>4. ClearAt(j)'
    BY <1>1, <1>2 DEF ClearAt, Operating, Staging
  <2>5. QED
    BY <2>2, <2>3, <2>4 DEF JobInv
<1>5. QED
  BY <1>1, <1>2, <1>3, <1>4 DEF FilesInv, Typed, Undisturbed

\* As long as nothing is loose, and every path that is not whole was so before or
\* is known to be half, nothing becomes loose.
LEMMA NothingLoose ==
  ASSUME FilesInv, undo.at # "carry", job' = job, halfway \subseteq halfway', halfway' \subseteq Visible,
         \A p \in torn' : fs'[p] \in halfway' \/ (p \in torn /\ fs'[p] = fs[p])
  PROVE  OnlyTorn'
<1>1. ASSUME NEW p \in torn' PROVE Taken(p)' /\ ~Loose(p)'
  <2>1. CASE fs'[p] \in halfway'
    BY <2>1, FilesAssumption DEF Loose, Taken
  <2>2. CASE p \in torn /\ fs'[p] = fs[p]
    BY <2>2 DEF FilesInv, OnlyTorn, Loose, CopyStage, Stage, Taken
  <2>3. QED
    BY <2>1, <2>2
<1>2. QED
  BY <1>1 DEF OnlyTorn

\* What is torn at such a name then is known to be half.
LEMMA TornHalf ==
  ASSUME FilesInv, undo.at # "carry", NEW p \in UndoPaths \cap torn
  PROVE  fs[p] \in halfway
<1>1. ASSUME NEW j \in Jobs, job[j].pc = "copying", p = Stage(j) PROVE FALSE
  <2>1. job[j].root \in 1..Len(Roots[j])
    BY <1>1 DEF FilesInv, Typed, JobsTyped, Staging
  <2>2. QED
    BY <1>1, <2>1, UndoPath DEF Stage
<1>2. QED
  BY <1>1 DEF FilesInv, OnlyTorn, Loose, CopyStage

\* A rename to where nothing is, unless operations overlap.
LEMMA RenameUndisturbed ==
  ASSUME FilesInv, undo.at # "carry", NEW from \in UndoPaths, NEW to \in UndoPaths,
         Rename(from, to), job' = job, ~overlapped => ~Taken(to),
         \A j \in Jobs : \A i \in 1..Len(Roots[j]) : to # <<j, i, "replaced">>
  PROVE  /\ Undisturbed
         /\ \A p \in Paths : fs'[p] = IF p = to THEN fs[from] ELSE IF p = from THEN Absent ELSE fs[p]
<1>1. from \in Paths /\ to \in Paths /\ DiskTyped
  BY UndoPath DEF FilesInv, Typed
<1>2. DiskTyped' /\ halfway' = halfway
  BY <1>1, RenameTyped DEF Rename
<1>3. \A p \in Paths : fs'[p] = IF p = to THEN fs[from] ELSE IF p = from THEN Absent ELSE fs[p]
  BY <1>1 DEF Rename, DiskTyped
<1>4. OnlyTorn'
  <2>1. ASSUME NEW p \in torn' PROVE fs'[p] \in halfway' \/ (p \in torn /\ fs'[p] = fs[p])
    <3>1. CASE p = to /\ from \in torn
      BY <1>1, <1>2, <1>3, <3>1, TornHalf
    <3>2. CASE ~(p = to /\ from \in torn)
      BY <1>1, <1>2, <1>3, <3>2 DEF Rename, DiskTyped
    <3>3. QED
      BY <3>1, <3>2
  <2>2. QED
    BY <1>2, <2>1, NothingLoose DEF DiskTyped
<1>5. ~overlapped => \A g \in given_up' : g[2] = "overwritten" => g \in given_up
  BY DEF Rename, Destroyed
<1>6. ASSUME NEW j \in Jobs, NEW i \in 1..Len(Roots[j])
      PROVE  /\ fs'[<<j, i, "partial">>] = fs[<<j, i, "partial">>]
             /\ fs'[<<j, i, "replaced">>] \in {fs[<<j, i, "replaced">>], Absent}
  BY <1>3, PrivatePath, UndoPath DEF Private
<1>7. QED
  BY <1>2, <1>3, <1>4, <1>5, <1>6 DEF Undisturbed

\* A removal, or half of one, at such a name.
LEMMA RemoveUndisturbed ==
  ASSUME FilesInv, undo.at # "carry", NEW p \in UndoPaths, RemovePaths({p}) \/ RemoveHalf(p), job' = job,
         NEW item, UNCHANGED given_up \/ Foreign(p, item)
  PROVE  /\ Undisturbed
         /\ RemovePaths({p}) => fs'[p] = Absent
<1>1. p \in Paths /\ DiskTyped
  BY UndoPath DEF FilesInv, Typed
<1>2. /\ given_up' \subseteq Visible \X {"overwritten", "expired", "removed"}
      /\ \A g \in given_up' : g[2] = "overwritten" => g \in given_up
  <2>1. Destroyed({p}, "removed") \subseteq Visible \X {"overwritten", "expired", "removed"}
    BY <1>1, DestroyedTyped
  <2>2. QED
    BY <1>1, <2>1 DEF Foreign, Destroyed, DiskTyped
<1>3. CASE RemovePaths({p})
  <2>1. DiskTyped' /\ halfway' = halfway
    BY <1>1, <1>2, <1>3, RemoveTyped DEF DiskTyped, RemovePaths
  <2>2. \A q \in Paths : fs'[q] = IF q = p THEN Absent ELSE fs[q]
    BY <1>3 DEF RemovePaths
  <2>3. \A q \in torn' : q \in torn /\ fs'[q] = fs[q]
    BY <1>1, <1>3, <2>2 DEF RemovePaths, DiskTyped
  <2>4. OnlyTorn'
    BY <2>1, <2>3, NothingLoose DEF DiskTyped
  <2>5. ASSUME NEW j \in Jobs, NEW i \in 1..Len(Roots[j])
        PROVE  /\ fs'[<<j, i, "partial">>] = fs[<<j, i, "partial">>]
               /\ fs'[<<j, i, "replaced">>] \in {fs[<<j, i, "replaced">>], Absent}
    BY <2>2, PrivatePath, UndoPath DEF Private
  <2>6. QED
    BY <1>1, <1>2, <2>1, <2>2, <2>4, <2>5 DEF Undisturbed
<1>4. CASE RemoveHalf(p) /\ ~RemovePaths({p})
  <2>1. fs[p] \in Visible
    BY <1>1, <1>4 DEF RemoveHalf, Taken, DiskTyped
  <2>2. DiskTyped' /\ halfway \subseteq halfway' /\ fs' = fs
    BY <1>1, <1>2, <1>4, <2>1 DEF DiskTyped, RemoveHalf
  <2>3. OnlyTorn'
    BY <1>4, <2>2, NothingLoose DEF DiskTyped, RemoveHalf
  <2>4. QED
    BY <1>2, <1>4, <2>2, <2>3 DEF Undisturbed
<1>5. QED
  BY <1>3, <1>4

\* Nothing changes on disk, but something may be half by now.
LEMMA SameUndisturbed ==
  ASSUME FilesInv, undo.at # "carry", job' = job, UNCHANGED <<fs, torn, given_up>>,
         halfway \subseteq halfway', halfway' \subseteq Visible
  PROVE  Undisturbed
<1>1. DiskTyped'
  BY DEF FilesInv, Typed, DiskTyped
<1>2. OnlyTorn'
  BY NothingLoose
<1>3. QED
  BY <1>1, <1>2 DEF Undisturbed

\* Unless the step goes on to put something in the place that is free, there is
\* nothing to say of that place.
LEMMA NotFilling ==
  ASSUME StepDone \/ StepFails \/ \E to \in {"carry", "drop"} : \E item : StepGoes(to, item),
         FilesInv, NEW at, UndoAt(at)
  PROVE  ClearToFill'
<1>1. undo \in Undoing
  BY StepInHand
<1>2. undo'.at # "fill"
  BY <1>1 DEF StepDone, StepFails, StepGoes, Undoing
<1>3. QED
  BY <1>2 DEF ClearToFill

\* What goes on to fill a place has made it free.
LEMMA NowFree ==
  ASSUME FilesInv, NEW at, UndoAt(at), StepGoes("fill", Absent), fs'[InHand.dest] = Absent
  PROVE  ClearToFill'
<1>1. undo \in Undoing
  BY StepInHand
<1>2. undo'.next = undo.next /\ undo'.steps = undo.steps
  BY <1>1 DEF StepGoes, Undoing
<1>3. QED
  BY <1>2 DEF ClearToFill, InHand, Taken

LEMMA UndoRemoveKeeps ==
  ASSUME FilesInv, UndoRemove
  PROVE  FilesInv'
<1>1. UndoAt("step") /\ undo.at # "carry" /\ InHand.dest \in UndoPaths
  BY StepInHand DEF UndoRemove, UndoAt, UndoPaths
<1>2. Undisturbed
  BY <1>1, RemoveUndisturbed DEF UndoRemove, StepDone, StepFails, UndoOnly
<1>3. (StepDone \/ StepFails) /\ ClearToFill'
  BY <1>1, NotFilling DEF UndoRemove
<1>4. QED
  BY <1>1, <1>2, <1>3, UndoStepKeeps

LEMMA UndoRefusedKeeps ==
  ASSUME FilesInv, UndoRefused
  PROVE  FilesInv'
<1>1. UndoAt("step") /\ undo.at # "carry" /\ StepFails /\ UNCHANGED disk /\ job' = job
  BY DEF UndoRefused, UndoAt, StepFails, UndoOnly
<1>2. Undisturbed
  BY <1>1, SameUndisturbed DEF disk, FilesInv, Typed, DiskTyped
<1>3. QED
  BY <1>1, <1>2, NotFilling, UndoStepKeeps

LEMMA UndoDisplaceKeeps ==
  ASSUME FilesInv, UndoDisplace
  PROVE  FilesInv'
<1>1. /\ UndoAt("step") /\ undo.at # "carry" /\ InHand.dest \in UndoPaths /\ InHand.dest \in Visible
      /\ Displaced(InHand) \in UndoPaths \ Visible /\ InHand.dest \in Paths
      /\ \A j \in Jobs : \A i \in 1..Len(Roots[j]) : Displaced(InHand) # <<j, i, "replaced">>
  BY StepInHand, UndoPath DEF UndoDisplace, UndoAt, UndoPaths, Displaced
<1>2. /\ Undisturbed
      /\ fs'[InHand.dest] = Absent
  BY <1>1, RenameUndisturbed DEF UndoDisplace, StepGoes, UndoOnly
<1>3. StepGoes("fill", Absent) /\ ClearToFill'
  BY <1>1, <1>2, NowFree DEF UndoDisplace
<1>4. QED
  BY <1>1, <1>2, <1>3, UndoStepKeeps

LEMMA UndoFillKeeps ==
  ASSUME FilesInv, UndoFill
  PROVE  FilesInv'
<1>1. /\ UndoAt("fill") /\ undo.at # "carry" /\ job' = job
      /\ InHand.dest \in UndoPaths /\ InHand.dest \in Visible
      /\ Displaced(InHand) \in UndoPaths /\ Backup(InHand) \in UndoPaths /\ Origin(InHand) \in UndoPaths
      /\ InHand.item \in Visible \cup {Absent}
      /\ \A j \in Jobs : \A i \in 1..Len(Roots[j]) : InHand.dest # <<j, i, "replaced">>
  BY StepInHand, PrivatePath DEF UndoFill, UndoAt, UndoPaths, StepGoes, StepDone, StepFails, UndoOnly, Private
<1>2. ~overlapped => ~Taken(InHand.dest)
  BY <1>1 DEF FilesInv, ClearToFill, UndoAt
<1>3. ASSUME NEW from \in UndoPaths, Rename(from, InHand.dest) PROVE Undisturbed
  BY <1>1, <1>2, <1>3, RenameUndisturbed
<1>4. ASSUME UNCHANGED disk PROVE Undisturbed
  <2>1. UNCHANGED <<fs, torn, given_up, halfway>> /\ halfway \subseteq Visible
    BY <1>4 DEF disk, FilesInv, Typed, DiskTyped
  <2>2. QED
    BY <1>1, <2>1, SameUndisturbed
<1>5. Undisturbed
  <2>1. \/ UNCHANGED disk
        \/ Rename(Backup(InHand), InHand.dest) \/ Rename(Displaced(InHand), InHand.dest)
        \/ Rename(Origin(InHand), InHand.dest)
    BY DEF UndoFill
  <2>2. QED
    BY <1>1, <1>3, <1>4, <2>1
<1>6. StepGoes("drop", InHand.item) \/ StepDone \/ StepFails
  BY DEF UndoFill
<1>7. QED
  BY <1>1, <1>5, <1>6, NotFilling, UndoStepKeeps

LEMMA UndoDropKeeps ==
  ASSUME FilesInv, UndoDrop
  PROVE  FilesInv'
<1> DEFINE left == IF InHand.kind = "restore_copy" THEN Displaced(InHand) ELSE InHand.dest
<1>1. UndoAt("drop") /\ undo.at # "carry" /\ left \in UndoPaths /\ left \in Paths /\ job' = job
  BY StepInHand, UndoPath DEF UndoDrop, UndoAt, UndoPaths, StepGoes, StepDone, StepFails, UndoOnly
<1>2. /\ \/ RemovePaths({left}) /\ Foreign(left, undo.item)
         \/ RemoveHalf(left) /\ Foreign(left, undo.item)
         \/ halfway' = halfway \cup ({fs[left]} \ {Absent}) /\ UNCHANGED <<fs, torn, given_up>>
      /\ \/ StepDone \/ StepFails
         \/ InHand.kind = "restore_move" /\ RemovePaths({left}) /\ StepGoes("fill", Absent)
  BY DEF UndoDrop
<1> HIDE DEF left
<1>3. ASSUME RemovePaths({left}) \/ RemoveHalf(left), Foreign(left, undo.item) PROVE Undisturbed
  BY <1>1, <1>3, RemoveUndisturbed
<1>4. ASSUME halfway' = halfway \cup ({fs[left]} \ {Absent}), UNCHANGED <<fs, torn, given_up>>
      PROVE  Undisturbed
  <2>1. halfway' \subseteq Visible /\ halfway \subseteq halfway'
    BY <1>1, <1>4 DEF FilesInv, Typed, DiskTyped
  <2>2. QED
    BY <1>1, <1>4, <2>1, SameUndisturbed
<1>5. Undisturbed
  BY <1>2, <1>3, <1>4
<1>6. CASE StepDone \/ StepFails
  BY <1>1, <1>5, <1>6, NotFilling, UndoStepKeeps
<1>7. CASE InHand.kind = "restore_move" /\ RemovePaths({left}) /\ StepGoes("fill", Absent)
  <2>1. fs'[left] = Absent
    BY <1>1, <1>7 DEF RemovePaths
  <2>2. ClearToFill'
    BY <1>1, <1>7, <2>1, NowFree DEF left
  <2>3. QED
    BY <1>1, <1>5, <1>7, <2>2, UndoStepKeeps
<1>8. QED
  BY <1>2, <1>6, <1>7

\* The item is renamed back, or its copy begins to grow where it was: only that is
\* loose.
LEMMA UndoMoveKeeps ==
  ASSUME FilesInv, UndoMove
  PROVE  FilesInv'
<1> DEFINE src == Origin(InHand)
           dest == InHand.dest
<1>1. /\ UndoAt("step") /\ undo.at # "carry" /\ job' = job
      /\ src \in UndoPaths /\ dest \in UndoPaths /\ src \in Visible /\ dest \in Visible
      /\ src \in Paths /\ dest \in Paths /\ ~Taken(src) /\ Taken(dest) /\ DiskTyped
      /\ \A j \in Jobs : \A i \in 1..Len(Roots[j]) : src # <<j, i, "replaced">>
  <2>1. UndoAt("step") /\ undo.at # "carry" /\ ~Taken(src) /\ Taken(dest) /\ DiskTyped
    BY DEF UndoMove, UndoAt, FilesInv, Typed
  <2>2. job' = job
    BY DEF UndoMove, StepGoes, StepDone, UndoOnly
  <2>3. src \in Visible /\ dest \in Visible
    BY <2>1, StepInHand
  <2>4. \A j \in Jobs : \A i \in 1..Len(Roots[j]) : src # <<j, i, "replaced">>
    BY <2>3, PrivatePath DEF Private
  <2>5. QED
    BY <2>1, <2>2, <2>3, <2>4, UndoPath DEF UndoPaths
<1>2. CASE /\ Rename(dest, src)
           /\ IF InHand.kind = "move_back" THEN StepDone ELSE StepGoes("fill", Absent)
  <2>1. Undisturbed /\ fs'[dest] = Absent
    BY <1>1, <1>2, RenameUndisturbed
  <2>2. ClearToFill'
    BY <1>1, <1>2, <2>1, NotFilling, NowFree
  <2>3. QED
    BY <1>1, <1>2, <2>1, <2>2, UndoStepKeeps
<1>3. CASE /\ fs' = [fs EXCEPT ![src] = fs[dest]] /\ torn' = torn \cup {src}
           /\ halfway' = halfway \cup (IF dest \in torn THEN {fs[dest]} ELSE {})
           /\ UNCHANGED given_up
           /\ StepGoes("carry", IF dest \in torn THEN Absent ELSE fs[dest])
  <2>1. fs[dest] \in Visible
    BY <1>1 DEF Taken, DiskTyped
  <2>2. DiskTyped' /\ halfway \subseteq halfway'
    BY <1>1, <1>3, <2>1 DEF DiskTyped
  <2>3. \A p \in Paths : fs'[p] = IF p = src THEN fs[dest] ELSE fs[p]
    BY <1>1, <1>3 DEF DiskTyped
  <2>4. undo'.at = "carry" /\ undo'.item = IF dest \in torn THEN Absent ELSE fs[dest]
    BY <1>1, <1>3, StepInHand DEF StepGoes, Undoing
  <2>5. ASSUME NEW p \in torn', p # src PROVE Taken(p)' /\ ~Loose(p)'
    <3>1. p \in torn /\ fs'[p] = fs[p]
      BY <1>1, <1>3, <2>3, <2>5 DEF DiskTyped
    <3>2. QED
      BY <1>1, <2>2, <3>1 DEF FilesInv, OnlyTorn, Loose, CopyStage, Stage, Taken
  <2>6. fs'[src] = fs[dest] /\ (dest \in torn => fs[dest] \in halfway')
    BY <1>1, <1>3, <2>3
  <2>7. OnlyTorn'
    BY <2>1, <2>4, <2>5, <2>6, FilesAssumption DEF OnlyTorn, Loose, Taken
  <2>8. Undisturbed
    BY <1>1, <1>3, <2>2, <2>3, <2>7, PrivatePath, UndoPath DEF Undisturbed, Private
  <2>9. ClearToFill'
    BY <1>1, <1>3, NotFilling
  <2>10. QED
    BY <1>1, <1>3, <2>1, <2>8, <2>9, UndoStepKeeps
<1>4. QED
  BY <1>2, <1>3 DEF UndoMove

\* However that copy ends, nothing is loose after it.
LEMMA UndoCarryKeeps ==
  ASSUME FilesInv, UndoCarry
  PROVE  FilesInv'
<1> DEFINE src == Origin(InHand)
           mine == src \in torn /\ fs[src] = undo.item
<1>1. /\ UndoAt("carry") /\ undo.at = "carry" /\ job' = job /\ src \in UndoPaths /\ src \in Visible
      /\ src \in Paths /\ undo.item \in Visible \cup {Absent} /\ DiskTyped /\ UNCHANGED given_up
  BY StepInHand, UndoPath
     DEF UndoCarry, UndoAt, UndoPaths, StepGoes, StepFails, UndoOnly, FilesInv, Typed
<1>2. PICK item \in Visible \cup {Absent} : StepGoes("drop", item) \/ StepFails
  BY <1>1 DEF UndoCarry
<1>3. ClearToFill'
  BY <1>1, <1>2, NotFilling
<1>4. \/ mine /\ torn' = torn \ {src} /\ UNCHANGED <<fs, halfway>>
      \/ halfway' = halfway \cup ({undo.item} \ {Absent}) /\ UNCHANGED <<fs, torn>>
      \/ mine /\ RemovePaths({src})
  BY DEF UndoCarry
<1>5. ~CopyStage(src)
  <2>1. \A j \in Jobs : job[j].pc = "copying" => job[j].root \in 1..Len(Roots[j])
    BY DEF FilesInv, Typed, JobsTyped, Staging
  <2>2. QED
    BY <1>1, <2>1, UndoPath DEF CopyStage, Stage
<1>6. mine => \A p \in torn \ {src} : ~Loose(p)
  <2>1. SUFFICES ASSUME mine, NEW p \in torn \ {src}, Loose(p) PROVE FALSE
    OBVIOUS
  <2>2. fs[p] = undo.item /\ fs[p] \notin halfway /\ \A q \in torn : Loose(q) => q = p
    BY <2>1 DEF FilesInv, OnlyTorn, Loose
  <2>3. Loose(src)
    BY <1>5, <2>1, <2>2 DEF Loose
  <2>4. QED
    BY <2>1, <2>2, <2>3
<1> HIDE DEF src, mine
<1>7. \A p : CopyStage(p)' <=> CopyStage(p)
  BY <1>1 DEF CopyStage, Stage
<1>8. CASE /\ mine /\ torn' = torn \ {src} /\ UNCHANGED halfway
           /\ \A p \in Paths : p # src => fs'[p] = fs[p]
           /\ fs' \in [Paths -> Visible \cup {Absent}] /\ fs'[src] \in {fs[src], Absent}
  <2>1. \A p \in torn' : Taken(p)' /\ ~Loose(p)'
    BY <1>1, <1>6, <1>7, <1>8 DEF FilesInv, OnlyTorn, Loose, Taken, DiskTyped
  <2>2. OnlyTorn'
    BY <2>1 DEF OnlyTorn
  <2>3. DiskTyped'
    BY <1>1, <1>8 DEF DiskTyped
  <2>4. Undisturbed
    BY <1>1, <1>8, <2>2, <2>3, PrivatePath, UndoPath DEF Undisturbed, Private
  <2>5. QED
    BY <1>1, <1>2, <1>3, <2>4, UndoStepKeeps
<1>9. CASE halfway' = halfway \cup ({undo.item} \ {Absent}) /\ UNCHANGED <<fs, torn>>
  <2>1. \A p \in torn' : Taken(p)' /\ ~Loose(p)'
    BY <1>7, <1>9 DEF FilesInv, OnlyTorn, Loose, Taken
  <2>2. OnlyTorn'
    BY <2>1 DEF OnlyTorn
  <2>3. DiskTyped'
    BY <1>1, <1>9 DEF DiskTyped
  <2>4. Undisturbed
    BY <1>1, <1>9, <2>2, <2>3 DEF Undisturbed
  <2>5. QED
    BY <1>1, <1>2, <1>3, <2>4, UndoStepKeeps
<1>10. CASE mine /\ RemovePaths({src})
  <2>1. /\ torn' = torn \ {src} /\ UNCHANGED halfway
        /\ \A p \in Paths : p # src => fs'[p] = fs[p]
        /\ fs' \in [Paths -> Visible \cup {Absent}] /\ fs'[src] = Absent
    BY <1>1, <1>10, RemoveTyped DEF RemovePaths
  <2>2. QED
    BY <1>8, <1>10, <2>1
<1>11. QED
  BY <1>1, <1>4, <1>8, <1>9, <1>10 DEF DiskTyped

LEMMA UndoTickKeeps ==
  ASSUME FilesInv, UndoTick
  PROVE  FilesInv'
BY UndoRemoveKeeps, UndoMoveKeeps, UndoCarryKeeps, UndoDisplaceKeeps, UndoFillKeeps, UndoDropKeeps,
   UndoRefusedKeeps DEF UndoTick

\* Undo is over; what failed or was not reached goes back to the history.
LEMMA UndoEndsKeeps ==
  ASSUME FilesInv, UndoEnds
  PROVE  FilesInv'
<1>1. /\ JobsTyped /\ DiskTyped /\ WindowTyped /\ GhostsTyped /\ undo \in Undoing
  BY DEF FilesInv, Typed, WindowTyped, UndoEnds
<1> DEFINE left == undo.failed \o SubSeq(undo.steps, undo.next, Len(undo.steps))
<1>2. left \in Seq(Step)
  <2>1. undo.steps \in Seq(Step) /\ undo.failed \in Seq(Step) /\ undo.next \in Nat \ {0}
    BY <1>1 DEF Undoing
  <2>2. SubSeq(undo.steps, undo.next, Len(undo.steps)) \in Seq(Step)
    BY <2>1, PartIn
  <2>3. QED
    BY <2>1, <2>2, ConcatProperties
<1> DEFINE record == [job |-> undo.job, steps |-> left, was |-> undo.was]
<1>3. (left = <<>> /\ UNCHANGED <<disk, history>>) \/ Push(undo.tab, record)
  BY DEF UndoEnds
<1>4. order' \in {Front(order), Append(order, OutOfOrder), order}
  BY DEF UndoEnds
<1>5. /\ undo' = NoUndo /\ job' = job /\ open' = open /\ running' = running
      /\ overlapped' = overlapped
  BY DEF UndoEnds
<1> HIDE DEF left
<1>6. record \in Record /\ undo.tab \in Tabs
  BY <1>1, <1>2 DEF Undoing, Record
<1> HIDE DEF record
<1>7. /\ Shrinks /\ history' \in [Tabs -> Seq(Record)]
      /\ \A t \in Tabs : Len(history'[t]) <= MaxUndo
  BY <1>1, <1>3, <1>6, PushShrinks, SameShrinks DEF WindowTyped
<1>8. order' \in Seq(Jobs \cup {OutOfOrder})
  <2>1. order \in Seq(Jobs \cup {OutOfOrder})
    BY <1>1 DEF GhostsTyped
  <2>2. Append(order, OutOfOrder) \in Seq(Jobs \cup {OutOfOrder})
    BY <2>1, AppendProperties
  <2>3. Front(order) \in Seq(Jobs \cup {OutOfOrder})
    <3>1. Len(order) - 1 <= Len(order) /\ Len(order) - 1 \in Int
      BY <2>1
    <3>2. QED
      BY <2>1, <3>1, PartIn DEF Front
  <2>4. QED
    BY <1>4, <2>1, <2>2, <2>3
<1>9. WindowTyped' /\ GhostsTyped'
  BY <1>1, <1>5, <1>7, <1>8 DEF WindowTyped, GhostsTyped, NoUndo
<1>10. Alone' /\ undo.at = "step" /\ undo'.at = "step"
  BY <1>5 DEF FilesInv, Alone, Operating, UndoEnds, Free, NoUndo
<1>11. QED
  BY <1>5, <1>7, <1>9, <1>10, WindowKeeps

-----------------------------------------------------------------------------
(* The theorems *)

\* The invariant holds when the window opens.
LEMMA FilesInitInv == FilesInit => FilesInv
<1> SUFFICES ASSUME FilesInit PROVE FilesInv
  OBVIOUS
<1> USE DEF FilesInit
<1>1. items \subseteq Visible
  BY FilesAssumption
<1>2. DiskTyped
  BY <1>1 DEF DiskTyped
<1>3. \A j \in Jobs : job[j] = [pc |-> "idle"]
  OBVIOUS
<1>4. JobsTyped
  BY <1>3 DEF JobsTyped, Resting, Staging, Aimed
<1>5. WindowTyped
  BY FilesAssumption DEF WindowTyped, NoUndo
<1>6. GhostsTyped /\ OnlyTorn /\ Alone /\ ClearToFill /\ OverwritesOnlyInOverlap
  <2>1. <<>> \in Seq(Jobs \cup {OutOfOrder})
    OBVIOUS
  <2>2. GhostsTyped
    BY <2>1 DEF GhostsTyped
  <2>3. OnlyTorn /\ OverwritesOnlyInOverlap /\ ClearToFill
    BY DEF OnlyTorn, OverwritesOnlyInOverlap, ClearToFill, NoUndo
  <2>4. \A j \in Jobs : ~Operating(j)
    BY <1>3 DEF Operating
  <2>5. QED
    BY <2>2, <2>3, <2>4 DEF Alone
<1>7. ASSUME NEW j \in Jobs PROVE JobInv(j)
  <2>1. \A i \in 1..Len(Roots[j]), kind \in Private : ~Taken(<<j, i, kind>>)
    BY <1>1, PrivatePath DEF Taken, Private
  <2>2. QED
    BY <1>3, <2>1 DEF JobInv, StagesOf, BackupsOf, AwayAt, CopyAt, ClearAt, Staging, Private
<1>8. QED
  BY <1>2, <1>4, <1>5, <1>6, <1>7 DEF FilesInv, Typed

\* Every step keeps it.
LEMMA FilesStepInv == FilesInv /\ [FilesNext]_filesVars => FilesInv'
<1> SUFFICES ASSUME FilesInv, [FilesNext]_filesVars PROVE FilesInv'
  OBVIOUS
<1>1. CASE UNCHANGED filesVars
  <2>1. /\ job' = job /\ UNCHANGED disk /\ overlapped' = overlapped /\ undo' = undo
        /\ WindowTyped' /\ GhostsTyped' /\ DiskTyped
    BY <1>1, WindowKept DEF filesVars, FilesInv, Typed, ghosts
  <2>2. Alone'
    BY <2>1 DEF FilesInv, Alone, Operating
  <2>3. QED
    BY <2>1, <2>2, SameShrinks, WindowKeeps
<1>2. CASE \E j \in Jobs : \E t \in TabOf[j], op \in Ops[j], policy \in Policies[j] :
    StartTransfer(j, t, op, policy)
  <2>1. \A j \in Jobs : Policies[j] \subseteq Policy
    BY FilesAssumption DEF Policy
  <2>2. QED
    BY <1>2, <2>1, StartKeeps
<1>3. CASE \E j \in Jobs : CancelTransfer(j) \/ Worker(j) \/ Report(j)
  BY <1>3, CancelKeeps, WorkerKeeps, ReportKeeps
<1>4. CASE \E t \in Tabs : BeginUndo(t) \/ CloseTab(t)
  BY <1>4, BeginUndoKeeps, CloseKeeps
<1>5. CASE UndoTick \/ UndoEnds \/ CloseWindow
  BY <1>5, UndoTickKeeps, UndoEndsKeeps, CloseKeeps
<1>6. QED
  BY <1>1, <1>2, <1>3, <1>4, <1>5 DEF FilesNext

\* The invariant that the rest follows from.
THEOREM FilesInvariant == FilesSpec => []FilesInv
<1>1. QED
  BY FilesInitInv, FilesStepInv, PTL DEF FilesSpec

\* Every variable stays in its set, and no history exceeds the limit of records,
\* whatever is transferred, undone and closed.
THEOREM FilesTypeCorrect == FilesSpec => []FilesTypeOK
<1>1. FilesInv => FilesTypeOK
  <2> SUFFICES ASSUME FilesInv PROVE FilesTypeOK
    OBVIOUS
  <2>1. DiskTyped /\ JobsTyped /\ WindowTyped /\ GhostsTyped
    BY DEF FilesInv, Typed
  <2>2. ASSUME NEW j \in Jobs
        PROVE  /\ job[j].pc \in WorkerStep
               /\ Active(j) => /\ job[j].root \in 1..(Len(Roots[j]) + 1)
                               /\ job[j].target \in Visible \cup {Absent}
    <3>1. CASE job[j] \in Resting
      BY <3>1 DEF Resting, WorkerStep, Active
    <3>2. CASE job[j] \in Live
      BY <2>1, <3>2 DEF Live, LiveStep, Active, JobsTyped
    <3>3. QED
      BY <2>1, <3>1, <3>2 DEF JobsTyped
  <2>3. QED
    BY <2>1, <2>2 DEF FilesTypeOK, DiskTyped, WindowTyped, GhostsTyped, Undoing
<1>2. QED
  BY <1>1, FilesInvariant, PTL

\* A transfer never shows half an item at a name a user sees, whatever runs at
\* once and wherever the process ends: half of an item is seen only after a
\* removal, or an undo across devices, stopped halfway or while it goes on.
THEOREM NothingHalfShown == FilesSpec => []VisibleWhole
<1>1. FilesInv => VisibleWhole
  <2> SUFFICES ASSUME FilesInv PROVE VisibleWhole
    OBVIOUS
  <2>1. \A j \in Jobs : job[j].pc = "copying" => job[j].root \in 1..Len(Roots[j])
    BY DEF FilesInv, Typed, JobsTyped, Staging
  <2>2. \A p \in Visible : ~CopyStage(p)
    BY <2>1, PrivatePath DEF CopyStage, Stage, Private
  <2>3. QED
    BY <2>2 DEF FilesInv, OnlyTorn, Loose, VisibleWhole
<1>2. QED
  BY <1>1, FilesInvariant, PTL

\* A finished transfer left no stage: it was committed, removed or moved back.
THEOREM StagesSettle == FilesSpec => []StageSettled
<1>1. FilesInv => StageSettled
  <2>1. \A j \in Jobs : DOMAIN Roots[j] = 1..Len(Roots[j])
    BY FilesAssumption
  <2>2. QED
    BY <2>1 DEF FilesInv, JobInv, StagesOf, StageSettled, Staging
<1>2. QED
  BY <1>1, FilesInvariant, PTL

\* As long as operations do not overlap, nothing is ever overwritten: the check
\* before each rename still holds when it is made.
THEOREM OverwritesOverlap == FilesSpec => []OverwritesOnlyInOverlap
<1>1. FilesInv => OverwritesOnlyInOverlap
  BY DEF FilesInv
<1>2. QED
  BY <1>1, FilesInvariant, PTL
===============================================================================
