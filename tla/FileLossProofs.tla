---------------------------- MODULE FileLossProofs ----------------------------
(***************************************************************************)
(* No item of FileTransfers is lost, proved for any transfers, tabs and    *)
(* paths: an item that was not given up is whole at more paths than there  *)
(* are copies of it a transfer or an undo may still remove.                *)
(***************************************************************************)
EXTENDS FileHistoryProofs

(* Enough paths: one for every copy, and one more *)

\* The path that nobody may remove; no transfer has this name.
Home == <<OutOfOrder, 0>>

\* There are more paths than copies.
Fits(copies, paths) ==
  \E h \in [copies \cup {Home} -> paths] : \A a, b \in copies \cup {Home} : h[a] = h[b] => a = b

\* Paths may be exchanged for others, and copies may be forgotten.
LEMMA FitsMoved ==
  ASSUME NEW C, NEW W, Fits(C, W), NEW D \in SUBSET C, NEW V, NEW f \in [W -> V],
         \A p, q \in W : f[p] = f[q] => p = q
  PROVE  Fits(D, V)
<1>1. PICK h \in [C \cup {Home} -> W] : \A a, b \in C \cup {Home} : h[a] = h[b] => a = b
  BY DEF Fits
<1> DEFINE g == [a \in D \cup {Home} |-> f[h[a]]]
<1>2. g \in [D \cup {Home} -> V]
  BY <1>1
<1>3. ASSUME NEW a \in D \cup {Home}, NEW b \in D \cup {Home}, g[a] = g[b] PROVE a = b
  <2>1. a \in C \cup {Home} /\ b \in C \cup {Home} /\ f[h[a]] = f[h[b]]
    BY <1>3
  <2>2. h[a] = h[b]
    BY <1>1, <2>1
  <2>3. QED
    BY <1>1, <2>1, <2>2
<1> HIDE DEF g
<1>4. QED
  BY <1>2, <1>3 DEF Fits

\* In particular, paths may be added.
LEMMA FitsMore ==
  ASSUME NEW C, NEW W, Fits(C, W), NEW D \in SUBSET C, NEW V, W \subseteq V
  PROVE  Fits(D, V)
<1> DEFINE f == [q \in W |-> q]
<1>1. f \in [W -> V] /\ \A p, q \in W : f[p] = f[q] => p = q
  OBVIOUS
<1> HIDE DEF f
<1>2. QED
  BY <1>1, FitsMoved

\* A new copy at a new path.
LEMMA FitsCopy ==
  ASSUME NEW C, NEW W, Fits(C, W), NEW e, NEW q, q \notin W, NEW D \in SUBSET (C \cup {e}), NEW V, W \cup {q} \subseteq V
  PROVE  Fits(D, V)
<1>1. PICK h \in [C \cup {Home} -> W] : \A a, b \in C \cup {Home} : h[a] = h[b] => a = b
  BY DEF Fits
<1> DEFINE g == [a \in D \cup {Home} |-> IF a \in C \cup {Home} THEN h[a] ELSE q]
<1>2. g \in [D \cup {Home} -> V]
  BY <1>1
<1>3. ASSUME NEW a \in D \cup {Home}, NEW b \in D \cup {Home}, g[a] = g[b] PROVE a = b
  BY <1>1, <1>3
<1> HIDE DEF g
<1>4. QED
  BY <1>2, <1>3 DEF Fits

\* A copy less, and a path, whichever that is.
LEMMA FitsLess ==
  ASSUME NEW C, NEW W, Fits(C, W), NEW e \in C, e # Home, NEW D \in SUBSET (C \ {e}), NEW V,
         \A p, q \in W \ V : p = q
  PROVE  Fits(D, V)
<1>1. PICK h \in [C \cup {Home} -> W] : \A a, b \in C \cup {Home} : h[a] = h[b] => a = b
  BY DEF Fits
<1> DEFINE g == [a \in D \cup {Home} |-> IF h[a] \in V THEN h[a] ELSE h[e]]
<1>2. \A a \in D \cup {Home} : a \in C \cup {Home} /\ a # e /\ h[a] # h[e] /\ h[a] \in W /\ h[e] \in W
  BY <1>1
<1>3. g \in [D \cup {Home} -> V]
  BY <1>2
<1>4. ASSUME NEW a \in D \cup {Home}, NEW b \in D \cup {Home}, g[a] = g[b] PROVE a = b
  BY <1>1, <1>2, <1>4
<1> HIDE DEF g
<1>5. QED
  BY <1>3, <1>4 DEF Fits

-----------------------------------------------------------------------------
(* The paths and the copies of an item *)

\* Where the item is, and whole.
Whole(x) == {q \in Paths \ torn : fs[q] = x}

\* A transfer that copies has staged an item that was whole, and has not noted it.
Holding(j) ==
  /\ job[j].pc \in {"staged", "place", "swap", "fill", "restore", "back", "source"}
  /\ job[j].op # "move" /\ job[j].whole

\* An undo has carried x back, and the copy it was made of is still there.
CarriedBack(j, i, x) ==
  /\ undo.at = "drop" /\ InHand.kind \in {"move_back", "restore_move"}
  /\ InHand.job = j /\ InHand.root = i /\ undo.item = x

\* What transfer j made of its i-th item is a copy of x that a rollback, the end
\* of a move or an undo may remove without a word: an undo may, as long as no half
\* of x was left anywhere.
IsCopy(j, i, x) ==
  \/ Holding(j) /\ job[j].root = i /\ job[j].item = x
  \/ /\ x \notin halfway
     /\ \/ \E s \in Waiting :
             s.job = j /\ s.root = i /\ s.kind \notin {"move_back", "restore_move"} /\ s.item = x
        \/ CarriedBack(j, i, x)

Copies(x) == {e \in Jobs \X Nat : IsCopy(e[1], e[2], x)}

GivenUp(x) == \E g \in given_up : g[1] = x

\* More paths than copies, of everything that was not given up.
Lossless == items \subseteq Visible /\ \A x \in items : GivenUp(x) \/ Fits(Copies(x), Whole(x))

\* What a thread knows of its item: the stage holds it, and is not whole while it
\* is copied or if it was not at the source; of such an item a copy is known to be
\* half; a source is removed only after a copy.
StageInv(j) ==
  /\ job[j].pc \in Staging => fs[Stage(j)] = job[j].item
  /\ job[j].pc \in Staging /\ (job[j].pc = "copying" \/ ~job[j].whole) => Stage(j) \in torn
  /\ job[j].pc \in Staging \cup {"source"} /\ job[j].op # "move" /\ ~job[j].whole => job[j].item \in halfway
  /\ job[j].pc = "source" => job[j].op # "move"

\* What an undo drops in the end, of an item that was copied over, is the copy.
DropsCopy == undo.at = "drop" /\ InHand.kind = "restore_copy" => undo.item = InHand.item

LossInv == HistoryInv /\ Lossless /\ DropsCopy /\ \A j \in Jobs : StageInv(j)

\* Item by item.
LEMMA LosslessKept ==
  ASSUME Lossless, items' = items, given_up \subseteq given_up',
         \A x \in items : GivenUp(x)' \/ (Fits(Copies(x), Whole(x)) => Fits(Copies(x), Whole(x))')
  PROVE  Lossless'
<1>1. ASSUME NEW x \in items PROVE GivenUp(x)' \/ Fits(Copies(x), Whole(x))'
  <2>1. GivenUp(x) => GivenUp(x)'
    BY DEF GivenUp
  <2>2. QED
    BY <2>1 DEF Lossless
<1>2. QED
  BY <1>1 DEF Lossless

-----------------------------------------------------------------------------
(* What the file system does with the paths of an item *)

\* A rename takes the item along, unless it destroys it.
LEMMA RenameCarries ==
  ASSUME FilesInv, NEW x \in Visible, NEW from \in Paths, NEW to \in Paths, Rename(from, to),
         Fits(Copies(x), Whole(x)), Copies(x)' \subseteq Copies(x)
  PROVE  GivenUp(x)' \/ Fits(Copies(x), Whole(x))'
<1>1. /\ fs \in [Paths -> Visible \cup {Absent}] /\ x # Absent
      /\ fs' = [fs EXCEPT ![from] = Absent, ![to] = fs[from]]
      /\ torn' \subseteq torn \cup {to} /\ (from \notin torn => torn' = torn \ {to})
      /\ given_up' = given_up \cup Destroyed({to}, "overwritten")
  BY FilesAssumption DEF FilesInv, Typed, DiskTyped, Rename
<1>2. CASE fs[to] = x
  <2>1. <<x, "overwritten">> \in Destroyed({to}, "overwritten")
    BY <1>1, <1>2 DEF Destroyed, Taken
  <2>2. QED
    BY <1>1, <2>1 DEF GivenUp
<1>3. CASE fs[to] # x
  <2> DEFINE f == [q \in Whole(x) |-> IF q = from THEN to ELSE q]
  <2>1. ASSUME NEW q \in Whole(x) PROVE f[q] \in Whole(x)'
    <3>1. q \in Paths /\ q \notin torn /\ fs[q] = x /\ q # to
      BY <1>3 DEF Whole
    <3>2. CASE q = from
      BY <1>1, <3>1, <3>2 DEF Whole
    <3>3. CASE q # from
      BY <1>1, <3>1, <3>3 DEF Whole
    <3>4. QED
      BY <3>2, <3>3
  <2>2. \A p, q \in Whole(x) : f[p] = f[q] => p = q
    BY <1>3 DEF Whole
  <2>3. f \in [Whole(x) -> Whole(x)']
    BY <2>1
  <2> HIDE DEF f
  <2>4. QED
    BY <2>2, <2>3, FitsMoved
<1>4. QED
  BY <1>2, <1>3

\* A removal that does not touch it.
LEMMA RemovesOther ==
  ASSUME NEW x, NEW ps, RemovePaths(ps), ps \cap Whole(x) = {}
  PROVE  Whole(x) \subseteq Whole(x)'
BY DEF RemovePaths, Whole

\* A removal of one path, or of half of what is there.
LEMMA RemovesOne ==
  ASSUME NEW x, NEW p, RemovePaths({p}) \/ RemoveHalf(p)
  PROVE  Whole(x) \ {p} \subseteq Whole(x)'
BY DEF RemovePaths, RemoveHalf, Whole

\* Backups that expire take their items along.
LEMMA CleanupCarries ==
  ASSUME NEW x, x # Absent, NEW ps, Cleanup(ps), Fits(Copies(x), Whole(x)), Copies(x)' \subseteq Copies(x)
  PROVE  GivenUp(x)' \/ Fits(Copies(x), Whole(x))'
<1>1. CASE \E p \in ps : fs[p] = x
  <2>1. <<x, "expired">> \in Destroyed(ps, "expired")
    BY <1>1 DEF Destroyed, Taken
  <2>2. QED
    BY <2>1 DEF GivenUp, Cleanup
<1>2. CASE ~\E p \in ps : fs[p] = x
  <2>1. Whole(x) \subseteq Whole(x)'
    BY <1>2, RemovesOther DEF Cleanup, Whole
  <2>2. QED
    BY <2>1, FitsMore
<1>3. QED
  BY <1>1, <1>2

-----------------------------------------------------------------------------
(* Copies that are forgotten *)

LEMMA FewerCopies ==
  ASSUME NEW x, \A j \in Jobs : \A i \in Nat : IsCopy(j, i, x)' => IsCopy(j, i, x)
  PROVE  Copies(x)' \subseteq Copies(x)
BY DEF Copies

\* One of them is.
LEMMA CopyForgotten ==
  ASSUME NEW x, \A j \in Jobs : \A i \in Nat : IsCopy(j, i, x)' => IsCopy(j, i, x),
         NEW k \in Jobs, NEW r \in Nat, IsCopy(k, r, x), ~IsCopy(k, r, x)'
  PROVE  /\ <<k, r>> \in Copies(x) /\ <<k, r>> # Home
         /\ Copies(x)' \in SUBSET (Copies(x) \ {<<k, r>>})
<1>1. <<k, r>> \in Copies(x) /\ <<k, r>> \notin Copies(x)'
  BY DEF Copies
<1>2. Copies(x)' \subseteq Copies(x)
  BY FewerCopies
<1>3. <<k, r>> # Home
  BY FilesAssumption DEF Home
<1>4. QED
  BY <1>1, <1>2, <1>3

\* The step an undo has in hand is of a transfer that has reported.
LEMMA CarriedDone ==
  ASSUME FilesInv, Places, undo.at = "drop"
  PROVE  InHand \in Waiting /\ InHand.job \in Jobs /\ job[InHand.job].pc = "done"
<1>1. undo # NoUndo /\ undo.next \in 1..Len(undo.steps)
  BY DEF FilesInv, Typed, WindowTyped, NoUndo
<1>2. QED
  BY <1>1, InHandWaits

\* The thread goes on: it holds nothing it did not hold.
LEMMA HoldsNoMore ==
  ASSUME NEW j \in Jobs, Elsewhere(j), Waiting' = Waiting, halfway \subseteq halfway',
         Holding(j)' => Holding(j) /\ job'[j].root = job[j].root /\ job'[j].item = job[j].item, NEW x
  PROVE  \A k \in Jobs : \A i \in Nat : IsCopy(k, i, x)' => IsCopy(k, i, x)
<1>1. ASSUME NEW k \in Jobs PROVE Holding(k)' => Holding(k) /\ job'[k].root = job[k].root /\ job'[k].item = job[k].item
  BY DEF Elsewhere, Holding
<1>2. \A k, i : CarriedBack(k, i, x)' <=> CarriedBack(k, i, x)
  BY DEF Elsewhere, CarriedBack, InHand
<1>3. QED
  BY <1>1, <1>2 DEF IsCopy

\* Steps that are no longer waiting; an undo carries nothing new back.
LEMMA WaitsNoMore ==
  ASSUME Waiting' \subseteq Waiting, halfway \subseteq halfway', NEW x,
         \A k \in Jobs : \A i \in Nat : CarriedBack(k, i, x)' => CarriedBack(k, i, x),
         \A k \in Jobs : Holding(k)' => Holding(k) /\ job'[k].root = job[k].root /\ job'[k].item = job[k].item
  PROVE  \A k \in Jobs : \A i \in Nat : IsCopy(k, i, x)' => IsCopy(k, i, x)
BY DEF IsCopy

\* What is noted was held.
LEMMA NotesHeld ==
  ASSUME FilesInv, NEW j \in Jobs, job[j].pc \in Aimed, Elsewhere(j), job'[j].pc = "root", NEW new \in Step,
         halfway \subseteq halfway', Waiting' = Waiting \cup {new}, new.job = j, new.root = job[j].root, new.item = job[j].item,
         NEW x, new.kind \notin {"move_back", "restore_move"} => Holding(j) \/ new.item \in halfway'
  PROVE  \A k \in Jobs : \A i \in Nat : IsCopy(k, i, x)' => IsCopy(k, i, x)
<1>1. ASSUME NEW k \in Jobs, NEW i \in Nat, IsCopy(k, i, x)' PROVE IsCopy(k, i, x)
  <2>1. CASE Holding(k)' /\ job'[k].root = i /\ job'[k].item = x
    BY <2>1 DEF Elsewhere, Holding, IsCopy
  <2>2. CASE /\ x \notin halfway'
             /\ \E s \in Waiting' : s.job = k /\ s.root = i /\ s.kind \notin {"move_back", "restore_move"} /\ s.item = x
    <3>1. PICK s \in Waiting' : s.job = k /\ s.root = i /\ s.kind \notin {"move_back", "restore_move"} /\ s.item = x
      BY <2>2
    <3>2. QED
      BY <2>2, <3>1 DEF IsCopy
  <2>3. CASE x \notin halfway' /\ CarriedBack(k, i, x)'
    <3>1. CarriedBack(k, i, x) /\ x \notin halfway
      BY <2>3 DEF Elsewhere, CarriedBack, InHand
    <3>2. QED
      BY <3>1 DEF IsCopy
  <2>4. QED
    BY <1>1, <2>1, <2>2, <2>3 DEF IsCopy
<1>2. QED
  BY <1>1

-----------------------------------------------------------------------------
(* The steps of a thread *)

\* A thread's step that notes nothing.
LEMMA StepGoesOn ==
  ASSUME LossInv, NEW j \in Jobs, Operating(j), Elsewhere(j), job'[j].pc \in LiveStep,
         job'[j].steps = job[j].steps, job'[j].root \in {job[j].root, job[j].root + 1}
  PROVE  Waiting' = Waiting
<1>1. Operating(j)'
  BY DEF Operating, LiveStep
<1>2. QED
  BY <1>1, GoesOn DEF LossInv, HistoryInv, Elsewhere

\* After it, the thread still holds the item it held, or no item.
LEMMA GoHolds ==
  ASSUME LossInv, NEW j \in Jobs, NEW pc \in LiveStep, Go(j, pc), Operating(j), halfway \subseteq halfway',
         pc \in {"staged", "place", "swap", "fill", "restore", "back", "source"} =>
           job[j].op = "move" \/ ~job[j].whole \/ Holding(j),
         NEW x
  PROVE  \A k \in Jobs : \A i \in Nat : IsCopy(k, i, x)' => IsCopy(k, i, x)
<1>1. /\ Elsewhere(j) /\ job'[j].pc = pc /\ job'[j].op = job[j].op /\ job'[j].root = job[j].root
      /\ job'[j].item = job[j].item /\ job'[j].steps = job[j].steps /\ job'[j].whole = job[j].whole
  BY GoDoes DEF LossInv, HistoryInv
<1>2. Waiting' = Waiting
  BY <1>1, StepGoesOn
<1>3. Holding(j)' => Holding(j)
  BY <1>1 DEF Holding
<1>4. QED
  BY <1>1, <1>2, <1>3, HoldsNoMore

\* At the next item it holds nothing yet.
LEMMA NextHolds ==
  ASSUME LossInv, NEW j \in Jobs, Operating(j), NextRoot(j), halfway \subseteq halfway', NEW x
  PROVE  /\ \A k \in Jobs : \A i \in Nat : IsCopy(k, i, x)' => IsCopy(k, i, x)
         /\ \A i \in Nat : i = job[j].root => ~IsCopy(j, i, x)'
<1>1. FilesInv /\ Places
  BY DEF LossInv, HistoryInv
<1>2. /\ Elsewhere(j) /\ job'[j].pc = "root" /\ job'[j].root = job[j].root + 1 /\ job'[j].steps = job[j].steps
  BY <1>1, NextRootDoes
<1>3. Waiting' = Waiting /\ ~Holding(j)'
  <2>1. "root" \in LiveStep
    BY DEF LiveStep, WorkerStep
  <2>2. QED
    BY <1>2, <2>1, StepGoesOn DEF Holding
<1>4. \A s \in Waiting : s.job = j => s.root < job[j].root
  BY <1>1, WaitingAt
<1>5. \A s \in Waiting : ~(s.job = j /\ s.root = job[j].root)
  BY <1>1, <1>4, LiveAt
<1>6. \A i : ~CarriedBack(j, i, x)'
  BY <1>1, <1>2, CarriedDone DEF CarriedBack, Elsewhere, InHand, Operating
<1>7. QED
  BY <1>2, <1>3, <1>5, <1>6, HoldsNoMore DEF IsCopy

\* What it notes is a copy it held; a move leaves none, nor does half an item.
LEMMA NoteHolds ==
  ASSUME LossInv, NEW j \in Jobs, job[j].pc \in {"place", "fill", "source"}, NEW moved \in BOOLEAN, Note(j, moved),
         halfway \subseteq halfway', moved \/ Holding(j) \/ job[j].item \in halfway, NEW x
  PROVE  /\ \A k \in Jobs : \A i \in Nat : IsCopy(k, i, x)' => IsCopy(k, i, x)
         /\ moved \/ x \in halfway' => \A i \in Nat : i = job[j].root => ~IsCopy(j, i, x)'
<1> DEFINE new == UndoStep(j, moved)
<1>1. FilesInv /\ Places /\ job[j].pc \in Aimed /\ Operating(j)
  BY DEF LossInv, HistoryInv, Aimed, Operating
<1>2. /\ Elsewhere(j) /\ job'[j].pc = "root" /\ job'[j].root = job[j].root + 1
      /\ job'[j].steps = Append(job[j].steps, new) /\ new \in Step
      /\ new.job = j /\ new.root = job[j].root /\ new.item = job[j].item
      /\ new.kind \in {"move_back", "restore_move"} <=> moved
  BY <1>1, NoteDoes
<1> HIDE DEF new
<1>3. Waiting' = Waiting \cup {new}
  BY <1>1, <1>2, Noted DEF Elsewhere
<1>4. \A k \in Jobs : \A i \in Nat : IsCopy(k, i, x)' => IsCopy(k, i, x)
  BY <1>1, <1>2, <1>3, NotesHeld
<1>5. ASSUME moved \/ x \in halfway', NEW i \in Nat, i = job[j].root PROVE ~IsCopy(j, i, x)'
  <2>1. \A s \in Waiting : s.job = j => s.root < job[j].root
    BY <1>1, WaitingAt
  <2>2. \A s \in Waiting : ~(s.job = j /\ s.root = job[j].root)
    BY <1>1, <2>1, LiveAt
  <2>3. moved => \A s \in Waiting' : s.job = j /\ s.root = job[j].root => s.kind \in {"move_back", "restore_move"}
    BY <1>2, <1>3, <1>5, <2>2
  <2>4. ~Holding(j)'
    BY <1>2 DEF Holding
  <2>5. ~CarriedBack(j, i, x)'
    BY <1>1, <1>2, CarriedDone DEF CarriedBack, Elsewhere, InHand, Operating
  <2>6. QED
    BY <1>5, <2>3, <2>4, <2>5 DEF IsCopy
<1>6. QED
  BY <1>4, <1>5

\* What a thread does to the file system is accounted for.
LEMMA WorkerGhosts ==
  ASSUME NEW j \in Jobs, Worker(j)
  PROVE  items' = items /\ given_up \subseteq given_up' /\ halfway \subseteq halfway'
BY DEF Worker, Scan, EndOfRoots, SkipRoot, StageRoot, CopyEnds, Decide, Place, Swap, Fill, Restore, Back, RemoveSource,
       Commit, Go, Take, NextRoot, Note, Rename, RemovePaths, RemoveHalf, disk, window, ghosts

\* No step of a thread loses an item.
LEMMA WorkerCarries ==
  ASSUME LossInv, NEW j \in Jobs, Worker(j), NEW x \in items, Fits(Copies(x), Whole(x))
  PROVE  GivenUp(x)' \/ Fits(Copies(x), Whole(x))'
<1> DEFINE fewer == \A k \in Jobs : \A i \in Nat : IsCopy(k, i, x)' => IsCopy(k, i, x)
<1>0. halfway \subseteq halfway'
  BY WorkerGhosts
<1>1. FilesInv /\ Places /\ StageInv(j) /\ x \in Visible /\ x # Absent
  BY FilesAssumption DEF LossInv, HistoryInv, Lossless
<1>2. /\ {"root", "report", "staged", "back", "restore", "source"} \subseteq LiveStep
      /\ \A pc \in Staging \cup {"source"} : pc \in LiveStep
  BY DEF LiveStep, WorkerStep, Staging
<1>3. fewer => Copies(x)' \subseteq Copies(x)
  BY FewerCopies
<1>4. ASSUME UNCHANGED disk, fewer PROVE Fits(Copies(x), Whole(x))'
  <2>1. Whole(x) \subseteq Whole(x)'
    BY <1>4 DEF disk, Whole
  <2>2. QED
    BY <1>3, <1>4, <2>1, FitsMore
<1>5. ASSUME NEW from \in Paths, NEW to \in Paths, Rename(from, to), fewer
      PROVE  GivenUp(x)' \/ Fits(Copies(x), Whole(x))'
  BY <1>1, <1>3, <1>5, RenameCarries
<1>6. ASSUME Operating(j), NextRoot(j) PROVE fewer /\ \A i \in Nat : i = job[j].root => ~IsCopy(j, i, x)'
  BY <1>0, <1>6, NextHolds
<1>7. ASSUME Operating(j), NEW pc \in LiveStep, Go(j, pc),
             pc \in {"staged", "place", "swap", "fill", "restore", "back", "source"} =>
               job[j].op = "move" \/ ~job[j].whole \/ Holding(j)
      PROVE  fewer
  BY <1>0, <1>7, GoHolds
\* A copy at its last path, the path goes, or is not whole any more.
<1>8. ASSUME NEW p, RemovePaths({p}) \/ RemoveHalf(p), fewer,
             p \in Whole(x) => /\ Operating(j) /\ IsCopy(j, job[j].root, x)
                              /\ \A i \in Nat : i = job[j].root => ~IsCopy(j, i, x)'
      PROVE  Fits(Copies(x), Whole(x))'
  <2>1. Whole(x) \ {p} \subseteq Whole(x)'
    BY <1>8, RemovesOne
  <2>2. CASE p \notin Whole(x)
    <3>1. Whole(x) \subseteq Whole(x)'
      BY <2>1, <2>2
    <3>2. QED
      BY <1>3, <1>8, <3>1, FitsMore
  <2>3. CASE p \in Whole(x)
    <3> DEFINE r == job[j].root
    <3>1. r \in Nat /\ IsCopy(j, r, x)
      BY <1>1, <1>8, <2>3, LiveAt
    <3>2. \A i \in Nat : i = r => ~IsCopy(j, i, x)'
      BY <1>8, <2>3
    <3> HIDE DEF r
    <3>3. PICK i \in Nat : i = r
      BY <3>1
    <3>4. IsCopy(j, i, x) /\ ~IsCopy(j, i, x)'
      BY <3>1, <3>2, <3>3
    <3>5. /\ <<j, i>> \in Copies(x) /\ <<j, i>> # Home
          /\ Copies(x)' \in SUBSET (Copies(x) \ {<<j, i>>})
      BY <1>8, <3>4, CopyForgotten
    <3> DEFINE e == <<j, i>>
    <3>6. e \in Copies(x) /\ e # Home /\ Copies(x)' \in SUBSET (Copies(x) \ {e})
      BY <3>5
    <3> HIDE DEF e
    <3>7. \A z, q \in Whole(x) \ Whole(x)' : z = q
      BY <2>1
    <3>8. QED
      BY <3>6, <3>7, FitsLess
  <2>4. QED
    BY <2>2, <2>3
<1> HIDE DEF fewer
<1>9. CASE Scan(j) \/ EndOfRoots(j) \/ SkipRoot(j)
  <2>1. Operating(j) /\ UNCHANGED disk
    BY <1>9 DEF Scan, EndOfRoots, SkipRoot, AtRoot, At, Operating
  <2>2. fewer
    BY <1>2, <1>6, <1>7, <1>9, <2>1 DEF Scan, EndOfRoots, SkipRoot
  <2>3. QED
    BY <1>4, <2>1, <2>2
<1>10. CASE StageRoot(j)
  <2>1. Operating(j) /\ job[j].pc = "root" /\ job[j].root \in 1..Len(Roots[j])
    <3>1. job[j].pc = "root" /\ job[j].root <= Len(Roots[j])
      BY <1>10 DEF StageRoot, AtRoot, At
    <3>2. job[j].root \in 1..(Len(Roots[j]) + 1)
      BY <1>1, <3>1 DEF FilesInv, Typed, JobsTyped
    <3>3. Len(Roots[j]) \in Nat
      BY FilesAssumption
    <3>4. QED
      BY <3>1, <3>2, <3>3 DEF Operating
  <2>2. Src(j) \in Visible /\ Src(j) \in Paths /\ Stage(j) \in Paths /\ ~Taken(Stage(j))
    <3>1. Src(j) \in Visible /\ Src(j) \in Paths /\ Stage(j) \in Paths
      BY <2>1, OwnPrivate
    <3>2. ~Taken(Stage(j))
      BY <1>1, <2>1 DEF FilesInv, JobInv, StagesOf, Stage, Staging
    <3>3. QED
      BY <3>1, <3>2
  <2>3. ASSUME NEW pc \in {"staged", "copying"}, Take(j, pc), pc = "staged" => job[j].op = "move" PROVE fewer
    <3>1. /\ Elsewhere(j) /\ job'[j].pc = pc /\ job'[j].root = job[j].root /\ job'[j].steps = job[j].steps
          /\ job'[j].op = job[j].op
      BY <1>1, <2>1, <2>3, TakeDoes
    <3>2. Waiting' = Waiting
      BY <1>2, <2>1, <2>3, <3>1, StepGoesOn DEF Staging
    <3>3. ~Holding(j)'
      BY <2>3, <3>1 DEF Holding
    <3>4. QED
      BY <1>0, <3>1, <3>2, <3>3, HoldsNoMore DEF fewer
  <2>4. CASE job[j].op = "move" /\ Rename(Src(j), Stage(j)) /\ Take(j, "staged")
    BY <1>5, <2>2, <2>3, <2>4
  <2>5. CASE /\ fs' = [fs EXCEPT ![Stage(j)] = fs[Src(j)]] /\ torn' = torn \cup {Stage(j)}
             /\ Take(j, "copying")
    <3>1. fewer
      BY <2>3, <2>5
    <3>2. Whole(x) \subseteq Whole(x)'
      BY <1>1, <2>2, <2>5 DEF Whole, Taken, FilesInv, Typed, DiskTyped
    <3>3. QED
      BY <1>3, <3>1, <3>2, FitsMore
  <2>6. CASE UNCHANGED disk /\ NextRoot(j)
    BY <1>4, <1>6, <2>1, <2>6
  <2>7. QED
    BY <1>10, <2>4, <2>5, <2>6 DEF StageRoot
<1>11. CASE CopyEnds(j)
  <2>1. /\ Operating(j) /\ job[j].pc = "copying" /\ job[j].op # "move" /\ Stage(j) \in torn
        /\ fs[Stage(j)] = job[j].item /\ Stage(j) \in Paths /\ job[j].root \in 1..Len(Roots[j])
    <3>1. job[j].pc = "copying" /\ Operating(j)
      BY <1>11 DEF CopyEnds, At, Operating
    <3>2. job[j].root \in 1..Len(Roots[j]) /\ job[j].op # "move"
      BY <1>1, <3>1 DEF FilesInv, Typed, JobsTyped, Staging, JobInv, AwayAt
    <3>3. QED
      BY <1>1, <3>1, <3>2, OwnPrivate DEF StageInv, Staging
  <2>2. CASE /\ torn' = IF job[j].whole THEN torn \ {Stage(j)} ELSE torn
             /\ UNCHANGED <<fs, halfway>> /\ Go(j, "staged")
    <3>1. /\ Elsewhere(j) /\ job'[j].pc = "staged" /\ job'[j].root = job[j].root /\ job'[j].steps = job[j].steps
          /\ job'[j].item = job[j].item /\ job'[j].whole = job[j].whole
      BY <1>1, <2>1, <2>2, GoDoes
    <3>2. Waiting' = Waiting /\ \A k, i : CarriedBack(k, i, x)' <=> CarriedBack(k, i, x)
      BY <1>2, <2>1, <3>1, StepGoesOn DEF Elsewhere, CarriedBack, InHand
    <3>3. ASSUME NEW k \in Jobs, NEW i \in Nat, IsCopy(k, i, x)', ~IsCopy(k, i, x)
          PROVE  k = j /\ i = job[j].root /\ job[j].item = x /\ job[j].whole
      BY <2>2, <3>1, <3>2, <3>3 DEF IsCopy, Holding, Elsewhere
    <3>4. CASE job[j].item # x \/ ~job[j].whole
      <4>1. fewer
        BY <3>3, <3>4 DEF fewer
      <4>2. Whole(x) \subseteq Whole(x)'
        BY <2>2 DEF Whole
      <4>3. QED
        BY <1>3, <4>1, <4>2, FitsMore
    <3>5. CASE job[j].item = x /\ job[j].whole
      <4>1. Copies(x)' \in SUBSET (Copies(x) \cup {<<j, job[j].root>>})
        BY <3>3 DEF Copies
      <4>2. Stage(j) \notin Whole(x) /\ Whole(x) \cup {Stage(j)} \subseteq Whole(x)'
        BY <2>1, <2>2, <3>5 DEF Whole
      <4> DEFINE e == <<j, job[j].root>>
      <4>3. Copies(x)' \in SUBSET (Copies(x) \cup {e})
        BY <4>1
      <4> HIDE DEF e
      <4>4. QED
        BY <4>2, <4>3, FitsCopy
    <3>6. QED
      BY <3>4, <3>5
  <2>3. CASE RemovePaths({Stage(j)}) /\ NextRoot(j)
    <3>1. Whole(x) \subseteq Whole(x)'
      <4>1. {Stage(j)} \cap Whole(x) = {}
        BY <2>1 DEF Whole
      <4>2. QED
        BY <2>3, <4>1, RemovesOther
    <3>2. QED
      BY <1>3, <1>6, <2>1, <2>3, <3>1, FitsMore
  <2>4. QED
    BY <1>11, <2>2, <2>3 DEF CopyEnds
<1>12. CASE Decide(j)
  <2>1. /\ Operating(j) /\ UNCHANGED disk /\ Elsewhere(j) /\ job[j].pc = "staged"
        /\ job'[j].pc \in {"back", "place", "swap"} /\ job'[j].root = job[j].root /\ job'[j].op = job[j].op
        /\ job'[j].item = job[j].item /\ job'[j].steps = job[j].steps /\ job'[j].whole = job[j].whole
    BY <1>1, <1>12, DecideDoes
  <2>2. Waiting' = Waiting
    BY <1>2, <2>1, StepGoesOn DEF Staging
  <2>3. fewer
    BY <1>0, <2>1, <2>2, HoldsNoMore DEF Holding, fewer
  <2>4. QED
    BY <1>4, <2>1, <2>3
<1>13. CASE /\ job[j].pc \in {"place", "swap", "fill"} /\ UNCHANGED disk
            /\ Go(j, "back") \/ Go(j, "restore")
  <2>1. Operating(j) /\ (job[j].op = "move" \/ ~job[j].whole \/ Holding(j))
    BY <1>13 DEF Operating, Holding
  <2>2. fewer
    BY <1>2, <1>7, <1>13, <2>1
  <2>3. QED
    BY <1>4, <1>13, <2>2
<1>14. CASE job[j].pc \in {"place", "fill"} /\ Commit(j)
  <2>1. /\ Operating(j) /\ (job[j].op = "move" \/ ~job[j].whole \/ Holding(j))
        /\ (job[j].op = "move" \/ job[j].item \in halfway \/ Holding(j))
        /\ Stage(j) \in Paths /\ job[j].target \in Paths
    <3>1. job[j].pc \in Staging /\ job[j].pc \in Aimed
      BY <1>14 DEF Staging, Aimed
    <3>2. Operating(j) /\ job[j].root \in 1..Len(Roots[j]) /\ job[j].target \in Visible
      BY <1>1, <3>1, Staged
    <3>3. job[j].op = "move" \/ job[j].item \in halfway \/ job[j].whole
      BY <1>1, <3>1 DEF StageInv
    <3>4. QED
      BY <1>14, <3>2, <3>3, OwnPrivate DEF Holding
  <2>2. CASE job[j].op = "move_far" /\ Go(j, "source")
    BY <1>2, <1>5, <1>7, <1>14, <2>1, <2>2 DEF Commit
  <2>3. CASE Note(j, job[j].op = "move")
    <3>1. fewer
      BY <1>0, <1>14, <2>1, <2>3, NoteHolds DEF fewer
    <3>2. QED
      BY <1>5, <1>14, <2>1, <3>1 DEF Commit
  <2>4. QED
    BY <1>14, <2>2, <2>3 DEF Commit
<1>15. CASE /\ job[j].pc = "swap" /\ Rename(job[j].target, <<j, job[j].root, "replaced">>)
            /\ job' = [job EXCEPT ![j].pc = "fill", ![j].backed = TRUE] /\ UNCHANGED <<window, ghosts>>
  <2>1. /\ Operating(j) /\ job[j].target \in Visible /\ job[j].target \in Paths
        /\ <<j, job[j].root, "replaced">> \in Paths
    <3>1. job[j].pc \in Staging /\ job[j].pc \in Aimed
      BY <1>15 DEF Staging, Aimed
    <3>2. QED
      BY <1>1, <3>1, Staged, OwnPrivate
  <2>3. /\ Elsewhere(j) /\ job'[j].pc = "fill" /\ job'[j].root = job[j].root /\ job'[j].op = job[j].op
        /\ job'[j].item = job[j].item /\ job'[j].steps = job[j].steps /\ job'[j].whole = job[j].whole
    BY <1>1, <1>15, SwapDoes
  <2>4. Waiting' = Waiting
    BY <1>2, <2>1, <2>3, StepGoesOn DEF Staging
  <2>5. fewer
    BY <1>0, <1>15, <2>3, <2>4, HoldsNoMore DEF Holding, fewer
  <2>6. QED
    BY <1>5, <1>15, <2>1, <2>5
<1>16. CASE Restore(j)
  <2>1. job[j].pc = "restore" /\ Go(j, "back") /\ Rename(<<j, job[j].root, "replaced">>, job[j].target)
    BY <1>16 DEF Restore, At
  <2>2. /\ Operating(j) /\ (job[j].op = "move" \/ ~job[j].whole \/ Holding(j)) /\ job[j].target \in Paths
        /\ <<j, job[j].root, "replaced">> \in Paths
    <3>1. job[j].pc \in Staging /\ job[j].pc \in Aimed
      BY <2>1 DEF Staging, Aimed
    <3>2. QED
      BY <1>1, <2>1, <3>1, Staged, OwnPrivate DEF Holding
  <2>3. QED
    BY <1>2, <1>5, <1>7, <2>1, <2>2
<1>17. CASE Back(j)
  <2>1. /\ job[j].pc = "back" /\ Operating(j) /\ Src(j) \in Paths /\ Stage(j) \in Paths
        /\ (~job[j].whole => Stage(j) \in torn) /\ fs[Stage(j)] = job[j].item
    <3>1. job[j].pc \in Staging /\ job[j].pc = "back"
      BY <1>17 DEF Staging, Back, At
    <3>2. QED
      BY <1>1, <3>1, Staged, OwnPrivate DEF StageInv
  <2>2. NextRoot(j) /\ fewer /\ \A i \in Nat : i = job[j].root => ~IsCopy(j, i, x)'
    BY <1>6, <1>17, <2>1 DEF Back
  <2>3. CASE job[j].op = "move"
    BY <1>5, <1>17, <2>1, <2>2, <2>3 DEF Back
  <2>4. CASE job[j].op # "move"
    <3>1. Stage(j) \in Whole(x) => IsCopy(j, job[j].root, x)
      BY <2>1, <2>4 DEF IsCopy, Holding, Whole
    <3>2. RemovePaths({Stage(j)})
      BY <1>17, <2>4 DEF Back
    <3>3. QED
      BY <1>8, <2>1, <2>2, <3>1, <3>2
  <2>5. QED
    BY <2>3, <2>4
<1>18. CASE RemoveSource(j)
  <2> DEFINE lost == IF fs[Src(j)] = job[j].item /\ job[j].whole THEN {} ELSE Destroyed({Src(j)}, "removed")
  <2>1. /\ job[j].pc = "source" /\ Operating(j) /\ job[j].op # "move"
        /\ (Holding(j) \/ job[j].item \in halfway) /\ (job[j].whole => Holding(j))
    BY <1>1, <1>18 DEF RemoveSource, At, Operating, StageInv, Holding
  <2>2. CASE UNCHANGED disk /\ Note(j, FALSE)
    <3>1. fewer
      BY <1>0, <2>1, <2>2, NoteHolds DEF fewer
    <3>2. QED
      BY <1>4, <2>2, <3>1
  <2>3. CASE /\ given_up' = given_up \cup lost
             /\ (RemovePaths({Src(j)}) /\ Note(j, TRUE)) \/ (RemoveHalf(Src(j)) /\ Note(j, FALSE))
    <3>1. fewer
      BY <1>0, <2>1, <2>3, NoteHolds DEF fewer
    <3>2. Src(j) \in Whole(x) => \A i \in Nat : i = job[j].root => ~IsCopy(j, i, x)'
      <4>1. CASE Note(j, TRUE)
        BY <1>0, <2>1, <4>1, NoteHolds
      <4>2. CASE RemoveHalf(Src(j)) /\ Note(j, FALSE)
        <5>1. Src(j) \in Whole(x) => x \in halfway'
          BY <4>2 DEF RemoveHalf, Whole
        <5>2. QED
          BY <1>0, <2>1, <4>2, <5>1, NoteHolds
      <4>3. QED
        BY <2>3, <4>1, <4>2
    <3>3. CASE Src(j) \in Whole(x) /\ ~(x = job[j].item /\ job[j].whole)
      <4>1. <<x, "removed">> \in lost
        BY <1>1, <3>3 DEF Destroyed, Taken, Whole
      <4>2. QED
        BY <2>3, <4>1 DEF GivenUp
    <3>4. CASE ~(Src(j) \in Whole(x) /\ ~(x = job[j].item /\ job[j].whole))
      <4>1. Src(j) \in Whole(x) => IsCopy(j, job[j].root, x)
        BY <2>1, <3>4 DEF IsCopy
      <4>2. RemovePaths({Src(j)}) \/ RemoveHalf(Src(j))
        BY <2>3
      <4>3. QED
        BY <1>8, <2>1, <3>1, <3>2, <4>1, <4>2
    <3>5. QED
      BY <3>3, <3>4
  <2>4. QED
    BY <1>18, <2>2, <2>3 DEF RemoveSource
<1>19. QED
  BY <1>9, <1>10, <1>11, <1>12, <1>13, <1>14, <1>15, <1>16, <1>17, <1>18
     DEF Worker, Place, Swap, Fill, At

-----------------------------------------------------------------------------
(* The stages *)

\* What a rename, or a removal, leaves alone.
LEMMA RenameSpares ==
  ASSUME FilesInv, NEW from, NEW to, Rename(from, to), NEW p \in Paths, p # from, p # to
  PROVE  fs'[p] = fs[p] /\ (p \in torn => p \in torn')
BY DEF Rename, FilesInv, Typed, DiskTyped

LEMMA RemoveSpares ==
  ASSUME NEW ps, RemovePaths(ps), NEW p \in Paths, p \notin ps
  PROVE  fs'[p] = fs[p] /\ (p \in torn => p \in torn')
BY DEF RemovePaths

\* A stage that is left alone is what it was.
LEMMA StageSpared ==
  ASSUME NEW k \in Jobs, StageInv(k), job'[k] = job[k], halfway \subseteq halfway',
         job[k].pc \in Staging => fs'[Stage(k)] = fs[Stage(k)] /\ (Stage(k) \in torn => Stage(k) \in torn')
  PROVE  StageInv(k)'
<1>1. Stage(k)' = Stage(k)
  BY DEF Stage
<1>2. QED
  BY <1>1 DEF StageInv

\* The transfer of a stage.
LEMMA StagePath ==
  ASSUME FilesInv, NEW k \in Jobs, job[k].pc \in Staging
  PROVE  /\ Stage(k) \in Paths /\ Stage(k) \notin Visible
         /\ \A j \in Jobs \ {k} : Stage(k) \notin OwnPaths(j)
         /\ \A j : \A i : Stage(k) # <<j, i, "replaced">>
<1>1. job[k].root \in 1..Len(Roots[k])
  BY Staged
<1>2. Stage(k) \in Paths /\ Stage(k) \notin Visible
  BY <1>1, OwnPrivate
<1>3. ASSUME NEW j \in Jobs \ {k}, Stage(k) \in OwnPaths(j) PROVE FALSE
  BY <1>1, <1>3, OwnPath DEF Stage, Private
<1>4. QED
  BY <1>2, <1>3 DEF Stage

\* A thread touches its own paths only.
LEMMA WorkerSpares ==
  ASSUME FilesInv, NEW j \in Jobs, Worker(j), NEW p \in Paths \ OwnPaths(j)
  PROVE  fs'[p] = fs[p] /\ (p \in torn => p \in torn')
<1>1. /\ job[j].pc \in Staging \cup {"source"} => job[j].root \in 1..Len(Roots[j])
      /\ job[j].pc \in Aimed => job[j].target \in Visible
      /\ Visible \subseteq OwnPaths(j)
  BY DEF OwnPaths, FilesInv, Typed, JobsTyped
<1>2. AtRoot(j) => job[j].root \in 1..Len(Roots[j])
  <2> SUFFICES ASSUME AtRoot(j) PROVE job[j].root \in 1..Len(Roots[j])
    OBVIOUS
  <2>1. job[j].pc = "root" /\ job[j].root <= Len(Roots[j])
    BY DEF AtRoot, At
  <2>2. job[j].root \in 1..(Len(Roots[j]) + 1) /\ Len(Roots[j]) \in Nat
    BY <2>1, FilesAssumption DEF FilesInv, Typed, JobsTyped
  <2>3. QED
    BY <2>1, <2>2
<1>3. job[j].root \in 1..Len(Roots[j]) =>
        /\ Stage(j) \in OwnPaths(j) /\ <<j, job[j].root, "replaced">> \in OwnPaths(j) /\ Src(j) \in OwnPaths(j)
  BY <1>1, OwnPrivate
<1>4. UNCHANGED disk => fs'[p] = fs[p] /\ (p \in torn => p \in torn')
  BY DEF disk
<1>5. ASSUME NEW from \in OwnPaths(j), NEW to \in OwnPaths(j), Rename(from, to)
      PROVE  fs'[p] = fs[p] /\ (p \in torn => p \in torn')
  BY <1>5, RenameSpares
<1>6. ASSUME NEW q \in OwnPaths(j), RemovePaths({q}) \/ RemoveHalf(q)
      PROVE  fs'[p] = fs[p] /\ (p \in torn => p \in torn')
  BY <1>6, RemoveSpares DEF RemoveHalf
<1>7. CASE UNCHANGED disk
  BY <1>4, <1>7
<1>8. CASE StageRoot(j) /\ Rename(Src(j), Stage(j))
  BY <1>2, <1>3, <1>5, <1>8 DEF StageRoot
<1>9. CASE StageRoot(j) /\ fs' = [fs EXCEPT ![Stage(j)] = fs[Src(j)]] /\ torn' = torn \cup {Stage(j)}
  <2>1. p # Stage(j)
    BY <1>2, <1>3, <1>9 DEF StageRoot
  <2>2. QED
    BY <1>9, <2>1 DEF FilesInv, Typed, DiskTyped
<1>10. CASE CopyEnds(j)
  <2>1. Stage(j) \in OwnPaths(j)
    BY <1>1, <1>3, <1>10 DEF CopyEnds, At, Staging
  <2>2. QED
    BY <1>6, <1>10, <2>1 DEF CopyEnds
<1>11. CASE job[j].pc \in {"place", "fill"} /\ Rename(Stage(j), job[j].target)
  BY <1>1, <1>3, <1>5, <1>11 DEF Staging, Aimed
<1>12. CASE job[j].pc = "swap" /\ Rename(job[j].target, <<j, job[j].root, "replaced">>)
  BY <1>1, <1>3, <1>5, <1>12 DEF Staging, Aimed
<1>13. CASE Restore(j)
  BY <1>1, <1>3, <1>5, <1>13 DEF Restore, At, Staging, Aimed
<1>14. CASE Back(j)
  BY <1>1, <1>3, <1>5, <1>6, <1>14 DEF Back, At, Staging
<1>15. CASE job[j].pc = "source" /\ (RemovePaths({Src(j)}) \/ RemoveHalf(Src(j)))
  BY <1>1, <1>3, <1>6, <1>15
<1>16. CASE Scan(j) \/ EndOfRoots(j) \/ SkipRoot(j) \/ Decide(j)
  <2>1. UNCHANGED disk
    BY <1>16 DEF Scan, EndOfRoots, SkipRoot, Decide
  <2>2. QED
    BY <1>7, <2>1
<1>17. CASE StageRoot(j)
  BY <1>7, <1>8, <1>9, <1>17 DEF StageRoot
<1>18. CASE Place(j) \/ Fill(j)
  BY <1>7, <1>11, <1>18 DEF Place, Fill, Commit, At
<1>19. CASE Swap(j)
  BY <1>7, <1>12, <1>19 DEF Swap, At
<1>20. CASE RemoveSource(j)
  BY <1>7, <1>15, <1>20 DEF RemoveSource, At
<1>21. QED
  BY <1>10, <1>13, <1>14, <1>16, <1>17, <1>18, <1>19, <1>20 DEF Worker

\* Only its own transfer is changed.
LEMMA WorkerOwn ==
  ASSUME FilesInv, NEW j \in Jobs, Worker(j), NEW k \in Jobs \ {j}
  PROVE  job'[k] = job[k]
BY DEF Worker, Scan, EndOfRoots, SkipRoot, StageRoot, CopyEnds, Decide, Place, Swap, Fill, Restore, Back, RemoveSource,
       Commit, Go, Take, NextRoot, Note, FilesInv, Typed, JobsTyped

\* A thread's own stage, from staging to committing.
LEMMA OwnStage ==
  ASSUME LossInv, NEW j \in Jobs, Worker(j)
  PROVE  StageInv(j)'
<1>1. FilesInv /\ StageInv(j)
  BY DEF LossInv, HistoryInv
<1>2. StageInv(j)' <=> /\ job'[j].pc \in Staging => fs'[<<j, job'[j].root, "partial">>] = job'[j].item
                       /\ job'[j].pc \in Staging /\ (job'[j].pc = "copying" \/ ~job'[j].whole) =>
                            <<j, job'[j].root, "partial">> \in torn'
                       /\ job'[j].pc \in Staging \cup {"source"} /\ job'[j].op # "move" /\ ~job'[j].whole =>
                            job'[j].item \in halfway'
                       /\ job'[j].pc = "source" => job'[j].op # "move"
  BY DEF StageInv, Stage
<1>3. ASSUME job'[j].pc \notin Staging \cup {"source"} PROVE StageInv(j)'
  BY <1>2, <1>3 DEF Staging
<1>4. "root" \notin Staging \cup {"source"} /\ "report" \notin Staging \cup {"source"}
  BY DEF Staging
<1>5. ASSUME Operating(j), NextRoot(j) PROVE StageInv(j)'
  <2>1. job'[j].pc = "root"
    BY <1>1, <1>5, NextRootDoes
  <2>2. QED
    BY <1>3, <1>4, <2>1
<1>6. ASSUME NEW moved \in BOOLEAN, job[j].pc \in Aimed, Note(j, moved) PROVE StageInv(j)'
  <2>1. job'[j].pc = "root"
    BY <1>1, <1>6, NoteDoes
  <2>2. QED
    BY <1>3, <1>4, <2>1
\* The same item goes on.
<1>7. ASSUME job[j].pc \in Staging, fs'[Stage(j)] = fs[Stage(j)], ~job[j].whole /\ Stage(j) \in torn => Stage(j) \in torn',
             job'[j].root = job[j].root, job'[j].op = job[j].op, job'[j].whole = job[j].whole,
             job'[j].item = job[j].item, job'[j].pc \notin {"copying", "source"}
      PROVE  StageInv(j)'
  BY <1>1, <1>2, <1>7, WorkerGhosts DEF StageInv, Stage
<1>8. ASSUME job[j].pc \in Staging, UNCHANGED fs, ~job[j].whole => UNCHANGED torn,
             NEW pc \in Staging \ {"copying"}, Go(j, pc)
      PROVE  StageInv(j)'
  <2>1. Operating(j)
    BY <1>1, <1>8, Staged
  <2>2. /\ job'[j].pc = pc /\ job'[j].root = job[j].root /\ job'[j].item = job[j].item
        /\ job'[j].op = job[j].op /\ job'[j].whole = job[j].whole
    BY <1>1, <1>8, <2>1, GoDoes
  <2>3. job'[j].pc \notin {"copying", "source"}
    BY <1>8, <2>2 DEF Staging
  <2>4. QED
    BY <1>7, <1>8, <2>2, <2>3
<1>9. CASE Scan(j) \/ EndOfRoots(j) \/ SkipRoot(j)
  <2>1. Operating(j)
    BY <1>9 DEF Scan, EndOfRoots, SkipRoot, AtRoot, At, Operating
  <2>2. ASSUME NEW pc \in {"root", "report"}, Go(j, pc) PROVE StageInv(j)'
    <3>1. job'[j].pc = pc
      BY <1>1, <2>1, <2>2, GoDoes
    <3>2. QED
      BY <1>3, <1>4, <2>2, <3>1
  <2>3. QED
    BY <1>5, <1>9, <2>1, <2>2 DEF Scan, EndOfRoots, SkipRoot
<1>10. CASE StageRoot(j)
  <2>1. Operating(j) /\ job[j].pc = "root" /\ job[j].root \in 1..Len(Roots[j])
    <3>1. job[j].pc = "root" /\ job[j].root <= Len(Roots[j])
      BY <1>10 DEF StageRoot, AtRoot, At
    <3>2. job[j].root \in 1..(Len(Roots[j]) + 1) /\ Len(Roots[j]) \in Nat
      BY <1>1, <3>1, FilesAssumption DEF FilesInv, Typed, JobsTyped
    <3>3. QED
      BY <3>1, <3>2 DEF Operating
  <2>2. Stage(j) \in Paths /\ Src(j) \in Paths /\ Stage(j) # Src(j) /\ fs \in [Paths -> Visible \cup {Absent}]
    BY <1>1, <2>1, OwnPrivate DEF FilesInv, Typed, DiskTyped
  <2>3. ASSUME NEW pc \in {"staged", "copying"}, Take(j, pc), fs'[Stage(j)] = fs[Src(j)],
               pc = "copying" \/ Src(j) \in torn => Stage(j) \in torn',
               job[j].op # "move" /\ Src(j) \in torn => fs[Src(j)] \in halfway'
        PROVE  StageInv(j)'
    <3>1. /\ job'[j].pc = pc /\ job'[j].root = job[j].root /\ job'[j].item = fs[Src(j)]
          /\ job'[j].op = job[j].op /\ job'[j].whole = (Src(j) \notin torn)
      BY <1>1, <2>1, <2>3, TakeDoes
    <3>2. QED
      BY <1>2, <2>3, <3>1 DEF Stage
  <2>4. CASE job[j].op = "move" /\ Rename(Src(j), Stage(j)) /\ Take(j, "staged")
    BY <2>2, <2>3, <2>4 DEF Rename
  <2>5. CASE /\ fs' = [fs EXCEPT ![Stage(j)] = fs[Src(j)]] /\ torn' = torn \cup {Stage(j)}
             /\ halfway' = halfway \cup (IF Src(j) \in torn THEN {fs[Src(j)]} ELSE {})
             /\ Take(j, "copying")
    BY <2>2, <2>3, <2>5
  <2>6. CASE NextRoot(j)
    BY <1>5, <2>1, <2>6
  <2>7. QED
    BY <1>10, <2>4, <2>5, <2>6 DEF StageRoot
<1>11. CASE CopyEnds(j)
  <2>1. job[j].pc = "copying" /\ Operating(j) /\ job[j].pc \in Staging /\ "staged" \in Staging \ {"copying"}
    BY <1>11 DEF CopyEnds, At, Operating, Staging
  <2>2. QED
    BY <1>5, <1>8, <1>11, <2>1 DEF CopyEnds
<1>12. CASE Decide(j)
  <2>1. /\ UNCHANGED disk /\ job[j].pc = "staged" /\ job'[j].pc \in {"back", "place", "swap"}
        /\ job'[j].root = job[j].root /\ job'[j].item = job[j].item
        /\ job'[j].op = job[j].op /\ job'[j].whole = job[j].whole
    BY <1>1, <1>12, DecideDoes
  <2>2. fs' = fs /\ torn' = torn
    BY <2>1 DEF disk
  <2>3. QED
    BY <1>7, <2>1, <2>2 DEF Staging
<1>13. CASE job[j].pc \in {"place", "swap", "fill"} /\ UNCHANGED disk /\ (Go(j, "back") \/ Go(j, "restore"))
  <2>1. job[j].pc \in Staging /\ "back" \in Staging \ {"copying"} /\ "restore" \in Staging \ {"copying"} /\ UNCHANGED <<fs, torn>>
    BY <1>13 DEF Staging, disk
  <2>2. QED
    BY <1>8, <1>13, <2>1
<1>14. CASE job[j].pc \in {"place", "fill"} /\ Commit(j)
  <2>1. Operating(j) /\ job[j].pc \in Aimed
    BY <1>14 DEF Operating, Aimed
  <2>2. CASE job[j].op = "move_far" /\ Go(j, "source")
    <3>1. /\ job'[j].pc = "source" /\ job'[j].op = job[j].op /\ job'[j].whole = job[j].whole
          /\ job'[j].item = job[j].item /\ job[j].pc \in Staging
      BY <1>1, <1>14, <2>1, <2>2, GoDoes DEF Staging
    <3>2. QED
      BY <1>1, <1>2, <2>2, <3>1, WorkerGhosts DEF Staging, StageInv
  <2>3. CASE Note(j, job[j].op = "move")
    BY <1>6, <2>1, <2>3
  <2>4. QED
    BY <1>14, <2>2, <2>3 DEF Commit
\* A backup that is made or comes back is no stage.
<1>15. ASSUME job[j].pc \in {"swap", "restore"}
       PROVE  /\ job[j].pc \in Staging /\ Stage(j) \in Paths /\ Stage(j) # job[j].target
              /\ Stage(j) # <<j, job[j].root, "replaced">>
  <2>1. job[j].pc \in Staging /\ job[j].target \in Visible
    BY <1>1, <1>15 DEF Staging, Aimed, FilesInv, Typed, JobsTyped
  <2>2. QED
    BY <1>1, <2>1, StagePath
<1>16. CASE /\ job[j].pc = "swap" /\ Rename(job[j].target, <<j, job[j].root, "replaced">>)
            /\ job' = [job EXCEPT ![j].pc = "fill", ![j].backed = TRUE] /\ UNCHANGED <<window, ghosts>>
  <2>1. /\ job'[j].pc = "fill" /\ job'[j].root = job[j].root /\ job'[j].item = job[j].item
        /\ job'[j].op = job[j].op /\ job'[j].whole = job[j].whole
    BY <1>1, <1>16, SwapDoes
  <2>2. fs'[Stage(j)] = fs[Stage(j)] /\ (Stage(j) \in torn => Stage(j) \in torn')
    BY <1>1, <1>15, <1>16, RenameSpares
  <2>3. QED
    BY <1>7, <1>15, <1>16, <2>1, <2>2
<1>17. CASE Restore(j)
  <2>1. job[j].pc = "restore" /\ Go(j, "back") /\ Rename(<<j, job[j].root, "replaced">>, job[j].target) /\ Operating(j)
    BY <1>17 DEF Restore, At, Operating
  <2>2. /\ job'[j].pc = "back" /\ job'[j].root = job[j].root /\ job'[j].item = job[j].item
        /\ job'[j].op = job[j].op /\ job'[j].whole = job[j].whole
    BY <1>1, <2>1, GoDoes
  <2>3. fs'[Stage(j)] = fs[Stage(j)] /\ (Stage(j) \in torn => Stage(j) \in torn')
    BY <1>1, <1>15, <2>1, RenameSpares
  <2>4. QED
    BY <1>7, <1>15, <2>1, <2>2, <2>3
<1>18. CASE Back(j)
  BY <1>5, <1>18 DEF Back, At, Operating
<1>19. CASE RemoveSource(j)
  BY <1>6, <1>19 DEF RemoveSource, At, Aimed
<1>20. QED
  BY <1>9, <1>10, <1>11, <1>12, <1>13, <1>14, <1>16, <1>17, <1>18, <1>19
     DEF Worker, Place, Swap, Fill, At

\* Every step of a thread keeps the invariant.
LEMMA WorkerLossless ==
  ASSUME LossInv, NEW j \in Jobs, Worker(j)
  PROVE  Lossless' /\ DropsCopy' /\ \A k \in Jobs : StageInv(k)'
<1>1. FilesInv /\ Lossless /\ \A k \in Jobs : StageInv(k)
  BY DEF LossInv, HistoryInv
<1>2. Lossless'
  BY <1>1, LosslessKept, WorkerCarries, WorkerGhosts
<1>3. ASSUME NEW k \in Jobs \ {j} PROVE StageInv(k)'
  <2>1. job'[k] = job[k]
    BY <1>1, WorkerOwn
  <2>2. job[k].pc \in Staging => fs'[Stage(k)] = fs[Stage(k)] /\ (Stage(k) \in torn => Stage(k) \in torn')
    BY <1>1, StagePath, WorkerSpares
  <2>3. QED
    BY <1>1, <2>1, <2>2, StageSpared, WorkerGhosts
<1>4. undo' = undo
  BY DEF Worker, Scan, EndOfRoots, SkipRoot, StageRoot, CopyEnds, Decide, Place, Swap, Fill, Restore, Back, RemoveSource,
         Commit, Go, Take, NextRoot, Note, window
<1>5. DropsCopy'
  BY <1>4 DEF LossInv, DropsCopy, InHand
<1>6. QED
  BY <1>2, <1>3, <1>5, OwnStage

-----------------------------------------------------------------------------
(* The window *)

\* A transfer under way is where it was.
Stays(k) ==
  job'[k].pc \in Staging \cup {"source"} =>
    /\ job'[k].pc = job[k].pc /\ job'[k].op = job[k].op
    /\ job'[k].root = job[k].root /\ job'[k].item = job[k].item /\ job'[k].whole = job[k].whole

\* Steps that are given up, with their backups.
LEMMA DropLossless ==
  ASSUME LossInv, NEW D \in SUBSET Waiting, Drop(D), Waiting' \subseteq Waiting, items' = items,
         \A k \in Jobs : Stays(k), undo' = undo \/ undo'.at = "step"
  PROVE  Lossless' /\ DropsCopy' /\ \A k \in Jobs : StageInv(k)'
<1>1. FilesInv /\ Lossless /\ \A k \in Jobs : StageInv(k)
  BY DEF LossInv, HistoryInv
<1>2. ASSUME NEW x \in items, Fits(Copies(x), Whole(x)) PROVE GivenUp(x)' \/ Fits(Copies(x), Whole(x))'
  <2>1. \A k \in Jobs : Holding(k)' => Holding(k) /\ job'[k].root = job[k].root /\ job'[k].item = job[k].item
    BY DEF Stays, Holding, Staging
  <2>2. Copies(x)' \subseteq Copies(x)
    <3>1. halfway' = halfway
      BY DEF Drop, Cleanup, RemovePaths
    <3>2. \A k, i : CarriedBack(k, i, x)' => CarriedBack(k, i, x)
      BY DEF CarriedBack, InHand
    <3>3. QED
      BY <2>1, <3>1, <3>2, WaitsNoMore, FewerCopies
  <2>3. x # Absent
    BY <1>1, FilesAssumption DEF Lossless
  <2>4. QED
    BY <1>2, <2>2, <2>3, CleanupCarries DEF Drop
<1>3. Lossless'
  <2>1. given_up \subseteq given_up'
    BY DEF Drop, Cleanup
  <2>2. QED
    BY <1>1, <1>2, <2>1, LosslessKept
<1>4. ASSUME NEW k \in Jobs PROVE StageInv(k)'
  <2>1. CASE job'[k].pc \notin Staging \cup {"source"}
    BY <2>1 DEF StageInv, Staging
  <2>2. CASE job'[k].pc \in Staging \cup {"source"}
    <3>1. /\ job'[k].pc = job[k].pc /\ job'[k].op = job[k].op
          /\ job'[k].root = job[k].root /\ job'[k].item = job[k].item /\ job'[k].whole = job[k].whole
          /\ Stage(k)' = Stage(k) /\ halfway' = halfway
      BY <2>2 DEF Stays, Stage, Drop, Cleanup, RemovePaths
    <3>2. CASE job[k].pc \in Staging
      <4>1. Stage(k) \in Paths /\ Stage(k) \notin BackupsIn(D)
        BY <1>1, <3>2, StagePath DEF BackupsIn, Backup
      <4>2. fs'[Stage(k)] = fs[Stage(k)] /\ (Stage(k) \in torn => Stage(k) \in torn')
        BY <4>1, RemoveSpares DEF Drop, Cleanup
      <4>3. QED
        BY <1>1, <3>1, <3>2, <4>2 DEF StageInv
    <3>3. CASE job[k].pc \notin Staging
      BY <1>1, <3>1, <3>3 DEF StageInv, Staging
    <3>4. QED
      BY <3>2, <3>3
  <2>3. QED
    BY <2>1, <2>2
<1>5. DropsCopy'
  BY DEF LossInv, DropsCopy, InHand
<1>6. QED
  BY <1>3, <1>4, <1>5

\* Nothing is lost by what the window does.
LEMMA WindowLossless ==
  ASSUME LossInv, FilesInv',
         \/ \E j \in Jobs : \E t \in TabOf[j], op \in Ops[j], policy \in Policies[j] :
             StartTransfer(j, t, op, policy)
         \/ \E j \in Jobs : CancelTransfer(j) \/ Report(j)
         \/ \E tab \in Tabs : BeginUndo(tab) \/ CloseTab(tab)
         \/ UndoEnds \/ CloseWindow
  PROVE  Lossless' /\ DropsCopy' /\ \A k \in Jobs : StageInv(k)'
<1>1. FilesInv /\ Places /\ job \in [Jobs -> Live \cup Resting]
  BY DEF LossInv, HistoryInv, FilesInv, Typed, JobsTyped
<1>2. ASSUME UNCHANGED disk, Waiting' \subseteq Waiting, items' = items, \A k \in Jobs : Stays(k),
             undo' = undo \/ undo'.at = "step"
      PROVE  Lossless' /\ DropsCopy' /\ \A k \in Jobs : StageInv(k)'
  BY <1>1, <1>2, DropNone, DropLossless
<1>3. ASSUME job' = job PROVE \A k \in Jobs : Stays(k)
  BY <1>3 DEF Stays
<1>4. CASE \E j \in Jobs : \E t \in TabOf[j], op \in Ops[j], policy \in Policies[j] :
            StartTransfer(j, t, op, policy)
  <2>1. PICK j \in Jobs : \E t \in TabOf[j], op \in Ops[j], policy \in Policies[j] :
          StartTransfer(j, t, op, policy)
    BY <1>4
  <2>2. /\ job[j].pc = "idle" /\ UNCHANGED disk /\ UNCHANGED window /\ items' = items
        /\ \E new : new.pc = "scan" /\ new.steps = <<>> /\ job' = [job EXCEPT ![j] = new]
    BY <2>1 DEF StartTransfer
  <2>3. /\ \A k \in Jobs \ {j} : job'[k] = job[k]
        /\ job'[j].pc = "scan" /\ job'[j].steps = <<>>
    BY <1>1, <2>2
  <2>4. Waiting' = Waiting
    <3>1. Operating(j)' /\ history' = history /\ undo' = undo
      BY <2>2, <2>3 DEF Operating, window
    <3>2. QED
      BY <1>1, <2>2, <2>3, <3>1, GoesOn
  <2>5. \A k \in Jobs : Stays(k)
    BY <2>3 DEF Stays, Staging
  <2>6. QED
    BY <1>2, <2>2, <2>4, <2>5 DEF window
<1>5. CASE \E j \in Jobs : CancelTransfer(j)
  <2>1. PICK j \in Jobs : CancelTransfer(j)
    BY <1>5
  <2>2. /\ Operating(j) /\ job[j] \in Live /\ job' = [job EXCEPT ![j].cancelled = TRUE]
        /\ UNCHANGED disk /\ history' = history /\ undo' = undo /\ items' = items
    <3>1. Operating(j) /\ job' = [job EXCEPT ![j].cancelled = TRUE]
          /\ UNCHANGED disk /\ history' = history /\ undo' = undo /\ items' = items
      BY <2>1 DEF CancelTransfer, Active, Operating, window, ghosts
    <3>2. QED
      BY <1>1, <3>1, LiveAt
  <2>3. /\ \A k \in Jobs \ {j} : job'[k] = job[k]
        /\ job'[j].pc = job[j].pc /\ job'[j].op = job[j].op /\ job'[j].root = job[j].root
        /\ job'[j].item = job[j].item /\ job'[j].steps = job[j].steps /\ job'[j].whole = job[j].whole
    BY <1>1, <2>2 DEF Live
  <2>4. Operating(j)'
    BY <2>2, <2>3 DEF Operating
  <2>5. Waiting' = Waiting
    BY <1>1, <2>2, <2>3, <2>4, GoesOn
  <2>6. \A k \in Jobs : Stays(k)
    BY <2>3 DEF Stays
  <2>7. QED
    BY <1>2, <2>2, <2>5, <2>6
<1>6. CASE \E j \in Jobs : Report(j)
  <2>1. PICK j \in Jobs : Report(j)
    BY <1>6
  <2>2. /\ job' = [job EXCEPT ![j] = [pc |-> "done"]] /\ items' = items /\ undo' = undo
    BY <2>1 DEF Report
  <2>3. \A k \in Jobs : Stays(k)
    BY <1>1, <2>2 DEF Stays, Staging
  <2>4. PICK D \in SUBSET Waiting : Waiting' = Waiting \ D /\ Drop(D)
    BY <1>1, <2>1, ReportWaits
  <2>5. QED
    BY <2>2, <2>3, <2>4, DropLossless
<1>7. CASE \E tab \in Tabs : BeginUndo(tab)
  <2>1. PICK tab \in Tabs : BeginUndo(tab)
    BY <1>7
  <2>2. UNCHANGED disk /\ job' = job /\ items' = items /\ undo'.at = "step"
    BY <2>1 DEF BeginUndo
  <2>3. Waiting' = Waiting
    BY <1>1, <2>1, BeginUndoWaits
  <2>4. QED
    BY <1>2, <1>3, <2>2, <2>3
<1>8. CASE \E tab \in Tabs : CloseTab(tab)
  <2>1. PICK tab \in Tabs : CloseTab(tab)
    BY <1>8
  <2>2. UNCHANGED disk /\ job' = job /\ Waiting' \subseteq Waiting
    BY <1>1, <2>1, CloseTabWaits
  <2>3. items' = items /\ undo' = undo
    BY <2>1 DEF CloseTab, ghosts
  <2>4. QED
    BY <1>2, <1>3, <2>2, <2>3
<1>9. CASE UndoEnds
  <2>1. job' = job /\ items' = items /\ undo'.at = "step"
    BY <1>9 DEF UndoEnds, NoUndo
  <2>2. PICK D \in SUBSET Waiting : Waiting' = Waiting \ D /\ Drop(D)
    BY <1>1, <1>9, UndoEndsWaits
  <2>3. QED
    BY <1>3, <2>1, <2>2, DropLossless
<1>10. CASE CloseWindow
  <2>1. items' = items /\ undo' = undo
    BY <1>10 DEF CloseWindow, ghosts
  <2>2. job' = job /\ \E D \in SUBSET Waiting : Waiting' = Waiting \ D /\ Drop(D)
    BY <1>1, <1>10, CloseWindowWaits
  <2>3. QED
    BY <1>3, <2>1, <2>2, DropLossless
<1>11. QED
  BY <1>4, <1>5, <1>6, <1>7, <1>8, <1>9, <1>10

-----------------------------------------------------------------------------
(* A step of undo *)

\* What a step of undo never takes back.
LEMMA UndoGhosts ==
  ASSUME UndoTick
  PROVE  items' = items /\ job' = job /\ given_up \subseteq given_up' /\ halfway \subseteq halfway'
BY DEF UndoTick, UndoRemove, UndoMove, UndoCarry, UndoDisplace, UndoFill, UndoDrop, UndoRefused, StepGoes, StepDone,
       StepFails, UndoOnly, Rename, RemovePaths, RemoveHalf, Foreign, disk, ghosts

\* One path less, and the copy that was there.
LEMMA OneLess ==
  ASSUME NEW x, Fits(Copies(x), Whole(x)), \A k \in Jobs : \A i \in Nat : IsCopy(k, i, x)' => IsCopy(k, i, x),
         NEW k \in Jobs, NEW r \in Nat, IsCopy(k, r, x), ~IsCopy(k, r, x)',
         NEW p, Whole(x) \ {p} \subseteq Whole(x)'
  PROVE  Fits(Copies(x), Whole(x))'
<1> DEFINE e == <<k, r>>
<1>1. e \in Copies(x) /\ e # Home /\ Copies(x)' \in SUBSET (Copies(x) \ {e})
  BY CopyForgotten
<1>2. \A z, q \in Whole(x) \ Whole(x)' : z = q
  OBVIOUS
<1> HIDE DEF e
<1>3. QED
  BY <1>1, <1>2, FitsLess

\* What becomes of the step in hand.
LEMMA StepEnds ==
  ASSUME FilesInv, Places, NEW at, UndoAt(at), NEW to, NEW item \in Visible \cup {Absent},
         \/ StepDone /\ to = "step"
         \/ StepFails /\ to = "step"
         \/ StepGoes(to, item) /\ to \in {"carry", "fill", "drop"}
  PROVE  /\ undo'.at = to /\ Waiting' \subseteq Waiting
         /\ to = "step" \/ (InHand' = InHand /\ undo'.item = item)
         /\ StepDone => InHand \notin Waiting'
<1>1. CASE StepDone /\ to = "step"
  BY <1>1, DoneWaits
<1>2. CASE StepFails /\ to = "step"
  <2>1. undo \in Undoing /\ undo' \in Undoing
    BY <1>2, StepInHand, FailsWaits
  <2>2. undo'.failed = Append(undo.failed, InHand) /\ undo.failed \in Seq(Step)
    BY <1>2, <2>1, FailsWaits DEF Undoing
  <2>3. ~StepDone
    <3> SUFFICES ASSUME StepDone PROVE FALSE
      OBVIOUS
    <3>1. undo'.failed = undo.failed
      BY DoneWaits
    <3>2. Len(Append(undo.failed, InHand)) = Len(undo.failed) + 1 /\ Len(undo.failed) \in Nat
      BY <2>2
    <3>3. QED
      BY <2>2, <3>1, <3>2
  <2>4. QED
    BY <1>2, <2>3, FailsWaits
<1>3. CASE StepGoes(to, item) /\ to \in {"carry", "fill", "drop"}
  <2>1. undo'.at = to /\ Waiting' = Waiting /\ InHand' = InHand /\ undo'.item = item
    BY <1>3, GoesWaits
  <2>2. ~StepDone
    BY <1>3, <2>1, DoneWaits
  <2>3. QED
    BY <2>1, <2>2
<1>4. QED
  BY <1>1, <1>2, <1>3

\* What a step of undo removes was a copy, or is given up.
LEMMA UndoTickCarries ==
  ASSUME LossInv, UndoTick, NEW x \in items, Fits(Copies(x), Whole(x))
  PROVE  GivenUp(x)' \/ Fits(Copies(x), Whole(x))'
<1> DEFINE s == InHand
           fewer == \A k \in Jobs : \A i \in Nat : IsCopy(k, i, x)' => IsCopy(k, i, x)
<1>1. /\ FilesInv /\ Places /\ Restoring /\ DropsCopy /\ x \in Visible /\ x # Absent
      /\ job' = job /\ halfway \subseteq halfway'
  BY FilesAssumption, UndoGhosts DEF LossInv, HistoryInv, Accounts, Lossless
<1>2. PICK at : UndoAt(at)
  BY DEF UndoTick, UndoRemove, UndoMove, UndoCarry, UndoDisplace, UndoFill, UndoDrop, UndoRefused
<1>3. /\ s \in Waiting /\ s.job \in Jobs /\ s.root \in Nat /\ job[s.job].pc = "done"
      /\ s.kind \in Kind /\ undo.at = at /\ s.item \in Visible \cup {Absent} /\ undo.item \in Visible \cup {Absent}
  BY <1>1, <1>2, StepInHand, InHandWaits DEF UndoAt, Step
<1>4. /\ fs \in [Paths -> Visible \cup {Absent}] /\ s.dest \in Paths /\ Origin(s) \in Paths
      /\ Backup(s) \in Paths /\ Displaced(s) \in Paths
  BY <1>1, <1>2, AsidePaths
<1> HIDE DEF s
<1>0. PICK mine \in Jobs, nth \in Nat : s.job = mine /\ s.root = nth
  BY <1>3
\* Only what was carried back is a new copy.
<1>5. ASSUME NEW to, NEW item \in Visible \cup {Absent},
             \/ StepDone /\ to = "step"
             \/ StepFails /\ to = "step"
             \/ StepGoes(to, item) /\ to \in {"carry", "fill", "drop"},
             to = "drop" => item = Absent \/ s.kind = "restore_copy"
      PROVE  fewer
  <2>1. /\ undo'.at = to /\ Waiting' \subseteq Waiting
        /\ to = "step" \/ (InHand' = InHand /\ undo'.item = item)
    BY <1>1, <1>2, <1>5, StepEnds
  <2>2. \A k, i : ~CarriedBack(k, i, x)'
    BY <1>1, <1>5, <2>1 DEF CarriedBack, s
  <2>3. QED
    BY <1>1, <2>1, <2>2, WaitsNoMore DEF Holding
\* The copy in hand is none any more.
<1>6. ASSUME \/ StepDone
             \/ StepFails /\ x \in halfway'
             \/ StepGoes("fill", Absent) /\ s.kind = "restore_move"
      PROVE  ~IsCopy(mine, nth, x)'
  <2>1. PICK to \in {"step", "fill"} :
          /\ undo'.at = to /\ Waiting' \subseteq Waiting /\ (StepDone => InHand \notin Waiting')
    BY <1>1, <1>2, <1>6, StepEnds
  <2>2. \A z \in Waiting' : z.job = mine /\ z.root = nth => z = s
    BY <1>0, <1>1, <1>3, <2>1, WaitsOnce
  <2>3. ~Holding(mine)' /\ ~CarriedBack(mine, nth, x)'
    BY <1>0, <1>1, <1>3, <2>1 DEF Holding, CarriedBack
  <2>4. QED
    BY <1>6, <2>1, <2>2, <2>3 DEF IsCopy, s
<1>7. ASSUME Whole(x) \subseteq Whole(x)', fewer PROVE Fits(Copies(x), Whole(x))'
  BY <1>7, FewerCopies, FitsMore
<1>8. ASSUME UNCHANGED <<fs, torn>>, fewer PROVE Fits(Copies(x), Whole(x))'
  BY <1>7, <1>8 DEF Whole
<1>9. ASSUME NEW from \in Paths, NEW to \in Paths, Rename(from, to), fewer
      PROVE  GivenUp(x)' \/ Fits(Copies(x), Whole(x))'
  BY <1>1, <1>9, FewerCopies, RenameCarries
\* A path goes, or half of what is there.
<1>10. ASSUME NEW q, NEW item, RemovePaths({q}) \/ RemoveHalf(q), Foreign(q, item), fewer,
              q \in Whole(x) /\ item = x /\ x \notin halfway =>
                IsCopy(mine, nth, x) /\ ~IsCopy(mine, nth, x)'
       PROVE  GivenUp(x)' \/ Fits(Copies(x), Whole(x))'
  <2>1. Whole(x) \ {q} \subseteq Whole(x)'
    BY <1>10, RemovesOne
  <2>2. CASE q \notin Whole(x)
    BY <1>7, <1>10, <2>1, <2>2
  <2>3. CASE q \in Whole(x) /\ item = x /\ x \notin halfway
    BY <1>10, <2>1, <2>3, OneLess DEF fewer
  <2>4. CASE q \in Whole(x) /\ ~(item = x /\ x \notin halfway)
    <3>1. q \notin torn /\ fs[q] = x
      BY <2>4 DEF Whole
    <3>2. <<x, "removed">> \in Destroyed({q}, "removed")
      BY <1>1, <3>1 DEF Destroyed, Taken
    <3>3. given_up' = given_up \cup Destroyed({q}, "removed")
      BY <1>10, <2>4, <3>1 DEF Foreign
    <3>4. QED
      BY <3>2, <3>3 DEF GivenUp
  <2>5. QED
    BY <2>2, <2>3, <2>4
<1> HIDE DEF fewer
<1>11. StepDone \/ StepFails => fewer
  BY <1>3, <1>5
<1>12. CASE UndoRemove
  <2>1. /\ s.kind = "remove" /\ Foreign(s.dest, s.item)
        /\ (RemovePaths({s.dest}) /\ StepDone) \/ (RemoveHalf(s.dest) /\ StepFails)
    BY <1>12 DEF UndoRemove, s
  <2>2. s.item = x /\ x \notin halfway => IsCopy(mine, nth, x)
    BY <1>0, <1>3, <2>1 DEF IsCopy
  <2>3. s.dest \in Whole(x) => ~IsCopy(mine, nth, x)'
    BY <1>6, <2>1 DEF RemoveHalf, Whole
  <2>4. QED
    BY <1>10, <1>11, <2>1, <2>2, <2>3
<1>13. CASE UndoMove
  <2>1. CASE Rename(s.dest, Origin(s)) /\ (StepDone \/ StepGoes("fill", Absent))
    <3>1. fewer
      BY <1>5, <1>11, <2>1
    <3>2. QED
      BY <1>4, <1>9, <2>1, <3>1
  <2>2. ASSUME ~Taken(Origin(s)), fs' = [fs EXCEPT ![Origin(s)] = fs[s.dest]], torn' = torn \cup {Origin(s)},
               NEW item \in Visible \cup {Absent}, StepGoes("carry", item)
        PROVE  Fits(Copies(x), Whole(x))'
    <3>1. Whole(x) \subseteq Whole(x)'
      BY <1>1, <1>4, <2>2 DEF Whole, Taken
    <3>2. fewer
      BY <1>5, <2>2
    <3>3. QED
      BY <1>7, <3>1, <3>2
  <2>3. fs[s.dest] \in Visible \cup {Absent}
    BY <1>4
  <2>4. QED
    BY <1>13, <2>1, <2>2, <2>3 DEF UndoMove, s
<1>14. CASE UndoCarry
  <2>1. s.kind \in {"move_back", "restore_move"} /\ undo.at = "carry"
    BY <1>1, <1>14 DEF UndoCarry, UndoAt, Restoring, s
  <2>2. CASE /\ Origin(s) \in torn /\ fs[Origin(s)] = undo.item /\ torn' = torn \ {Origin(s)}
             /\ UNCHANGED <<fs, halfway>> /\ StepGoes("drop", undo.item)
    <3>1. Waiting' \subseteq Waiting /\ InHand' = s /\ undo'.item = undo.item /\ undo'.at = "drop"
      BY <1>1, <1>2, <1>3, <2>2, StepEnds DEF s
    <3>2. ASSUME NEW k \in Jobs, NEW i \in Nat, IsCopy(k, i, x)', ~IsCopy(k, i, x)
          PROVE  k = s.job /\ i = s.root /\ undo.item = x
      BY <1>1, <2>2, <3>1, <3>2 DEF IsCopy, Holding, CarriedBack
    <3>3. CASE undo.item # x
      <4>1. fewer /\ Whole(x) \subseteq Whole(x)'
        BY <2>2, <3>2, <3>3 DEF fewer, Whole
      <4>2. QED
        BY <1>7, <4>1
    <3>4. CASE undo.item = x
      <4> DEFINE e == <<s.job, s.root>>
      <4>1. Copies(x)' \in SUBSET (Copies(x) \cup {e})
        BY <3>2 DEF Copies
      <4>2. Origin(s) \notin Whole(x) /\ Whole(x) \cup {Origin(s)} \subseteq Whole(x)'
        BY <1>4, <2>2, <3>4 DEF Whole
      <4> HIDE DEF e
      <4>3. QED
        BY <4>1, <4>2, FitsCopy
    <3>5. QED
      BY <3>3, <3>4
  <2>3. CASE UNCHANGED <<fs, torn>> /\ (StepGoes("drop", Absent) \/ StepFails)
    <3>1. fewer
      BY <1>5, <1>11, <2>3
    <3>2. QED
      BY <1>8, <2>3, <3>1
  <2>4. CASE Origin(s) \in torn /\ RemovePaths({Origin(s)}) /\ StepFails
    <3>1. Whole(x) \subseteq Whole(x)'
      BY <2>4, RemovesOne DEF Whole
    <3>2. QED
      BY <1>7, <1>11, <2>4, <3>1
  <2>5. QED
    BY <1>14, <2>2, <2>3, <2>4 DEF UndoCarry, s
<1>15. CASE UndoDisplace
  <2>1. Rename(s.dest, Displaced(s)) /\ StepGoes("fill", Absent)
    BY <1>15 DEF UndoDisplace, s
  <2>2. fewer
    BY <1>5, <2>1
  <2>3. QED
    BY <1>4, <1>9, <2>1, <2>2
<1>16. CASE UndoFill
  <2>1. fewer
    <3>1. StepDone \/ StepFails \/ (StepGoes("drop", s.item) /\ s.kind = "restore_copy")
      BY <1>16 DEF UndoFill, s
    <3>2. QED
      BY <1>3, <1>5, <1>11, <3>1
  <2>2. \/ Rename(Backup(s), s.dest) \/ Rename(Displaced(s), s.dest) \/ Rename(Origin(s), s.dest)
        \/ UNCHANGED disk
    BY <1>16 DEF UndoFill, s
  <2>3. QED
    BY <1>4, <1>8, <1>9, <2>1, <2>2 DEF disk
<1>17. CASE UndoDrop
  <2> DEFINE left == IF s.kind = "restore_copy" THEN Displaced(s) ELSE s.dest
  <2>1. s.kind # "remove" /\ undo.at = "drop"
    BY <1>1, <1>17 DEF UndoDrop, UndoAt, Restoring, s
  <2>2. undo.item = x /\ x \notin halfway => IsCopy(mine, nth, x)
    BY <1>0, <1>1, <1>3, <2>1 DEF IsCopy, CarriedBack, DropsCopy, Kind, s
  <2>3. CASE /\ RemovePaths({left}) /\ Foreign(left, undo.item)
             /\ IF s.kind = "restore_move" THEN StepGoes("fill", Absent) ELSE StepDone
    <3>1. ~IsCopy(mine, nth, x)' /\ fewer
      BY <1>5, <1>6, <1>11, <2>3
    <3>2. QED
      BY <1>10, <2>2, <2>3, <3>1
  <2>4. CASE RemoveHalf(left) /\ Foreign(left, undo.item) /\ StepFails
    <3>1. left \in Whole(x) => ~IsCopy(mine, nth, x)'
      BY <1>6, <2>4 DEF RemoveHalf, Whole
    <3>2. QED
      BY <1>10, <1>11, <2>2, <2>4, <3>1
  <2>5. CASE UNCHANGED <<fs, torn>> /\ StepFails
    BY <1>8, <1>11, <2>5
  <2>6. QED
    BY <1>17, <2>3, <2>4, <2>5 DEF UndoDrop, s
<1>18. CASE UndoRefused
  BY <1>8, <1>11, <1>18 DEF UndoRefused, disk
<1>19. QED
  BY <1>12, <1>13, <1>14, <1>15, <1>16, <1>17, <1>18 DEF UndoTick

\* No step of undo touches a stage.
LEMMA UndoSpares ==
  ASSUME FilesInv, UndoTick, NEW p \in Paths \ UndoPaths
  PROVE  fs'[p] = fs[p] /\ (p \in torn => p \in torn')
<1> DEFINE s == InHand
<1>1. PICK at : UndoAt(at)
  BY DEF UndoTick, UndoRemove, UndoMove, UndoCarry, UndoDisplace, UndoFill, UndoDrop, UndoRefused
<1>2. /\ fs \in [Paths -> Visible \cup {Absent}] /\ s.dest \in UndoPaths /\ Origin(s) \in UndoPaths
      /\ Backup(s) \in UndoPaths /\ Displaced(s) \in UndoPaths
  BY <1>1, AsidePaths
<1> HIDE DEF s
<1>3. ASSUME NEW from \in UndoPaths, NEW to \in UndoPaths, Rename(from, to)
      PROVE  fs'[p] = fs[p] /\ (p \in torn => p \in torn')
  BY <1>3, RenameSpares
<1>4. ASSUME NEW q \in UndoPaths, RemovePaths({q}) \/ RemoveHalf(q)
      PROVE  fs'[p] = fs[p] /\ (p \in torn => p \in torn')
  BY <1>4, RemoveSpares DEF RemoveHalf
<1>5. CASE UndoRemove \/ UndoDrop \/ UndoRefused
  BY <1>2, <1>4, <1>5 DEF UndoRemove, UndoDrop, UndoRefused, disk, s
<1>6. CASE UndoMove
  BY <1>2, <1>3, <1>6 DEF UndoMove, s
<1>7. CASE UndoCarry
  BY <1>2, <1>4, <1>7 DEF UndoCarry, s
<1>8. CASE UndoDisplace \/ UndoFill
  BY <1>2, <1>3, <1>8 DEF UndoDisplace, UndoFill, disk, s
<1>9. QED
  BY <1>5, <1>6, <1>7, <1>8 DEF UndoTick

\* A tick of an undo loses nothing.
LEMMA UndoTickLossless ==
  ASSUME LossInv, UndoTick
  PROVE  Lossless' /\ DropsCopy' /\ \A k \in Jobs : StageInv(k)'
<1>1. FilesInv /\ Places /\ Restoring /\ Lossless /\ \A k \in Jobs : StageInv(k)
  BY DEF LossInv, HistoryInv, Accounts
<1>2. items' = items /\ job' = job /\ given_up \subseteq given_up' /\ halfway \subseteq halfway'
  BY UndoGhosts
<1>3. Lossless'
  BY <1>1, <1>2, UndoTickCarries, LosslessKept
<1>4. DropsCopy'
  <2>1. PICK at : UndoAt(at)
    BY DEF UndoTick, UndoRemove, UndoMove, UndoCarry, UndoDisplace, UndoFill, UndoDrop, UndoRefused
  <2>2. /\ InHand.item \in Visible \cup {Absent} /\ undo.item \in Visible \cup {Absent}
        /\ fs[InHand.dest] \in Visible \cup {Absent}
    BY <1>1, <2>1, StepInHand, AsidePaths
  <2>3. ASSUME NEW to \in {"carry", "fill", "drop"}, NEW item \in Visible \cup {Absent}, StepGoes(to, item),
               to = "drop" => InHand.kind # "restore_copy" \/ item = InHand.item
        PROVE  DropsCopy'
    BY <1>1, <2>1, <2>3, GoesWaits DEF DropsCopy
  <2>4. ASSUME StepDone \/ StepFails PROVE DropsCopy'
    BY <1>1, <2>1, <2>4, DoneWaits, FailsWaits DEF DropsCopy
  <2>5. CASE UndoMove
    BY <2>2, <2>3, <2>4, <2>5 DEF UndoMove
  <2>6. CASE UndoCarry
    <3>1. InHand.kind # "restore_copy"
      BY <1>1, <2>6 DEF UndoCarry, UndoAt, Restoring
    <3>2. StepGoes("drop", undo.item) \/ StepGoes("drop", Absent) \/ StepFails
      BY <2>6 DEF UndoCarry
    <3>3. QED
      BY <2>2, <2>3, <2>4, <3>1, <3>2
  <2>7. CASE UndoDisplace \/ UndoFill
    <3>1. StepGoes("fill", Absent) \/ StepGoes("drop", InHand.item) \/ StepDone \/ StepFails
      BY <2>7 DEF UndoDisplace, UndoFill
    <3>2. QED
      BY <2>2, <2>3, <2>4, <3>1
  <2>8. CASE UndoRemove \/ UndoDrop \/ UndoRefused
    <3>1. StepGoes("fill", Absent) \/ StepDone \/ StepFails
      BY <2>8 DEF UndoRemove, UndoDrop, UndoRefused
    <3>2. QED
      BY <2>3, <2>4, <3>1
  <2>9. QED
    BY <2>5, <2>6, <2>7, <2>8 DEF UndoTick
<1>5. ASSUME NEW k \in Jobs PROVE StageInv(k)'
  <2>1. job[k].pc \in Staging => Stage(k) \in Paths \ UndoPaths
    <3> SUFFICES ASSUME job[k].pc \in Staging PROVE Stage(k) \in Paths \ UndoPaths
      OBVIOUS
    <3>1. Stage(k) \in Paths /\ job[k].root \in 1..Len(Roots[k])
      BY <1>1, StagePath, Staged
    <3>2. QED
      BY <3>1, UndoPath DEF Stage
  <2>2. QED
    BY <1>1, <1>2, <2>1, UndoSpares, StageSpared
<1>6. QED
  BY <1>3, <1>4, <1>5

-----------------------------------------------------------------------------
(* The theorem *)

\* In the beginning each item is at its own path, and nothing was copied.
LEMMA LossInitInv == FilesInit => LossInv
<1> SUFFICES ASSUME FilesInit PROVE LossInv
  OBVIOUS
<1>1. /\ HistoryInv /\ torn = {} /\ undo.at = "step" /\ \A j \in Jobs : job[j] = [pc |-> "idle"]
  BY HistoryInitInv DEF FilesInit, NoUndo
<1>2. items \subseteq Visible
  BY FilesAssumption DEF FilesInit
<1>3. \A j \in Jobs : StageInv(j)
  BY <1>1 DEF StageInv, Staging
<1>4. Waiting = {}
  <2>1. \A j \in Jobs : ~Operating(j)
    BY <1>1 DEF Operating
  <2>2. \A t \in Tabs : Len(history[t]) = 0
    BY DEF FilesInit
  <2>3. QED
    BY <2>1, <2>2 DEF Waiting, AtThread, InHistory, InUndo, FilesInit
<1>5. ASSUME NEW x \in items PROVE Fits(Copies(x), Whole(x))
  <2>1. Copies(x) = {}
    BY <1>1, <1>4 DEF Copies, IsCopy, Holding, CarriedBack
  <2>2. x \in Whole(x)
    BY <1>1, <1>2, <1>5 DEF Whole, Paths, FilesInit
  <2> DEFINE h == [a \in {Home} |-> x]
  <2>3. h \in [Copies(x) \cup {Home} -> Whole(x)] /\ \A a, b \in Copies(x) \cup {Home} : h[a] = h[b] => a = b
    BY <2>1, <2>2
  <2> HIDE DEF h
  <2>4. QED
    BY <2>3 DEF Fits
<1>6. QED
  BY <1>1, <1>2, <1>3, <1>5 DEF LossInv, Lossless, DropsCopy

\* Every step keeps the invariant.
LEMMA LossStepInv == LossInv /\ [FilesNext]_filesVars => LossInv'
<1> SUFFICES ASSUME LossInv, [FilesNext]_filesVars PROVE LossInv'
  OBVIOUS
<1>1. HistoryInv'
  BY HistoryStepInv DEF LossInv
<1>2. FilesInv' /\ FilesInv /\ Places /\ Lossless /\ \A k \in Jobs : StageInv(k)
  BY <1>1 DEF LossInv, HistoryInv
<1>3. CASE UNCHANGED filesVars
  <2>1. UNCHANGED <<fs, torn, given_up, halfway, job, history, undo, items>>
    BY <1>3 DEF filesVars, disk, window, ghosts
  <2>2. \A s : (AtThread(s)' <=> AtThread(s)) /\ (InHistory(s)' <=> InHistory(s)) /\ (InUndo(s)' <=> InUndo(s))
    BY <2>1 DEF AtThread, Operating, InHistory, InUndo
  <2>3. Waiting' = Waiting
    BY <2>2 DEF Waiting
  <2>4. \A k \in Jobs : Stays(k)
    BY <2>1 DEF Stays
  <2>5. UNCHANGED disk
    BY <2>1 DEF disk
  <2>6. QED
    BY <1>1, <1>2, <2>1, <2>3, <2>4, <2>5, DropNone, DropLossless DEF LossInv
<1>4. CASE \E j \in Jobs : Worker(j)
  BY <1>1, <1>4, WorkerLossless DEF LossInv
<1>5. CASE UndoTick
  BY <1>1, <1>5, UndoTickLossless DEF LossInv
<1>6. CASE \/ \E j \in Jobs : \E t \in TabOf[j], op \in Ops[j], policy \in Policies[j] :
               StartTransfer(j, t, op, policy)
           \/ \E j \in Jobs : CancelTransfer(j) \/ Report(j)
           \/ \E tab \in Tabs : BeginUndo(tab) \/ CloseTab(tab)
           \/ UndoEnds \/ CloseWindow
  BY <1>1, <1>2, <1>6, WindowLossless DEF LossInv
<1>7. QED
  BY <1>3, <1>4, <1>5, <1>6 DEF FilesNext

\* There are always more paths than copies of an item that was not given up, and
\* its stage holds it.
THEOREM LossInvariant == FilesSpec => []LossInv
<1>1. QED
  BY LossInitInv, LossStepInv, PTL DEF FilesSpec

\* No item is lost: at any instant, the end of the process included, each is
\* whole at some path, unless it was given up (copy_entry, commit_stage, the
\* rollbacks, execute_undo_step, cleanup_undo_record).
THEOREM ItemsKept == FilesSpec => []NothingLost
<1>1. LossInv => NothingLost
  <2> SUFFICES ASSUME LossInv, NEW x \in items, ~GivenUp(x) PROVE \E q \in Paths \ torn : fs[q] = x
    BY DEF NothingLost, GivenUp
  <2>1. PICK h \in [Copies(x) \cup {Home} -> Whole(x)] : TRUE
    BY DEF LossInv, Lossless, Fits
  <2>2. h[Home] \in Whole(x)
    BY <2>1
  <2>3. QED
    BY <2>2 DEF Whole
<1>2. QED
  BY <1>1, LossInvariant, PTL
=============================================================================
