-------------------------- MODULE FileHistoryProofs --------------------------
(***************************************************************************)
(* The history of FileTransfers, proved for any transfers, tabs and paths: *)
(* each step that can still be undone waits at one place only, at the      *)
(* thread that is at work, in the record of a tab or in the undo on        *)
(* screen, and the backups on disk are those of the steps that wait and of *)
(* the items just being replaced.                                          *)
(***************************************************************************)
EXTENDS FileTransfersProofs

(* The steps that can still be undone *)

Among(s, steps) == \E a \in 1..Len(steps) : steps[a] = s

\* What an undo job still has to do or failed to do.
LeftOf(u) == u.failed \o SubSeq(u.steps, u.next, Len(u.steps))

AtThread(s)  == \E j \in Jobs : Operating(j) /\ Among(s, job[j].steps)
InHistory(s) == \E t \in Tabs : \E n \in 1..Len(history[t]) : Among(s, history[t][n].steps)
InUndo(s)    == undo # NoUndo /\ Among(s, LeftOf(undo))

Waiting == {s \in Step : AtThread(s) \/ InHistory(s) \/ InUndo(s)}

\* Steps of one transfer, one for each item.
StepsOf(j, steps) ==
  /\ \A a \in 1..Len(steps) : steps[a].job = j
  /\ \A a, b \in 1..Len(steps) : steps[a].root = steps[b].root => a = b

\* A thread is past the items it remembers.
JobSteps ==
  \A j \in Jobs : Operating(j) =>
    StepsOf(j, job[j].steps) /\ \A a \in 1..Len(job[j].steps) : job[j].steps[a].root < job[j].root

\* A transfer has one record, and has reported.
HistorySteps ==
  \A t \in Tabs : \A n \in 1..Len(history[t]) :
    /\ StepsOf(history[t][n].job, history[t][n].steps) /\ job[history[t][n].job].pc = "done"
    /\ \A u \in Tabs : \A m \in 1..Len(history[u]) :
         history[u][m].job = history[t][n].job => u = t /\ m = n

NotRecorded(j) == \A t \in Tabs : \A n \in 1..Len(history[t]) : history[t][n].job # j

\* The record that is undone is not in the history.
UndoSteps ==
  undo # NoUndo =>
    /\ StepsOf(undo.job, LeftOf(undo)) /\ job[undo.job].pc = "done" /\ NotRecorded(undo.job)
    /\ \A a \in 1..Len(undo.failed) : Among(undo.failed[a], undo.steps)

Places == JobSteps /\ HistorySteps /\ UndoSteps

-----------------------------------------------------------------------------
(* Where a step waits *)

\* A record of the history.
LEMMA RecordAt ==
  ASSUME FilesInv, NEW t \in Tabs
  PROVE  /\ history[t] \in Seq(Record) /\ Len(history[t]) \in Nat
         /\ \A n \in 1..Len(history[t]) :
              /\ history[t][n] \in Record /\ history[t][n].steps \in Seq(Step) /\ history[t][n].job \in Jobs
              /\ Len(history[t][n].steps) \in Nat
              /\ \A a \in 1..Len(history[t][n].steps) : history[t][n].steps[a] \in Step
<1>1. history[t] \in Seq(Record)
  BY DEF FilesInv, Typed, WindowTyped
<1>2. \A n \in 1..Len(history[t]) : history[t][n] \in Record
  BY <1>1
<1>3. QED
  BY <1>1, <1>2 DEF Record

\* The steps of a thread.
LEMMA ThreadAt ==
  ASSUME FilesInv, NEW j \in Jobs, Operating(j)
  PROVE  /\ job[j] \in Live /\ job[j].steps \in Seq(Step) /\ Len(job[j].steps) \in Nat
         /\ job[j].root \in Nat
         /\ \A a \in 1..Len(job[j].steps) : job[j].steps[a] \in Step
<1>1. job[j] \in Live
  BY IsLive DEF FilesInv, Typed, Operating
<1>2. QED
  BY <1>1 DEF Live

\* What is left of an undo: what failed, then what is still to be done.
LEMMA LeftAt ==
  ASSUME NEW u \in Undoing, u.next \in 1..(Len(u.steps) + 1)
  PROVE  /\ u.steps \in Seq(Step) /\ u.failed \in Seq(Step) /\ Len(u.steps) \in Nat /\ Len(u.failed) \in Nat
         /\ LeftOf(u) \in Seq(Step) /\ Len(LeftOf(u)) = Len(u.failed) + (Len(u.steps) - u.next + 1)
         /\ \A a \in 1..Len(LeftOf(u)) :
              LeftOf(u)[a] = IF a <= Len(u.failed) THEN u.failed[a] ELSE u.steps[u.next + a - Len(u.failed) - 1]
         /\ \A a \in 1..Len(LeftOf(u)) : LeftOf(u)[a] \in Step
<1>1. u.steps \in Seq(Step) /\ u.failed \in Seq(Step) /\ Len(u.steps) \in Nat /\ Len(u.failed) \in Nat
      /\ u.next \in Nat \ {0}
  BY DEF Undoing
<1> DEFINE rest == SubSeq(u.steps, u.next, Len(u.steps))
<1>2. rest \in Seq(Step)
  BY <1>1, PartIn
<1>3. /\ Len(rest) = Len(u.steps) - u.next + 1
      /\ \A i \in 1..Len(rest) : rest[i] = u.steps[u.next + i - 1]
  <2>1. \A i \in u.next..Len(u.steps) : u.steps[i] \in Step
    BY <1>1
  <2>2. Len(rest) = IF u.next <= Len(u.steps) THEN Len(u.steps) - u.next + 1 ELSE 0
    BY <1>1, <2>1, SubSeqProperties
  <2>3. Len(rest) = Len(u.steps) - u.next + 1
    BY <1>1, <2>2
  <2>4. \A i \in 1..Len(rest) : rest[i] = u.steps[u.next + i - 1]
    BY <1>1, <2>1, <2>3, SubSeqProperties
  <2>5. QED
    BY <2>3, <2>4
<1> HIDE DEF rest
<1>4. LeftOf(u) = u.failed \o rest
  BY DEF LeftOf, rest
<1>5. /\ LeftOf(u) \in Seq(Step) /\ Len(LeftOf(u)) = Len(u.failed) + Len(rest)
      /\ \A a \in 1..Len(LeftOf(u)) :
           LeftOf(u)[a] = IF a <= Len(u.failed) THEN u.failed[a] ELSE rest[a - Len(u.failed)]
  BY <1>1, <1>2, <1>4, ConcatProperties
<1>6. ASSUME NEW a \in 1..Len(LeftOf(u))
      PROVE  LeftOf(u)[a] = IF a <= Len(u.failed) THEN u.failed[a] ELSE u.steps[u.next + a - Len(u.failed) - 1]
  <2>1. CASE a <= Len(u.failed)
    BY <1>5, <2>1
  <2>2. CASE ~(a <= Len(u.failed))
    <3> DEFINE i == a - Len(u.failed)
    <3>1. i \in 1..Len(rest) /\ LeftOf(u)[a] = rest[i]
      BY <1>1, <1>3, <1>5, <2>2
    <3>2. LeftOf(u)[a] = u.steps[u.next + i - 1]
      BY <1>3, <3>1
    <3>3. u.next + i - 1 = u.next + a - Len(u.failed) - 1
      BY <1>1
    <3> HIDE DEF i
    <3>4. QED
      BY <2>2, <3>2, <3>3
  <2>3. QED
    BY <2>1, <2>2
<1>7. \A a \in 1..Len(LeftOf(u)) : LeftOf(u)[a] \in Step
  BY <1>5
<1>8. QED
  BY <1>1, <1>3, <1>5, <1>6, <1>7

\* The undo on screen is one.
LEMMA UndoTyped ==
  ASSUME FilesInv, undo # NoUndo
  PROVE  undo \in Undoing /\ undo.next \in 1..(Len(undo.steps) + 1) /\ undo.job \in Jobs /\ undo.tab \in Tabs
BY DEF FilesInv, Typed, WindowTyped, Undoing

\* The transfer of a step that waits was started; while it is at work, it is at
\* a later item, and its steps wait at its thread.
LEMMA WaitingAt ==
  ASSUME FilesInv, Places, NEW s \in Waiting
  PROVE  /\ s \in Step /\ s.job \in Jobs /\ s.root \in 1..Len(Roots[s.job]) /\ job[s.job].pc # "idle"
         /\ Operating(s.job) => Among(s, job[s.job].steps) /\ s.root < job[s.job].root
<1>1. s \in Step /\ s.job \in Jobs /\ s.root \in 1..Len(Roots[s.job])
  BY DEF Waiting, Step
<1>2. CASE AtThread(s)
  <2>1. PICK j \in Jobs : Operating(j) /\ Among(s, job[j].steps)
    BY <1>2 DEF AtThread
  <2>2. s.job = j /\ s.root < job[j].root
    BY <2>1 DEF Places, JobSteps, StepsOf, Among
  <2>3. QED
    BY <1>1, <2>1, <2>2 DEF Operating
<1>3. CASE InHistory(s)
  <2>1. PICK t \in Tabs : \E n \in 1..Len(history[t]) : Among(s, history[t][n].steps)
    BY <1>3 DEF InHistory
  <2>2. PICK n \in 1..Len(history[t]) : Among(s, history[t][n].steps)
    BY <2>1
  <2>3. StepsOf(history[t][n].job, history[t][n].steps) /\ job[history[t][n].job].pc = "done"
    BY <2>2 DEF Places, HistorySteps
  <2>4. s.job = history[t][n].job
    BY <2>2, <2>3 DEF StepsOf, Among
  <2>5. QED
    BY <1>1, <2>3, <2>4 DEF Operating
<1>4. CASE InUndo(s)
  <2>1. s.job = undo.job /\ job[s.job].pc = "done"
    BY <1>4 DEF InUndo, Places, UndoSteps, StepsOf, Among
  <2>2. QED
    BY <1>1, <2>1 DEF Operating
<1>5. QED
  BY <1>2, <1>3, <1>4 DEF Waiting

\* A step of a transfer's is of that transfer.
LEMMA AmongJob ==
  ASSUME NEW j, NEW steps, StepsOf(j, steps), NEW s, Among(s, steps)
  PROVE  s.job = j
BY DEF StepsOf, Among

\* Steps of one transfer for one item are one.
LEMMA AmongOne ==
  ASSUME NEW j, NEW steps, StepsOf(j, steps), NEW s, NEW z, Among(s, steps), Among(z, steps),
         s.root = z.root
  PROVE  s = z
BY DEF StepsOf, Among

\* Each transferred item has at most one step that waits.
LEMMA WaitsOnce ==
  ASSUME FilesInv, Places, NEW s \in Waiting, NEW z \in Waiting, s.job = z.job, s.root = z.root
  PROVE  s = z
<1>1. CASE Operating(s.job)
  <2>1. Among(s, job[s.job].steps) /\ Among(z, job[s.job].steps) /\ s.job \in Jobs
    BY <1>1, WaitingAt
  <2>2. StepsOf(s.job, job[s.job].steps)
    BY <1>1, <2>1 DEF Places, JobSteps
  <2>3. QED
    BY <2>1, <2>2, AmongOne
<1>2. CASE ~Operating(s.job)
  <2>1. ASSUME NEW y \in Waiting, y.job = s.job PROVE InHistory(y) \/ InUndo(y)
    <3>1. ~AtThread(y)
      BY <1>2, <2>1 DEF AtThread, Places, JobSteps, StepsOf, Among
    <3>2. QED
      BY <3>1 DEF Waiting
  <2>2. ASSUME NEW y \in Waiting, InHistory(y)
        PROVE  \E t \in Tabs : \E n \in 1..Len(history[t]) :
                 Among(y, history[t][n].steps) /\ history[t][n].job = y.job
    BY <2>2 DEF InHistory, Places, HistorySteps, StepsOf, Among
  <2>3. ASSUME NEW y \in Waiting, InUndo(y) PROVE undo # NoUndo /\ Among(y, LeftOf(undo)) /\ undo.job = y.job
    BY <2>3 DEF InUndo, Places, UndoSteps, StepsOf, Among
  <2>4. CASE InHistory(s) /\ InHistory(z)
    <3>1. PICK t \in Tabs : \E n \in 1..Len(history[t]) :
                 Among(s, history[t][n].steps) /\ history[t][n].job = s.job
      BY <2>2, <2>4
    <3>2. PICK n \in 1..Len(history[t]) : Among(s, history[t][n].steps) /\ history[t][n].job = s.job
      BY <3>1
    <3>3. PICK u \in Tabs : \E m \in 1..Len(history[u]) :
                 Among(z, history[u][m].steps) /\ history[u][m].job = z.job
      BY <2>2, <2>4
    <3>4. PICK m \in 1..Len(history[u]) : Among(z, history[u][m].steps) /\ history[u][m].job = z.job
      BY <3>3
    <3>5. u = t /\ m = n /\ StepsOf(history[t][n].job, history[t][n].steps)
      BY <3>2, <3>4 DEF Places, HistorySteps
    <3>6. QED
      BY <3>2, <3>4, <3>5, AmongOne
  <2>5. CASE InUndo(s) /\ InUndo(z)
    BY <2>3, <2>5, AmongOne DEF Places, UndoSteps
  <2>6. CASE (InHistory(s) /\ InUndo(z)) \/ (InUndo(s) /\ InHistory(z))
    <3>1. FALSE
      BY <2>2, <2>3, <2>6 DEF Places, UndoSteps, NotRecorded
    <3>2. QED
      BY <3>1
  <2>7. QED
    BY <2>1, <2>4, <2>5, <2>6
<1>3. QED
  BY <1>1, <1>2

-----------------------------------------------------------------------------
(* How the steps that wait change *)

\* What the steps of a thread leave alone.
LEMMA SamePlaces ==
  ASSUME FilesInv, Places, history' = history, undo' = undo, JobSteps',
         \A k \in Jobs : job[k].pc = "done" => job'[k].pc = "done"
  PROVE  Places' /\ \A s : (InHistory(s)' <=> InHistory(s)) /\ (InUndo(s)' <=> InUndo(s))
<1>1. HistorySteps'
  <2>1. ASSUME NEW t \in Tabs, NEW n \in 1..Len(history[t])
        PROVE  /\ StepsOf(history[t][n].job, history[t][n].steps) /\ job'[history[t][n].job].pc = "done"
               /\ \A u \in Tabs : \A m \in 1..Len(history[u]) :
                    history[u][m].job = history[t][n].job => u = t /\ m = n
    BY RecordAt DEF Places, HistorySteps
  <2>2. QED
    BY <2>1 DEF HistorySteps, StepsOf
<1>2. UndoSteps'
  <2>1. CASE undo # NoUndo
    <3>1. undo.job \in Jobs
      BY <2>1, UndoTyped
    <3>2. QED
      BY <2>1, <3>1 DEF Places, UndoSteps, NotRecorded, StepsOf, LeftOf, Among, NoUndo
  <2>2. QED
    BY <2>1 DEF UndoSteps, NoUndo
<1>3. QED
  BY <1>1, <1>2 DEF Places, InHistory, InUndo

\* A thread goes on, or a transfer starts: it has the steps it had, or none yet.
LEMMA GoesOn ==
  ASSUME FilesInv, Places, NEW j \in Jobs, history' = history, undo' = undo,
         \A k \in Jobs \ {j} : job'[k] = job[k], Operating(j)',
         \/ Operating(j) /\ job'[j].steps = job[j].steps /\ job'[j].root \in {job[j].root, job[j].root + 1}
         \/ job[j].pc = "idle" /\ job'[j].steps = <<>>
  PROVE  Places' /\ Waiting' = Waiting
<1>1. ASSUME NEW s PROVE Among(s, job'[j].steps) <=> Operating(j) /\ Among(s, job[j].steps)
  <2>1. CASE Operating(j)
    BY <2>1 DEF Operating
  <2>2. CASE ~Operating(j)
    <3>1. job'[j].steps = <<>>
      BY <2>2
    <3>2. ~Among(s, <<>>)
      BY DEF Among
    <3>3. QED
      BY <2>2, <3>1, <3>2
  <2>3. QED
    BY <2>1, <2>2
<1>2. JobSteps'
  <2>1. ASSUME NEW k \in Jobs, Operating(k)'
        PROVE  StepsOf(k, job'[k].steps) /\ \A a \in 1..Len(job'[k].steps) : job'[k].steps[a].root < job'[k].root
    <3>1. CASE k # j
      BY <2>1, <3>1 DEF Places, JobSteps, Operating
    <3>2. CASE k = j /\ Operating(j) /\ job'[j].steps = job[j].steps
      <4>1. StepsOf(j, job[j].steps) /\ \A a \in 1..Len(job[j].steps) : job[j].steps[a].root < job[j].root
        BY <3>2 DEF Places, JobSteps
      <4>2. job[j].root \in Nat /\ \A a \in 1..Len(job[j].steps) : job[j].steps[a] \in Step
        BY <3>2, ThreadAt
      <4>3. \A a \in 1..Len(job[j].steps) : job[j].steps[a].root \in Nat
        BY <4>2 DEF Step
      <4>4. QED
        BY <3>2, <4>1, <4>2, <4>3 DEF Operating
    <3>3. CASE k = j /\ job'[j].steps = <<>>
      BY <3>3 DEF StepsOf
    <3>4. QED
      BY <3>1, <3>2, <3>3
  <2>2. QED
    BY <2>1 DEF JobSteps, StepsOf
<1>3. \A k \in Jobs : job[k].pc = "done" => job'[k].pc = "done"
  BY DEF Operating
<1>4. Places' /\ \A s : (InHistory(s)' <=> InHistory(s)) /\ (InUndo(s)' <=> InUndo(s))
  BY <1>2, <1>3, SamePlaces
<1>5. \A s : AtThread(s)' <=> AtThread(s)
  BY <1>1 DEF AtThread, Operating, Among
<1>6. QED
  BY <1>4, <1>5 DEF Waiting

\* What was committed waits from then on.
LEMMA Noted ==
  ASSUME FilesInv, Places, NEW j \in Jobs, Operating(j), history' = history, undo' = undo,
         \A k \in Jobs \ {j} : job'[k] = job[k], NEW new \in Step,
         job'[j].pc = "root", job'[j].root = job[j].root + 1, job'[j].steps = Append(job[j].steps, new),
         new.job = j, new.root = job[j].root
  PROVE  Places' /\ Waiting' = Waiting \cup {new}
<1>1. /\ job[j].steps \in Seq(Step) /\ Len(job[j].steps) \in Nat /\ job[j].root \in Nat
      /\ \A a \in 1..Len(job[j].steps) : job[j].steps[a] \in Step /\ job[j].steps[a].root \in Nat
  BY ThreadAt DEF Step
<1> DEFINE steps == Append(job[j].steps, new)
<1>2. /\ Len(steps) = Len(job[j].steps) + 1 /\ steps[Len(job[j].steps) + 1] = new
      /\ \A a \in 1..Len(job[j].steps) : steps[a] = job[j].steps[a]
  BY <1>1, AppendProperties
<1>3. job'[j].steps = steps /\ job'[j].root = job[j].root + 1
  OBVIOUS
<1> HIDE DEF steps
<1>4. StepsOf(j, job[j].steps) /\ \A a \in 1..Len(job[j].steps) : job[j].steps[a].root < job[j].root
  BY DEF Places, JobSteps
<1> DEFINE old == job[j].steps
           root == job[j].root
<1>5. \A a \in 1..Len(steps) : (a \in 1..Len(old) /\ steps[a] = old[a]) \/ (a = Len(old) + 1 /\ steps[a] = new)
  BY <1>1, <1>2
<1>6. /\ StepsOf(j, steps) /\ \A a \in 1..Len(steps) : steps[a].root < root + 1
      /\ \A s : Among(s, steps) <=> Among(s, old) \/ s = new
  <2>1. new.job = j /\ new.root = root
    OBVIOUS
  <2>2. \A a \in 1..Len(old) : old[a].job = j /\ old[a].root < root /\ old[a].root \in Nat
    BY <1>1, <1>4 DEF StepsOf
  <2>3. \A a, b \in 1..Len(old) : old[a].root = old[b].root => a = b
    BY <1>4 DEF StepsOf
  <2>4. root \in Nat /\ Len(old) \in Nat /\ \A a \in 1..Len(old) : a \in 1..Len(steps)
    BY <1>1, <1>2
  <2>5. Len(old) + 1 \in 1..Len(steps) /\ steps[Len(old) + 1] = new /\ \A a \in 1..Len(old) : steps[a] = old[a]
    BY <1>1, <1>2
  <2> HIDE DEF old, root
  <2>6. \A a \in 1..Len(steps) : steps[a].job = j /\ steps[a].root < root + 1
    BY <1>5, <2>1, <2>2, <2>4
  <2>7. \A a, b \in 1..Len(steps) : steps[a].root = steps[b].root => a = b
    BY <1>5, <2>1, <2>2, <2>3, <2>4
  <2>8. \A s : Among(s, steps) <=> Among(s, old) \/ s = new
    BY <1>5, <2>4, <2>5 DEF Among
  <2>9. QED
    BY <2>6, <2>7, <2>8 DEF StepsOf
<1>7. JobSteps'
  <2>1. ASSUME NEW k \in Jobs, Operating(k)'
        PROVE  StepsOf(k, job'[k].steps) /\ \A a \in 1..Len(job'[k].steps) : job'[k].steps[a].root < job'[k].root
    <3>1. CASE k # j
      BY <2>1, <3>1 DEF Places, JobSteps, Operating
    <3>2. QED
      BY <1>3, <1>6, <3>1
  <2>2. QED
    BY <2>1 DEF JobSteps, StepsOf
<1>8. \A k \in Jobs : job[k].pc = "done" => job'[k].pc = "done"
  BY DEF Operating
<1>9. Places' /\ \A s : (InHistory(s)' <=> InHistory(s)) /\ (InUndo(s)' <=> InUndo(s))
  BY <1>7, <1>8, SamePlaces
<1>10. \A s : AtThread(s)' <=> AtThread(s) \/ s = new
  <2>1. ASSUME NEW s, NEW k \in Jobs \ {j} PROVE (Operating(k)' /\ Among(s, job'[k].steps)) <=> (Operating(k) /\ Among(s, job[k].steps))
    BY DEF Operating
  <2>2. ASSUME NEW s PROVE (Operating(j)' /\ Among(s, job'[j].steps)) <=> (Operating(j) /\ Among(s, job[j].steps)) \/ s = new
    BY <1>3, <1>6 DEF Operating
  <2>3. ASSUME NEW s PROVE AtThread(s)' <=> AtThread(s) \/ s = new
    <3>1. AtThread(s)' <=> \E k \in Jobs : Operating(k)' /\ Among(s, job'[k].steps)
      BY DEF AtThread, Among
    <3>2. QED
      BY <2>1, <2>2, <3>1 DEF AtThread
  <2>4. QED
    BY <2>3
<1>11. QED
  BY <1>9, <1>10 DEF Waiting

\* The steps of a record are those of the transfer, last one first.
LEMMA ReverseAmong ==
  ASSUME NEW j, NEW steps \in Seq(Step)
  PROVE  /\ \A s : Among(s, Reverse(steps)) <=> Among(s, steps)
         /\ StepsOf(j, steps) => StepsOf(j, Reverse(steps))
<1> DEFINE n == Len(steps)
           back == Reverse(steps)
<1>1. n \in Nat /\ \A a \in 1..n : steps[a] \in Step
  OBVIOUS
<1>2. Len(back) = n /\ \A a \in 1..n : back[a] = steps[n - a + 1]
  BY <1>1, IsASeq DEF Reverse
<1>3. \A a \in 1..n : n - a + 1 \in 1..n /\ n - (n - a + 1) + 1 = a
  BY <1>1
<1>4. \A a \in 1..n : back[n - a + 1] = steps[a]
  BY <1>2, <1>3
<1> HIDE DEF n, back
<1>5. \A s : Among(s, back) <=> \E a \in 1..n : steps[a] = s
  BY <1>2, <1>3, <1>4 DEF Among
<1>6. ASSUME StepsOf(j, steps) PROVE StepsOf(j, back)
  <2>1. \A a \in 1..n : steps[a].job = j
    BY <1>6 DEF StepsOf, n
  <2>2. \A a, b \in 1..n : steps[a].root = steps[b].root => a = b
    BY <1>6 DEF StepsOf, n
  <2>3. ASSUME NEW a \in 1..n, NEW b \in 1..n, back[a].root = back[b].root PROVE a = b
    <3>1. n - a + 1 \in 1..n /\ n - b + 1 \in 1..n /\ back[a] = steps[n - a + 1] /\ back[b] = steps[n - b + 1]
      BY <1>2, <1>3
    <3>2. n - a + 1 = n - b + 1
      BY <2>2, <2>3, <3>1
    <3>3. n \in Nat
      BY <1>1 DEF n
    <3>4. QED
      BY <3>2, <3>3
  <2>4. ASSUME NEW a \in 1..n PROVE back[a].job = j
    BY <1>2, <1>3, <2>1
  <2>5. QED
    BY <1>2, <2>3, <2>4 DEF StepsOf
<1>7. QED
  BY <1>5, <1>6 DEF Among, n, back

\* The backups of steps, and what is done of them when the steps are given up.
BackupsIn(D) == {Backup(s) : s \in {x \in D : IsBackup(x)}}
Drop(D) == Cleanup(BackupsIn(D))

\* The steps of records that are given up.
Forgotten(D) == \A s \in D : InHistory(s) /\ NotRecorded(s.job)'

\* Nothing to give up.
LEMMA DropNone ==
  ASSUME FilesInv, UNCHANGED disk
  PROVE  Drop({})
<1>1. BackupsIn({}) = {}
  BY DEF BackupsIn
<1>2. fs' = [p \in Paths |-> IF p \in {} THEN Absent ELSE fs[p]]
  BY DEF disk, FilesInv, Typed, DiskTyped
<1>3. torn' = torn \ {} /\ given_up' = given_up \cup Destroyed({}, "expired") /\ UNCHANGED halfway
  BY DEF disk, Destroyed
<1>4. QED
  BY <1>1, <1>2, <1>3 DEF Drop, Cleanup, RemovePaths

\* A record is added to a tab, after the oldest one went if there were too many.
LEMMA PushDoes ==
  ASSUME FilesInv, NEW tab \in Tabs, NEW record \in Record, Push(tab, record)
  PROVE  \E k \in {0, 1} :
           /\ k <= Len(history[tab]) /\ Len(history'[tab]) = Len(history[tab]) - k + 1
           /\ \A n \in 1..(Len(history[tab]) - k) : history'[tab][n] = history[tab][n + k]
           /\ history'[tab][Len(history[tab]) - k + 1] = record
           /\ \A t \in Tabs \ {tab} : history'[t] = history[t]
           /\ k = 0 => UNCHANGED disk
           /\ k = 1 => Cleanup(Backups(history[tab][1].steps))
<1> DEFINE old == history[tab]
<1>1. old \in Seq(Record) /\ Len(old) \in Nat /\ MaxUndo \in Nat \ {0}
      /\ history \in [Tabs -> Seq(Record)] /\ tab \in Tabs
  BY RecordAt, FilesAssumption DEF FilesInv, Typed, WindowTyped
<1>2. CASE Len(old) >= MaxUndo
  <2>1. old # <<>>
    BY <1>1, <1>2
  <2>2. /\ Tail(old) \in Seq(Record) /\ Len(Tail(old)) = Len(old) - 1
        /\ \A n \in 1..(Len(old) - 1) : Tail(old)[n] = old[n + 1]
    BY <1>1, <2>1, HeadTailProperties
  <2>3. /\ Len(Append(Tail(old), record)) = Len(old)
        /\ \A n \in 1..(Len(old) - 1) : Append(Tail(old), record)[n] = old[n + 1]
        /\ Append(Tail(old), record)[Len(old)] = record
    BY <1>1, <2>2, AppendProperties
  <2>4. history' = [history EXCEPT ![tab] = Append(Tail(old), record)] /\ Cleanup(Backups(Head(old).steps))
    BY <1>2 DEF Push
  <2>5. Head(old) = old[1]
    BY <1>1, <2>1
  <2>6. history'[tab] = Append(Tail(old), record) /\ \A t \in Tabs \ {tab} : history'[t] = history[t]
    BY <1>1, <2>4
  <2> HIDE DEF old
  <2>7. Len(old) - 1 + 1 = Len(old) /\ 1 <= Len(old)
    BY <1>1, <2>1
  <2>8. QED
    BY <1>1, <2>3, <2>4, <2>5, <2>6, <2>7 DEF old
<1>3. CASE ~(Len(old) >= MaxUndo)
  <2>1. /\ Len(Append(old, record)) = Len(old) + 1
        /\ \A n \in 1..Len(old) : Append(old, record)[n] = old[n]
        /\ Append(old, record)[Len(old) + 1] = record
    BY <1>1, AppendProperties
  <2>2. history' = [history EXCEPT ![tab] = Append(old, record)] /\ UNCHANGED disk
    BY <1>3 DEF Push
  <2>3. history'[tab] = Append(old, record) /\ \A t \in Tabs \ {tab} : history'[t] = history[t]
    BY <1>1, <2>2
  <2>4. Len(old) - 0 = Len(old) /\ 0 <= Len(old) /\ \A n \in 1..Len(old) : n + 0 = n
    BY <1>1
  <2>5. QED
    BY <2>1, <2>2, <2>3, <2>4
<1>4. QED
  BY <1>2, <1>3

\* What that does to the steps of the history.
LEMMA Pushed ==
  ASSUME FilesInv, HistorySteps, NEW tab \in Tabs, NEW record \in Record, Push(tab, record),
         StepsOf(record.job, record.steps), NotRecorded(record.job), job'[record.job].pc = "done",
         \A k \in Jobs : job[k].pc = "done" => job'[k].pc = "done"
  PROVE  /\ HistorySteps'
         /\ \E D \in SUBSET Step :
              /\ Forgotten(D)
              /\ \A s : InHistory(s)' <=> (InHistory(s) /\ s \notin D) \/ Among(s, record.steps)
              /\ Drop(D)
         /\ \A t \in Tabs : \A n \in 1..Len(history'[t]) :
              history'[t][n].job = record.job \/ \E m \in 1..Len(history[t]) : history'[t][n] = history[t][m]
<1> DEFINE len == Len(history[tab])
<1>1. PICK k \in {0, 1} :
        /\ k <= len /\ Len(history'[tab]) = len - k + 1
        /\ \A n \in 1..(len - k) : history'[tab][n] = history[tab][n + k]
        /\ history'[tab][len - k + 1] = record
        /\ \A t \in Tabs \ {tab} : history'[t] = history[t]
        /\ k = 0 => UNCHANGED disk
        /\ k = 1 => Cleanup(Backups(history[tab][1].steps))
  BY PushDoes
<1>2. len \in Nat /\ history[tab] \in Seq(Record)
  BY RecordAt
<1> DEFINE new(t, n) == t = tab /\ n = len - k + 1
           from(t, n) == IF t = tab THEN n + k ELSE n
<1>3. ASSUME NEW t \in Tabs, NEW n \in 1..Len(history'[t])
      PROVE  \/ new(t, n) /\ history'[t][n] = record
             \/ /\ ~new(t, n) /\ from(t, n) \in 1..Len(history[t])
                /\ history'[t][n] = history[t][from(t, n)]
  <2>1. CASE t # tab
    BY <1>1, <2>1
  <2>2. CASE new(t, n)
    BY <1>1, <2>2
  <2>3. CASE t = tab /\ ~new(t, n)
    <3>1. n \in 1..(len - k) /\ n + k \in 1..len
      BY <1>1, <1>2, <2>3
    <3>2. QED
      BY <1>1, <2>3, <3>1
  <2>4. QED
    BY <2>1, <2>2, <2>3
<1>4. ASSUME NEW t \in Tabs, NEW m \in 1..Len(history[t])
      PROVE  \/ t = tab /\ m = 1 /\ k = 1
             \/ \E n \in 1..Len(history'[t]) : ~new(t, n) /\ from(t, n) = m /\ history'[t][n] = history[t][m]
  <2>1. CASE t # tab
    BY <1>1, <2>1
  <2>2. CASE t = tab /\ ~(m = 1 /\ k = 1)
    <3>1. m - k \in 1..(len - k) /\ m - k + k = m /\ m - k # len - k + 1 /\ m - k \in 1..Len(history'[tab])
      BY <1>1, <1>2, <2>2
    <3>2. QED
      BY <1>1, <2>2, <3>1
  <2>3. QED
    BY <2>1, <2>2
<1>5. \E n \in 1..Len(history'[tab]) : history'[tab][n] = record
  BY <1>1, <1>2
<1>6. \A t \in Tabs : \A n, m \in 1..Len(history'[t]) : from(t, n) = from(t, m) => n = m
  BY <1>1
<1>7. \A t, u : \A n, m : new(t, n) /\ new(u, m) => t = u /\ n = m
  OBVIOUS
<1> HIDE DEF new, from
<1>8. HistorySteps'
  <2>1. ASSUME NEW t \in Tabs, NEW n \in 1..Len(history'[t])
        PROVE  StepsOf(history'[t][n].job, history'[t][n].steps) /\ job'[history'[t][n].job].pc = "done"
    <3>1. CASE new(t, n) /\ history'[t][n] = record
      BY <3>1
    <3>2. ASSUME NEW m \in 1..Len(history[t]), history'[t][n] = history[t][m]
          PROVE  StepsOf(history'[t][n].job, history'[t][n].steps) /\ job'[history'[t][n].job].pc = "done"
      <4>1. history[t][m].job \in Jobs
        BY RecordAt
      <4>2. StepsOf(history[t][m].job, history[t][m].steps) /\ job[history[t][m].job].pc = "done"
        BY DEF HistorySteps
      <4>3. QED
        BY <3>2, <4>1, <4>2
    <3>3. QED
      BY <1>3, <3>1, <3>2
  <2>2. ASSUME NEW t \in Tabs, NEW n \in 1..Len(history'[t]),
               NEW u \in Tabs, NEW m \in 1..Len(history'[u]), history'[u][m].job = history'[t][n].job
        PROVE  u = t /\ m = n
    <3>1. CASE new(t, n) /\ new(u, m)
      BY <1>7, <3>1
    <3>2. CASE ~new(t, n) /\ ~new(u, m)
      <4>1. /\ from(t, n) \in 1..Len(history[t]) /\ history'[t][n] = history[t][from(t, n)]
            /\ from(u, m) \in 1..Len(history[u]) /\ history'[u][m] = history[u][from(u, m)]
        BY <1>3, <3>2
      <4>2. u = t /\ from(u, m) = from(t, n)
        BY <2>2, <4>1 DEF HistorySteps
      <4>3. QED
        BY <1>6, <4>2
    <3>3. CASE new(t, n) /\ ~new(u, m)
      BY <1>3, <2>2, <3>3 DEF NotRecorded
    <3>4. CASE ~new(t, n) /\ new(u, m)
      BY <1>3, <2>2, <3>4 DEF NotRecorded
    <3>5. QED
      BY <3>1, <3>2, <3>3, <3>4
  <2>3. ASSUME NEW t \in Tabs, NEW n \in 1..Len(history'[t])
        PROVE  /\ StepsOf(history'[t][n].job, history'[t][n].steps) /\ job'[history'[t][n].job].pc = "done"
               /\ \A u \in Tabs : \A m \in 1..Len(history'[u]) :
                    history'[u][m].job = history'[t][n].job => u = t /\ m = n
    BY <2>1, <2>2
  <2>4. QED
    BY <2>3 DEF HistorySteps, StepsOf
<1> DEFINE D == {s \in Step : k = 1 /\ Among(s, history[tab][1].steps)}
<1>9. ASSUME NEW s \in D PROVE InHistory(s) /\ NotRecorded(s.job)'
  <2>1. k = 1 /\ 1 \in 1..Len(history[tab]) /\ Among(s, history[tab][1].steps)
    BY <1>1, <1>2
  <2>2. s.job = history[tab][1].job /\ s.job # record.job
    BY <2>1, AmongJob DEF HistorySteps, NotRecorded
  <2>3. ASSUME NEW t \in Tabs, NEW n \in 1..Len(history'[t]) PROVE history'[t][n].job # s.job
    <3>1. CASE history'[t][n] = record
      BY <2>2, <3>1
    <3>2. CASE ~new(t, n) /\ from(t, n) \in 1..Len(history[t]) /\ history'[t][n] = history[t][from(t, n)]
      <4>1. ~(t = tab /\ from(t, n) = 1)
        BY <2>1 DEF from
      <4>2. QED
        BY <2>1, <2>2, <3>2, <4>1 DEF HistorySteps
    <3>3. QED
      BY <1>3, <3>1, <3>2
  <2>4. QED
    BY <2>1, <2>3 DEF InHistory, NotRecorded
<1>10. ASSUME NEW s PROVE InHistory(s)' <=> (InHistory(s) /\ s \notin D) \/ Among(s, record.steps)
  <2>1. InHistory(s)' <=> \E t \in Tabs : \E n \in 1..Len(history'[t]) : Among(s, history'[t][n].steps)
    BY DEF InHistory, Among
  <2>2. ASSUME NEW t \in Tabs, NEW n \in 1..Len(history'[t]), Among(s, history'[t][n].steps)
        PROVE  (InHistory(s) /\ s \notin D) \/ Among(s, record.steps)
    <3>1. CASE history'[t][n] = record
      BY <2>2, <3>1
    <3>2. CASE ~new(t, n) /\ from(t, n) \in 1..Len(history[t]) /\ history'[t][n] = history[t][from(t, n)]
      <4>1. InHistory(s) /\ Among(s, history[t][from(t, n)].steps)
        BY <2>2, <3>2 DEF InHistory
      <4>2. ASSUME s \in D PROVE FALSE
        <5>1. 1 \in 1..Len(history[tab]) /\ k = 1 /\ Among(s, history[tab][1].steps)
          BY <1>1, <1>2, <4>2
        <5>2. history[tab][1].job = history[t][from(t, n)].job
          <6>1. Among(s, history[t][from(t, n)].steps)
            BY <2>2, <3>2
          <6>2. /\ StepsOf(history[tab][1].job, history[tab][1].steps)
                /\ StepsOf(history[t][from(t, n)].job, history[t][from(t, n)].steps)
            BY <3>2, <5>1 DEF HistorySteps
          <6>3. QED
            BY <5>1, <6>1, <6>2, AmongJob
        <5>3. t = tab /\ from(t, n) = 1
          BY <3>2, <5>1, <5>2 DEF HistorySteps
        <5>4. QED
          BY <5>1, <5>3 DEF from
      <4>3. QED
        BY <4>1, <4>2
    <3>3. QED
      BY <1>3, <3>1, <3>2
  <2>3. ASSUME InHistory(s), s \notin D
        PROVE  \E t \in Tabs : \E n \in 1..Len(history'[t]) : Among(s, history'[t][n].steps)
    <3>1. PICK t \in Tabs : \E m \in 1..Len(history[t]) : Among(s, history[t][m].steps)
      BY <2>3 DEF InHistory
    <3>2. PICK m \in 1..Len(history[t]) : Among(s, history[t][m].steps)
      BY <3>1
    <3>3. s \in Step
      BY <3>2, RecordAt DEF Among
    <3>4. ~(t = tab /\ m = 1 /\ k = 1)
      BY <2>3, <3>2, <3>3
    <3>5. QED
      BY <1>4, <3>2, <3>4
  <2>4. Among(s, record.steps) => \E t \in Tabs : \E n \in 1..Len(history'[t]) : Among(s, history'[t][n].steps)
    BY <1>5
  <2>5. QED
    BY <2>1, <2>2, <2>3, <2>4
<1>11. Drop(D)
  <2>1. CASE k = 0
    <3>1. D = {} /\ UNCHANGED disk
      BY <1>1, <2>1
    <3> HIDE DEF D
    <3>2. QED
      BY <3>1, DropNone
  <2>2. CASE k = 1
    <3>1. history[tab][1].steps \in Seq(Step)
      <4>1. 1 \in 1..Len(history[tab])
        BY <1>1, <1>2, <2>2
      <4>2. QED
        BY <4>1, RecordAt
    <3>2. D = ToSet(history[tab][1].steps)
      BY <2>2, <3>1 DEF Among, ToSet
    <3>3. BackupsIn(D) = Backups(history[tab][1].steps)
      BY <3>2 DEF BackupsIn, Backups
    <3>4. QED
      BY <1>1, <2>2, <3>3 DEF Drop
  <2>3. QED
    BY <2>1, <2>2
<1>12. D \in SUBSET Step
  OBVIOUS
<1>13. \A t \in Tabs : \A n \in 1..Len(history'[t]) :
         history'[t][n].job = record.job \/ \E m \in 1..Len(history[t]) : history'[t][n] = history[t][m]
  BY <1>3
<1> HIDE DEF D
<1>14. Forgotten(D)
  BY <1>9 DEF Forgotten
<1>15. QED
  BY <1>8, <1>10, <1>11, <1>12, <1>13, <1>14

\* A step is at one kind of place, which its transfer tells.
LEMMA OnePlace ==
  ASSUME Places, NEW s
  PROVE  /\ AtThread(s) => s.job \in Jobs /\ Operating(s.job) /\ Among(s, job[s.job].steps)
         /\ InHistory(s) => job[s.job].pc = "done" /\ ~NotRecorded(s.job)
         /\ InUndo(s) => undo # NoUndo /\ s.job = undo.job /\ job[s.job].pc = "done" /\ NotRecorded(s.job)
<1>1. ASSUME AtThread(s) PROVE s.job \in Jobs /\ Operating(s.job) /\ Among(s, job[s.job].steps)
  <2>1. PICK j \in Jobs : Operating(j) /\ Among(s, job[j].steps)
    BY <1>1 DEF AtThread
  <2>2. s.job = j
    BY <2>1, AmongJob DEF Places, JobSteps
  <2>3. QED
    BY <2>1, <2>2
<1>2. ASSUME InHistory(s) PROVE job[s.job].pc = "done" /\ ~NotRecorded(s.job)
  <2>1. PICK t \in Tabs : \E n \in 1..Len(history[t]) : Among(s, history[t][n].steps)
    BY <1>2 DEF InHistory
  <2>2. PICK n \in 1..Len(history[t]) : Among(s, history[t][n].steps)
    BY <2>1
  <2>3. StepsOf(history[t][n].job, history[t][n].steps) /\ job[history[t][n].job].pc = "done"
    BY DEF Places, HistorySteps
  <2>4. s.job = history[t][n].job
    BY <2>2, <2>3, AmongJob
  <2>5. QED
    BY <2>3, <2>4 DEF NotRecorded
<1>3. ASSUME InUndo(s) PROVE undo # NoUndo /\ s.job = undo.job /\ job[s.job].pc = "done" /\ NotRecorded(s.job)
  <2>1. undo # NoUndo /\ Among(s, LeftOf(undo)) /\ StepsOf(undo.job, LeftOf(undo))
    BY <1>3 DEF InUndo, Places, UndoSteps
  <2>2. s.job = undo.job
    BY <2>1, AmongJob
  <2>3. QED
    BY <2>1, <2>2 DEF Places, UndoSteps
<1>4. QED
  BY <1>1, <1>2, <1>3

\* The window learns of a transfer: its steps move to the history, and those of
\* an expired record go, with their backups.
LEMMA ReportWaits ==
  ASSUME FilesInv, Places, NEW j \in Jobs, Report(j)
  PROVE  Places' /\ \E D \in SUBSET Waiting : Waiting' = Waiting \ D /\ Drop(D) /\ Forgotten(D)
<1>1. /\ job[j].pc = "report" /\ Operating(j) /\ undo' = undo /\ job \in [Jobs -> Live \cup Resting]
      /\ job' = [job EXCEPT ![j] = [pc |-> "done"]]
  BY DEF Report, At, Operating, FilesInv, Typed, JobsTyped
<1>2. /\ job'[j] = [pc |-> "done"] /\ job'[j].pc = "done" /\ \A k \in Jobs \ {j} : job'[k] = job[k]
      /\ \A k \in Jobs : job[k].pc = "done" => job'[k].pc = "done"
  BY <1>1
<1>3. JobSteps'
  BY <1>2 DEF Places, JobSteps, Operating, StepsOf
<1>4. /\ StepsOf(j, job[j].steps) /\ job[j] \in Live /\ job[j].steps \in Seq(Step)
      /\ \A a \in 1..Len(job[j].steps) : job[j].steps[a] \in Step
  BY <1>1, ThreadAt DEF Places, JobSteps
<1>5. ASSUME NEW s PROVE AtThread(s)' <=> AtThread(s) /\ s.job # j
  <2>1. AtThread(s)' <=> \E k \in Jobs : Operating(k)' /\ Among(s, job'[k].steps)
    BY DEF AtThread, Among
  <2>2. ~Operating(j)' /\ \A k \in Jobs \ {j} : Operating(k)' <=> Operating(k)
    BY <1>2 DEF Operating
  <2>3. ASSUME NEW k \in Jobs, Operating(k), Among(s, job[k].steps) PROVE s.job = k
    BY <2>3, AmongJob DEF Places, JobSteps
  <2>4. QED
    BY <1>2, <2>1, <2>2, <2>3 DEF AtThread
<1>6. CASE job[j].steps = <<>>
  <2>1. history' = history /\ UNCHANGED disk
    BY <1>6 DEF Report
  <2>2. Places' /\ \A s : (InHistory(s)' <=> InHistory(s)) /\ (InUndo(s)' <=> InUndo(s))
    BY <1>1, <1>2, <1>3, <2>1, SamePlaces
  <2>3. \A s : AtThread(s)' <=> AtThread(s)
    BY <1>5, <1>6, OnePlace DEF Among
  <2>4. Waiting' = Waiting \ {}
    BY <2>2, <2>3 DEF Waiting
  <2>5. QED
    BY <2>1, <2>2, <2>4, DropNone DEF Forgotten
<1>7. CASE job[j].steps # <<>>
  <2> DEFINE tab == job[j].tab
             record == [job |-> j, steps |-> Reverse(job[j].steps), was |-> job[j].was]
  <2>1. record \in Record /\ tab \in Tabs
    BY <1>4, ReverseIn DEF Record, Live
  <2>2. Push(tab, record)
    BY <1>7 DEF Report
  <2>3. record.job = j /\ record.steps = Reverse(job[j].steps)
    OBVIOUS
  <2>4. StepsOf(j, record.steps) /\ \A s : Among(s, record.steps) <=> Among(s, job[j].steps)
    BY <1>4, <2>3, ReverseAmong
  <2>5. NotRecorded(j)
    BY <1>1 DEF NotRecorded, Places, HistorySteps
  <2> HIDE DEF tab, record
  <2>6. /\ HistorySteps'
        /\ \E D \in SUBSET Step :
             /\ Forgotten(D)
             /\ \A s : InHistory(s)' <=> (InHistory(s) /\ s \notin D) \/ Among(s, record.steps)
             /\ Drop(D)
        /\ \A t \in Tabs : \A n \in 1..Len(history'[t]) :
             history'[t][n].job = record.job \/ \E m \in 1..Len(history[t]) : history'[t][n] = history[t][m]
    BY <1>2, <2>1, <2>2, <2>3, <2>4, <2>5, Pushed DEF Places
  <2>7. PICK D \in SUBSET Step :
             /\ Forgotten(D)
             /\ \A s : InHistory(s)' <=> (InHistory(s) /\ s \notin D) \/ Among(s, record.steps)
             /\ Drop(D)
    BY <2>6
  <2>8. UndoSteps'
    <3>1. ASSUME undo # NoUndo PROVE UndoSteps'
      <4>1. undo.job \in Jobs /\ undo.job # j
        BY <1>1, <3>1, UndoTyped DEF Places, UndoSteps
      <4>2. NotRecorded(undo.job)'
        BY <1>1, <2>3, <2>6, <3>1, <4>1 DEF NotRecorded, Places, UndoSteps
      <4>3. QED
        BY <1>1, <1>2, <3>1, <4>1, <4>2 DEF Places, UndoSteps, StepsOf, LeftOf, Among
    <3>2. QED
      BY <1>1, <3>1 DEF UndoSteps
  <2>9. \A s : InUndo(s)' <=> InUndo(s)
    BY <1>1 DEF InUndo
  <2>10. ASSUME NEW s \in Step PROVE s \in Waiting' <=> s \in Waiting \ D
    <3>1. s \in Waiting' <=> AtThread(s)' \/ InHistory(s)' \/ InUndo(s)'
      BY DEF Waiting
    <3>2. s \in Waiting <=> AtThread(s) \/ InHistory(s) \/ InUndo(s)
      BY DEF Waiting
    <3>3. AtThread(s)' <=> AtThread(s) /\ s.job # j
      BY <1>5
    <3>4. InHistory(s)' <=> (InHistory(s) /\ s \notin D) \/ Among(s, job[j].steps)
      BY <2>4, <2>7
    <3>5. Among(s, job[j].steps) <=> AtThread(s) /\ s.job = j
      <4>1. Among(s, job[j].steps) => AtThread(s) /\ s.job = j
        BY <1>1, <1>4, AmongJob DEF AtThread
      <4>2. QED
        BY <4>1, OnePlace
    <3>6. s \in D => InHistory(s) /\ job[s.job].pc = "done" /\ ~NotRecorded(s.job)
      BY <2>7, OnePlace DEF Forgotten
    <3>7. s \in D => ~AtThread(s) /\ ~InUndo(s)
      BY <3>6, OnePlace DEF Operating
    <3>8. QED
      BY <2>9, <3>1, <3>2, <3>3, <3>4, <3>5, <3>7
  <2>11. D \subseteq Waiting /\ Waiting' = Waiting \ D
    <3>1. Waiting' \subseteq Step /\ Waiting \subseteq Step
      BY DEF Waiting
    <3>2. D \subseteq Waiting
      BY <2>7 DEF Waiting, Forgotten
    <3>3. QED
      BY <2>10, <3>1, <3>2
  <2>12. QED
    BY <1>3, <2>6, <2>7, <2>8, <2>11 DEF Places
<1>8. QED
  BY <1>6, <1>7

\* Undo ends: what is left goes back to the history.
LEMMA UndoEndsWaits ==
  ASSUME FilesInv, Places, UndoEnds
  PROVE  Places' /\ \E D \in SUBSET Waiting : Waiting' = Waiting \ D /\ Drop(D) /\ Forgotten(D)
<1> DEFINE left == LeftOf(undo)
           record == [job |-> undo.job, steps |-> left, was |-> undo.was]
<1>1. /\ undo # NoUndo /\ undo' = NoUndo /\ job' = job
      /\ (left = <<>> /\ UNCHANGED <<disk, history>>) \/ Push(undo.tab, record)
  BY DEF UndoEnds, LeftOf
<1>2. undo \in Undoing /\ undo.job \in Jobs /\ undo.tab \in Tabs /\ left \in Seq(Step)
  BY <1>1, UndoTyped, LeftAt
<1>3. StepsOf(undo.job, left) /\ job[undo.job].pc = "done" /\ NotRecorded(undo.job)
  BY <1>1 DEF Places, UndoSteps
<1>4. record \in Record /\ record.job = undo.job /\ record.steps = left
  BY <1>2 DEF Record, Undoing
<1>5. JobSteps' /\ UndoSteps'
  BY <1>1 DEF Places, JobSteps, UndoSteps, Operating, StepsOf
<1>6. \A s : (AtThread(s)' <=> AtThread(s)) /\ ~InUndo(s)' /\ (InUndo(s) <=> Among(s, left))
  BY <1>1 DEF AtThread, Operating, InUndo
<1> HIDE DEF left, record
<1>7. CASE left = <<>> /\ UNCHANGED <<disk, history>>
  <2>1. HistorySteps' /\ \A s : InHistory(s)' <=> InHistory(s)
    BY <1>1, <1>7 DEF Places, HistorySteps, InHistory, StepsOf
  <2>2. \A s : ~InUndo(s)
    BY <1>6, <1>7 DEF Among
  <2>3. Waiting' = Waiting \ {}
    BY <1>6, <2>1, <2>2 DEF Waiting
  <2>4. QED
    BY <1>5, <1>7, <2>1, <2>3, DropNone DEF Places, Forgotten
<1>8. CASE Push(undo.tab, record)
  <2>1. /\ HistorySteps'
        /\ \E D \in SUBSET Step :
             /\ Forgotten(D)
             /\ \A s : InHistory(s)' <=> (InHistory(s) /\ s \notin D) \/ Among(s, record.steps)
             /\ Drop(D)
    BY <1>1, <1>2, <1>3, <1>4, <1>8, Pushed DEF Places
  <2>2. PICK D \in SUBSET Step :
             /\ Forgotten(D)
             /\ \A s : InHistory(s)' <=> (InHistory(s) /\ s \notin D) \/ Among(s, record.steps)
             /\ Drop(D)
    BY <2>1
  <2>3. \A s \in D : ~AtThread(s) /\ ~InUndo(s)
    BY <2>2, OnePlace DEF Operating, Forgotten
  <2>4. ASSUME NEW s \in Step PROVE s \in Waiting' <=> s \in Waiting \ D
    BY <1>4, <1>6, <2>2, <2>3 DEF Waiting
  <2>5. D \subseteq Waiting /\ Waiting' = Waiting \ D
    <3>1. Waiting' \subseteq Step /\ Waiting \subseteq Step
      BY DEF Waiting
    <3>2. D \subseteq Waiting
      BY <2>2 DEF Waiting, Forgotten
    <3>3. QED
      BY <2>4, <3>1, <3>2
  <2>6. QED
    BY <1>5, <2>1, <2>2, <2>5 DEF Places
<1>9. QED
  BY <1>1, <1>7, <1>8

\* Undo begins: the steps of the latest record are what is left to do.
LEMMA BeginUndoWaits ==
  ASSUME FilesInv, FilesInv', Places, NEW tab \in Tabs, BeginUndo(tab)
  PROVE  Places' /\ Waiting' = Waiting
<1> DEFINE len == Len(history[tab])
           record == history[tab][len]
<1>1. /\ history[tab] \in Seq(Record) /\ len \in Nat /\ history[tab] # <<>> /\ len \in 1..len
      /\ record \in Record /\ record.steps \in Seq(Step) /\ Len(record.steps) \in Nat
  <2>1. history[tab] \in Seq(Record) /\ len \in Nat /\ history[tab] # <<>>
    BY RecordAt DEF BeginUndo
  <2>2. len \in 1..len
    BY <2>1
  <2>3. QED
    BY <2>1, <2>2, RecordAt
<1>2. /\ undo = NoUndo /\ job' = job /\ history' = [history EXCEPT ![tab] = Front(history[tab])]
      /\ undo' = [job |-> record.job, steps |-> record.steps, was |-> record.was,
                  tab |-> tab, next |-> 1, failed |-> <<>>, at |-> "step", item |-> Absent]
  BY DEF BeginUndo, Last
<1>3. /\ Len(Front(history[tab])) = len - 1
      /\ \A n \in 1..(len - 1) : Front(history[tab])[n] = history[tab][n]
  <2>1. Len(Front(history[tab])) = len - 1
    BY <1>1, LastIn
  <2>2. \A n \in 1..len : history[tab][n] \in Record
    BY <1>1
  <2>3. len - 1 \in Int /\ \A n \in 1..(len - 1) : history[tab][n] \in Record
    BY <1>1, <2>2
  <2>4. \A n \in 1..Len(SubSeq(history[tab], 1, len - 1)) : SubSeq(history[tab], 1, len - 1)[n] = history[tab][1 + n - 1]
    BY <1>1, <2>3, SubSeqProperties
  <2>5. QED
    BY <1>1, <2>1, <2>4 DEF Front
<1>4. /\ history'[tab] = Front(history[tab]) /\ \A t \in Tabs \ {tab} : history'[t] = history[t]
  BY <1>2 DEF FilesInv, Typed, WindowTyped
<1>5. /\ undo'.job = record.job /\ undo'.steps = record.steps /\ undo'.next = 1 /\ undo'.failed = <<>>
      /\ undo' # NoUndo
  <2>1. DOMAIN undo' # DOMAIN NoUndo
    <3>1. "job" \in DOMAIN undo' /\ "job" \notin DOMAIN NoUndo
      BY <1>2 DEF NoUndo
    <3>2. QED
      BY <3>1
  <2>2. QED
    BY <1>2, <2>1
<1> HIDE DEF len, record
<1>6. undo' \in Undoing /\ undo'.next \in 1..(Len(undo'.steps) + 1)
  BY <1>5 DEF FilesInv, Typed, WindowTyped, NoUndo
<1>7. Len(LeftOf(undo')) = Len(record.steps) /\ \A a \in 1..Len(record.steps) : LeftOf(undo')[a] = record.steps[a]
  <2>1. /\ Len(LeftOf(undo')) = Len(undo'.failed) + (Len(undo'.steps) - undo'.next + 1)
        /\ \A a \in 1..Len(LeftOf(undo')) :
             LeftOf(undo')[a] = IF a <= Len(undo'.failed) THEN undo'.failed[a]
                                ELSE undo'.steps[undo'.next + a - Len(undo'.failed) - 1]
    BY <1>6, LeftAt
  <2>2. Len(undo'.failed) = 0
    BY <1>5
  <2>3. QED
    BY <1>1, <1>5, <2>1, <2>2
<1>8. JobSteps'
  BY <1>2 DEF Places, JobSteps, Operating, StepsOf
<1>9. ASSUME NEW t \in Tabs, NEW n \in 1..Len(history'[t])
      PROVE  n \in 1..Len(history[t]) /\ history'[t][n] = history[t][n] /\ ~(t = tab /\ n = len)
  BY <1>1, <1>3, <1>4 DEF len
<1>10. ASSUME NEW t \in Tabs, NEW n \in 1..Len(history[t]), ~(t = tab /\ n = len)
       PROVE  n \in 1..Len(history'[t]) /\ history'[t][n] = history[t][n]
  BY <1>1, <1>3, <1>4, <1>10 DEF len
<1>11. HistorySteps'
  <2>1. ASSUME NEW t \in Tabs, NEW n \in 1..Len(history'[t])
        PROVE  /\ StepsOf(history'[t][n].job, history'[t][n].steps) /\ job'[history'[t][n].job].pc = "done"
               /\ \A u \in Tabs : \A m \in 1..Len(history'[u]) :
                    history'[u][m].job = history'[t][n].job => u = t /\ m = n
    BY <1>2, <1>9 DEF Places, HistorySteps
  <2>2. QED
    BY <2>1 DEF HistorySteps, StepsOf
<1>12. StepsOf(record.job, record.steps) /\ job[record.job].pc = "done"
  BY <1>1 DEF Places, HistorySteps, record, len
<1>13. UndoSteps'
  <2>1. StepsOf(undo'.job, LeftOf(undo'))
    BY <1>5, <1>7, <1>12 DEF StepsOf
  <2>2. ASSUME NEW t \in Tabs, NEW n \in 1..Len(history'[t]) PROVE history'[t][n].job # record.job
    <3>1. history'[t][n] = history[t][n] /\ n \in 1..Len(history[t]) /\ ~(t = tab /\ n = len)
      BY <1>9
    <3>2. len \in 1..Len(history[tab])
      BY <1>1 DEF len
    <3>3. QED
      BY <3>1, <3>2 DEF Places, HistorySteps, record
  <2>3. \A a \in 1..Len(undo'.failed) : Among(undo'.failed[a], undo'.steps)
    BY <1>5
  <2>4. QED
    BY <1>2, <1>5, <1>12, <2>1, <2>2, <2>3 DEF UndoSteps, NotRecorded, StepsOf, LeftOf, Among
<1>14. ASSUME NEW s PROVE InHistory(s) <=> InHistory(s)' \/ InUndo(s)'
  <2>1. InUndo(s)' <=> Among(s, record.steps)
    <3>1. InUndo(s)' <=> Among(s, LeftOf(undo'))
      BY <1>5 DEF InUndo, Among, LeftOf
    <3>2. QED
      BY <1>7, <3>1 DEF Among
  <2>2. InHistory(s)' <=> \E t \in Tabs : \E n \in 1..Len(history'[t]) : Among(s, history'[t][n].steps)
    BY DEF InHistory, Among
  <2>3. Among(s, record.steps) => InHistory(s)
    BY <1>1 DEF InHistory, record, len
  <2>4. InHistory(s)' => InHistory(s)
    BY <1>9, <2>2 DEF InHistory
  <2>5. ASSUME InHistory(s) PROVE InHistory(s)' \/ Among(s, record.steps)
    <3>1. PICK t \in Tabs : \E n \in 1..Len(history[t]) : Among(s, history[t][n].steps)
      BY <2>5 DEF InHistory
    <3>2. PICK n \in 1..Len(history[t]) : Among(s, history[t][n].steps)
      BY <3>1
    <3>3. CASE t = tab /\ n = len
      BY <3>2, <3>3 DEF record
    <3>4. CASE ~(t = tab /\ n = len)
      BY <1>10, <2>2, <3>2, <3>4
    <3>5. QED
      BY <3>3, <3>4
  <2>6. QED
    BY <2>1, <2>3, <2>4, <2>5
<1>15. \A s : (AtThread(s)' <=> AtThread(s)) /\ ~InUndo(s)
  BY <1>2 DEF AtThread, Operating, InUndo
<1>16. Waiting' = Waiting
  <2>1. \A s \in Step : s \in Waiting' <=> s \in Waiting
    BY <1>14, <1>15 DEF Waiting
  <2>2. QED
    BY <2>1 DEF Waiting
<1>17. QED
  BY <1>8, <1>11, <1>13, <1>16 DEF Places

\* The step an undo is at is left to do; once it is done, the others are.
LEMMA LeftDone ==
  ASSUME NEW u \in Undoing, u.next \in 1..Len(u.steps), NEW v \in Undoing, v.next = u.next + 1,
         v.steps = u.steps, v.failed = u.failed, NEW j, StepsOf(j, LeftOf(u))
  PROVE  /\ StepsOf(j, LeftOf(v)) /\ Among(u.steps[u.next], LeftOf(u)) /\ u.steps[u.next] \in Step
         /\ \A s : Among(s, LeftOf(v)) <=> Among(s, LeftOf(u)) /\ s # u.steps[u.next]
<1> DEFINE f == Len(u.failed)
           len == Len(u.steps)
           at == u.next
           x == u.steps[at]
           old == LeftOf(u)
           new == LeftOf(v)
<1>1. /\ u.steps \in Seq(Step) /\ f \in Nat /\ len \in Nat /\ at \in 1..len
      /\ v.next = at + 1 /\ at \in 1..(len + 1) /\ at + 1 \in 1..(len + 1)
  BY DEF Undoing
<1>2. /\ Len(old) = f + (len - at + 1)
      /\ \A a \in 1..Len(old) : old[a] = IF a <= f THEN u.failed[a] ELSE u.steps[at + a - f - 1]
      /\ \A a \in 1..Len(old) : old[a] \in Step
  BY <1>1, LeftAt
<1>3. /\ Len(new) = f + (len - (at + 1) + 1)
      /\ \A a \in 1..Len(new) : new[a] = IF a <= f THEN u.failed[a] ELSE u.steps[(at + 1) + a - f - 1]
  BY <1>1, LeftAt
<1> HIDE DEF f, len, at, x, old, new
<1> DEFINE n == Len(old)
<1>4. n \in Nat /\ f + 1 \in 1..n /\ Len(new) = n - 1
  BY <1>1, <1>2, <1>3
<1>5. old[f + 1] = x
  <2>1. f + 1 \in 1..Len(old) /\ ~(f + 1 <= f)
    BY <1>1, <1>4
  <2> HIDE DEF n
  <2>2. old[f + 1] = u.steps[at + (f + 1) - f - 1]
    BY <1>2, <2>1
  <2>3. at + (f + 1) - f - 1 = at
    BY <1>1
  <2>4. QED
    BY <2>2, <2>3 DEF x, at
<1>6. ASSUME NEW a \in 1..(n - 1)
      PROVE  \/ a <= f /\ a \in 1..n /\ new[a] = old[a]
             \/ ~(a <= f) /\ a + 1 \in 1..n /\ new[a] = old[a + 1]
  <2>1. CASE a <= f
    BY <1>1, <1>2, <1>3, <1>4, <2>1
  <2>2. CASE ~(a <= f)
    <3>1. a + 1 \in 1..n /\ ~(a + 1 <= f) /\ (at + 1) + a - f - 1 = at + (a + 1) - f - 1
      BY <1>1, <1>4, <2>2
    <3>2. new[a] = u.steps[(at + 1) + a - f - 1] /\ old[a + 1] = u.steps[at + (a + 1) - f - 1]
      BY <1>2, <1>3, <1>4, <2>2, <3>1
    <3>3. QED
      BY <2>2, <3>1, <3>2
  <2>3. QED
    BY <2>1, <2>2
<1>7. /\ \A a \in 1..n : old[a].job = j
      /\ \A a, b \in 1..n : old[a].root = old[b].root => a = b
  BY DEF StepsOf, old
<1> HIDE DEF n
<1>8. \A a \in 1..(n - 1) : new[a].job = j
  BY <1>6, <1>7
<1>9. ASSUME NEW a \in 1..(n - 1), NEW b \in 1..(n - 1), new[a].root = new[b].root PROVE a = b
  <2>1. PICK c \in 1..n : new[a] = old[c] /\ c = IF a <= f THEN a ELSE a + 1
    BY <1>6
  <2>2. PICK d \in 1..n : new[b] = old[d] /\ d = IF b <= f THEN b ELSE b + 1
    BY <1>6
  <2>3. c = d
    BY <1>7, <1>9, <2>1, <2>2
  <2>4. QED
    BY <1>1, <1>4, <2>1, <2>2, <2>3
<1>10. StepsOf(j, new)
  BY <1>4, <1>8, <1>9 DEF StepsOf
<1>11. ASSUME NEW s, NEW a \in 1..(n - 1), new[a] = s PROVE Among(s, old) /\ s # x
  <2>1. PICK c \in 1..n : s = old[c] /\ c # f + 1
    BY <1>1, <1>4, <1>6, <1>11
  <2>2. s # x
    BY <1>4, <1>5, <1>7, <2>1
  <2>3. QED
    BY <2>1, <2>2 DEF Among, n
<1>12. ASSUME NEW s, NEW c \in 1..n, old[c] = s, s # x PROVE \E a \in 1..(n - 1) : new[a] = s
  <2>1. c # f + 1
    BY <1>5, <1>12
  <2>2. CASE c <= f
    <3>1. c \in 1..(n - 1)
      BY <1>1, <1>4, <2>2
    <3>2. QED
      BY <1>6, <1>12, <2>2, <3>1
  <2>3. CASE ~(c <= f)
    <3>1. c - 1 \in 1..(n - 1) /\ ~(c - 1 <= f) /\ (c - 1) + 1 = c
      BY <1>1, <1>4, <2>1, <2>3
    <3>2. new[c - 1] = old[(c - 1) + 1]
      BY <1>6, <3>1
    <3>3. QED
      BY <1>12, <3>1, <3>2
  <2>4. QED
    BY <2>2, <2>3
<1>13. \A s : Among(s, new) <=> Among(s, old) /\ s # x
  BY <1>4, <1>11, <1>12 DEF Among, n
<1>14. Among(x, old) /\ x \in Step
  BY <1>2, <1>4, <1>5 DEF Among, n
<1>15. QED
  BY <1>10, <1>13, <1>14 DEF x, old, new, at

\* When it fails, it is still left.
LEMMA LeftFailed ==
  ASSUME NEW u \in Undoing, u.next \in 1..Len(u.steps), NEW v \in Undoing, v.next = u.next + 1,
         v.steps = u.steps, v.failed = Append(u.failed, u.steps[u.next])
  PROVE  /\ Len(LeftOf(v)) = Len(LeftOf(u)) /\ \A a \in 1..Len(LeftOf(u)) : LeftOf(v)[a] = LeftOf(u)[a]
         /\ \A a \in 1..Len(v.failed) : Among(v.failed[a], u.failed) \/ Among(v.failed[a], u.steps)
<1> DEFINE f == Len(u.failed)
           len == Len(u.steps)
           at == u.next
           x == u.steps[at]
           old == LeftOf(u)
           new == LeftOf(v)
           failed == u.failed
           more == v.failed
<1>1. /\ u.steps \in Seq(Step) /\ failed \in Seq(Step) /\ f \in Nat /\ len \in Nat /\ at \in 1..len
      /\ v.next = at + 1 /\ at \in 1..(len + 1) /\ at + 1 \in 1..(len + 1) /\ x \in Step
  BY DEF Undoing
<1>2. /\ Len(more) = f + 1 /\ more[f + 1] = x
      /\ \A a \in 1..f : more[a] = failed[a]
  BY <1>1, AppendProperties
<1>3. /\ Len(old) = f + (len - at + 1)
      /\ \A a \in 1..Len(old) : old[a] = IF a <= f THEN failed[a] ELSE u.steps[at + a - f - 1]
  BY <1>1, LeftAt
<1>4. /\ Len(new) = (f + 1) + (len - (at + 1) + 1)
      /\ \A a \in 1..Len(new) : new[a] = IF a <= f + 1 THEN more[a] ELSE u.steps[(at + 1) + a - (f + 1) - 1]
  BY <1>1, <1>2, LeftAt
<1> HIDE DEF f, len, at, x, old, new, failed, more
<1>5. Len(new) = Len(old) /\ Len(old) \in Nat
  BY <1>1, <1>3, <1>4
<1>6. ASSUME NEW a \in 1..Len(old) PROVE new[a] = old[a]
  <2>1. CASE a <= f
    BY <1>1, <1>2, <1>3, <1>4, <1>5, <2>1
  <2>2. CASE a = f + 1
    <3>1. old[a] = u.steps[at + (f + 1) - f - 1]
      BY <1>1, <1>3, <2>2
    <3>2. at + (f + 1) - f - 1 = at
      BY <1>1
    <3>3. new[a] = x
      BY <1>1, <1>2, <1>4, <1>5, <2>2
    <3>4. QED
      BY <3>1, <3>2, <3>3 DEF x
  <2>3. CASE a > f + 1
    <3>1. (at + 1) + a - (f + 1) - 1 = at + a - f - 1
      BY <1>1
    <3>2. ~(a <= f) /\ ~(a <= f + 1) /\ a \in 1..Len(new)
      BY <1>1, <1>5, <2>3
    <3>3. new[a] = u.steps[(at + 1) + a - (f + 1) - 1] /\ old[a] = u.steps[at + a - f - 1]
      BY <1>3, <1>4, <3>2
    <3>4. QED
      BY <3>1, <3>3
  <2>4. QED
    BY <1>1, <1>5, <2>1, <2>2, <2>3
<1>7. ASSUME NEW a \in 1..Len(more) PROVE Among(more[a], failed) \/ Among(more[a], u.steps)
  <2>1. CASE a \in 1..f
    BY <1>2, <2>1 DEF Among, f, failed
  <2>2. CASE a = f + 1
    BY <1>1, <1>2, <2>2 DEF Among, x, len
  <2>3. QED
    BY <1>1, <1>2, <2>1, <2>2
<1>8. QED
  BY <1>5, <1>6, <1>7 DEF old, new, failed, more

\* The step in hand waits, until it is done.
LEMMA InHandWaits ==
  ASSUME FilesInv, Places, undo # NoUndo, undo.next \in 1..Len(undo.steps)
  PROVE  /\ undo \in Undoing /\ undo.job \in Jobs /\ InHand \in Waiting /\ InUndo(InHand)
         /\ InHand.job \in Jobs /\ InHand.root \in 1..Len(Roots[InHand.job])
         /\ InHand.job = undo.job /\ job[InHand.job].pc = "done"
<1>1. undo \in Undoing /\ undo.job \in Jobs /\ undo.next \in 1..(Len(undo.steps) + 1)
  BY UndoTyped
<1>2. InHand \in Step
  BY <1>1 DEF InHand, Undoing
<1> DEFINE a == Len(undo.failed) + 1
<1>3. a \in 1..Len(LeftOf(undo)) /\ LeftOf(undo)[a] = InHand
  <2> DEFINE f == Len(undo.failed)
             len == Len(undo.steps)
             at0 == undo.next
  <2>1. /\ f \in Nat /\ len \in Nat /\ at0 \in 1..len /\ Len(LeftOf(undo)) = f + (len - at0 + 1)
        /\ \A b \in 1..Len(LeftOf(undo)) :
             LeftOf(undo)[b] = IF b <= f THEN undo.failed[b] ELSE undo.steps[at0 + b - f - 1]
    BY <1>1, LeftAt
  <2> HIDE DEF f, len, at0
  <2>2. f + 1 \in 1..Len(LeftOf(undo)) /\ ~(f + 1 <= f) /\ at0 + (f + 1) - f - 1 = at0
    BY <2>1
  <2>3. LeftOf(undo)[f + 1] = undo.steps[at0]
    BY <2>1, <2>2
  <2>4. QED
    BY <2>2, <2>3 DEF f, at0, InHand
<1> HIDE DEF a
<1>4. InUndo(InHand)
  BY <1>1, <1>3 DEF InUndo, Among
<1>5. InHand \in Waiting
  BY <1>2, <1>4 DEF Waiting
<1>6. QED
  BY <1>1, <1>2, <1>4, <1>5, OnePlace DEF Step

\* What a step of undo leaves alone, and what has to be shown of the rest.
LEMMA UndoGoesOn ==
  ASSUME FilesInv, Places, undo # NoUndo, UndoOnly, undo' # NoUndo, undo'.job = undo.job,
         undo'.steps = undo.steps, StepsOf(undo.job, LeftOf(undo')),
         \A a \in 1..Len(undo'.failed) : Among(undo'.failed[a], undo.steps)
  PROVE  /\ Places' /\ job' = job
         /\ \A s : (AtThread(s)' <=> AtThread(s)) /\ (InHistory(s)' <=> InHistory(s))
         /\ \A s : InUndo(s)' <=> Among(s, LeftOf(undo'))
<1>1. job' = job /\ history' = history /\ undo.job \in Jobs
  BY UndoTyped DEF UndoOnly
<1>2. /\ JobSteps' /\ HistorySteps'
      /\ \A s : (AtThread(s)' <=> AtThread(s)) /\ (InHistory(s)' <=> InHistory(s))
  <2>1. (JobSteps' <=> JobSteps) /\ \A s : AtThread(s)' <=> AtThread(s)
    BY <1>1 DEF JobSteps, Operating, AtThread
  <2>2. (HistorySteps' <=> HistorySteps) /\ \A s : InHistory(s)' <=> InHistory(s)
    BY <1>1 DEF HistorySteps, InHistory
  <2>3. QED
    BY <2>1, <2>2 DEF Places
<1>3. job[undo.job].pc = "done" /\ NotRecorded(undo.job)
  BY DEF Places, UndoSteps
<1>4. NotRecorded(undo.job)'
  BY <1>1, <1>3 DEF NotRecorded
<1>5. UndoSteps' <=>
        /\ StepsOf(undo'.job, LeftOf(undo')) /\ job'[undo'.job].pc = "done" /\ NotRecorded(undo.job)'
        /\ \A a \in 1..Len(undo'.failed) : Among(undo'.failed[a], undo'.steps)
  BY DEF UndoSteps, NotRecorded, StepsOf, Among, LeftOf
<1>6. UndoSteps'
  BY <1>1, <1>3, <1>4, <1>5
<1>7. \A s : InUndo(s)' <=> Among(s, LeftOf(undo'))
  BY DEF InUndo, LeftOf, Among
<1>8. QED
  BY <1>1, <1>2, <1>6, <1>7 DEF Places

\* An undo job has fields that no undo has not.
LEMMA UndoFields ==
  ASSUME NEW u \in Undoing
  PROVE  u # NoUndo /\ DOMAIN u = {"job", "steps", "was", "tab", "next", "failed", "at", "item"}
<1>1. DOMAIN u = {"job", "steps", "was", "tab", "next", "failed", "at", "item"}
  BY DEF Undoing
<1>2. "job" \notin DOMAIN NoUndo
  BY DEF NoUndo
<1>3. QED
  BY <1>1, <1>2

\* Between two changes it makes, the step still waits.
LEMMA GoesWaits ==
  ASSUME FilesInv, Places, NEW at, UndoAt(at), NEW to \in {"carry", "fill", "drop"},
         NEW item \in Visible \cup {Absent}, StepGoes(to, item)
  PROVE  /\ Places' /\ Waiting' = Waiting /\ job' = job
         /\ undo' \in Undoing /\ undo'.at = to /\ undo'.item = item /\ InHand' = InHand
         /\ undo'.next = undo.next /\ undo'.steps = undo.steps /\ undo'.failed = undo.failed
         /\ undo'.job = undo.job /\ undo'.tab = undo.tab /\ undo'.was = undo.was
<1>1. undo \in Undoing /\ undo # NoUndo
  BY StepInHand DEF UndoAt
<1>2. /\ undo' \in Undoing /\ undo'.at = to /\ undo'.item = item /\ undo'.next = undo.next
      /\ undo'.steps = undo.steps /\ undo'.failed = undo.failed /\ undo'.job = undo.job
      /\ undo'.tab = undo.tab /\ undo'.was = undo.was
  BY <1>1 DEF StepGoes, Undoing
<1>3. LeftOf(undo') = LeftOf(undo)
  BY <1>2 DEF LeftOf
<1>4. StepsOf(undo.job, LeftOf(undo)) /\ \A a \in 1..Len(undo.failed) : Among(undo.failed[a], undo.steps)
  BY <1>1 DEF Places, UndoSteps
<1>5. UndoOnly /\ undo' # NoUndo
  BY <1>2, UndoFields DEF StepGoes
<1>6. /\ Places' /\ job' = job
      /\ \A s : (AtThread(s)' <=> AtThread(s)) /\ (InHistory(s)' <=> InHistory(s))
      /\ \A s : InUndo(s)' <=> Among(s, LeftOf(undo'))
  BY <1>1, <1>2, <1>3, <1>4, <1>5, UndoGoesOn
<1>7. \A s : InUndo(s)' <=> InUndo(s)
  BY <1>1, <1>3, <1>6 DEF InUndo
<1>8. Waiting' = Waiting
  BY <1>6, <1>7 DEF Waiting
<1>9. InHand' = InHand
  BY <1>2 DEF InHand
<1>10. QED
  BY <1>2, <1>6, <1>8, <1>9

\* When it is done, it waits no more.
LEMMA DoneWaits ==
  ASSUME FilesInv, Places, NEW at, UndoAt(at), StepDone
  PROVE  /\ Places' /\ Waiting' = Waiting \ {InHand} /\ job' = job
         /\ undo' \in Undoing /\ undo'.at = "step" /\ undo'.item = Absent
         /\ undo'.next = undo.next + 1 /\ undo'.steps = undo.steps /\ undo'.failed = undo.failed
         /\ undo'.job = undo.job /\ undo'.tab = undo.tab /\ undo'.was = undo.was
<1>1. undo \in Undoing /\ undo # NoUndo /\ undo.next \in 1..Len(undo.steps) /\ undo' \in Undoing
  BY StepInHand, StepTyped DEF UndoAt
<1>2. /\ undo'.at = "step" /\ undo'.item = Absent /\ undo'.next = undo.next + 1
      /\ undo'.steps = undo.steps /\ undo'.failed = undo.failed /\ undo'.job = undo.job
      /\ undo'.tab = undo.tab /\ undo'.was = undo.was
  BY <1>1 DEF StepDone, Undoing
<1>3. StepsOf(undo.job, LeftOf(undo)) /\ \A a \in 1..Len(undo.failed) : Among(undo.failed[a], undo.steps)
  BY <1>1 DEF Places, UndoSteps
<1>4. /\ StepsOf(undo.job, LeftOf(undo')) /\ \A s : Among(s, LeftOf(undo')) <=> Among(s, LeftOf(undo)) /\ s # InHand
  BY <1>1, <1>2, <1>3, LeftDone DEF InHand
<1>5. UndoOnly /\ undo' # NoUndo
  BY <1>1, UndoFields DEF StepDone
<1>6. /\ Places' /\ job' = job
      /\ \A s : (AtThread(s)' <=> AtThread(s)) /\ (InHistory(s)' <=> InHistory(s))
      /\ \A s : InUndo(s)' <=> Among(s, LeftOf(undo'))
  BY <1>1, <1>2, <1>3, <1>4, <1>5, UndoGoesOn
<1>7. \A s : InUndo(s)' <=> InUndo(s) /\ s # InHand
  BY <1>1, <1>4, <1>6 DEF InUndo
<1>8. ~AtThread(InHand) /\ ~InHistory(InHand)
  BY <1>1, InHandWaits, OnePlace DEF Operating
<1>9. Waiting' = Waiting \ {InHand}
  <2>1. \A s \in Step : s \in Waiting' <=> s \in Waiting /\ s # InHand
    BY <1>6, <1>7, <1>8 DEF Waiting
  <2>2. QED
    BY <2>1 DEF Waiting
<1>10. QED
  BY <1>1, <1>2, <1>6, <1>9

\* When it has failed, it waits on, to go back to the history.
LEMMA FailsWaits ==
  ASSUME FilesInv, Places, NEW at, UndoAt(at), StepFails
  PROVE  /\ Places' /\ Waiting' = Waiting /\ job' = job
         /\ undo' \in Undoing /\ undo'.at = "step" /\ undo'.item = Absent
         /\ undo'.next = undo.next + 1 /\ undo'.steps = undo.steps
         /\ undo'.failed = Append(undo.failed, InHand)
         /\ undo'.job = undo.job /\ undo'.tab = undo.tab /\ undo'.was = undo.was
<1>1. undo \in Undoing /\ undo # NoUndo /\ undo.next \in 1..Len(undo.steps) /\ undo' \in Undoing
  BY StepInHand, StepTyped DEF UndoAt
<1>2. /\ undo'.at = "step" /\ undo'.item = Absent /\ undo'.next = undo.next + 1
      /\ undo'.steps = undo.steps /\ undo'.failed = Append(undo.failed, InHand) /\ undo'.job = undo.job
      /\ undo'.tab = undo.tab /\ undo'.was = undo.was
  <2> DEFINE failed == Append(undo.failed, InHand)
  <2>1. undo' = [undo EXCEPT !.at = "step", !.item = Absent, !.next = undo.next + 1, !.failed = failed]
    BY DEF StepFails
  <2> HIDE DEF failed
  <2>2. /\ undo'.at = "step" /\ undo'.item = Absent /\ undo'.next = undo.next + 1
        /\ undo'.steps = undo.steps /\ undo'.failed = failed /\ undo'.job = undo.job
        /\ undo'.tab = undo.tab /\ undo'.was = undo.was
    BY <1>1, <2>1, UndoFields
  <2>3. QED
    BY <2>2 DEF failed
<1>3. StepsOf(undo.job, LeftOf(undo)) /\ \A a \in 1..Len(undo.failed) : Among(undo.failed[a], undo.steps)
  BY <1>1 DEF Places, UndoSteps
<1>4. /\ Len(LeftOf(undo')) = Len(LeftOf(undo)) /\ \A a \in 1..Len(LeftOf(undo)) : LeftOf(undo')[a] = LeftOf(undo)[a]
      /\ \A a \in 1..Len(undo'.failed) : Among(undo'.failed[a], undo.failed) \/ Among(undo'.failed[a], undo.steps)
  BY <1>1, <1>2, LeftFailed DEF InHand
<1>5. StepsOf(undo.job, LeftOf(undo')) /\ \A s : Among(s, LeftOf(undo')) <=> Among(s, LeftOf(undo))
  BY <1>3, <1>4 DEF StepsOf, Among
<1>6. \A s : Among(s, undo.failed) => Among(s, undo.steps)
  BY <1>3 DEF Among
<1>7. UndoOnly /\ undo' # NoUndo
  BY <1>1, UndoFields DEF StepFails
<1>8. /\ Places' /\ job' = job
      /\ \A s : (AtThread(s)' <=> AtThread(s)) /\ (InHistory(s)' <=> InHistory(s))
      /\ \A s : InUndo(s)' <=> Among(s, LeftOf(undo'))
  BY <1>1, <1>2, <1>4, <1>5, <1>6, <1>7, UndoGoesOn
<1>9. \A s : InUndo(s)' <=> InUndo(s)
  BY <1>1, <1>5, <1>8 DEF InUndo
<1>10. Waiting' = Waiting
  BY <1>8, <1>9 DEF Waiting
<1>11. QED
  BY <1>1, <1>2, <1>8, <1>10

\* Where a history was emptied, nothing waits.
LEMMA HistoryEmptied ==
  ASSUME FilesInv, Places, NEW ts \in SUBSET Tabs, job' = job, undo' = undo,
         \A t \in Tabs : history'[t] = IF t \in ts THEN <<>> ELSE history[t],
         NEW D, D = {s \in Step : \E t \in ts : \E n \in 1..Len(history[t]) : Among(s, history[t][n].steps)}
  PROVE  Places' /\ D \subseteq Waiting /\ Waiting' = Waiting \ D /\ Forgotten(D)
<1>1. ASSUME NEW t \in Tabs, NEW n \in 1..Len(history'[t])
      PROVE  t \notin ts /\ history'[t] = history[t] /\ n \in 1..Len(history[t])
  <2>1. Len(<<>>) = 0
    OBVIOUS
  <2>2. QED
    BY <2>1
<1>2. HistorySteps'
  <2>1. ASSUME NEW t \in Tabs, NEW n \in 1..Len(history'[t])
        PROVE  /\ StepsOf(history'[t][n].job, history'[t][n].steps) /\ job'[history'[t][n].job].pc = "done"
               /\ \A u \in Tabs : \A m \in 1..Len(history'[u]) :
                    history'[u][m].job = history'[t][n].job => u = t /\ m = n
    BY <1>1 DEF Places, HistorySteps
  <2>2. QED
    BY <2>1 DEF HistorySteps, StepsOf
<1>3. JobSteps' /\ UndoSteps'
  <2>1. JobSteps'
    BY DEF Places, JobSteps, Operating, StepsOf
  <2>2. ASSUME NEW j, NotRecorded(j) PROVE NotRecorded(j)'
    BY <1>1, <2>2 DEF NotRecorded
  <2>3. UndoSteps'
    <3>1. CASE undo # NoUndo
      <4>1. NotRecorded(undo.job) /\ NotRecorded(undo.job)'
        BY <2>2, <3>1 DEF Places, UndoSteps, NotRecorded
      <4>2. QED
        BY <3>1, <4>1 DEF Places, UndoSteps, StepsOf, Among, LeftOf, NoUndo, NotRecorded
    <3>2. QED
      BY <3>1 DEF UndoSteps, NoUndo
  <2>4. QED
    BY <2>1, <2>3
<1>4. \A s : (AtThread(s)' <=> AtThread(s)) /\ (InUndo(s)' <=> InUndo(s))
  BY DEF AtThread, Operating, InUndo
<1>5. \A s \in D : InHistory(s)
  BY DEF InHistory
<1>6. \A s \in D : ~AtThread(s) /\ ~InUndo(s)
  BY <1>5, OnePlace DEF Operating
<1>7. ASSUME NEW s \in Step PROVE InHistory(s)' <=> InHistory(s) /\ s \notin D
  <2>1. InHistory(s)' <=> \E t \in Tabs : \E n \in 1..Len(history'[t]) : Among(s, history'[t][n].steps)
    BY DEF InHistory, Among
  <2>2. ASSUME NEW t \in Tabs, NEW n \in 1..Len(history'[t]), Among(s, history'[t][n].steps)
        PROVE  InHistory(s) /\ s \notin D
    <3>1. t \notin ts /\ n \in 1..Len(history[t]) /\ Among(s, history[t][n].steps)
      BY <1>1, <2>2
    <3>2. ASSUME NEW u \in ts, NEW m \in 1..Len(history[u]), Among(s, history[u][m].steps) PROVE FALSE
      <4>1. StepsOf(history[t][n].job, history[t][n].steps) /\ StepsOf(history[u][m].job, history[u][m].steps)
        BY <3>1 DEF Places, HistorySteps
      <4>2. history[t][n].job = history[u][m].job
        BY <3>1, <3>2, <4>1, AmongJob
      <4>3. QED
        BY <3>1, <4>2 DEF Places, HistorySteps
    <3>3. QED
      BY <3>1, <3>2 DEF InHistory
  <2>3. ASSUME InHistory(s), s \notin D
        PROVE  \E t \in Tabs : \E n \in 1..Len(history'[t]) : Among(s, history'[t][n].steps)
    BY <2>3 DEF InHistory
  <2>4. QED
    BY <2>1, <2>2, <2>3
<1>8. D \subseteq Waiting /\ Waiting' = Waiting \ D
  <2>1. \A s \in Step : s \in Waiting' <=> s \in Waiting /\ s \notin D
    BY <1>4, <1>6, <1>7 DEF Waiting
  <2>2. D \subseteq Waiting
    BY <1>5 DEF Waiting
  <2>3. QED
    BY <2>1, <2>2 DEF Waiting
<1>9. ASSUME NEW s \in D PROVE NotRecorded(s.job)'
  <2>1. PICK t \in ts : \E n \in 1..Len(history[t]) : Among(s, history[t][n].steps)
    OBVIOUS
  <2>2. PICK n \in 1..Len(history[t]) : Among(s, history[t][n].steps)
    BY <2>1
  <2>3. s.job = history[t][n].job
    BY <2>2, AmongJob DEF Places, HistorySteps
  <2>4. ASSUME NEW u \in Tabs, NEW m \in 1..Len(history'[u]) PROVE history'[u][m].job # s.job
    <3>1. u \notin ts /\ history'[u] = history[u] /\ m \in 1..Len(history[u])
      BY <1>1
    <3>2. QED
      BY <2>3, <3>1 DEF Places, HistorySteps
  <2>5. QED
    BY <2>4 DEF NotRecorded
<1>10. Forgotten(D)
  BY <1>5, <1>9 DEF Forgotten
<1>11. QED
  BY <1>2, <1>3, <1>8, <1>10 DEF Places

\* A tab is closed: its records go, and their backups stay.
LEMMA CloseTabWaits ==
  ASSUME FilesInv, Places, NEW tab \in Tabs, CloseTab(tab)
  PROVE  /\ Places' /\ UNCHANGED disk /\ open' # Tabs /\ job' = job
         /\ \E D \in SUBSET Waiting : Waiting' = Waiting \ D /\ Forgotten(D)
<1>1. /\ job' = job /\ undo' = undo /\ UNCHANGED disk /\ open' = open \ {tab}
      /\ history' = [history EXCEPT ![tab] = <<>>]
  BY DEF CloseTab
<1> DEFINE ts == {tab}
           D == {s \in Step : \E t \in ts : \E n \in 1..Len(history[t]) : Among(s, history[t][n].steps)}
<1>2. ts \in SUBSET Tabs /\ \A t \in Tabs : history'[t] = IF t \in ts THEN <<>> ELSE history[t]
  BY <1>1 DEF FilesInv, Typed, WindowTyped
<1> HIDE DEF ts
<1>3. Places' /\ D \subseteq Waiting /\ Waiting' = Waiting \ D /\ Forgotten(D)
  BY <1>1, <1>2, HistoryEmptied
<1> HIDE DEF D
<1>4. open' # Tabs
  BY <1>1
<1>5. QED
  BY <1>1, <1>3, <1>4

\* The window is closed: the records of its tabs go, and their backups too.
LEMMA CloseWindowWaits ==
  ASSUME FilesInv, Places, CloseWindow
  PROVE  Places' /\ job' = job /\ \E D \in SUBSET Waiting : Waiting' = Waiting \ D /\ Drop(D) /\ Forgotten(D)
<1> DEFINE D == {s \in Step : \E t \in open : \E n \in 1..Len(history[t]) : Among(s, history[t][n].steps)}
           ps == UNION {Backups(r.steps) : r \in UNION {ToSet(history[t]) : t \in open}}
<1>1. /\ job' = job /\ undo' = undo /\ Cleanup(ps)
      /\ history' = [t \in Tabs |-> IF t \in open THEN <<>> ELSE history[t]]
  BY DEF CloseWindow
<1>2. open \in SUBSET Tabs /\ \A t \in Tabs : history'[t] = IF t \in open THEN <<>> ELSE history[t]
  BY <1>1 DEF FilesInv, Typed, WindowTyped
<1>3. Places' /\ D \subseteq Waiting /\ Waiting' = Waiting \ D /\ Forgotten(D)
  BY <1>1, <1>2, HistoryEmptied
<1>4. BackupsIn(D) = ps
  <2>1. ASSUME NEW s \in Step
        PROVE  s \in D <=> \E t \in open : \E r \in ToSet(history[t]) : s \in ToSet(r.steps)
    <3>1. ASSUME NEW t \in open
          PROVE  (\E r \in ToSet(history[t]) : s \in ToSet(r.steps))
                   <=> \E n \in 1..Len(history[t]) : Among(s, history[t][n].steps)
      <4>1. history[t] \in Seq(Record) /\ \A n \in 1..Len(history[t]) : history[t][n].steps \in Seq(Step)
        BY <1>2, RecordAt
      <4>2. \A n \in 1..Len(history[t]) : s \in ToSet(history[t][n].steps) <=> Among(s, history[t][n].steps)
        BY <4>1 DEF ToSet, Among
      <4>3. \A r : r \in ToSet(history[t]) <=> \E n \in 1..Len(history[t]) : r = history[t][n]
        BY <4>1 DEF ToSet
      <4>4. QED
        BY <4>2, <4>3
    <3>2. QED
      BY <3>1
  <2>2. ASSUME NEW t \in open, NEW r \in ToSet(history[t]) PROVE ToSet(r.steps) \subseteq Step
    <3>1. history[t] \in Seq(Record)
      BY <1>2, RecordAt
    <3>2. r \in Record
      BY <3>1 DEF ToSet
    <3>3. r.steps \in Seq(Step)
      BY <3>2 DEF Record
    <3>4. QED
      BY <3>3 DEF ToSet
  <2>3. \A p : p \in BackupsIn(D) <=> \E s \in D : IsBackup(s) /\ p = Backup(s)
    BY DEF BackupsIn
  <2>4. \A p : p \in ps <=> \E t \in open : \E r \in ToSet(history[t]) : \E s \in ToSet(r.steps) : IsBackup(s) /\ p = Backup(s)
    BY DEF Backups
  <2>5. D \subseteq Step
    OBVIOUS
  <2> HIDE DEF D, ps
  <2>6. \A p : p \in BackupsIn(D) <=> p \in ps
    BY <2>1, <2>2, <2>3, <2>4, <2>5
  <2>7. QED
    BY <2>6
<1>5. Drop(D)
  BY <1>1, <1>4 DEF Drop
<1> HIDE DEF D
<1>6. QED
  BY <1>1, <1>3, <1>5

-----------------------------------------------------------------------------
(* What a thread's step does to its transfer *)

\* The rest of the state, as a thread's step leaves it.
Elsewhere(j) ==
  /\ history' = history /\ undo' = undo /\ open' = open /\ items' = items
  /\ \A k \in Jobs \ {j} : job'[k] = job[k]

\* A transfer under way has its fields.
LEMMA LiveAt ==
  ASSUME FilesInv, NEW j \in Jobs, Operating(j)
  PROVE  /\ job \in [Jobs -> Live \cup Resting] /\ job[j] \in Live /\ job[j].root \in Nat
         /\ job[j].item \in Visible \cup {Absent} /\ job[j].backed \in BOOLEAN /\ job[j].whole \in BOOLEAN
         /\ DOMAIN job[j] = {"pc", "op", "policy", "root", "cancelled", "target", "backed", "item",
                           "whole", "steps", "tab", "was"}
<1>1. job[j] \in Live /\ job \in [Jobs -> Live \cup Resting]
  BY ThreadAt DEF FilesInv, Typed, JobsTyped
<1>2. QED
  BY <1>1 DEF Live

\* The next step, for the same item.
LEMMA GoDoes ==
  ASSUME FilesInv, NEW j \in Jobs, Operating(j), NEW pc, Go(j, pc)
  PROVE  /\ Elsewhere(j) /\ job'[j].pc = pc /\ job'[j].op = job[j].op /\ job'[j].root = job[j].root
         /\ job'[j].target = job[j].target /\ job'[j].backed = job[j].backed /\ job'[j].item = job[j].item
         /\ job'[j].steps = job[j].steps /\ job'[j].whole = job[j].whole
<1>1. job' = [job EXCEPT ![j].pc = pc]
  BY DEF Go
<1>2. job'[j] = [job[j] EXCEPT !.pc = pc] /\ \A k \in Jobs \ {j} : job'[k] = job[k]
  BY <1>1, LiveAt
<1>3. QED
  BY <1>2, LiveAt DEF Go, window, ghosts, Elsewhere

\* The next item.
LEMMA NextRootDoes ==
  ASSUME FilesInv, NEW j \in Jobs, Operating(j), NextRoot(j)
  PROVE  /\ Elsewhere(j) /\ job'[j].pc = "root" /\ job'[j].root = job[j].root + 1
         /\ job'[j].backed = FALSE /\ job'[j].item = Absent /\ job'[j].steps = job[j].steps
<1>1. job' = [job EXCEPT ![j].pc = "root", ![j].root = @ + 1, ![j].target = Absent,
                         ![j].backed = FALSE, ![j].item = Absent]
  BY DEF NextRoot
<1>2. /\ job'[j] = [job[j] EXCEPT !.pc = "root", !.root = @ + 1, !.target = Absent, !.backed = FALSE,
                                  !.item = Absent]
      /\ \A k \in Jobs \ {j} : job'[k] = job[k]
  BY <1>1, LiveAt
<1>3. QED
  BY <1>2, LiveAt DEF NextRoot, window, ghosts, Elsewhere

\* What is staged.
LEMMA TakeDoes ==
  ASSUME FilesInv, NEW j \in Jobs, Operating(j), NEW pc, Take(j, pc)
  PROVE  /\ Elsewhere(j) /\ job'[j].pc = pc /\ job'[j].op = job[j].op /\ job'[j].root = job[j].root
         /\ job'[j].backed = job[j].backed /\ job'[j].item = fs[Src(j)] /\ job'[j].steps = job[j].steps
         /\ job'[j].whole = (Src(j) \notin torn)
<1>1. job' = [job EXCEPT ![j].pc = pc, ![j].item = fs[Src(j)], ![j].whole = Src(j) \notin torn]
  BY DEF Take
<1>2. /\ job'[j] = [job[j] EXCEPT !.pc = pc, !.item = fs[Src(j)], !.whole = Src(j) \notin torn]
      /\ \A k \in Jobs \ {j} : job'[k] = job[k]
  BY <1>1, LiveAt
<1>3. QED
  BY <1>2, LiveAt DEF Take, window, ghosts, Elsewhere

\* What is remembered.
LEMMA NoteDoes ==
  ASSUME FilesInv, NEW j \in Jobs, job[j].pc \in Aimed, NEW moved \in BOOLEAN, Note(j, moved)
  PROVE  /\ Elsewhere(j) /\ job'[j].pc = "root" /\ job'[j].root = job[j].root + 1
         /\ job'[j].backed = FALSE /\ job'[j].item = Absent
         /\ job'[j].steps = Append(job[j].steps, UndoStep(j, moved))
         /\ UndoStep(j, moved) \in Step
         /\ UndoStep(j, moved).job = j /\ UndoStep(j, moved).root = job[j].root
         /\ UndoStep(j, moved).item = job[j].item
         /\ UndoStep(j, moved).kind \in {"move_back", "restore_move"} <=> moved
         /\ IsBackup(UndoStep(j, moved)) <=> job[j].backed
<1>1. Operating(j) /\ JobsTyped
  BY DEF Aimed, Operating, FilesInv, Typed
<1>2. /\ UndoStep(j, moved) \in Step
      /\ job'[j] = [job[j] EXCEPT !.pc = "root", !.root = @ + 1, !.target = Absent, !.backed = FALSE,
                                  !.item = Absent, !.steps = Append(@, UndoStep(j, moved))]
      /\ \A k \in Jobs \ {j} : job'[k] = job[k]
  BY <1>1, NoteTyped
<1>3. /\ job'[j].pc = "root" /\ job'[j].root = job[j].root + 1 /\ job'[j].backed = FALSE
      /\ job'[j].item = Absent /\ job'[j].steps = Append(job[j].steps, UndoStep(j, moved))
  <2> DEFINE new == UndoStep(j, moved)
  <2>1. job'[j] = [job[j] EXCEPT !.pc = "root", !.root = @ + 1, !.target = Absent, !.backed = FALSE,
                                 !.item = Absent, !.steps = Append(@, new)]
    BY <1>2
  <2> HIDE DEF new
  <2>2. job'[j].steps = Append(job[j].steps, new)
    BY <1>1, <2>1, LiveAt
  <2>3. QED
    BY <1>1, <2>1, <2>2, LiveAt DEF new
<1>4. Elsewhere(j)
  BY <1>2 DEF Note, window, ghosts, Elsewhere
<1>5. /\ UndoStep(j, moved).job = j /\ UndoStep(j, moved).root = job[j].root
      /\ UndoStep(j, moved).item = job[j].item
  BY DEF UndoStep
<1>6. UndoStep(j, moved).kind = IF moved THEN (IF job[j].backed THEN "restore_move" ELSE "move_back")
                                ELSE (IF job[j].backed THEN "restore_copy" ELSE "remove")
  BY DEF UndoStep
<1>7. UndoStep(j, moved).kind \in {"move_back", "restore_move"} <=> moved
  BY <1>6
<1>8. IsBackup(UndoStep(j, moved)) <=> job[j].backed
  BY <1>1, <1>6, LiveAt DEF IsBackup
<1>9. QED
  BY <1>2, <1>3, <1>4, <1>5, <1>7, <1>8

\* Decide looks only.
LEMMA DecideDoes ==
  ASSUME FilesInv, NEW j \in Jobs, Decide(j)
  PROVE  /\ Operating(j) /\ UNCHANGED disk
         /\ Elsewhere(j) /\ job[j].pc = "staged" /\ job'[j].pc \in {"back", "place", "swap"}
         /\ job'[j].op = job[j].op /\ job'[j].root = job[j].root
         /\ job'[j].backed = job[j].backed /\ job'[j].item = job[j].item /\ job'[j].steps = job[j].steps
         /\ job'[j].whole = job[j].whole
<1>1. job[j].pc = "staged" /\ Operating(j)
  BY DEF Decide, At, Operating
<1>2. PICK pc \in {"back", "place", "swap"} :
        \E target : job' = [job EXCEPT ![j].pc = pc, ![j].target = target]
  BY DEF Decide
<1> PICK target : job' = [job EXCEPT ![j].pc = pc, ![j].target = target]
  BY <1>2
<1>3. /\ job'[j] = [job[j] EXCEPT !.pc = pc, !.target = target]
      /\ \A k \in Jobs \ {j} : job'[k] = job[k]
  BY <1>1, <1>2, LiveAt
<1>4. QED
  BY <1>1, <1>3, LiveAt DEF Decide, window, ghosts, Elsewhere

\* Swap puts what is in the way aside.
LEMMA SwapDoes ==
  ASSUME FilesInv, NEW j \in Jobs, job[j].pc = "swap",
         job' = [job EXCEPT ![j].pc = "fill", ![j].backed = TRUE], UNCHANGED <<window, ghosts>>
  PROVE  /\ Elsewhere(j) /\ job'[j].pc = "fill" /\ job'[j].op = job[j].op /\ job'[j].root = job[j].root
         /\ job'[j].backed = TRUE /\ job'[j].item = job[j].item /\ job'[j].steps = job[j].steps
         /\ job'[j].whole = job[j].whole
<1>1. Operating(j)
  BY DEF Operating
<1>2. /\ job'[j] = [job[j] EXCEPT !.pc = "fill", !.backed = TRUE]
      /\ \A k \in Jobs \ {j} : job'[k] = job[k]
  BY <1>1, LiveAt
<1>3. QED
  BY <1>1, <1>2, LiveAt DEF window, ghosts, Elsewhere

-----------------------------------------------------------------------------
(* The backups on disk *)

Replaced(j, i) == <<j, i, "replaced">>

\* An item was put aside and is neither back nor noted.
Swapped(j) == job[j].pc \in {"fill", "restore", "source"} /\ job[j].backed

\* Who still needs the backup.
HasOwner(j, i) ==
  \/ \E s \in Waiting : IsBackup(s) /\ s.job = j /\ s.root = i
  \/ Swapped(j) /\ job[j].root = i

\* What replaced the item gave way for it to come back.
GaveWay(j, i) == <<j, i, "displaced">>

\* A backup is there as long as a thread may have to put it back. It is there as
\* long as it can be restored, unless it was, and what had replaced it is still
\* about. While no tab was closed it is there no longer.
Kept ==
  \A j \in Jobs : \A i \in 1..Len(Roots[j]) :
    /\ Swapped(j) /\ job[j].root = i => Taken(Replaced(j, i))
    /\ HasOwner(j, i) => Taken(Replaced(j, i)) \/ Taken(GaveWay(j, i))
    /\ open = Tabs /\ Taken(Replaced(j, i)) => HasOwner(j, i)

\* Which step of undo can be halfway where; and what had replaced an item that
\* was copied over is aside until the step is done.
Restoring ==
  /\ undo.at = "carry" => InHand.kind \in {"move_back", "restore_move"}
  /\ undo.at = "fill" => InHand.kind \in {"restore_copy", "restore_move"}
  /\ undo.at = "drop" => InHand.kind # "remove"
  /\ undo.at \in {"fill", "drop"} /\ InHand.kind = "restore_copy" =>
       Taken(Displaced(InHand)) /\ (Taken(Backup(InHand)) <=> undo.at = "fill")

Accounts == Kept /\ Restoring

HistoryInv == FilesInv /\ Places /\ Accounts

\* A step leaves alone what is put aside.
AsideAlone ==
  \A k \in Jobs : \A i \in 1..Len(Roots[k]) :
    fs'[Replaced(k, i)] = fs[Replaced(k, i)] /\ fs'[GaveWay(k, i)] = fs[GaveWay(k, i)]

\* A backup's path is no stage and not visible.
LEMMA ReplacedPath ==
  ASSUME NEW j \in Jobs, NEW i \in 1..Len(Roots[j])
  PROVE  /\ Replaced(j, i) \in Paths /\ Replaced(j, i) \notin Visible
         /\ GaveWay(j, i) \in Paths /\ GaveWay(j, i) \notin Visible
         /\ \A k : Stage(k) # Replaced(j, i) /\ Stage(k) # GaveWay(j, i)
         /\ \A k, n : Replaced(k, n) # GaveWay(j, i)
         /\ \A k \in Jobs : \A n \in 1..Len(Roots[k]) :
              /\ Replaced(k, n) = Replaced(j, i) => k = j /\ n = i
              /\ GaveWay(k, n) = GaveWay(j, i) => k = j /\ n = i
<1>1. \A k : <<j, i, k>>[3] = k
  OBVIOUS
<1>2. \A k : Stage(k)[3] = "partial"
  BY DEF Stage
<1>3. \A k : k \in Private => <<j, i, k>> \in Paths /\ <<j, i, k>> \notin Visible
  BY PrivatePath
<1>4. QED
  BY <1>1, <1>2, <1>3 DEF Replaced, GaveWay, Private

\* Backups that keep their owners are accounted for.
LEMMA SameOwners ==
  ASSUME Accounts, Restoring', open' = Tabs => open = Tabs,
         \A j \in Jobs : \A i \in 1..Len(Roots[j]) :
           \/ /\ HasOwner(j, i)' <=> HasOwner(j, i)
              /\ Swapped(j)' /\ job'[j].root = i => Swapped(j) /\ job[j].root = i
              /\ fs'[Replaced(j, i)] = fs[Replaced(j, i)] /\ fs'[GaveWay(j, i)] = fs[GaveWay(j, i)]
           \/ HasOwner(j, i)' /\ fs'[Replaced(j, i)] # Absent
           \/ ~HasOwner(j, i)' /\ (fs'[Replaced(j, i)] = Absent \/ open' # Tabs)
  PROVE  Accounts'
<1>1. ASSUME NEW j \in Jobs, NEW i \in 1..Len(Roots[j])
      PROVE  /\ Swapped(j)' /\ job'[j].root = i => fs'[Replaced(j, i)] # Absent
             /\ HasOwner(j, i)' => fs'[Replaced(j, i)] # Absent \/ fs'[GaveWay(j, i)] # Absent
             /\ open' = Tabs /\ fs'[Replaced(j, i)] # Absent => HasOwner(j, i)'
  <2>1. Swapped(j)' /\ job'[j].root = i => HasOwner(j, i)'
    BY DEF HasOwner
  <2>2. QED
    BY <2>1 DEF Accounts, Kept, Taken
<1>2. QED
  BY <1>1 DEF Accounts, Kept, Taken, Replaced, GaveWay

\* Whoever leaves alone what finished transfers put aside does not disturb a
\* step of undo.
LEMMA StillRestoring ==
  ASSUME HistoryInv, undo' = undo,
         \A k \in Jobs : \A i \in 1..Len(Roots[k]) : job[k].pc = "done" =>
           fs'[Replaced(k, i)] = fs[Replaced(k, i)] /\ fs'[GaveWay(k, i)] = fs[GaveWay(k, i)]
  PROVE  Restoring'
<1> SUFFICES ASSUME undo.at \in {"carry", "fill", "drop"} PROVE Restoring'
  BY DEF Restoring
<1>1. FilesInv /\ Places /\ Restoring
  BY DEF HistoryInv, Accounts
<1>2. undo # NoUndo /\ undo.next \in 1..Len(undo.steps) /\ InHand' = InHand
  BY <1>1 DEF FilesInv, Typed, WindowTyped, NoUndo, InHand
<1>3. InHand.job \in Jobs /\ InHand.root \in 1..Len(Roots[InHand.job]) /\ job[InHand.job].pc = "done"
  BY <1>1, <1>2, InHandWaits
<1>5. Backup(InHand) = Replaced(InHand.job, InHand.root) /\ Displaced(InHand) = GaveWay(InHand.job, InHand.root)
  BY DEF Backup, Displaced, Replaced, GaveWay
<1>6. fs'[Backup(InHand)] = fs[Backup(InHand)] /\ fs'[Displaced(InHand)] = fs[Displaced(InHand)]
  BY <1>3, <1>5
<1>7. QED
  BY <1>1, <1>2, <1>6 DEF Restoring, Taken, Backup, Displaced

\* A thread's step that leaves backups alone, and what is put aside.
LEMMA BackupsAlone ==
  ASSUME HistoryInv, NEW j \in Jobs, Operating(j), Elsewhere(j), Operating(j)',
         job'[j].steps = job[j].steps, job'[j].root \in {job[j].root, job[j].root + 1},
         Swapped(j)' <=> Swapped(j), Swapped(j) => job'[j].root = job[j].root, AsideAlone
  PROVE  Places' /\ Accounts'
<1>1. Places' /\ Waiting' = Waiting
  BY GoesOn DEF HistoryInv, Elsewhere
<1>2. \A k \in Jobs : \A i \in 1..Len(Roots[k]) : HasOwner(k, i)' <=> HasOwner(k, i)
  <2>1. ASSUME NEW k \in Jobs, NEW i \in 1..Len(Roots[k])
        PROVE  Swapped(k)' /\ job'[k].root = i <=> Swapped(k) /\ job[k].root = i
    <3>1. CASE k # j
      BY <3>1 DEF Elsewhere, Swapped
    <3>2. CASE k = j
      BY <3>2
    <3>3. QED
      BY <3>1, <3>2
  <2>2. QED
    BY <1>1, <2>1 DEF HasOwner
<1>3. Restoring'
  BY StillRestoring DEF Elsewhere, AsideAlone
<1>4. \A k \in Jobs : \A i : Swapped(k)' /\ job'[k].root = i => Swapped(k) /\ job[k].root = i
  BY DEF Elsewhere, Swapped
<1>5. QED
  BY <1>1, <1>2, <1>3, <1>4, SameOwners DEF HistoryInv, Elsewhere, AsideAlone

\* Noting an item gives the backup to the step, if there is one.
LEMMA NoteAccounts ==
  ASSUME HistoryInv, NEW j \in Jobs, job[j].pc \in {"place", "fill", "source"}, NEW moved \in BOOLEAN, Note(j, moved),
         AsideAlone
  PROVE  Places' /\ Accounts'
<1> DEFINE new == UndoStep(j, moved)
<1>1. /\ Operating(j) /\ job[j].pc \in Aimed /\ FilesInv /\ Places /\ Accounts
  BY DEF Operating, Aimed, HistoryInv
<1>2. /\ Elsewhere(j) /\ job'[j].pc = "root" /\ job'[j].root = job[j].root + 1
      /\ job'[j].steps = Append(job[j].steps, new) /\ new \in Step
      /\ new.job = j /\ new.root = job[j].root /\ (IsBackup(new) <=> job[j].backed)
  BY <1>1, NoteDoes
<1> HIDE DEF new
<1>3. Places' /\ Waiting' = Waiting \cup {new}
  BY <1>1, <1>2, Noted DEF Elsewhere
<1>4. Swapped(j) <=> job[j].backed
  <2>1. job[j].pc = "place" => ~job[j].backed
    BY <1>1 DEF FilesInv, JobInv, BackupsOf
  <2>2. QED
    BY <2>1 DEF Swapped
<1>5. ASSUME NEW k \in Jobs, NEW i \in 1..Len(Roots[k]) PROVE HasOwner(k, i)' <=> HasOwner(k, i)
  <2>1. HasOwner(k, i)' <=> \/ \E s \in Waiting : IsBackup(s) /\ s.job = k /\ s.root = i
                            \/ IsBackup(new) /\ new.job = k /\ new.root = i
                            \/ Swapped(k)' /\ job'[k].root = i
    BY <1>3 DEF HasOwner
  <2>2. CASE k # j
    BY <1>2, <2>1, <2>2 DEF Elsewhere, HasOwner, Swapped
  <2>3. CASE k = j
    BY <1>2, <1>4, <2>1, <2>3 DEF HasOwner, Swapped
  <2>4. QED
    BY <2>2, <2>3
<1>6. Restoring'
  BY <1>2, StillRestoring DEF Elsewhere, AsideAlone
<1>7. \A k \in Jobs : \A i : Swapped(k)' /\ job'[k].root = i => Swapped(k) /\ job[k].root = i
  BY <1>2 DEF Elsewhere, Swapped
<1>8. QED
  BY <1>1, <1>2, <1>3, <1>5, <1>6, <1>7, SameOwners DEF Elsewhere, AsideAlone

\* A rename between visible paths and stages.
LEMMA RenameElsewhere ==
  ASSUME FilesInv, NEW from, NEW to, Rename(from, to),
         NEW k \in Jobs, NEW i \in 1..Len(Roots[k])
  PROVE  /\ Replaced(k, i) \notin {from, to} => fs'[Replaced(k, i)] = fs[Replaced(k, i)]
         /\ GaveWay(k, i) \notin {from, to} => fs'[GaveWay(k, i)] = fs[GaveWay(k, i)]
BY ReplacedPath DEF Rename, FilesInv, Typed, DiskTyped

\* A removal of something else.
LEMMA RemoveElsewhere ==
  ASSUME NEW ps, RemovePaths(ps), NEW k \in Jobs, NEW i \in 1..Len(Roots[k])
  PROVE  /\ Replaced(k, i) \notin ps => fs'[Replaced(k, i)] = fs[Replaced(k, i)]
         /\ GaveWay(k, i) \notin ps => fs'[GaveWay(k, i)] = fs[GaveWay(k, i)]
BY ReplacedPath DEF RemovePaths

\* Every step of a thread keeps account.
LEMMA WorkerAccounts ==
  ASSUME HistoryInv, NEW j \in Jobs, Worker(j)
  PROVE  Places' /\ Accounts'
<1>1. FilesInv /\ Places /\ Accounts
  BY DEF HistoryInv
<1>2. UNCHANGED fs => AsideAlone
  BY DEF AsideAlone
<1> DEFINE apart(p) == \A k \in Jobs : \A i \in 1..Len(Roots[k]) : Replaced(k, i) # p /\ GaveWay(k, i) # p
<1>3. ASSUME NEW from, NEW to, Rename(from, to), apart(from), apart(to) PROVE AsideAlone
  BY <1>1, <1>3, RenameElsewhere DEF AsideAlone
<1>4. ASSUME NEW p, RemovePaths({p}), apart(p) PROVE AsideAlone
  BY <1>4, RemoveElsewhere DEF AsideAlone
<1>5. apart(Stage(j)) /\ \A p \in Visible : apart(p)
  BY ReplacedPath
<1> HIDE DEF apart
\* The item that is next is where nobody put anything aside.
<1>6. ASSUME Operating(j), AsideAlone, NextRoot(j), ~Swapped(j) PROVE Places' /\ Accounts'
  <2>1. /\ Elsewhere(j) /\ job'[j].pc = "root" /\ job'[j].root = job[j].root + 1 /\ job'[j].steps = job[j].steps
    BY <1>1, <1>6, NextRootDoes
  <2>2. QED
    BY <1>6, <2>1, BackupsAlone DEF Operating, Swapped
<1>7. ASSUME Operating(j), AsideAlone, NEW pc \in LiveStep, Go(j, pc), ~Swapped(j), pc \notin {"fill", "restore", "source"}
      PROVE  Places' /\ Accounts'
  <2>1. /\ Elsewhere(j) /\ job'[j].pc = pc /\ job'[j].root = job[j].root /\ job'[j].steps = job[j].steps
    BY <1>1, <1>7, GoDoes
  <2>2. Operating(j)' /\ ~Swapped(j)'
    BY <1>7, <2>1 DEF Operating, Swapped, LiveStep
  <2>3. QED
    BY <1>7, <2>1, <2>2, BackupsAlone
<1>8. {"root", "report", "staged", "back", "restore", "source"} \subseteq LiveStep
  BY DEF LiveStep, WorkerStep
<1>9. CASE Scan(j) \/ EndOfRoots(j) \/ SkipRoot(j)
  <2>1. Operating(j) /\ ~Swapped(j) /\ AsideAlone
    BY <1>2, <1>9 DEF disk, Scan, EndOfRoots, SkipRoot, AtRoot, At, Operating, Swapped
  <2>2. CASE Scan(j) \/ EndOfRoots(j)
    BY <1>7, <1>8, <2>1, <2>2 DEF Scan, EndOfRoots
  <2>3. CASE SkipRoot(j)
    BY <1>6, <2>1, <2>3 DEF SkipRoot
  <2>4. QED
    BY <1>9, <2>2, <2>3
<1>10. CASE StageRoot(j)
  <2>1. Operating(j) /\ ~Swapped(j) /\ job[j].pc = "root" /\ job[j].root \in 1..Len(Roots[j])
    <3>1. job[j].pc = "root" /\ job[j].root <= Len(Roots[j])
      BY <1>10 DEF StageRoot, AtRoot, At
    <3>2. job[j].root \in 1..(Len(Roots[j]) + 1) /\ Len(Roots[j]) \in Nat
      BY <1>1, <3>1, FilesAssumption DEF FilesInv, Typed, JobsTyped
    <3>3. QED
      BY <3>1, <3>2 DEF Operating, Swapped
  <2>2. Src(j) \in Visible
    BY <2>1, OwnPrivate
  <2>3. ASSUME NEW pc \in {"staged", "copying"}, Take(j, pc), AsideAlone PROVE Places' /\ Accounts'
    <3>1. /\ Elsewhere(j) /\ job'[j].pc = pc /\ job'[j].root = job[j].root /\ job'[j].steps = job[j].steps
      BY <1>1, <2>1, <2>3, TakeDoes
    <3>2. QED
      BY <2>1, <2>3, <3>1, BackupsAlone DEF Operating, Swapped
  <2>4. CASE Rename(Src(j), Stage(j)) /\ Take(j, "staged")
    BY <1>3, <1>5, <2>2, <2>3, <2>4
  <2>5. CASE fs' = [fs EXCEPT ![Stage(j)] = fs[Src(j)]] /\ Take(j, "copying")
    <3>1. AsideAlone
      BY <1>1, <2>5, ReplacedPath DEF AsideAlone, FilesInv, Typed, DiskTyped
    <3>2. QED
      BY <2>3, <2>5, <3>1
  <2>6. CASE UNCHANGED disk /\ NextRoot(j)
    BY <1>2, <1>6, <2>1, <2>6 DEF disk
  <2>7. QED
    BY <1>10, <2>4, <2>5, <2>6 DEF StageRoot
<1>11. CASE CopyEnds(j)
  <2>1. Operating(j) /\ ~Swapped(j)
    BY <1>11 DEF CopyEnds, At, Operating, Swapped
  <2>2. CASE UNCHANGED fs /\ Go(j, "staged")
    BY <1>2, <1>7, <1>8, <2>1, <2>2
  <2>3. CASE RemovePaths({Stage(j)}) /\ NextRoot(j)
    BY <1>4, <1>5, <1>6, <2>1, <2>3
  <2>4. QED
    BY <1>11, <2>2, <2>3 DEF CopyEnds
<1>12. CASE Decide(j)
  <2>1. /\ Operating(j) /\ UNCHANGED disk /\ Elsewhere(j) /\ job[j].pc = "staged"
        /\ job'[j].pc \in {"back", "place", "swap"} /\ job'[j].root = job[j].root
        /\ job'[j].steps = job[j].steps
    BY <1>1, <1>12, DecideDoes
  <2>2. QED
    BY <1>2, <2>1, BackupsAlone DEF disk, Operating, Swapped
<1>13. CASE job[j].pc \in {"place", "swap"} /\ UNCHANGED disk /\ Go(j, "back")
  BY <1>2, <1>7, <1>8, <1>13 DEF disk, Operating, Swapped
<1>14. CASE job[j].pc = "fill" /\ UNCHANGED disk /\ Go(j, "restore")
  <2>1. Operating(j)
    BY <1>14 DEF Operating
  <2>2. /\ Elsewhere(j) /\ job'[j].pc = "restore" /\ job'[j].root = job[j].root
        /\ job'[j].steps = job[j].steps /\ job'[j].backed = job[j].backed
    BY <1>1, <1>14, <2>1, GoDoes
  <2>3. QED
    BY <1>2, <1>14, <2>1, <2>2, BackupsAlone DEF disk, Operating, Swapped
<1>15. CASE job[j].pc \in {"place", "fill"} /\ Commit(j)
  <2>1. job[j].pc \in Aimed /\ Operating(j) /\ job[j].target \in Visible
    BY <1>1, <1>15 DEF Aimed, Operating, FilesInv, Typed, JobsTyped
  <2>2. AsideAlone
    BY <1>3, <1>5, <1>15, <2>1 DEF Commit
  <2>3. CASE Go(j, "source")
    <3>1. /\ Elsewhere(j) /\ job'[j].pc = "source" /\ job'[j].root = job[j].root
          /\ job'[j].steps = job[j].steps /\ job'[j].backed = job[j].backed
      BY <1>1, <2>1, <2>3, GoDoes
    <3>2. job[j].pc = "place" => ~job[j].backed
      BY <1>1 DEF FilesInv, JobInv, BackupsOf
    <3>3. QED
      BY <1>15, <2>1, <2>2, <3>1, <3>2, BackupsAlone DEF Operating, Swapped
  <2>4. CASE Note(j, job[j].op = "move")
    BY <1>15, <2>2, <2>4, NoteAccounts
  <2>5. QED
    BY <1>15, <2>3, <2>4 DEF Commit
<1>16. CASE /\ job[j].pc = "swap" /\ Rename(job[j].target, <<j, job[j].root, "replaced">>)
            /\ job' = [job EXCEPT ![j].pc = "fill", ![j].backed = TRUE] /\ UNCHANGED <<window, ghosts>>
  <2>1. Operating(j) /\ job[j].target \in Visible /\ job[j].root \in 1..Len(Roots[j]) /\ ~Swapped(j)
    BY <1>1, <1>16 DEF Aimed, Staging, Operating, Swapped, FilesInv, Typed, JobsTyped
  <2>2. /\ Elsewhere(j) /\ job'[j].pc = "fill" /\ job'[j].root = job[j].root /\ job'[j].steps = job[j].steps
        /\ job'[j].backed = TRUE
    BY <1>1, <1>16, SwapDoes
  <2>3. Places' /\ Waiting' = Waiting
    BY <1>1, <2>1, <2>2, GoesOn DEF Elsewhere, Operating
  <2>4. fs'[Replaced(j, job[j].root)] # Absent
    <3>1. Replaced(j, job[j].root) \in Paths /\ job[j].target \in Paths /\ fs[job[j].target] # Absent
      BY <1>16, <2>1, ReplacedPath DEF Paths, Rename, Taken
    <3>2. QED
      BY <1>1, <1>16, <3>1 DEF Rename, Replaced, FilesInv, Typed, DiskTyped
  <2>5. ASSUME NEW k \in Jobs, NEW i \in 1..Len(Roots[k]), ~(k = j /\ i = job[j].root)
        PROVE  /\ (HasOwner(k, i)' <=> HasOwner(k, i)) /\ fs'[Replaced(k, i)] = fs[Replaced(k, i)]
               /\ fs'[GaveWay(k, i)] = fs[GaveWay(k, i)]
               /\ Swapped(k)' /\ job'[k].root = i => Swapped(k) /\ job[k].root = i
    <3>1. fs'[Replaced(k, i)] = fs[Replaced(k, i)] /\ fs'[GaveWay(k, i)] = fs[GaveWay(k, i)]
      <4>1. /\ Replaced(k, i) \notin {Replaced(j, job[j].root), job[j].target}
            /\ GaveWay(k, i) \notin {Replaced(j, job[j].root), job[j].target}
        BY <2>1, <2>5, ReplacedPath
      <4>2. QED
        BY <1>1, <1>16, <4>1, RenameElsewhere DEF Replaced
    <3>2. QED
      BY <2>1, <2>2, <2>3, <2>5, <3>1 DEF HasOwner, Swapped, Elsewhere
  <2>6. HasOwner(j, job[j].root)'
    BY <2>2 DEF HasOwner, Swapped
  <2>7. Restoring'
    BY <1>16, <2>2, <2>5, StillRestoring DEF Elsewhere
  <2>8. QED
    BY <1>1, <2>2, <2>3, <2>4, <2>5, <2>6, <2>7, SameOwners DEF Elsewhere
<1>17. CASE Restore(j)
  <2>1. job[j].pc = "restore" /\ Operating(j) /\ job[j].target \in Visible /\ job[j].root \in 1..Len(Roots[j])
    BY <1>1, <1>17 DEF Restore, At, Aimed, Staging, Operating, FilesInv, Typed, JobsTyped
  <2>2. Go(j, "back") /\ Rename(<<j, job[j].root, "replaced">>, job[j].target)
    BY <1>17 DEF Restore
  <2>3. /\ Elsewhere(j) /\ job'[j].pc = "back" /\ job'[j].root = job[j].root /\ job'[j].steps = job[j].steps
    BY <1>1, <2>1, <2>2, GoDoes
  <2>4. Places' /\ Waiting' = Waiting
    BY <1>1, <2>1, <2>3, GoesOn DEF Elsewhere, Operating
  <2>5. fs'[Replaced(j, job[j].root)] = Absent
    <3>1. Replaced(j, job[j].root) \in Paths /\ Replaced(j, job[j].root) # job[j].target
      BY <2>1, ReplacedPath
    <3>2. QED
      BY <1>1, <2>2, <3>1 DEF Rename, Replaced, FilesInv, Typed, DiskTyped
  <2>6. ASSUME NEW k \in Jobs, NEW i \in 1..Len(Roots[k]), ~(k = j /\ i = job[j].root)
        PROVE  /\ (HasOwner(k, i)' <=> HasOwner(k, i)) /\ fs'[Replaced(k, i)] = fs[Replaced(k, i)]
               /\ fs'[GaveWay(k, i)] = fs[GaveWay(k, i)]
               /\ Swapped(k)' /\ job'[k].root = i => Swapped(k) /\ job[k].root = i
    <3>1. fs'[Replaced(k, i)] = fs[Replaced(k, i)] /\ fs'[GaveWay(k, i)] = fs[GaveWay(k, i)]
      <4>1. /\ Replaced(k, i) \notin {Replaced(j, job[j].root), job[j].target}
            /\ GaveWay(k, i) \notin {Replaced(j, job[j].root), job[j].target}
        BY <2>1, <2>6, ReplacedPath
      <4>2. QED
        BY <1>1, <2>2, <4>1, RenameElsewhere DEF Replaced
    <3>2. QED
      BY <2>1, <2>3, <2>4, <2>6, <3>1 DEF HasOwner, Swapped, Elsewhere
  <2>7. ~HasOwner(j, job[j].root)'
    <3>1. \A s \in Waiting : s.job = j => s.root < job[j].root
      BY <1>1, <2>1, WaitingAt
    <3>2. job[j].root \in Nat
      BY <1>1, <2>1, LiveAt
    <3>3. \A s \in Waiting : ~(s.job = j /\ s.root = job[j].root)
      BY <3>1, <3>2
    <3>4. QED
      BY <2>3, <2>4, <3>3 DEF HasOwner, Swapped
  <2>8. Restoring'
    BY <2>1, <2>3, <2>6, StillRestoring DEF Elsewhere
  <2>9. QED
    BY <1>1, <2>3, <2>4, <2>5, <2>6, <2>7, <2>8, SameOwners DEF Elsewhere
<1>18. CASE Back(j)
  <2>1. job[j].pc = "back" /\ Operating(j) /\ ~Swapped(j) /\ job[j].root \in 1..Len(Roots[j])
    BY <1>1, <1>18 DEF Back, At, Staging, Operating, Swapped, FilesInv, Typed, JobsTyped
  <2>2. Src(j) \in Visible
    BY <2>1, OwnPrivate
  <2>3. AsideAlone
    BY <1>3, <1>4, <1>5, <1>18, <2>2 DEF Back
  <2>4. QED
    BY <1>6, <1>18, <2>1, <2>3 DEF Back
<1>19. CASE RemoveSource(j)
  <2>1. job[j].pc = "source" /\ job[j].root \in 1..Len(Roots[j])
    BY <1>1, <1>19 DEF RemoveSource, At, FilesInv, Typed, JobsTyped
  <2>2. Src(j) \in Visible
    BY <2>1, OwnPrivate
  <2>3. AsideAlone /\ \E moved \in BOOLEAN : Note(j, moved)
    BY <1>2, <1>4, <1>5, <1>19, <2>2 DEF RemoveSource, RemoveHalf, disk
  <2>4. QED
    BY <2>1, <2>3, NoteAccounts
<1>20. QED
  BY <1>9, <1>10, <1>11, <1>12, <1>13, <1>14, <1>15, <1>16, <1>17, <1>18, <1>19
     DEF Worker, Place, Swap, Fill, At

\* Steps that are given up take their backups along, and no others.
LEMMA DropAccounts ==
  ASSUME HistoryInv, NEW D \in SUBSET Waiting, Waiting' = Waiting \ D, Drop(D), open' = open, undo'.at = "step",
         \A k \in Jobs : Operating(k) /\ Swapped(k) => Operating(k)',
         \A k \in Jobs : Operating(k)' => job'[k] = job[k]
  PROVE  Accounts'
<1>1. FilesInv /\ Places /\ Accounts
  BY DEF HistoryInv
<1>2. ASSUME NEW k \in Jobs PROVE Swapped(k)' <=> Swapped(k)
  <2>1. Swapped(k) => Operating(k)
    BY DEF Swapped, Operating
  <2>2. Swapped(k)' => Operating(k)'
    BY DEF Swapped, Operating
  <2>3. QED
    BY <2>1, <2>2 DEF Swapped
<1>3. ASSUME NEW k \in Jobs, Swapped(k)' PROVE job'[k] = job[k]
  BY <1>3 DEF Swapped, Operating
<1>4. ASSUME NEW k \in Jobs, NEW i \in 1..Len(Roots[k])
      PROVE  \/ (HasOwner(k, i)' <=> HasOwner(k, i)) /\ fs'[Replaced(k, i)] = fs[Replaced(k, i)]
                /\ fs'[GaveWay(k, i)] = fs[GaveWay(k, i)]
             \/ ~HasOwner(k, i)' /\ fs'[Replaced(k, i)] = Absent
  <2>1. /\ Replaced(k, i) \in Paths /\ fs' = [p \in Paths |-> IF p \in BackupsIn(D) THEN Absent ELSE fs[p]]
        /\ GaveWay(k, i) \in Paths
    BY ReplacedPath DEF Drop, Cleanup, RemovePaths
  <2>2. Replaced(k, i) \in BackupsIn(D) <=> \E s \in D : IsBackup(s) /\ s.job = k /\ s.root = i
    BY DEF BackupsIn, Backup, Replaced
  <2>3. CASE \E s \in D : IsBackup(s) /\ s.job = k /\ s.root = i
    <3>1. PICK s \in D : IsBackup(s) /\ s.job = k /\ s.root = i
      BY <2>3
    <3>2. \A z \in Waiting : z.job = k /\ z.root = i => z \in D
      BY <1>1, <3>1, WaitsOnce
    <3>3. ~(Swapped(k)' /\ job'[k].root = i)
      <4>1. Operating(k) => i < job[k].root /\ job[k].root \in Nat
        BY <1>1, <3>1, WaitingAt, LiveAt
      <4>2. Swapped(k) => Operating(k)
        BY DEF Swapped, Operating
      <4>3. QED
        BY <1>2, <1>3, <4>1, <4>2
    <3>4. ~HasOwner(k, i)'
      BY <3>2, <3>3 DEF HasOwner
    <3>5. QED
      BY <2>1, <2>2, <2>3, <3>4
  <2>4. CASE ~\E s \in D : IsBackup(s) /\ s.job = k /\ s.root = i
    <3>1. HasOwner(k, i)' <=> HasOwner(k, i)
      BY <1>2, <1>3, <2>4 DEF HasOwner
    <3>2. GaveWay(k, i) \notin BackupsIn(D)
      BY DEF BackupsIn, Backup, GaveWay
    <3>3. QED
      BY <2>1, <2>2, <2>4, <3>1, <3>2
  <2>5. QED
    BY <2>3, <2>4
<1>5. \A k \in Jobs : \A i : Swapped(k)' /\ job'[k].root = i => Swapped(k) /\ job[k].root = i
  BY <1>2, <1>3
<1>6. Restoring'
  BY DEF Restoring
<1>7. QED
  BY <1>1, <1>4, <1>5, <1>6, SameOwners

\* A change that a step of undo makes on disk, of what is put aside, concerns its
\* own item.
LEMMA UndoAccounts ==
  ASSUME HistoryInv, NEW at, UndoAt(at), job' = job, open' = open,
         NEW done \in BOOLEAN, Waiting' = IF done THEN Waiting \ {InHand} ELSE Waiting,
         \A p \in UndoPaths \ (Visible \cup {Backup(InHand), Displaced(InHand)}) : fs'[p] = fs[p],
         fs'[Backup(InHand)] \in {fs[Backup(InHand)], Absent},
         done /\ IsBackup(InHand) => fs'[Backup(InHand)] = Absent,
         IsBackup(InHand) => \/ done \/ fs'[Backup(InHand)] # Absent \/ fs'[Displaced(InHand)] # Absent
  PROVE  Kept'
<1>1. FilesInv /\ Places /\ Kept
  BY DEF HistoryInv, Accounts
<1>2. /\ InHand \in Waiting /\ InHand.job \in Jobs /\ InHand.root \in 1..Len(Roots[InHand.job])
      /\ job[InHand.job].pc = "done"
  BY <1>1, StepInHand, InHandWaits DEF UndoAt
<1>3. Backup(InHand) = Replaced(InHand.job, InHand.root) /\ Displaced(InHand) = GaveWay(InHand.job, InHand.root)
  BY DEF Backup, Displaced, Replaced, GaveWay
<1>4. ASSUME NEW k \in Jobs, NEW i \in 1..Len(Roots[k])
      PROVE  /\ Swapped(k)' /\ job'[k].root = i => fs'[Replaced(k, i)] # Absent
             /\ HasOwner(k, i)' => fs'[Replaced(k, i)] # Absent \/ fs'[GaveWay(k, i)] # Absent
             /\ open' = Tabs /\ fs'[Replaced(k, i)] # Absent => HasOwner(k, i)'
  <2>1. HasOwner(k, i)' <=> \/ \E s \in Waiting' : IsBackup(s) /\ s.job = k /\ s.root = i
                            \/ Swapped(k) /\ job[k].root = i
    BY DEF HasOwner, Swapped
  <2>2. CASE k = InHand.job /\ i = InHand.root
    <3>1. ~Swapped(k) /\ ~Swapped(k)'
      BY <1>2, <2>2 DEF Swapped
    <3>2. \A s \in Waiting : s.job = k /\ s.root = i => s = InHand
      BY <1>1, <1>2, <2>2, WaitsOnce
    <3>3. HasOwner(k, i) <=> IsBackup(InHand)
      BY <1>2, <2>2, <3>1, <3>2 DEF HasOwner
    <3>4. HasOwner(k, i)' <=> IsBackup(InHand) /\ ~done
      BY <1>2, <2>1, <2>2, <3>1, <3>2
    <3>5. open = Tabs /\ fs[Replaced(k, i)] # Absent => HasOwner(k, i)
      BY <1>1 DEF Kept, Taken
    <3>6. QED
      BY <1>3, <2>2, <3>1, <3>3, <3>4, <3>5
  <2>3. CASE ~(k = InHand.job /\ i = InHand.root)
    <3>1. HasOwner(k, i)' <=> HasOwner(k, i)
      BY <2>1, <2>3 DEF HasOwner
    <3>2. Replaced(k, i) \in UndoPaths /\ GaveWay(k, i) \in UndoPaths
      BY PrivatePath DEF UndoPaths, Replaced, GaveWay, Private
    <3>3. Replaced(k, i) \notin Visible \cup {Backup(InHand), Displaced(InHand)}
          /\ GaveWay(k, i) \notin Visible \cup {Backup(InHand), Displaced(InHand)}
      BY <1>2, <1>3, <2>3, ReplacedPath
    <3>4. fs'[Replaced(k, i)] = fs[Replaced(k, i)] /\ fs'[GaveWay(k, i)] = fs[GaveWay(k, i)]
      BY <3>2, <3>3
    <3>5. Swapped(k)' /\ job'[k].root = i => Swapped(k) /\ job[k].root = i
      BY DEF Swapped
    <3>6. QED
      BY <1>1, <3>1, <3>4, <3>5 DEF Kept, Taken
  <2>4. QED
    BY <2>2, <2>3
<1>5. QED
  BY <1>4 DEF Kept, Taken, Replaced, GaveWay

\* Where a step of undo looks for what is put aside.
LEMMA AsidePaths ==
  ASSUME FilesInv, NEW at, UndoAt(at)
  PROVE  /\ Backup(InHand) # Displaced(InHand) /\ fs \in [Paths -> Visible \cup {Absent}]
         /\ Visible \subseteq UndoPaths /\ UndoPaths \subseteq Paths
         /\ InHand.dest \in Visible /\ Origin(InHand) \in Visible
         /\ Backup(InHand) \in UndoPaths \ Visible /\ Displaced(InHand) \in UndoPaths \ Visible
BY StepInHand, UndoPath DEF Backup, Displaced, UndoPaths, FilesInv, Typed, DiskTyped

\* Every change that a step of undo makes keeps account of what is put aside.
LEMMA UndoTickAccounts ==
  ASSUME HistoryInv, UndoTick
  PROVE  Places' /\ Accounts'
<1> DEFINE s == InHand
<1>1. FilesInv /\ Places /\ Accounts
  BY DEF HistoryInv
<1>2. PICK at : UndoAt(at)
  BY DEF UndoTick, UndoRemove, UndoMove, UndoCarry, UndoDisplace, UndoFill, UndoDrop, UndoRefused
<1>3. /\ s \in Waiting /\ s.job \in Jobs /\ s.root \in 1..Len(Roots[s.job]) /\ undo.at = at
      /\ undo # NoUndo /\ undo.next \in 1..Len(undo.steps)
      /\ s.kind \in Kind
  BY <1>1, <1>2, StepInHand, InHandWaits DEF UndoAt, Waiting, Step
<1>4. /\ Backup(s) # Displaced(s) /\ fs \in [Paths -> Visible \cup {Absent}]
      /\ Visible \subseteq UndoPaths /\ UndoPaths \subseteq Paths
      /\ s.dest \in Visible /\ Origin(s) \in Visible
      /\ Backup(s) \in UndoPaths \ Visible /\ Displaced(s) \in UndoPaths \ Visible
  BY <1>1, <1>2, AsidePaths
\* What still can be restored, before the step.
<1>5. IsBackup(s) => fs[Backup(s)] # Absent \/ fs[Displaced(s)] # Absent
  <2>1. Backup(s) = Replaced(s.job, s.root) /\ Displaced(s) = GaveWay(s.job, s.root)
    BY DEF Backup, Displaced, Replaced, GaveWay
  <2>2. IsBackup(s) => HasOwner(s.job, s.root)
    BY <1>3 DEF HasOwner
  <2>3. QED
    BY <1>1, <1>3, <2>1, <2>2 DEF Accounts, Kept, Taken
<1> DEFINE rest == \A p \in UndoPaths \ (Visible \cup {Backup(s), Displaced(s)}) : fs'[p] = fs[p]
           same == fs'[Backup(s)] = fs[Backup(s)] /\ fs'[Displaced(s)] = fs[Displaced(s)]
           goes == \E to \in {"carry", "fill", "drop"}, item \in Visible \cup {Absent} : StepGoes(to, item)
<1> HIDE DEF s
<1>6. ASSUME goes \/ StepFails, rest, fs'[Backup(s)] \in {fs[Backup(s)], Absent},
             IsBackup(s) => fs'[Backup(s)] # Absent \/ fs'[Displaced(s)] # Absent
      PROVE  Places' /\ Kept' /\ job' = job
  <2>1. Places' /\ Waiting' = Waiting /\ job' = job
    BY <1>1, <1>2, <1>6, GoesWaits, FailsWaits
  <2>2. UndoOnly
    BY <1>6 DEF StepGoes, StepFails
  <2>3. open' = open
    BY <2>2 DEF UndoOnly
  <2>4. QED
    BY <1>2, <1>6, <2>1, <2>3, UndoAccounts DEF s
<1>7. ASSUME StepDone, rest, fs'[Backup(s)] \in {fs[Backup(s)], Absent},
             IsBackup(s) => fs'[Backup(s)] = Absent
      PROVE  Places' /\ Kept' /\ Restoring'
  <2>1. Places' /\ Waiting' = Waiting \ {s} /\ job' = job /\ undo'.at = "step"
    BY <1>1, <1>2, <1>7, DoneWaits DEF s
  <2>2. UndoOnly
    BY <1>7 DEF StepDone
  <2>3. open' = open
    BY <2>2 DEF UndoOnly
  <2>4. QED
    BY <1>2, <1>7, <2>1, <2>3, UndoAccounts DEF s, Restoring
<1>8. ASSUME StepFails PROVE Restoring'
  BY <1>1, <1>2, <1>8, FailsWaits DEF Restoring
<1>9. ASSUME NEW to \in {"carry", "fill", "drop"}, NEW item \in Visible \cup {Absent}, StepGoes(to, item)
      PROVE  undo'.at = to /\ InHand' = s
  BY <1>1, <1>2, <1>9, GoesWaits DEF s
<1>11. ASSUME NEW to \in {"carry", "fill", "drop"}, NEW item \in Visible \cup {Absent}, StepGoes(to, item),
              s.kind = "restore_move" \/ (s.kind = "move_back" /\ to # "fill")
       PROVE  Restoring'
  BY <1>9, <1>11 DEF Restoring
\* A rename to a name the user sees, or of one, and a removal.
<1>12. ASSUME NEW from \in UndoPaths, NEW to \in UndoPaths, Rename(from, to)
       PROVE  \A p \in UndoPaths : fs'[p] = IF p = to THEN fs[from] ELSE IF p = from THEN Absent ELSE fs[p]
  BY <1>4, <1>12 DEF Rename
<1>13. ASSUME NEW p, RemovePaths({p}) PROVE \A q \in UndoPaths : fs'[q] = IF q = p THEN Absent ELSE fs[q]
  BY <1>4, <1>13 DEF RemovePaths
<1>14. UNCHANGED fs => rest /\ same
  OBVIOUS
<1>15. ASSUME goes \/ StepFails, rest, same PROVE Places' /\ Kept'
  BY <1>5, <1>6, <1>15
<1>16. CASE UndoRemove
  <2>1. s.kind = "remove" /\ ~IsBackup(s)
    BY <1>16 DEF UndoRemove, s, IsBackup
  <2>2. CASE RemovePaths({s.dest}) /\ StepDone
    <3>1. rest /\ same
      BY <1>4, <1>13, <2>2
    <3>2. QED
      BY <1>7, <2>1, <2>2, <3>1 DEF Accounts
  <2>3. CASE RemoveHalf(s.dest) /\ StepFails
    BY <1>8, <1>14, <1>15, <2>3 DEF RemoveHalf, Accounts
  <2>4. QED
    BY <1>16, <2>2, <2>3 DEF UndoRemove, s
<1>17. CASE UndoRefused
  BY <1>8, <1>14, <1>15, <1>17 DEF UndoRefused, disk, Accounts
<1>18. CASE UndoMove
  <2>1. s.kind \in {"move_back", "restore_move"} /\ (s.kind = "move_back" => ~IsBackup(s))
    BY <1>18 DEF UndoMove, s, IsBackup
  <2>2. CASE Rename(s.dest, Origin(s)) /\ ((StepDone /\ s.kind = "move_back") \/ (StepGoes("fill", Absent) /\ s.kind = "restore_move"))
    <3>1. rest /\ same
      BY <1>4, <1>12, <2>2
    <3>2. CASE StepDone /\ s.kind = "move_back"
      BY <1>7, <2>1, <3>1, <3>2 DEF Accounts
    <3>3. CASE StepGoes("fill", Absent) /\ s.kind = "restore_move"
      BY <1>11, <1>15, <3>1, <3>3 DEF Accounts
    <3>4. QED
      BY <2>2, <3>2, <3>3
  <2>3. ASSUME fs' = [fs EXCEPT ![Origin(s)] = fs[s.dest]], NEW item \in Visible \cup {Absent}, StepGoes("carry", item)
        PROVE  Places' /\ Accounts'
    <3>1. rest /\ same
      BY <1>4, <2>3
    <3>2. QED
      BY <1>11, <1>15, <2>1, <2>3, <3>1 DEF Accounts
  <2>4. fs[s.dest] \in Visible \cup {Absent}
    BY <1>4
  <2>5. QED
    BY <1>18, <2>2, <2>3, <2>4 DEF UndoMove, s
<1>19. CASE UndoCarry
  <2>1. s.kind \in {"move_back", "restore_move"} /\ undo.item \in Visible \cup {Absent}
    BY <1>1, <1>2, <1>19, StepInHand DEF Accounts, Restoring, UndoCarry, UndoAt, s
  <2>2. rest /\ same
    BY <1>4, <1>13, <1>14, <1>19 DEF UndoCarry, s
  <2>3. StepGoes("drop", undo.item) \/ StepGoes("drop", Absent) \/ StepFails
    BY <1>19 DEF UndoCarry
  <2>4. QED
    BY <1>8, <1>11, <1>15, <2>1, <2>2, <2>3 DEF Accounts
<1>20. CASE UndoDisplace
  <2>1. fs[Backup(s)] # Absent /\ fs[s.dest] # Absent /\ Rename(s.dest, Displaced(s)) /\ StepGoes("fill", Absent)
    BY <1>20 DEF UndoDisplace, s, Taken
  <2>2. rest /\ fs'[Backup(s)] = fs[Backup(s)] /\ fs'[Displaced(s)] = fs[s.dest]
    BY <1>4, <1>12, <2>1
  <2>3. Restoring'
    <3>1. undo'.at = "fill" /\ InHand' = s /\ s.kind = "restore_copy"
      BY <1>9, <1>20, <2>1 DEF UndoDisplace, s
    <3>2. QED
      BY <2>1, <2>2, <3>1 DEF Restoring, Taken, Backup, Displaced
  <2>4. QED
    BY <1>6, <2>1, <2>2, <2>3 DEF Accounts
<1>21. CASE UndoFill
  <2>1. at = "fill" /\ (s.kind = "restore_copy" => fs[Displaced(s)] # Absent /\ fs[Backup(s)] # Absent)
    BY <1>1, <1>3, <1>21 DEF UndoFill, UndoAt, s, Accounts, Restoring, Taken
  <2>2. CASE Rename(Backup(s), s.dest) /\ (StepDone \/ (s.kind = "restore_copy" /\ StepGoes("drop", s.item)))
    <3>1. rest /\ fs'[Backup(s)] = Absent /\ fs'[Displaced(s)] = fs[Displaced(s)]
      BY <1>4, <1>12, <2>2
    <3>2. CASE s.kind = "restore_copy" /\ StepGoes("drop", s.item)
      <4>1. s.item \in Visible \cup {Absent}
        BY <1>1, <1>2, StepInHand DEF s
      <4>2. Restoring'
        BY <1>9, <2>1, <3>1, <3>2, <4>1 DEF Restoring, Taken, Backup, Displaced
      <4>3. QED
        BY <1>6, <2>1, <3>1, <3>2, <4>1, <4>2 DEF Accounts
    <3>3. CASE StepDone
      BY <1>7, <3>1, <3>3 DEF Accounts
    <3>4. QED
      BY <1>21, <2>2, <3>2, <3>3
  <2>3. CASE s.kind = "restore_copy" /\ Rename(Displaced(s), s.dest) /\ StepFails
    <3>1. rest /\ fs'[Backup(s)] = fs[Backup(s)]
      BY <1>4, <1>12, <2>3
    <3>2. QED
      BY <1>6, <1>8, <2>1, <2>3, <3>1 DEF Accounts
  <2>4. CASE Rename(Origin(s), s.dest) /\ StepFails
    <3>1. rest /\ same
      BY <1>4, <1>12, <2>4
    <3>2. QED
      BY <1>8, <1>15, <2>4, <3>1 DEF Accounts
  <2>5. CASE UNCHANGED disk /\ StepFails
    BY <1>8, <1>14, <1>15, <2>5 DEF disk, Accounts
  <2>6. QED
    BY <1>21, <2>2, <2>3, <2>4, <2>5 DEF UndoFill, s
<1>22. CASE UndoDrop
  <2> DEFINE left == IF s.kind = "restore_copy" THEN Displaced(s) ELSE s.dest
  <2>1. /\ at = "drop" /\ s.kind # "remove" /\ left \in UndoPaths
        /\ s.kind = "restore_copy" => fs[Displaced(s)] # Absent /\ fs[Backup(s)] = Absent
    BY <1>1, <1>3, <1>4, <1>22 DEF UndoDrop, UndoAt, s, Accounts, Restoring, Taken
  <2>2. CASE RemovePaths({left}) /\ s.kind = "restore_move" /\ StepGoes("fill", Absent)
    <3>1. rest /\ same
      BY <1>4, <1>13, <2>2
    <3>2. QED
      BY <1>11, <1>15, <2>2, <3>1 DEF Accounts
  <2>3. CASE RemovePaths({left}) /\ s.kind # "restore_move" /\ StepDone
    <3>1. rest /\ fs'[Backup(s)] = fs[Backup(s)]
      BY <1>4, <1>13, <2>3
    <3>2. IsBackup(s) => s.kind = "restore_copy"
      BY <2>3 DEF IsBackup
    <3>3. QED
      BY <1>7, <2>1, <2>3, <3>1, <3>2 DEF Accounts
  <2>4. CASE UNCHANGED fs /\ StepFails
    BY <1>8, <1>14, <1>15, <2>4 DEF Accounts
  <2>5. QED
    BY <1>22, <2>2, <2>3, <2>4 DEF UndoDrop, s, RemoveHalf
<1>23. QED
  BY <1>16, <1>17, <1>18, <1>19, <1>20, <1>21, <1>22 DEF UndoTick

\* So does everything else the window does.
LEMMA WindowAccounts ==
  ASSUME HistoryInv, FilesInv',
         \/ \E j \in Jobs : \E t \in TabOf[j], op \in Ops[j], policy \in Policies[j] :
             StartTransfer(j, t, op, policy)
         \/ \E j \in Jobs : CancelTransfer(j) \/ Report(j)
         \/ \E tab \in Tabs : BeginUndo(tab) \/ CloseTab(tab)
         \/ UndoEnds \/ CloseWindow
  PROVE  Places' /\ Accounts'
<1>1. FilesInv /\ Places /\ Accounts
  BY DEF HistoryInv
<1>2. CASE \E j \in Jobs : \E t \in TabOf[j], op \in Ops[j], policy \in Policies[j] :
    StartTransfer(j, t, op, policy)
  <2>1. PICK j \in Jobs : \E t, op, policy : StartTransfer(j, t, op, policy)
    BY <1>2
  <2>2. /\ job[j].pc = "idle" /\ UNCHANGED disk /\ UNCHANGED window
        /\ \E new : new.pc = "scan" /\ new.steps = <<>> /\ job' = [job EXCEPT ![j] = new]
    BY <2>1 DEF StartTransfer
  <2>3. /\ \A k \in Jobs \ {j} : job'[k] = job[k]
        /\ job'[j].pc = "scan" /\ job'[j].steps = <<>>
    BY <1>1, <2>2 DEF FilesInv, Typed, JobsTyped
  <2>4. Places' /\ Waiting' = Waiting
    BY <1>1, <2>2, <2>3, GoesOn DEF window, Operating
  <2>5. \A k \in Jobs : \A i : HasOwner(k, i)' <=> HasOwner(k, i)
    BY <2>2, <2>3, <2>4 DEF HasOwner, Swapped
  <2>6. Restoring' /\ \A k \in Jobs : \A i : Swapped(k)' /\ job'[k].root = i => Swapped(k) /\ job[k].root = i
    BY <2>2, <2>3, StillRestoring DEF disk, window, Swapped
  <2>7. QED
    BY <1>1, <2>2, <2>4, <2>5, <2>6, SameOwners DEF disk, window
<1>3. CASE \E j \in Jobs : CancelTransfer(j)
  <2>1. PICK j \in Jobs : CancelTransfer(j)
    BY <1>3
  <2>2. /\ Operating(j) /\ UNCHANGED disk /\ UNCHANGED window
        /\ job' = [job EXCEPT ![j].cancelled = TRUE]
    BY <2>1 DEF CancelTransfer, Active, Operating
  <2>3. /\ \A k \in Jobs \ {j} : job'[k] = job[k]
        /\ job'[j].pc = job[j].pc /\ job'[j].steps = job[j].steps /\ job'[j].root = job[j].root
        /\ job'[j].backed = job[j].backed
    <3>1. job'[j] = [job[j] EXCEPT !.cancelled = TRUE] /\ \A k \in Jobs \ {j} : job'[k] = job[k]
      BY <1>1, <2>2, LiveAt
    <3>2. QED
      BY <1>1, <2>2, <3>1, LiveAt
  <2>4. Places' /\ Waiting' = Waiting
    BY <1>1, <2>2, <2>3, GoesOn DEF window, Operating
  <2>5. \A k \in Jobs : \A i : HasOwner(k, i)' <=> HasOwner(k, i)
    BY <2>3, <2>4 DEF HasOwner, Swapped
  <2>6. Restoring' /\ \A k \in Jobs : \A i : Swapped(k)' /\ job'[k].root = i => Swapped(k) /\ job[k].root = i
    BY <2>2, <2>3, StillRestoring DEF disk, window, Swapped
  <2>7. QED
    BY <1>1, <2>2, <2>4, <2>5, <2>6, SameOwners DEF disk, window
<1>4. CASE \E j \in Jobs : Report(j)
  <2>1. PICK j \in Jobs : Report(j)
    BY <1>4
  <2>2. /\ Places' /\ \E D \in SUBSET Waiting : Waiting' = Waiting \ D /\ Drop(D)
    BY <1>1, <2>1, ReportWaits
  <2>3. /\ job[j].pc = "report" /\ open' = open /\ job'[j].pc = "done" /\ undo'.at = "step"
        /\ \A k \in Jobs \ {j} : job'[k] = job[k]
    BY <1>1, <2>1 DEF Report, At, Free, FilesInv, Typed, JobsTyped
  <2>4. QED
    BY <2>2, <2>3, DropAccounts DEF Operating, Swapped
<1>5. CASE \E tab \in Tabs : BeginUndo(tab)
  <2>1. PICK tab \in Tabs : BeginUndo(tab)
    BY <1>5
  <2>2. Places' /\ Waiting' = Waiting /\ job' = job /\ UNCHANGED disk /\ open' = open
    BY <1>1, <2>1, BeginUndoWaits DEF BeginUndo
  <2>3. \A k, i : HasOwner(k, i)' <=> HasOwner(k, i)
    BY <2>2 DEF HasOwner, Swapped
  <2>4. Restoring'
    BY <1>1, <2>1 DEF BeginUndo, Restoring
  <2>5. QED
    BY <1>1, <2>2, <2>3, <2>4, SameOwners DEF disk, Swapped
<1>6. CASE \E tab \in Tabs : CloseTab(tab)
  <2>1. PICK tab \in Tabs : CloseTab(tab)
    BY <1>6
  <2>2. Places' /\ Waiting' \subseteq Waiting /\ UNCHANGED disk /\ open' # Tabs /\ job' = job
    BY <1>1, <2>1, CloseTabWaits
  <2>3. \A k, i : HasOwner(k, i)' => HasOwner(k, i)
    BY <2>2 DEF HasOwner, Swapped
  <2>4. Restoring'
    BY <2>1, <2>2, StillRestoring DEF CloseTab, disk
  <2>5. QED
    BY <1>1, <2>2, <2>3, <2>4, SameOwners DEF disk, Swapped
<1>7. CASE UndoEnds
  <2>1. /\ Places' /\ \E D \in SUBSET Waiting : Waiting' = Waiting \ D /\ Drop(D)
    BY <1>1, <1>7, UndoEndsWaits
  <2>2. job' = job /\ open' = open /\ undo'.at = "step"
    BY <1>7 DEF UndoEnds, NoUndo
  <2>3. QED
    BY <2>1, <2>2, DropAccounts DEF Operating, Swapped
<1>8. CASE CloseWindow
  <2>1. /\ Places' /\ \E D \in SUBSET Waiting : Waiting' = Waiting \ D /\ Drop(D)
    BY <1>1, <1>8, CloseWindowWaits
  <2>2. job' = job /\ open' = open /\ undo'.at = "step"
    BY <1>8 DEF CloseWindow, Free
  <2>3. QED
    BY <2>1, <2>2, DropAccounts DEF Operating, Swapped
<1>9. QED
  BY <1>2, <1>3, <1>4, <1>5, <1>6, <1>7, <1>8

-----------------------------------------------------------------------------
(* The theorems *)

\* When the window opens nothing waits and nothing was put aside.
LEMMA HistoryInitInv == FilesInit => HistoryInv
<1> SUFFICES ASSUME FilesInit PROVE HistoryInv
  OBVIOUS
<1>1. FilesInv
  BY FilesInitInv
<1>2. undo = NoUndo /\ \A j \in Jobs : job[j] = [pc |-> "idle"]
  BY DEF FilesInit
<1>3. \A t \in Tabs : Len(history[t]) = 0
  BY DEF FilesInit
<1>4. Places
  BY <1>2, <1>3 DEF Places, JobSteps, HistorySteps, UndoSteps, Operating
<1>5. Waiting = {}
  BY <1>2, <1>3 DEF Waiting, AtThread, InHistory, InUndo, Operating
<1>6. ASSUME NEW j \in Jobs, NEW i \in 1..Len(Roots[j]) PROVE ~HasOwner(j, i) /\ ~Swapped(j) /\ ~Taken(Replaced(j, i))
  <2>1. ~HasOwner(j, i) /\ ~Swapped(j)
    BY <1>2, <1>5 DEF HasOwner, Swapped
  <2>2. Replaced(j, i) \in Paths /\ Replaced(j, i) \notin Visible /\ items \subseteq Visible
    BY ReplacedPath, FilesAssumption DEF FilesInit
  <2>3. QED
    BY <2>1, <2>2 DEF FilesInit, Taken
<1>7. QED
  BY <1>1, <1>2, <1>4, <1>6 DEF HistoryInv, Accounts, Kept, Restoring, NoUndo

\* Every step keeps the invariant.
LEMMA HistoryStepInv == HistoryInv /\ [FilesNext]_filesVars => HistoryInv'
<1> SUFFICES ASSUME HistoryInv, [FilesNext]_filesVars PROVE HistoryInv'
  OBVIOUS
<1>1. FilesInv' /\ FilesInv /\ Places /\ Accounts
  BY FilesStepInv DEF HistoryInv
<1>2. CASE UNCHANGED filesVars
  <2>1. UNCHANGED <<disk, job, window>>
    BY <1>2 DEF filesVars
  <2>2. UNCHANGED <<fs, job, history, undo, open>>
    BY <2>1 DEF disk, window
  <2>3. Places' /\ \A s : (InHistory(s)' <=> InHistory(s)) /\ (InUndo(s)' <=> InUndo(s))
    <3>1. JobSteps'
      BY <1>1, <2>2 DEF Places, JobSteps, Operating, StepsOf
    <3>2. QED
      BY <1>1, <2>2, <3>1, SamePlaces
  <2>4. Accounts'
    <3>1. \A s : AtThread(s)' <=> AtThread(s)
      BY <2>2 DEF AtThread, Operating
    <3>2. Waiting' = Waiting
      BY <2>3, <3>1 DEF Waiting
    <3>3. \A k, i : HasOwner(k, i)' <=> HasOwner(k, i)
      BY <2>2, <3>2 DEF HasOwner, Swapped
    <3>4. Restoring' /\ \A k, i : Swapped(k)' /\ job'[k].root = i => Swapped(k) /\ job[k].root = i
      BY <2>2, StillRestoring DEF Swapped
    <3>5. QED
      BY <1>1, <2>2, <3>3, <3>4, SameOwners
  <2>5. QED
    BY <1>1, <2>3, <2>4 DEF HistoryInv
<1>3. CASE \E j \in Jobs : \E t \in TabOf[j], op \in Ops[j], policy \in Policies[j] :
    StartTransfer(j, t, op, policy)
  BY <1>1, <1>3, WindowAccounts DEF HistoryInv
<1>4. CASE \E j \in Jobs : CancelTransfer(j) \/ Worker(j) \/ Report(j)
  BY <1>1, <1>4, WorkerAccounts, WindowAccounts DEF HistoryInv
<1>5. CASE \E t \in Tabs : BeginUndo(t) \/ CloseTab(t)
  BY <1>1, <1>5, WindowAccounts DEF HistoryInv
<1>6. CASE UndoTick \/ UndoEnds \/ CloseWindow
  BY <1>1, <1>6, UndoTickAccounts, WindowAccounts DEF HistoryInv
<1>7. QED
  BY <1>2, <1>3, <1>4, <1>5, <1>6 DEF FilesNext

\* Every step that can be undone waits at one place, and has its backup.
THEOREM HistoryInvariant == FilesSpec => []HistoryInv
<1>1. QED
  BY HistoryInitInv, HistoryStepInv, PTL DEF FilesSpec

\* While the window and its tabs are open, the backups on disk are those an undo
\* can still restore or a thread is about to report or to restore: none is
\* deleted while its record lives, and none outlives it. Only a step whose undo
\* restored the backup and could not remove what it displaced has none.
THEOREM BackupsKept == FilesSpec => []BackupsOwned
<1>1. HistoryInv => BackupsOwned
  <2> SUFFICES ASSUME HistoryInv, open = Tabs PROVE BackupsOwned
    BY DEF BackupsOwned
  <2>1. FilesInv /\ Places /\ Kept
    BY DEF HistoryInv, Accounts
  <2> DEFINE restoring(steps) == {s \in ToSet(steps) : IsBackup(s)}
             kept == UNION {restoring(r.steps) : r \in UNION {ToSet(history[t]) : t \in Tabs}}
             reported == UNION {restoring(job[j].steps) : j \in {k \in Jobs : job[k].pc \notin {"idle", "done"}}}
             inUse == {<<j, job[j].root, "replaced">> : j \in {k \in Jobs : Active(k) /\ job[k].backed}}
             undoing == Backups(undo.steps)
  <2>2. \A steps \in Seq(Step) : \A s : s \in restoring(steps) <=> s \in Step /\ Among(s, steps) /\ IsBackup(s)
    BY DEF ToSet, Among
  <2> HIDE DEF restoring
  <2>3. \A s : s \in kept <=> s \in Waiting /\ InHistory(s) /\ IsBackup(s)
    <3>1. ASSUME NEW t \in Tabs, NEW r
          PROVE  r \in ToSet(history[t]) <=> \E n \in 1..Len(history[t]) : r = history[t][n]
      BY <2>1, RecordAt DEF ToSet
    <3>2. \A t \in Tabs : \A n \in 1..Len(history[t]) : history[t][n].steps \in Seq(Step)
      BY <2>1, RecordAt
    <3>3. \A s : s \in kept <=> \E t \in Tabs : \E r \in ToSet(history[t]) : s \in restoring(r.steps)
      OBVIOUS
    <3> HIDE DEF kept
    <3>4. ASSUME NEW s
          PROVE  s \in kept <=> \E t \in Tabs : \E n \in 1..Len(history[t]) : s \in restoring(history[t][n].steps)
      <4>1. ASSUME s \in kept
            PROVE  \E t \in Tabs : \E n \in 1..Len(history[t]) : s \in restoring(history[t][n].steps)
        <5>1. PICK t \in Tabs : \E r \in ToSet(history[t]) : s \in restoring(r.steps)
          BY <3>3, <4>1
        <5>2. PICK r \in ToSet(history[t]) : s \in restoring(r.steps)
          BY <5>1
        <5>3. PICK n \in 1..Len(history[t]) : r = history[t][n]
          BY <3>1
        <5>4. QED
          BY <5>2, <5>3
      <4>2. ASSUME NEW t \in Tabs, NEW n \in 1..Len(history[t]), s \in restoring(history[t][n].steps)
            PROVE  s \in kept
        <5>1. history[t][n] \in ToSet(history[t])
          BY <3>1
        <5>2. QED
          BY <3>3, <4>2, <5>1
      <4>3. QED
        BY <4>1, <4>2
    <3>5. ASSUME NEW s
          PROVE  s \in kept <=> s \in Step /\ InHistory(s) /\ IsBackup(s)
      <4>1. ASSUME NEW t \in Tabs, NEW n \in 1..Len(history[t])
            PROVE  s \in restoring(history[t][n].steps)
                     <=> s \in Step /\ Among(s, history[t][n].steps) /\ IsBackup(s)
        BY <2>2, <3>2
      <4>2. QED
        BY <3>4, <4>1 DEF InHistory
    <3>6. QED
      BY <3>5 DEF Waiting
  <2>4. \A s : s \in reported <=> s \in Waiting /\ AtThread(s) /\ IsBackup(s)
    <3>1. \A j \in Jobs : Operating(j) => job[j].steps \in Seq(Step)
      BY <2>1, ThreadAt
    <3>2. \A s : s \in reported <=> \E j \in Jobs : Operating(j) /\ s \in restoring(job[j].steps)
      BY DEF Operating
    <3> HIDE DEF reported
    <3>3. ASSUME NEW s
          PROVE  s \in reported <=> s \in Step /\ AtThread(s) /\ IsBackup(s)
      <4>1. ASSUME NEW j \in Jobs, Operating(j)
            PROVE  s \in restoring(job[j].steps) <=> s \in Step /\ Among(s, job[j].steps) /\ IsBackup(s)
        BY <2>2, <3>1, <4>1
      <4>2. QED
        BY <3>2, <4>1 DEF AtThread
    <3>4. QED
      BY <3>3 DEF Waiting
  <2>5. ASSUME NEW s \in Waiting, InUndo(s), IsBackup(s) PROVE Backup(s) \in undoing
    <3>1. undo # NoUndo /\ Among(s, LeftOf(undo)) /\ s \in Step
      BY <2>5 DEF InUndo, Waiting
    <3>2. undo \in Undoing /\ undo.next \in 1..(Len(undo.steps) + 1)
      BY <2>1, <3>1, UndoTyped
    <3>3. Among(s, undo.steps)
      <4>1. PICK a \in 1..Len(LeftOf(undo)) : LeftOf(undo)[a] = s
        BY <3>1 DEF Among
      <4>2. /\ undo.steps \in Seq(Step) /\ Len(undo.steps) \in Nat /\ Len(undo.failed) \in Nat
            /\ Len(LeftOf(undo)) = Len(undo.failed) + (Len(undo.steps) - undo.next + 1)
            /\ LeftOf(undo)[a] = IF a <= Len(undo.failed) THEN undo.failed[a]
                                 ELSE undo.steps[undo.next + a - Len(undo.failed) - 1]
        BY <3>2, LeftAt
      <4>3. CASE a <= Len(undo.failed)
        <5>1. undo.failed[a] = s /\ a \in 1..Len(undo.failed)
          BY <4>1, <4>2, <4>3
        <5>2. QED
          BY <2>1, <3>1, <5>1 DEF Places, UndoSteps
      <4>4. CASE ~(a <= Len(undo.failed))
        <5> DEFINE from == undo.next
                   f == Len(undo.failed)
                   len == Len(undo.steps)
        <5>1. from \in 1..(len + 1) /\ f \in Nat /\ len \in Nat /\ a \in 1..(f + (len - from + 1)) /\ ~(a <= f)
          BY <3>2, <4>1, <4>2, <4>4
        <5> HIDE DEF from, f, len
        <5>2. from + a - f - 1 \in 1..len
          BY <5>1
        <5>3. QED
          BY <4>1, <4>2, <4>4, <5>2 DEF Among, from, f, len
      <4>5. QED
        BY <4>3, <4>4
    <3>4. s \in ToSet(undo.steps)
      BY <3>1, <3>2, <3>3 DEF Undoing, ToSet, Among
    <3>5. QED
      BY <2>5, <3>4 DEF Backups
  <2>6. ASSUME NEW s \in kept \cup reported PROVE Taken(Backup(s)) \/ Taken(Displaced(s))
    <3>1. s \in Waiting /\ IsBackup(s)
      BY <2>3, <2>4, <2>6
    <3>2. /\ s.job \in Jobs /\ s.root \in 1..Len(Roots[s.job])
          /\ Backup(s) = Replaced(s.job, s.root) /\ Displaced(s) = GaveWay(s.job, s.root)
      BY <2>1, <3>1, WaitingAt DEF Backup, Displaced, Replaced, GaveWay
    <3>3. QED
      BY <2>1, <3>1, <3>2 DEF Kept, HasOwner
  <2>7. ASSUME NEW p \in Hidden, p[3] = "replaced", Taken(p)
        PROVE  p \in undoing \cup {Backup(s) : s \in kept \cup reported} \cup inUse
    <3>1. PICK j \in Jobs : \E i \in DOMAIN Roots[j] : p = <<j, i, "replaced">>
      <4>1. PICK j \in Jobs : \E i \in DOMAIN Roots[j], k \in Private : p = <<j, i, k>>
        BY DEF Hidden
      <4>2. QED
        BY <2>7, <4>1
    <3>2. PICK i \in DOMAIN Roots[j] : p = <<j, i, "replaced">>
      BY <3>1
    <3>3. i \in 1..Len(Roots[j]) /\ p = Replaced(j, i)
      BY <3>2, FilesAssumption DEF Replaced
    <3>4. HasOwner(j, i)
      BY <2>1, <2>7, <3>3 DEF Kept
    <3>5. CASE Swapped(j) /\ job[j].root = i
      <4>1. Active(j) /\ job[j].backed
        BY <3>5 DEF Swapped, Active
      <4>2. QED
        BY <3>2, <3>5, <4>1
    <3>6. ASSUME NEW s \in Waiting, IsBackup(s), s.job = j, s.root = i
          PROVE  p \in undoing \cup {Backup(x) : x \in kept \cup reported}
      <4>1. p = Backup(s)
        BY <3>2, <3>6 DEF Backup
      <4>2. AtThread(s) \/ InHistory(s) \/ InUndo(s)
        BY DEF Waiting
      <4>3. QED
        BY <2>3, <2>4, <2>5, <3>6, <4>1, <4>2
    <3>7. QED
      BY <3>4, <3>5, <3>6 DEF HasOwner
  <2>8. QED
    BY <2>6, <2>7 DEF BackupsOwned, restoring
<1>2. QED
  BY <1>1, HistoryInvariant, PTL
===============================================================================
