-------------------------- MODULE RollbackRun_proofs --------------------------
(***************************************************************************)
(* Proofs about RollbackRun, for any number of rollbacks, items, faults    *)
(* and touches of the user.                                                *)
(*                                                                         *)
(* That a completed rollback left nothing in place rests on what a row may *)
(* say (RowsHonest), on the items a rollback is not told of being those    *)
(* whose summary is missing (LoggedKinds), and on how far the rollback has *)
(* come (Progress); that nobody ends it meanwhile rests on its lease, as   *)
(* for an apply run.  IInv collects these.                                 *)
(***************************************************************************)
EXTENDS RollbackRun, TLAPS

\* A rollback nobody has begun has left nothing behind.
UntouchedRuns ==
  \A r \in Run : status[r] = "none" =>
    \A i \in Item : entry[r][i] = "none" /\ rows[r][i] = {} /\ <<r, i>> \notin abandoned

\* A rollback is told of every item but those whose summary was never written.
LoggedKinds == \A i \in Item : i \notin logged => kind[i] = "unlogged"

\* A row that says "success" has its entry, one that says "skipped" has the entry
\* of some rollback.
RowsHonest ==
  \A r \in Run, i \in Item :
    /\ "success" \in rows[r][i] => entry[r][i] = "completed"
    /\ "skipped" \in rows[r][i] => Restored(i)

\* Who marked an open entry as abandoned has ended its rollback as well.
AbandonedEnded ==
  \A r \in Run, i \in Item : Open(r, i) /\ <<r, i>> \in abandoned => status[r] # "running"

\* A living worker's lease has rows for every entry it may change.
LeaseHeld ==
  job.pc # "idle" =>
    /\ lease.run = job.run
    /\ lease.item # 0 =>
         /\ entry[job.run][lease.item] # "none"
         /\ \A i \in Item : Open(job.run, i) => i = lease.item

Acting == {"restore", "check", "delete"}
Working == Acting \cup {"item", "prepare", "save"}

\* While a rollback works its status says so.
RunHeld ==
  job.pc \in Working \cup {"finish"} =>
    /\ lease.item = 0 /\ status[job.run] = "running"
    /\ \A i \in Item : <<job.run, i>> \notin abandoned

\* The rollback has dealt with an item, or cannot know of it.
Undone(r, i) ==
  \/ entry[r][i] = "completed"
  \/ entry[r][i] = "none" /\ (Restored(i) \/ kind[i] = "unlogged")

\* How far a rollback, or a recovery of its entry, has come.
Progress ==
  /\ job.pc \in Working =>
       /\ \A i \in Item \ job.todo : kind[i] = "unlogged" /\ entry[job.run][i] = "none"
       /\ \A i \in Item : i < job.item => entry[job.run][i] = "none"
       /\ ~job.failed => \A i \in Item : i > job.item => Undone(job.run, i)
  /\ job.pc \in Working \ {"item"} => job.item \in job.todo
  /\ job.pc \in {"item", "prepare"} => \A i \in Item : i = job.item => entry[job.run][i] = "none"
  /\ job.pc \in Acting => entry[job.run][job.item] = "begun"
  /\ job.pc = "delete" /\ ~job.late => at[job.item].source = "ours"
  /\ job.pc = "save" =>
       /\ job.result # "none"
       /\ job.result = "success" => entry[job.run][job.item] = "completed"
       /\ job.result = "skipped" => entry[job.run][job.item] = "none" /\ Restored(job.item)
  /\ job.pc = "finish" =>
       /\ job.status \notin {"none", "running"}
       /\ job.status = "completed" => \A i \in Item : Undone(job.run, i)
  /\ job.pc = "recover" => Open(job.run, job.item)

\* What the database says, whoever is at work.
Records ==
  /\ UntouchedRuns
  /\ LoggedKinds
  /\ RowsHonest
  /\ AbandonedEnded
  /\ HonestRollback

IInv ==
  /\ TypeOK
  /\ Records
  /\ LeaseHeld
  /\ RunHeld
  /\ Progress

USE RollbackAssumption DEF Open, Fault, NoFault, files, db, KeepDb, KeepRuns

----------------------------------------------------------------------------
(***************************************************************************)
(* What the shapes of the steps do to the worker and to the tables.        *)
(***************************************************************************)
SameItem ==
  /\ job'.run = job.run /\ job'.item = job.item /\ job'.todo = job.todo
  /\ job'.failed = job.failed

\* Rows keep in which set a worker's fields lie.
LEMMA IdleTyped == Idle \in Job
BY DEF Idle, Job, Pc, Result, Error, RunStatus

\* A worker that goes on keeps what it knows.
LEMMA Goes ==
  ASSUME job \in Job, NEW p \in Pc, Goto(p)
  PROVE  job' \in Job /\ job'.pc = p /\ SameItem /\ job'.status = job.status
BY DEF Job, Goto, SameItem

\* A rollback that is about to end has a status it proposes.
LEMMA Ends ==
  ASSUME job \in Job, NEW s \in RunStatus, NEW n \in 0..2, Ending(s, n)
  PROVE  job' \in Job /\ job'.pc = "finish" /\ job'.run = job.run /\ job'.status = s
<1>1. "finish" \in Pc
  BY DEF Pc
<1> QED BY <1>1, IdleTyped DEF Job, Idle, Ending

\* A result waits to be saved.
LEMMA Results ==
  ASSUME job \in Job, NEW res \in Result, NEW e \in Error, Resulting(res, e)
  PROVE  job' \in Job /\ job'.pc = "save" /\ SameItem /\ job'.result = res
<1>1. "save" \in Pc
  BY DEF Pc
<1> QED BY <1>1 DEF Job, Resulting, SameItem

\* The worker writes its own entry only.
LEMMA Recorded ==
  ASSUME TypeOK, job.run \in Run, job.item \in Item, NEW s \in EntryState, Record(s)
  PROVE  /\ entry' \in [Run -> [Item -> EntryState]]
         /\ \A r \in Run, i \in Item :
              entry'[r][i] = IF r = job.run /\ i = job.item THEN s ELSE entry[r][i]
BY DEF TypeOK, Record

\* Two places of one item change.
LEMMA PutTyped ==
  ASSUME TypeOK, NEW i \in Item, NEW x \in Content, NEW y \in Content, Put(i, x, y)
  PROVE  at' \in [Item -> [Place -> Content]]
BY DEF TypeOK, Put, Place

\* An item that was restored stays so.
LEMMA RestoredStays ==
  ASSUME \A r \in Run, i \in Item : entry[r][i] = "completed" => entry'[r][i] = "completed",
         NEW i \in Item, Restored(i)
  PROVE  Restored(i)'
BY DEF Restored

\* A repair writes rows where there are none, as the entries have it.
LEMMA Summarises ==
  ASSUME TypeOK, WriteSummaries
  PROVE  /\ rows' \in [Run -> [Item -> SUBSET {"success", "skipped", "failed"}]]
         /\ logged' = Item
         /\ \A r \in Run, i \in Item :
              \/ rows'[r][i] = rows[r][i]
              \/ rows[r][i] = {} /\ rows'[r][i] = {"success"} /\ entry[r][i] = "completed"
              \/ rows[r][i] = {} /\ rows'[r][i] = {"failed"} /\ entry[r][i] \in {"failed", "recovery_required"}
<1> DEFINE Row(r, i) == IF rows[r][i] # {} \/ i \notin logged' THEN rows[r][i] ELSE
       CASE entry[r][i] = "completed" -> {"success"}
         [] entry[r][i] \in {"failed", "recovery_required"} -> {"failed"}
         [] OTHER -> {}
<1>1. rows' = [r \in Run |-> [i \in Item |-> Row(r, i)]] /\ logged' = Item
  BY DEF WriteSummaries
<1>2. \A r \in Run, i \in Item :
        \/ Row(r, i) = rows[r][i]
        \/ rows[r][i] = {} /\ Row(r, i) = {"success"} /\ entry[r][i] = "completed"
        \/ rows[r][i] = {} /\ Row(r, i) = {"failed"} /\ entry[r][i] \in {"failed", "recovery_required"}
  OBVIOUS
<1> HIDE DEF Row
<1>3. \A r \in Run, i \in Item : Row(r, i) \in SUBSET {"success", "skipped", "failed"}
  BY <1>2 DEF TypeOK
<1> QED BY <1>1, <1>2, <1>3

\* An outcome "completed" means that each item was restored, whatever the rows of
\* the items without an entry say.
LEMMA OutcomeHonest ==
  ASSUME TypeOK, RowsHonest, WriteSummaries, NEW r \in Run, Outcome(r) = "completed", NEW i \in Item
  PROVE  Restored(i)
<1>1. Observed(r, i) /\ ~Failing(r, i)
  BY DEF Outcome, WriteSummaries
<1>2. CASE entry[r][i] # "none"
  BY <1>1, <1>2 DEF Failing, Restored
<1>3. CASE entry[r][i] = "none"
  <2>1. rows'[r][i] # {} /\ "failed" \notin rows'[r][i]
    BY <1>1, <1>3 DEF Observed, Failing
  <2>2. rows'[r][i] = rows[r][i]
    BY <1>3, Summarises
  <2>3. rows[r][i] \in SUBSET {"success", "skipped", "failed"}
    BY DEF TypeOK
  <2>4. "skipped" \in rows[r][i] \/ "success" \in rows[r][i]
    BY <2>1, <2>2, <2>3
  <2> QED BY <1>3, <2>4 DEF RowsHonest
<1> QED BY <1>2, <1>3

----------------------------------------------------------------------------
\* Before any rollback the files lie as the apply run has left them.
LEMMA InitIInv == Init => IInv
<1> SUFFICES ASSUME Init PROVE IInv
  OBVIOUS
<1>1. at \in [Item -> [Place -> Content]]
  BY DEF Init, Place, Content
<1>2. TypeOK
  <2>1. job \in Job
    BY IdleTyped DEF Init
  <2> QED BY <1>1, <2>1 DEF Init, TypeOK, Idle, NoLease, RunStatus, EntryState
<1>3. Records
  BY DEF Init, Records, UntouchedRuns, LoggedKinds, RowsHonest, AbandonedEnded, HonestRollback
<1>4. LeaseHeld /\ RunHeld /\ Progress
  BY DEF Init, Idle, LeaseHeld, RunHeld, Progress, Working, Acting
<1> QED BY <1>2, <1>3, <1>4 DEF IInv

\* Steps that leave the database alone.
LEMMA RecordsKept ==
  ASSUME Records, UNCHANGED <<kind, logged, entry, rows, status, abandoned>>
  PROVE  Records'
<1>1. UntouchedRuns' /\ LoggedKinds' /\ AbandonedEnded'
  BY DEF Records, UntouchedRuns, LoggedKinds, AbandonedEnded
<1>2. RowsHonest' /\ HonestRollback'
  BY DEF Records, RowsHonest, HonestRollback, Restored, Entries
<1> QED BY <1>1, <1>2 DEF Records

\* An entry of the rollback at work changes, and none that was completed.
LEMMA RecordsRecorded ==
  ASSUME IInv, job.pc \in Working, job.item \in Item, NEW s \in EntryState, Record(s),
         entry[job.run][job.item] # "completed",
         UNCHANGED <<kind, logged, rows, status, abandoned>>
  PROVE  Records'
<1>1. job.run \in Run /\ status[job.run] = "running" /\ \A i \in Item : <<job.run, i>> \notin abandoned
  BY DEF IInv, TypeOK, RunHeld, Working, Acting
<1>2. \A r \in Run, i \in Item :
        entry'[r][i] = IF r = job.run /\ i = job.item THEN s ELSE entry[r][i]
  BY <1>1, Recorded DEF IInv
<1>3. UntouchedRuns' /\ LoggedKinds'
  BY <1>1, <1>2 DEF IInv, Records, UntouchedRuns, LoggedKinds
<1>4. AbandonedEnded'
  BY <1>1, <1>2 DEF IInv, Records, AbandonedEnded
<1>5. \A i \in Item : Restored(i) => Restored(i)'
  BY <1>2, RestoredStays
<1>6. RowsHonest'
  BY <1>1, <1>2, <1>5 DEF IInv, Records, RowsHonest
<1>7. HonestRollback'
  BY <1>1, <1>2, <1>5 DEF IInv, Records, HonestRollback, Entries
<1> QED BY <1>3, <1>4, <1>6, <1>7 DEF Records

\* A status that is overwritten with an outcome tells the truth.
LEMMA OutcomesHonest ==
  ASSUME TypeOK, Records, WriteSummaries, UNCHANGED <<entry, kind>>,
         \A r \in Run : status'[r] = "completed" =>
           \/ status[r] = "completed"
           \/ Outcome(r) = "completed"
           \/ Entries(r) = {} /\ \A i \in Item : Restored(i) \/ kind[i] = "unlogged"
  PROVE  RowsHonest' /\ LoggedKinds' /\ HonestRollback'
<1>1. \A i \in Item : Restored(i)' = Restored(i)
  BY DEF Restored
<1>2. \A r \in Run : Entries(r)' = Entries(r)
  BY DEF Entries
<1>3. RowsHonest'
  BY <1>1, Summarises DEF Records, RowsHonest
<1>4. LoggedKinds'
  BY Summarises DEF LoggedKinds
<1>5. HonestRollback'
  BY <1>1, <1>2, OutcomeHonest DEF Records, HonestRollback
<1> QED BY <1>3, <1>4, <1>5

----------------------------------------------------------------------------
(***************************************************************************)
(* The steps of a rollback.                                                *)
(***************************************************************************)
\* What is known of an item does not change while the entries stay.
LEMMA UndoneKept ==
  ASSUME UNCHANGED <<entry, kind>>
  PROVE  /\ \A i \in Item : Restored(i)' = Restored(i)
         /\ \A r \in Run, i \in Item : entry'[r][i] = entry[r][i]
         /\ \A i \in Item : kind'[i] = kind[i]
BY DEF Restored

\* A step of somebody else takes nothing from the worker.
LEMMA ProgressKept ==
  ASSUME Progress, UNCHANGED <<entry, kind>>, SameItem,
         job'.pc = job.pc, job'.result = job.result, job'.status = job.status,
         job.pc = "delete" /\ ~job'.late => at'[job.item].source = "ours"
  PROVE  Progress'
<1>1. \A i \in Item : Undone(job.run, i)' = Undone(job.run, i)
  BY UndoneKept DEF Undone, SameItem
<1>2. job'.run = job.run /\ job'.item = job.item /\ job'.todo = job.todo /\ job'.failed = job.failed
  BY DEF SameItem
<1>3. entry' = entry /\ kind' = kind /\ job'.pc = job.pc
  OBVIOUS
<1>4. job.pc \in Working =>
        /\ \A i \in Item \ job'.todo : kind'[i] = "unlogged" /\ entry'[job'.run][i] = "none"
        /\ \A i \in Item : i < job'.item => entry'[job'.run][i] = "none"
        /\ ~job'.failed => \A i \in Item : i > job'.item => Undone(job.run, i)'
  BY <1>1, <1>2, <1>3 DEF Progress
<1>5. job.pc = "finish" =>
        /\ job'.status \notin {"none", "running"}
        /\ job'.status = "completed" => \A i \in Item : Undone(job.run, i)'
  BY <1>1 DEF Progress
<1>6. job.pc = "save" =>
       /\ job'.result # "none"
       /\ job'.result = "success" => entry'[job'.run][job'.item] = "completed"
       /\ job'.result = "skipped" => entry'[job'.run][job'.item] = "none" /\ Restored(job.item)'
  BY <1>2, <1>3 DEF Progress, Restored
<1>7. /\ job.pc \in Working \ {"item"} => job'.item \in job'.todo
      /\ job.pc \in {"item", "prepare"} => \A i \in Item : i = job'.item => entry'[job'.run][i] = "none"
      /\ job.pc \in Acting => entry'[job'.run][job'.item] = "begun"
      /\ job.pc = "delete" /\ ~job'.late => at'[job'.item].source = "ours"
      /\ job.pc = "recover" => Open(job.run, job.item)'
  BY <1>2, <1>3 DEF Progress
<1> QED BY <1>3, <1>4, <1>5, <1>6, <1>7 DEF Progress, Working, Acting

\* An item of the loop is passed over, skipped or handed to the journal.
LEMMA NextItemStep ==
  ASSUME IInv, NextItem
  PROVE  IInv'
<1> USE DEF IInv
<1>1. /\ UNCHANGED <<kind, at, touches, logged, entry, rows, status, abandoned, recovery, lease>>
      /\ job.pc = "item" /\ job.item \in Item /\ job \in Job /\ job.run \in Run
      /\ faults' \in 0..MaxFaults
  BY DEF NextItem, TypeOK
<1>2. /\ job.item \notin job.todo => kind[job.item] = "unlogged"
      /\ \A i \in Item : i <= job.item => entry[job.run][i] = "none"
      /\ lease.run = job.run
  BY <1>1 DEF Progress, Working, LeaseHeld, Item
<1>3. /\ job' \in Job /\ job'.run = job.run
      /\ \/ job'.pc = "finish" /\ job'.status = "failed"
         \/ /\ job'.pc = "item" /\ job.item \notin job.todo /\ job'.item = job.item - 1
            /\ job'.todo = job.todo /\ job'.failed = job.failed
         \/ /\ job'.pc = "save" /\ SameItem /\ job.item \in job.todo
            /\ \/ job'.result = "failed"
               \/ job'.result = "skipped" /\ Restored(job.item)
         \/ job'.pc = "prepare" /\ SameItem /\ job.item \in job.todo
  <2>1. CASE job.item \notin job.todo /\ job' = [job EXCEPT !.item = job.item - 1]
    <3>1. job.item - 1 \in 0..Items
      BY <1>1 DEF Item
    <3> QED BY <1>1, <2>1, <3>1 DEF Job
  <2>2. CASE job.item \in job.todo /\ Ending("failed", 1)
    BY <1>1, <2>2, Ends DEF RunStatus
  <2>3. CASE job.item \in job.todo /\ Evidence(job.item) /\ \E res \in {"skipped", "failed"} : Resulting(res, "none")
    BY <1>1, <2>3, Results DEF Result, Error, SameItem, Evidence, Restored
  <2>4. CASE job.item \in job.todo /\ Resulting("failed", "none")
    BY <1>1, <2>4, Results DEF Result, Error, SameItem
  <2>5. CASE job.item \in job.todo /\ Goto("prepare")
    BY <1>1, <2>5, Goes DEF Pc, SameItem
  <2> QED BY <2>1, <2>2, <2>3, <2>4, <2>5 DEF NextItem
<1>4. TypeOK'
  <2>1. job'.pc \in {"prepare", "restore", "check", "delete", "save", "recover"} => job'.item \in Item
    BY <1>1, <1>3 DEF SameItem
  <2> QED BY <1>1, <1>3, <2>1 DEF TypeOK
<1>5. Records'
  BY <1>1, RecordsKept
<1>6. LeaseHeld' /\ RunHeld'
  BY <1>1, <1>2, <1>3 DEF LeaseHeld, RunHeld, Working, Acting
<1>7. Progress'
  <2>1. CASE job'.pc = "finish"
    BY <1>3, <2>1 DEF Progress, Working, Acting
  <2>2. CASE job'.pc = "item"
    <3>1. job'.item = job.item - 1 /\ job'.todo = job.todo /\ job'.failed = job.failed
      BY <1>3, <2>2
    <3>2. /\ \A i \in Item : i < job.item - 1 \/ i = job.item - 1 => i <= job.item
          /\ \A i \in Item : i > job.item - 1 => i > job.item \/ i = job.item
      BY <1>1 DEF Item
    <3>3. Undone(job.run, job.item)
      BY <1>1, <1>2, <1>3, <2>2 DEF Undone, Item
    <3> QED BY <1>1, <1>2, <1>3, <2>2, <3>1, <3>2, <3>3, UndoneKept DEF Progress, Working, Acting, Undone
  <2>3. CASE job'.pc \in {"save", "prepare"}
    <3>1. SameItem /\ job.item \in job.todo
      BY <1>3, <2>3
    <3> QED BY <1>1, <1>2, <1>3, <2>3, <3>1, UndoneKept DEF Progress, Working, Acting, Undone, SameItem, Item
  <2> QED BY <1>3, <2>1, <2>2, <2>3
<1> QED BY <1>4, <1>5, <1>6, <1>7

\* The loop is through: the status follows from what it has dealt with.
LEMMA LastItemStep ==
  ASSUME IInv, LastItem
  PROVE  IInv'
<1> USE DEF IInv
<1>1. /\ UNCHANGED <<kind, at, touches, logged, entry, rows, status, abandoned, recovery, lease>>
      /\ job.pc = "item" /\ job.item = 0 /\ job \in Job /\ job.run \in Run
      /\ faults' \in 0..MaxFaults
  BY DEF LastItem, TypeOK
<1>2. /\ job' \in Job /\ job'.run = job.run /\ job'.pc = "finish"
      /\ job'.status \in {"completed", "partial", "failed"}
      /\ job'.status = "completed" => ~job.failed
  BY <1>1, Ends DEF LastItem, RunStatus
<1>3. TypeOK'
  BY <1>1, <1>2 DEF TypeOK
<1>4. Records'
  BY <1>1, RecordsKept
<1>5. LeaseHeld' /\ RunHeld'
  BY <1>1, <1>2 DEF LeaseHeld, RunHeld, Working, Acting
<1>6. Progress'
  <2>1. \A i \in Item : i > job.item
    BY <1>1 DEF Item
  <2>2. ~job.failed => \A i \in Item : Undone(job.run, i)
    BY <1>1, <2>1 DEF Progress, Working
  <2> QED BY <1>1, <1>2, <2>2, UndoneKept DEF Progress, Working, Acting, Undone
<1> QED BY <1>3, <1>4, <1>5, <1>6

\* The entry changes while the rollback is at its item.
LEMMA EntryStep ==
  ASSUME IInv, job.pc \in Acting \cup {"prepare"},
         NEW s \in EntryState \ {"none"}, Record(s),
         job' \in Job, SameItem,
         \/ job'.pc = "save" /\ job'.result = "failed"
         \/ job'.pc = "save" /\ job'.result = "success" /\ s = "completed"
         \/ job'.pc \in {"restore", "check"} /\ s = "begun",
         at' \in [Item -> [Place -> Content]], faults' \in 0..MaxFaults, KeepRuns
  PROVE  IInv'
<1> USE DEF IInv
<1>1. job.run \in Run /\ job.item \in Item /\ lease.run = job.run /\ entry[job.run][job.item] \in {"begun", "none"}
  BY DEF TypeOK, LeaseHeld, Progress, Acting
<1>2. /\ entry' \in [Run -> [Item -> EntryState]]
      /\ \A r \in Run, i \in Item :
           entry'[r][i] = IF r = job.run /\ i = job.item THEN s ELSE entry[r][i]
  BY <1>1, Recorded
<1>3. TypeOK'
  BY <1>1, <1>2 DEF TypeOK, SameItem, Acting
<1>4. Records'
  BY <1>1, RecordsRecorded DEF Working
<1>5. LeaseHeld' /\ RunHeld'
  BY <1>1 DEF LeaseHeld, RunHeld, SameItem, Working, Acting
<1>6. Progress'
  <2>1. \A i \in Item : i # job.item => entry'[job.run][i] = entry[job.run][i] /\ (Undone(job.run, i) => Undone(job.run, i)')
    <3>1. \A i \in Item : Restored(i) => Restored(i)'
      BY <1>1, <1>2, RestoredStays
    <3>2. \A i \in Item : i # job.item => entry'[job.run][i] = entry[job.run][i]
      BY <1>1, <1>2
    <3>3. ASSUME NEW i \in Item, i # job.item, Undone(job.run, i)
          PROVE  Undone(job.run, i)'
      <4>1. job'.run = job.run /\ entry'[job.run][i] = entry[job.run][i]
        BY <3>2, <3>3 DEF SameItem
      <4> QED BY <3>1, <3>3, <4>1 DEF Undone
    <3> QED BY <3>2, <3>3
  <2>2. \A i \in Item : i < job.item \/ i > job.item => i # job.item
    BY DEF Item
  <2>3. /\ job.item \in job.todo
        /\ \A i \in Item \ job.todo : kind[i] = "unlogged" /\ entry[job.run][i] = "none"
        /\ \A i \in Item : i < job.item => entry[job.run][i] = "none"
        /\ ~job.failed => \A i \in Item : i > job.item => Undone(job.run, i)
    BY DEF Progress, Working, Acting
  <2>4. entry'[job.run][job.item] = s
    BY <1>1, <1>2
  <2> QED BY <1>1, <2>1, <2>2, <2>3, <2>4 DEF Progress, Working, Acting, SameItem
<1> QED BY <1>3, <1>4, <1>5, <1>6

\* The intent is recorded before any file is touched.
LEMMA PrepareStep ==
  ASSUME IInv, Prepare
  PROVE  IInv'
<1> USE DEF IInv
<1>1. /\ UNCHANGED <<kind, at, touches, logged, rows, status, abandoned, recovery, lease>>
      /\ job.pc = "prepare" /\ job.item \in Item /\ job \in Job /\ job.run \in Run
      /\ faults' \in 0..MaxFaults /\ at' \in [Item -> [Place -> Content]]
  BY DEF Prepare, TypeOK
<1>2. CASE Record("begun") /\ \E p \in {"restore", "check"} : Goto(p)
  <2>1. job' \in Job /\ SameItem /\ job'.pc \in {"restore", "check"}
    BY <1>1, <1>2, Goes DEF Pc
  <2> QED BY <1>1, <1>2, <2>1, EntryStep DEF EntryState
<1>3. CASE Resulting("failed", "none") /\ UNCHANGED entry
  <2>1. job' \in Job /\ SameItem /\ job'.pc = "save" /\ job'.result = "failed"
    BY <1>1, <1>3, Results DEF Result, Error
  <2>2. TypeOK'
    BY <1>1, <1>3, <2>1 DEF TypeOK, SameItem
  <2>3. Records'
    BY <1>1, <1>3, RecordsKept
  <2>4. LeaseHeld' /\ RunHeld'
    BY <1>1, <1>3, <2>1 DEF LeaseHeld, RunHeld, SameItem, Working, Acting
  <2>5. Progress'
    BY <1>1, <1>3, <2>1, UndoneKept DEF Progress, Working, Acting, Undone, SameItem
  <2> QED BY <2>2, <2>3, <2>4, <2>5
<1> QED BY <1>2, <1>3 DEF Prepare

\* An entry of which nothing is said stays begun.
LEMMA Unsaid ==
  ASSUME IInv, job.pc \in Acting, UNCHANGED entry
  PROVE  Record("begun")
<1>1. job.run \in Run /\ job.item \in Item /\ entry \in [Run -> [Item -> EntryState]]
  BY DEF IInv, TypeOK, Acting
<1>2. entry[job.run][job.item] = "begun"
  BY DEF IInv, Progress
<1> QED BY <1>1, <1>2 DEF Record

\* The three steps that touch files end with a result, or go on to the deletion.
LEMMA ActStep ==
  ASSUME IInv, Restore \/ (CheckCopy /\ job'.pc = "save") \/ DeleteCopy
  PROVE  IInv'
<1> USE DEF IInv
<1>1. /\ job.pc \in Acting /\ job.item \in Item /\ job \in Job /\ job.run \in Run
      /\ faults' \in 0..MaxFaults
      /\ KeepRuns
  BY DEF Restore, CheckCopy, DeleteCopy, TypeOK, Acting
<1>2. at' \in [Item -> [Place -> Content]]
  <2>1. UNCHANGED at \/ \E x, y \in Content : Put(job.item, x, y)
    BY <1>1 DEF Restore, CheckCopy, DeleteCopy, TypeOK, Content, Place
  <2> QED BY <1>1, <2>1, PutTyped DEF TypeOK
<1>3. \E s \in EntryState \ {"none"}, res \in {"success", "failed"}, e \in Error :
        Record(s) /\ Resulting(res, e) /\ (res = "success" => s = "completed")
  <2>1. CASE Restore
    BY <1>1, <2>1, Unsaid DEF Restore, EntryState, Error
  <2>2. CASE CheckCopy /\ job'.pc = "save"
    <3>1. ~Goto("delete")
      BY <1>1, <2>2, Goes DEF Pc
    <3> QED BY <1>1, <2>2, <3>1, Unsaid DEF CheckCopy, EntryState, Error
  <2>3. CASE DeleteCopy
    BY <1>1, <2>3, Unsaid DEF DeleteCopy, EntryState, Error
  <2> QED BY <2>1, <2>2, <2>3
<1>4. PICK s \in EntryState \ {"none"}, res \in {"success", "failed"}, e \in Error :
        Record(s) /\ Resulting(res, e) /\ (res = "success" => s = "completed")
  BY <1>3
<1>5. job' \in Job /\ SameItem /\ job'.pc = "save" /\ job'.result = res
  BY <1>1, <1>4, Results DEF Result
<1> QED BY <1>1, <1>2, <1>4, <1>5, EntryStep

\* The copy is about to be deleted, and its original was seen.
LEMMA CheckedStep ==
  ASSUME IInv, CheckCopy, job'.pc # "save"
  PROVE  IInv'
<1> USE DEF IInv
<1>1. /\ UNCHANGED <<kind, at, touches, logged, entry, rows, status, abandoned, recovery, lease, faults>>
      /\ job.pc = "check" /\ job.item \in Item /\ job \in Job /\ job.run \in Run
      /\ at[job.item] = [source |-> "ours", target |-> "ours"] /\ Goto("delete")
  BY Results DEF CheckCopy, TypeOK, Result, Error
<1>2. job' \in Job /\ SameItem /\ job'.pc = "delete"
  BY <1>1, Goes DEF Pc
<1>3. TypeOK'
  BY <1>1, <1>2 DEF TypeOK, SameItem
<1>4. Records'
  BY <1>1, RecordsKept
<1>5. LeaseHeld' /\ RunHeld'
  BY <1>1, <1>2 DEF LeaseHeld, RunHeld, SameItem, Working, Acting
<1>6. Progress'
  BY <1>1, <1>2, UndoneKept DEF Progress, Working, Acting, Undone, SameItem
<1> QED BY <1>3, <1>4, <1>5, <1>6

\* The row that is saved is the result of the item.
LEMMA SaveResultStep ==
  ASSUME IInv, SaveResult
  PROVE  IInv'
<1> USE DEF IInv
<1>1. /\ UNCHANGED <<kind, at, touches, logged, entry, status, abandoned, recovery, lease>>
      /\ job.pc = "save" /\ job \in Job /\ job.run \in Run /\ job.item \in Item
      /\ lease.run = job.run /\ status[job.run] = "running"
      /\ faults' \in 0..MaxFaults
  BY DEF SaveResult, TypeOK, LeaseHeld, RunHeld, Working, Acting
<1>2. CASE UNCHANGED rows /\ Ending("recovery_required", 1)
  <2>1. job' \in Job /\ job'.run = job.run /\ job'.pc = "finish" /\ job'.status = "recovery_required"
    BY <1>1, <1>2, Ends DEF RunStatus
  <2>2. TypeOK'
    BY <1>1, <1>2, <2>1 DEF TypeOK
  <2>3. Records'
    BY <1>1, <1>2, RecordsKept
  <2>4. LeaseHeld' /\ RunHeld' /\ Progress'
    BY <1>1, <2>1 DEF LeaseHeld, RunHeld, Progress, Working, Acting
  <2> QED BY <2>2, <2>3, <2>4
<1>3. CASE /\ rows' = [rows EXCEPT ![job.run][job.item] = @ \cup {job.result}]
           /\ IF job.error = "recovery" THEN Ending("recovery_required", 2)
              ELSE job' = [Idle EXCEPT !.pc = "item", !.run = job.run, !.item = job.item - 1,
                             !.todo = job.todo, !.failed = job.failed \/ job.result = "failed"]
  <2>1. /\ job.result \in {"success", "skipped", "failed"}
        /\ job.result = "success" => entry[job.run][job.item] = "completed"
        /\ job.result = "skipped" => entry[job.run][job.item] = "none" /\ Restored(job.item)
    BY <1>1 DEF Progress, Job, Result
  <2>2. /\ rows' \in [Run -> [Item -> SUBSET {"success", "skipped", "failed"}]]
        /\ \A r \in Run, i \in Item :
             rows'[r][i] = IF r = job.run /\ i = job.item THEN rows[r][i] \cup {job.result} ELSE rows[r][i]
    BY <1>1, <1>3, <2>1 DEF TypeOK
  <2>3. /\ job' \in Job /\ job'.run = job.run
        /\ \/ job'.pc = "finish" /\ job'.status = "recovery_required"
           \/ /\ job'.pc = "item" /\ job'.item = job.item - 1 /\ job'.todo = job.todo
              /\ job'.failed = (job.failed \/ job.result = "failed")
    <3>1. CASE job.error = "recovery"
      BY <1>1, <1>3, <3>1, Ends DEF RunStatus
    <3>2. CASE job' = [Idle EXCEPT !.pc = "item", !.run = job.run, !.item = job.item - 1,
                         !.todo = job.todo, !.failed = job.failed \/ job.result = "failed"]
      <4>1. /\ "item" \in Pc /\ job.item - 1 \in 0..Items
            /\ (job.failed \/ job.result = "failed") \in BOOLEAN
        BY <1>1 DEF Pc, Item
      <4> QED BY <1>1, <3>2, <4>1, IdleTyped DEF Job, Idle
    <3> QED BY <1>3, <3>1, <3>2
  <2>4. TypeOK'
    BY <1>1, <2>2, <2>3 DEF TypeOK
  <2>5. UntouchedRuns' /\ LoggedKinds' /\ AbandonedEnded'
    <3>1. UntouchedRuns'
      <4> SUFFICES ASSUME NEW r \in Run, status[r] = "none", NEW i \in Item
                   PROVE  entry[r][i] = "none" /\ rows'[r][i] = {} /\ <<r, i>> \notin abandoned
        BY <1>1 DEF UntouchedRuns
      <4>1. entry[r][i] = "none" /\ rows[r][i] = {} /\ <<r, i>> \notin abandoned
        BY DEF Records, UntouchedRuns
      <4> QED BY <1>1, <2>2, <4>1
    <3>2. LoggedKinds' /\ AbandonedEnded'
      BY <1>1 DEF Records, LoggedKinds, AbandonedEnded
    <3> QED BY <3>1, <3>2
  <2>6. RowsHonest'
    <3> SUFFICES ASSUME NEW r \in Run, NEW i \in Item
                 PROVE  /\ "success" \in rows'[r][i] => entry[r][i] = "completed"
                        /\ "skipped" \in rows'[r][i] => Restored(i)
      BY <1>1, UndoneKept DEF RowsHonest
    <3>1. /\ "success" \in rows[r][i] => entry[r][i] = "completed"
          /\ "skipped" \in rows[r][i] => Restored(i)
      BY DEF Records, RowsHonest
    <3>2. \/ rows'[r][i] = rows[r][i]
          \/ rows'[r][i] = rows[r][i] \cup {job.result} /\ r = job.run /\ i = job.item
      BY <2>2
    <3> QED BY <2>1, <3>1, <3>2
  <2>7. HonestRollback'
    BY <1>1, UndoneKept DEF Records, HonestRollback, Entries
  <2>8. LeaseHeld' /\ RunHeld'
    BY <1>1, <2>3 DEF LeaseHeld, RunHeld, Working, Acting
  <2>9. Progress'
    <3>1. CASE job'.pc = "finish"
      BY <2>3, <3>1 DEF Progress, Working, Acting
    <3>2. CASE job'.pc = "item" /\ job'.item = job.item - 1
      <4>1. /\ \A i \in Item : i < job.item - 1 \/ i = job.item - 1 => i < job.item
            /\ \A i \in Item : i > job.item - 1 => i > job.item \/ i = job.item
        BY <1>1 DEF Item
      <4>2. job.result # "failed" => Undone(job.run, job.item)
        BY <2>1 DEF Undone
      <4>3. /\ \A i \in Item \ job.todo : kind[i] = "unlogged" /\ entry[job.run][i] = "none"
            /\ \A i \in Item : i < job.item => entry[job.run][i] = "none"
            /\ ~job.failed => \A i \in Item : i > job.item => Undone(job.run, i)
        BY <1>1 DEF Progress, Working
      <4>4. ~job'.failed => ~job.failed /\ job.result # "failed"
        BY <2>3, <3>2
      <4>5. ~job'.failed => \A i \in Item : i > job'.item => Undone(job.run, i)
        BY <3>2, <4>1, <4>2, <4>3, <4>4
      <4>6. \A i \in Item : Undone(job.run, i) => Undone(job.run, i)'
        BY <1>1, <2>3, UndoneKept DEF Undone
      <4> QED BY <1>1, <2>3, <3>2, <4>1, <4>3, <4>5, <4>6 DEF Progress, Working, Acting
    <3> QED BY <2>3, <3>1, <3>2
  <2> QED BY <2>4, <2>5, <2>6, <2>7, <2>8, <2>9 DEF Records
<1> QED BY <1>2, <1>3 DEF SaveResult

\* finish_rollback writes the status, or fails and is tried once more.
LEMMA FinishRollbackStep ==
  ASSUME IInv, FinishRollback
  PROVE  IInv'
<1> USE DEF IInv
<1>1. /\ UNCHANGED <<kind, at, touches, entry, abandoned, recovery, lease>>
      /\ job.pc = "finish" /\ job \in Job /\ job.run \in Run /\ lease.run = job.run
      /\ faults' \in 0..MaxFaults
  BY DEF FinishRollback, TypeOK, LeaseHeld
<1>2. ASSUME WriteSummaries, Goto("release"),
             status' = [status EXCEPT ![job.run] =
                          IF job.status # "failed" /\ HasOutcome(job.run) THEN Outcome(job.run)
                                                                         ELSE job.status]
      PROVE  IInv'
  <2> DEFINE s == IF job.status # "failed" /\ HasOutcome(job.run) THEN Outcome(job.run)
                                                                   ELSE job.status
  <2>1. s \in RunStatus \ {"none", "running"}
    <3>1. job.status \in RunStatus \ {"none", "running"}
      BY <1>1 DEF Progress, Job
    <3>2. Outcome(job.run) \in {"completed", "partial"}
      BY DEF Outcome
    <3> QED BY <3>1, <3>2 DEF RunStatus
  <2>2. /\ status' \in [Run -> RunStatus]
        /\ \A r \in Run : status'[r] = IF r = job.run THEN s ELSE status[r]
    BY <1>2, <2>1 DEF TypeOK
  <2>3. job' \in Job /\ SameItem /\ job'.pc = "release"
    BY <1>1, <1>2, Goes DEF Pc
  <2>4. TypeOK'
    BY <1>1, <1>2, <2>2, <2>3, Summarises DEF TypeOK, SameItem
  <2>5. UntouchedRuns'
    BY <1>1, <1>2, <2>1, <2>2, Summarises DEF Records, UntouchedRuns
  <2>6. AbandonedEnded'
    BY <1>1, <2>1, <2>2 DEF Records, AbandonedEnded
  <2>7. RowsHonest' /\ LoggedKinds' /\ HonestRollback'
    <3>1. s = "completed" =>
            \/ Outcome(job.run) = "completed"
            \/ Entries(job.run) = {} /\ \A i \in Item : Restored(i) \/ kind[i] = "unlogged"
      <4> SUFFICES ASSUME job.status = "completed", ~HasOutcome(job.run)
                   PROVE  Entries(job.run) = {} /\ \A i \in Item : Restored(i) \/ kind[i] = "unlogged"
        OBVIOUS
      <4>1. \A i \in Item : Undone(job.run, i)
        BY <1>1 DEF Progress
      <4>2. Entries(job.run) = {}
        BY <4>1 DEF HasOutcome, OpenEntries, Undone
      <4>3. \A i \in Item : Restored(i) \/ kind[i] = "unlogged"
        BY <1>1, <4>1 DEF Undone, Restored
      <4> QED BY <4>2, <4>3
    <3>2. \A r \in Run : status'[r] = "completed" =>
            \/ status[r] = "completed"
            \/ Outcome(r) = "completed"
            \/ Entries(r) = {} /\ \A i \in Item : Restored(i) \/ kind[i] = "unlogged"
      BY <2>2, <3>1
    <3> QED BY <1>1, <1>2, <3>2, OutcomesHonest
  <2>8. LeaseHeld' /\ RunHeld' /\ Progress'
    BY <1>1, <2>3 DEF LeaseHeld, RunHeld, Progress, SameItem, Working, Acting
  <2> QED BY <2>4, <2>5, <2>6, <2>7, <2>8 DEF Records
<1>3. ASSUME UNCHANGED <<logged, rows, status>>,
             IF job.tries > 1 THEN job' = [job EXCEPT !.tries = job.tries - 1]
                              ELSE Goto("release")
      PROVE  IInv'
  <2>1. /\ job' \in Job /\ SameItem
        /\ \/ job'.pc = "finish" /\ job'.status = job.status
           \/ job'.pc = "release"
    <3>1. CASE Goto("release")
      BY <1>1, <3>1, Goes DEF Pc
    <3>2. CASE job.tries > 1 /\ job' = [job EXCEPT !.tries = job.tries - 1]
      <4>1. job.tries - 1 \in 0..2
        BY <1>1, <3>2 DEF Job
      <4> QED BY <1>1, <3>2, <4>1 DEF Job, SameItem
    <3> QED BY <1>3, <3>1, <3>2
  <2>2. TypeOK'
    BY <1>1, <1>3, <2>1 DEF TypeOK, SameItem
  <2>3. Records'
    BY <1>1, <1>3, RecordsKept
  <2>4. LeaseHeld' /\ RunHeld' /\ Progress'
    BY <1>1, <1>3, <2>1, UndoneKept DEF LeaseHeld, RunHeld, Progress, Undone, SameItem, Working, Acting
  <2> QED BY <2>2, <2>3, <2>4
<1> QED BY <1>2, <1>3 DEF FinishRollback

\* A worker that ends, or is ended, leaves its records.
LEMMA ReleaseStep ==
  ASSUME IInv, Release \/ Crash
  PROVE  IInv'
<1> USE DEF IInv
<1>1. /\ UNCHANGED <<kind, at, touches, logged, entry, rows, status, abandoned>>
      /\ job' = Idle /\ recovery' = "none" /\ lease' \in {lease, NoLease}
      /\ faults' \in 0..MaxFaults
  BY DEF Release, Crash, TypeOK
<1>2. TypeOK'
  BY <1>1, IdleTyped DEF TypeOK, Idle
<1>3. Records'
  BY <1>1, RecordsKept
<1>4. LeaseHeld' /\ RunHeld' /\ Progress'
  BY <1>1 DEF Idle, LeaseHeld, RunHeld, Progress, Working, Acting
<1> QED BY <1>2, <1>3, <1>4

\* A rollback begins with the items the database tells it of.
LEMMA BeginStep ==
  ASSUME IInv, NEW r \in Run, Begin(r)
  PROVE  IInv'
<1> USE DEF IInv
<1>1. /\ UNCHANGED <<kind, at, touches, logged, entry, rows, abandoned, recovery, faults>>
      /\ status[r] = "none" /\ status' = [status EXCEPT ![r] = "running"]
      /\ lease' = [run |-> r, item |-> 0]
      /\ \A q \in Run, i \in Item : ~Open(q, i)
  BY DEF Begin, OpenEntries
<1>2. \A q \in Run : status'[q] = IF q = r THEN "running" ELSE status[q]
  BY <1>1 DEF TypeOK
<1>3. job' \in Job /\ job'.pc = "item" /\ job'.run = r /\ job'.item = Items /\ job'.todo = logged
  <2>1. logged \in SUBSET Item /\ "item" \in Pc
    BY DEF TypeOK, Pc
  <2>2. job' = [Idle EXCEPT !.pc = "item", !.run = r, !.todo = logged]
    BY DEF Begin, Loaded
  <2> QED BY <2>1, <2>2, IdleTyped DEF Job, Idle
<1>4. TypeOK'
  <2>1. status' \in [Run -> RunStatus] /\ lease' \in [run : Run, item : Item \cup {0}]
    BY <1>1 DEF TypeOK, RunStatus
  <2> QED BY <1>1, <1>3, <2>1 DEF TypeOK
<1>5. UntouchedRuns' /\ LoggedKinds' /\ AbandonedEnded'
  BY <1>1, <1>2 DEF Records, UntouchedRuns, LoggedKinds, AbandonedEnded
<1>6. RowsHonest'
  BY <1>1, UndoneKept DEF Records, RowsHonest
<1>7. HonestRollback'
  BY <1>1, <1>2, UndoneKept DEF Records, HonestRollback, Entries
<1>8. LeaseHeld'
  BY <1>1, <1>3 DEF LeaseHeld
<1>9. \A i \in Item : entry[r][i] = "none" /\ <<r, i>> \notin abandoned
  BY <1>1 DEF Records, UntouchedRuns
<1>10. RunHeld'
  BY <1>1, <1>2, <1>3, <1>9 DEF RunHeld
<1>11. Progress'
  <2>1. \A i \in Item : ~(i > job'.item)
    BY <1>3 DEF Item
  <2> QED BY <1>1, <1>3, <1>9, <2>1 DEF Progress, Working, Acting, Records, LoggedKinds
<1> QED BY <1>4, <1>5, <1>6, <1>7, <1>8, <1>10, <1>11 DEF Records

----------------------------------------------------------------------------
(***************************************************************************)
(* Recoveries and repairs.                                                 *)
(***************************************************************************)
LEMMA RecoverStep ==
  ASSUME IInv, NEW r \in Run, NEW i \in Item, Recover(r, i)
  PROVE  IInv'
<1> USE DEF IInv
<1>1. /\ UNCHANGED <<kind, at, touches, logged, entry, rows, status, abandoned, faults>>
      /\ Open(r, i) /\ \A k \in Item : Open(r, k) => k = i
      /\ lease' = [run |-> r, item |-> i] /\ recovery' = "running"
  BY DEF Recover, OpenEntries
<1>2. job' \in Job /\ job'.pc = "recover" /\ job'.run = r /\ job'.item = i
  <2>1. "recover" \in Pc /\ i \in 0..Items
    BY DEF Pc, Item
  <2>2. job' = [Idle EXCEPT !.pc = "recover", !.run = r, !.item = i]
    BY DEF Recover
  <2> QED BY <2>1, <2>2, IdleTyped DEF Job, Idle
<1>3. TypeOK'
  <2>1. lease' \in [run : Run, item : Item \cup {0}]
    BY <1>1
  <2> QED BY <1>1, <1>2, <2>1 DEF TypeOK
<1>4. Records'
  BY <1>1, RecordsKept
<1>5. LeaseHeld' /\ RunHeld' /\ Progress'
  BY <1>1, <1>2 DEF LeaseHeld, RunHeld, Progress, Working, Acting
<1> QED BY <1>3, <1>4, <1>5

\* A recovery changes the entry its lease is for, which was open: what was restored
\* is none of its business.
LEMMA RecoverEntryStep ==
  ASSUME IInv, RecoverEntry
  PROVE  IInv'
<1> USE DEF IInv
<1>1. /\ UNCHANGED <<kind, touches, logged, rows, status, recovery, lease, faults>>
      /\ job.pc = "recover" /\ job \in Job /\ job.run \in Run /\ job.item \in Item
      /\ Open(job.run, job.item)
  BY DEF RecoverEntry, TypeOK, Progress
<1>2. job' \in Job /\ SameItem /\ job'.pc = "finish_recovery"
  BY <1>1, Goes DEF RecoverEntry, Pc
<1>3. CASE UNCHANGED <<at, entry, abandoned>>
  <2>1. TypeOK'
    BY <1>1, <1>2, <1>3 DEF TypeOK, SameItem
  <2>2. Records'
    BY <1>1, <1>3, RecordsKept
  <2>3. LeaseHeld' /\ RunHeld' /\ Progress'
    BY <1>1, <1>2, <1>3 DEF LeaseHeld, RunHeld, Progress, SameItem, Working, Acting
  <2> QED BY <2>1, <2>2, <2>3
<1>4. ASSUME NEW s \in {"begun", "completed", "failed", "recovery_required"}, Record(s),
             NEW x \in Content, NEW y \in Content, Put(job.item, x, y),
             abandoned' = abandoned \ {<<job.run, job.item>>}
      PROVE  IInv'
  <2>1. /\ entry' \in [Run -> [Item -> EntryState]]
        /\ \A r \in Run, i \in Item :
             entry'[r][i] = IF r = job.run /\ i = job.item THEN s ELSE entry[r][i]
    <3>1. s \in EntryState
      BY DEF EntryState
    <3> QED BY <1>1, <1>4, <3>1, Recorded
  <2>2. at' \in [Item -> [Place -> Content]]
    BY <1>1, <1>4, PutTyped
  <2>3. TypeOK'
    BY <1>1, <1>2, <1>4, <2>1, <2>2 DEF TypeOK, SameItem
  <2>4. \A i \in Item : Restored(i) => Restored(i)'
    BY <1>1, <2>1, RestoredStays
  <2>5. UntouchedRuns' /\ LoggedKinds'
    BY <1>1, <1>4, <2>1 DEF Records, UntouchedRuns, LoggedKinds
  <2>6. AbandonedEnded'
    BY <1>1, <1>4, <2>1 DEF Records, AbandonedEnded
  <2>7. RowsHonest'
    <3> SUFFICES ASSUME NEW r \in Run, NEW i \in Item
                 PROVE  /\ "success" \in rows[r][i] => entry'[r][i] = "completed"
                        /\ "skipped" \in rows[r][i] => Restored(i)'
      BY <1>1 DEF RowsHonest
    <3>1. /\ "success" \in rows[r][i] => entry[r][i] = "completed"
          /\ "skipped" \in rows[r][i] => Restored(i)
      BY DEF Records, RowsHonest
    <3> QED BY <1>1, <2>1, <2>4, <3>1
  <2>8. HonestRollback'
    BY <1>1, <2>1, <2>4 DEF Records, HonestRollback, Entries
  <2>9. LeaseHeld'
    <3>1. lease.run = job.run /\ (lease.item # 0 => lease.item = job.item)
      BY <1>1 DEF LeaseHeld
    <3>2. entry'[job.run][job.item] # "none"
      BY <1>1, <2>1
    <3>3. lease.item # 0 => \A i \in Item : Open(job.run, i)' => i = lease.item
      BY <1>1, <1>2, <2>1, <3>1 DEF LeaseHeld, SameItem
    <3> QED BY <1>1, <1>2, <3>1, <3>2, <3>3 DEF LeaseHeld, SameItem
  <2>10. RunHeld' /\ Progress'
    BY <1>2 DEF RunHeld, Progress, Working, Acting
  <2> QED BY <2>3, <2>5, <2>6, <2>7, <2>8, <2>9, <2>10 DEF Records
<1> QED BY <1>3, <1>4 DEF RecoverEntry, Content

\* finish_recovery settles the rollback, or leaves it as it is.
LEMMA FinishRecoveryStep ==
  ASSUME IInv, FinishRecovery
  PROVE  IInv'
<1> USE DEF IInv
<1>1. /\ UNCHANGED <<kind, at, touches, entry, abandoned, recovery, lease>>
      /\ job.pc = "finish_recovery" /\ job \in Job /\ job.run \in Run
      /\ faults' \in 0..MaxFaults
  BY DEF FinishRecovery, TypeOK
<1>2. job' \in Job /\ SameItem /\ job'.pc = "release"
  BY <1>1, Goes DEF FinishRecovery, Pc
<1>3. LeaseHeld' /\ RunHeld' /\ Progress'
  BY <1>1, <1>2 DEF LeaseHeld, RunHeld, Progress, SameItem, Working, Acting
<1>4. CASE UNCHANGED <<logged, rows, status>>
  <2>1. TypeOK'
    BY <1>1, <1>2, <1>4 DEF TypeOK, SameItem
  <2>2. Records'
    BY <1>1, <1>4, RecordsKept
  <2> QED BY <1>3, <2>1, <2>2
<1>5. CASE /\ WriteSummaries
           /\ status' = IF ~Open(job.run, job.item) /\ Settles(job.run)
                        THEN [status EXCEPT ![job.run] = Outcome(job.run)] ELSE status
  <2>1. /\ status' \in [Run -> RunStatus]
        /\ \A r \in Run : \/ status'[r] = status[r]
                          \/ /\ status'[r] = Outcome(r) /\ Outcome(r) \in {"completed", "partial"}
                             /\ status[r] # "none"
    BY <1>1, <1>5 DEF TypeOK, Outcome, RunStatus, Settles
  <2>2. TypeOK'
    BY <1>1, <1>2, <1>5, <2>1, Summarises DEF TypeOK, SameItem
  <2>3. UntouchedRuns'
    BY <1>1, <1>5, <2>1, Summarises DEF Records, UntouchedRuns
  <2>4. AbandonedEnded'
    BY <1>1, <2>1 DEF Records, AbandonedEnded
  <2>5. RowsHonest' /\ LoggedKinds' /\ HonestRollback'
    BY <1>1, <1>5, <2>1, OutcomesHonest
  <2> QED BY <1>3, <2>2, <2>3, <2>4, <2>5 DEF Records
<1> QED BY <1>4, <1>5 DEF FinishRecovery

\* Another process opens the database: it ends no rollback whose lease it finds.
LEMMA ReopenStep ==
  ASSUME IInv, Reopen
  PROVE  IInv'
<1> USE DEF IInv
<1>1. /\ UNCHANGED <<kind, at, touches, entry, job, faults>>
      /\ WriteSummaries
      /\ lease' = RemainingLease
      /\ recovery' \in {recovery, "completed", "recovery_required"}
  BY DEF Reopen
<1>2. \A r \in Run, i \in Item :
        <<r, i>> \in abandoned' <=>
          <<r, i>> \in abandoned \/ (Open(r, i) /\ ~Covers(RemainingLease, r, i))
  BY DEF Reopen
<1>3. \A r \in Run :
        \/ status'[r] = status[r] /\ (status[r] = "running" => ~\E i \in Item : Open(r, i) /\ <<r, i>> \in abandoned')
        \/ status'[r] = Outcome(r) /\ Settles(r) /\ \A i \in Entries(r) : ~Covers(RemainingLease, r, i)
        \/ /\ status'[r] = "recovery_required" /\ status[r] = "running"
           /\ \E i \in Item : Open(r, i) /\ <<r, i>> \in abandoned'
  BY DEF Reopen
<1>4. \A r \in Run : Outcome(r) \in {"completed", "partial"}
  BY DEF Outcome
<1>5. TypeOK'
  <2>1. status' \in [Run -> RunStatus]
    <3>1. \A r \in Run : status'[r] \in RunStatus
      BY <1>3, <1>4 DEF TypeOK, RunStatus
    <3>2. status' = [r \in Run |-> status'[r]]
      BY DEF Reopen
    <3> QED BY <3>1, <3>2
  <2>2. abandoned' \subseteq Run \X Item
    BY DEF Reopen, TypeOK
  <2>3. lease' = NoLease \/ lease' \in [run : Run, item : Item \cup {0}]
    BY <1>1 DEF RemainingLease, TypeOK
  <2> QED BY <1>1, <2>1, <2>2, <2>3, Summarises DEF TypeOK
<1>6. UntouchedRuns'
  <2> SUFFICES ASSUME NEW r \in Run, status'[r] = "none", NEW i \in Item
               PROVE  entry[r][i] = "none" /\ rows'[r][i] = {} /\ <<r, i>> \notin abandoned'
    BY <1>1 DEF UntouchedRuns
  <2>1. status[r] = "none"
    BY <1>3, <1>4
  <2>2. entry[r][i] = "none" /\ rows[r][i] = {} /\ <<r, i>> \notin abandoned
    BY <2>1 DEF Records, UntouchedRuns
  <2> QED BY <1>1, <1>2, <2>2, Summarises
<1>7. AbandonedEnded'
  BY <1>1, <1>3, <1>4 DEF AbandonedEnded
<1>8. RowsHonest' /\ LoggedKinds' /\ HonestRollback'
  BY <1>1, <1>3, OutcomesHonest
<1>9. LeaseHeld'
  BY <1>1 DEF LeaseHeld, RemainingLease
<1>10. RunHeld'
  <2> SUFFICES ASSUME job.pc \in Working \cup {"finish"}
               PROVE  /\ lease'.item = 0 /\ status'[job.run] = "running"
                      /\ \A i \in Item : <<job.run, i>> \notin abandoned'
    BY <1>1 DEF RunHeld
  <2>1. job.run \in Run /\ RemainingLease = lease /\ \A i \in Item : Covers(lease, job.run, i)
    BY DEF TypeOK, RemainingLease, LeaseHeld, RunHeld, Covers, Working, Acting
  <2>2. \A i \in Item : <<job.run, i>> \notin abandoned'
    BY <1>2, <2>1 DEF RunHeld
  <2>3. status'[job.run] = "running"
    <3>1. ~(Settles(job.run) /\ \A i \in Entries(job.run) : ~Covers(RemainingLease, job.run, i))
      BY <2>1 DEF Settles, HasOutcome, Entries
    <3>2. status[job.run] = "running"
      BY DEF RunHeld
    <3>3. ~\E i \in Item : Open(job.run, i) /\ <<job.run, i>> \in abandoned'
      BY <2>2
    <3>4. \/ status'[job.run] = status[job.run]
          \/ Settles(job.run) /\ \A i \in Entries(job.run) : ~Covers(RemainingLease, job.run, i)
          \/ \E i \in Item : Open(job.run, i) /\ <<job.run, i>> \in abandoned'
      BY <1>3, <2>1
    <3> QED BY ONLY <3>1, <3>2, <3>3, <3>4
  <2> QED BY <1>1, <2>1, <2>2, <2>3 DEF RunHeld
<1>11. Progress'
  BY <1>1, ProgressKept DEF SameItem, Progress
<1> QED BY <1>5, <1>6, <1>7, <1>8, <1>9, <1>10, <1>11 DEF Records

\* The user may touch what the program has yet to look at; a copy about to be
\* deleted may lose its original only then.
LEMMA TouchStep ==
  ASSUME IInv, NEW i \in Item, NEW p \in Place, Touch(i, p)
  PROVE  IInv'
<1> USE DEF IInv
<1>1. /\ UNCHANGED <<kind, logged, entry, rows, status, abandoned, recovery, lease, faults>>
      /\ touches' \in 0..MaxTouches /\ job \in Job
  BY DEF Touch, TypeOK
<1>2. PICK c \in {"none", "other"} : at' = [at EXCEPT ![i][p] = c]
  BY DEF Touch
<1>3. at' \in [Item -> [Place -> Content]]
  BY <1>2 DEF TypeOK, Content
<1>4. /\ job' \in Job /\ SameItem /\ job'.pc = job.pc /\ job'.result = job.result /\ job'.status = job.status
      /\ job'.late = job.late \/ job'.late
      /\ job.pc = "delete" /\ ~job'.late => ~job.late /\ i # job.item
  BY <1>1 DEF Touch, Job, SameItem
<1>5. TypeOK'
  BY <1>1, <1>3, <1>4 DEF TypeOK, SameItem
<1>6. Records'
  BY <1>1, RecordsKept
<1>7. LeaseHeld' /\ RunHeld'
  BY <1>1, <1>4 DEF LeaseHeld, RunHeld, SameItem
<1>8. Progress'
  <2>1. job.pc = "delete" /\ ~job'.late => at'[job.item].source = "ours"
    BY <1>2, <1>4 DEF TypeOK, Progress
  <2> QED BY <1>1, <1>4, <2>1, ProgressKept
<1> QED BY <1>5, <1>6, <1>7, <1>8

----------------------------------------------------------------------------
\* No step leads out of the invariant.
LEMMA Inductive ==
  ASSUME IInv, [Next]_vars
  PROVE  IInv'
<1>1. CASE UNCHANGED vars
  <2>1. Records'
    BY <1>1, RecordsKept DEF vars, IInv
  <2>2. LeaseHeld' /\ RunHeld'
    BY <1>1 DEF vars, IInv, LeaseHeld, RunHeld
  <2>3. Progress'
    BY <1>1, ProgressKept DEF vars, IInv, SameItem, Progress
  <2>4. TypeOK'
    BY <1>1 DEF vars, IInv, TypeOK
  <2> QED BY <2>1, <2>2, <2>3, <2>4 DEF IInv
<1>2. CASE Work
  BY <1>2, NextItemStep, PrepareStep, ActStep, CheckedStep, SaveResultStep, LastItemStep,
     FinishRollbackStep, ReleaseStep, RecoverEntryStep, FinishRecoveryStep DEF Work
<1>3. CASE Crash \/ Reopen
  BY <1>3, ReleaseStep, ReopenStep
<1>4. CASE \E r \in Run : Begin(r) \/ \E i \in Item : Recover(r, i)
  BY <1>4, BeginStep, RecoverStep
<1>5. CASE \E i \in Item, p \in Place : Touch(i, p)
  BY <1>5, TouchStep
<1> QED BY <1>1, <1>2, <1>3, <1>4, <1>5 DEF Next

\* Every reachable state satisfies the invariant.
THEOREM Invariance == Spec => []IInv
<1>1. Init => IInv
  BY InitIInv
<1>2. IInv /\ [Next]_vars => IInv'
  BY Inductive
<1> QED BY <1>1, <1>2, PTL DEF Spec

\* Tables, files, lease and worker always hold values of their types, whatever
\* fails, dies or is touched meanwhile.
THEOREM TypeCorrect == Spec => []TypeOK
<1>1. IInv => TypeOK
  BY DEF IInv
<1> QED BY <1>1, Invariance, PTL

\* A rollback recorded as completed has undone all there was, though its entries,
\* its rows and its status may each have been written by someone else.
THEOREM Honest == Spec => []HonestRollback
<1>1. IInv => HonestRollback
  BY DEF IInv, Records
<1> QED BY <1>1, Invariance, PTL

\* Of a copy beside its source, the last one is never deleted, unless the user
\* takes the other away after the program's last look.
THEOREM OriginalSafe == Spec => OriginalKept
<1> DEFINE A == \A i \in Item :
       (DeleteCopy /\ at[i].target = "ours" /\ at'[i].target # "ours")
          => at[i].source = "ours" \/ job.late
<1>1. ASSUME IInv, [Next]_vars PROVE A
  <2> SUFFICES ASSUME NEW i \in Item, DeleteCopy, at'[i] # at[i], ~job.late
               PROVE  at[i].source = "ours"
    OBVIOUS
  <2>1. i = job.item
    BY <1>1 DEF DeleteCopy, Put, IInv, TypeOK
  <2> QED BY <1>1, <2>1 DEF DeleteCopy, IInv, Progress
<1>2. IInv /\ [Next]_vars => [A]_vars
  BY <1>1
<1> QED BY <1>2, Invariance, PTL DEF Spec, OriginalKept
=============================================================================
