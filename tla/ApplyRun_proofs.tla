--------------------------- MODULE ApplyRun_proofs ---------------------------
(***************************************************************************)
(* Proofs about ApplyRun, for any number of runs, items and faults.        *)
(*                                                                         *)
(* A run may only complete an item nobody has completed, because nothing   *)
(* was open when it began (LiveOnce, RunAlone), and a summary may only say *)
(* what its entry says, because a worker writes one for the item it is at  *)
(* and a repair only where there is none (Progress, SkippedUntouched).     *)
(* That no repair ends a run behind its worker's back rests on the lease   *)
(* (LeaseHeld).  IInv collects these.                                      *)
(***************************************************************************)
EXTENDS ApplyRun, FiniteSetTheorems, TLAPS

\* Entries that may still be, or have been, completed.
Live(r, i) == Open(r, i) \/ journal[r][i] = "completed"

\* An item is worked on or done in one run at most.
LiveOnce ==
  \A q, r \in Run, i \in Item : Live(q, i) /\ Live(r, i) => q = r

\* A run nobody has begun has left nothing behind.
UntouchedRuns ==
  \A r \in Run : status[r] = "none" =>
    \A i \in Item : journal[r][i] = "none" /\ log[r][i] = "none" /\ <<r, i>> \notin abandoned

\* A living worker's lease has rows for every entry it may change.
LeaseHeld ==
  job.pc # "idle" =>
    /\ lease.run = job.run
    /\ lease.item # 0 =>
         /\ journal[job.run][lease.item] # "none"
         /\ \A i \in Item : Open(job.run, i) => i = lease.item

\* Who marked an open entry as abandoned has ended its run as well.
AbandonedEnded ==
  \A r \in Run, i \in Item : Open(r, i) /\ <<r, i>> \in abandoned => status[r] # "running"

\* While a run works, no other run has an open entry, and what the others have
\* completed it knew when it began.
RunAlone ==
  job.pc \in {"item", "prepare", "move", "save", "finish"} =>
    /\ lease.item = 0 /\ status[job.run] = "running"
    /\ \A i \in Item : <<job.run, i>> \notin abandoned
    /\ \A q \in Run \ {job.run}, i \in Item :
         ~Open(q, i) /\ (journal[q][i] = "completed" => i \in job.done)

\* How far a run has come: the items before the current one have their summaries,
\* those after it have no trace.
Progress ==
  /\ job.pc \in {"item", "prepare"} =>
       \A i \in Item : i >= job.item => journal[job.run][i] = "none" /\ log[job.run][i] = "none"
  /\ job.pc \in {"move", "save"} =>
       \A i \in Item : i > job.item => journal[job.run][i] = "none" /\ log[job.run][i] = "none"
  /\ job.pc \in {"item", "prepare", "move", "save"} =>
       \A i \in Item : i < job.item =>
         log[job.run][i] # "none" /\ (Open(job.run, i) => log[job.run][i] = "failed")
  /\ job.pc = "prepare" => job.item \notin job.done
  /\ job.pc = "move" => journal[job.run][job.item] = "begun"
  /\ job.pc = "save" =>
       /\ job.result # "none"
       /\ job.result = "success" => journal[job.run][job.item] = "completed"
       /\ job.result = "skipped" => journal[job.run][job.item] = "none"
       /\ Open(job.run, job.item) => job.result = "failed"
  /\ job.pc = "finish" =>
       /\ job.status \notin {"none", "running"}
       /\ job.status = "completed" =>
            \A i \in Item : log[job.run][i] \in {"success", "skipped"} /\ ~Open(job.run, i)
  /\ job.pc = "recover" => Open(job.run, job.item)

\* What was skipped was never begun.
SkippedUntouched ==
  \A r \in Run, i \in Item : log[r][i] = "skipped" => journal[r][i] = "none"

\* What the database says, whoever is at work.
Records ==
  /\ LiveOnce
  /\ UntouchedRuns
  /\ AbandonedEnded
  /\ SkippedUntouched
  /\ SummaryBacked
  /\ HonestSuccess

IInv ==
  /\ TypeOK
  /\ Records
  /\ LeaseHeld
  /\ RunAlone
  /\ Progress

USE RunAssumption DEF Open, Fault, NoFault, dbVars, KeepDb

----------------------------------------------------------------------------
(***************************************************************************)
(* What the shapes of the steps do to the worker and to the tables.        *)
(***************************************************************************)
SameItem == job'.run = job.run /\ job'.item = job.item /\ job'.done = job.done

\* What the tables hold for a row of a run.
LEMMA Tables ==
  ASSUME TypeOK
  PROVE  \A r \in Run, i \in Item : journal[r][i] \in EntryState /\ log[r][i] \in Result
<1>1. journal \in [Run -> [Item -> EntryState]] /\ log \in [Run -> [Item -> Result]]
  BY DEF TypeOK
<1> QED BY <1>1

\* A worker that goes on keeps what it knows.
LEMMA Goes ==
  ASSUME job \in Job, NEW p \in Pc, Goto(p)
  PROVE  /\ job' \in Job /\ job'.pc = p /\ SameItem
         /\ job'.result = job.result /\ job'.status = job.status
BY DEF Job, Goto, SameItem

\* A run that is about to end has a status it proposes.
LEMMA Ends ==
  ASSUME job \in Job, NEW s \in RunStatus, NEW n \in 0..2, Ending(s, n)
  PROVE  job' \in Job /\ job'.pc = "finish" /\ SameItem /\ job'.status = s
<1>1. "finish" \in Pc
  BY DEF Pc
<1> QED BY <1>1 DEF Job, Ending, SameItem

\* A result waits to be saved.
LEMMA Results ==
  ASSUME job \in Job, NEW res \in Result, NEW e \in Error, Resulting(res, e)
  PROVE  job' \in Job /\ job'.pc = "save" /\ SameItem /\ job'.result = res
<1>1. "save" \in Pc
  BY DEF Pc
<1> QED BY <1>1 DEF Job, Resulting, SameItem

\* The worker writes its own entry only.
LEMMA Writes ==
  ASSUME TypeOK, job.run \in Run, job.item \in Item, NEW s \in EntryState,
         journal' = [journal EXCEPT ![job.run][job.item] = s]
  PROVE  /\ journal' \in [Run -> [Item -> EntryState]]
         /\ \A r \in Run, i \in Item :
              journal'[r][i] = IF r = job.run /\ i = job.item THEN s ELSE journal[r][i]
BY DEF TypeOK

\* A repair writes summaries where there are none, as the entries have it.
LEMMA Summarises ==
  ASSUME TypeOK, WriteSummaries
  PROVE  /\ log' \in [Run -> [Item -> Result]]
         /\ \A r \in Run, i \in Item :
              /\ log'[r][i] = Summary(r, i)
              /\ log[r][i] # "none" => log'[r][i] = log[r][i]
              /\ log[r][i] = "none" =>
                   \/ log'[r][i] = "none" /\ journal[r][i] \in {"none", "begun"}
                   \/ log'[r][i] = "success" /\ journal[r][i] = "completed"
                   \/ log'[r][i] = "failed" /\ journal[r][i] \in {"failed", "recovery_required"}
<1>1. \A r \in Run, i \in Item : log'[r][i] = Summary(r, i)
  BY DEF WriteSummaries
<1>2. \A r \in Run, i \in Item : Summary(r, i) \in Result
  BY DEF TypeOK, Summary, Result
<1>3. log' \in [Run -> [Item -> Result]]
  BY <1>2 DEF WriteSummaries
<1>4. ASSUME NEW r \in Run, NEW i \in Item
      PROVE  /\ log[r][i] # "none" => Summary(r, i) = log[r][i]
             /\ log[r][i] = "none" =>
                  \/ Summary(r, i) = "none" /\ journal[r][i] \in {"none", "begun"}
                  \/ Summary(r, i) = "success" /\ journal[r][i] = "completed"
                  \/ Summary(r, i) = "failed" /\ journal[r][i] \in {"failed", "recovery_required"}
  <2>1. journal[r][i] \in EntryState
    BY DEF TypeOK
  <2> QED BY <2>1 DEF Summary, EntryState
<1>5. ASSUME NEW r \in Run, NEW i \in Item
      PROVE  /\ log'[r][i] = Summary(r, i)
             /\ log[r][i] # "none" => log'[r][i] = log[r][i]
             /\ log[r][i] = "none" =>
                  \/ log'[r][i] = "none" /\ journal[r][i] \in {"none", "begun"}
                  \/ log'[r][i] = "success" /\ journal[r][i] = "completed"
                  \/ log'[r][i] = "failed" /\ journal[r][i] \in {"failed", "recovery_required"}
  <2>1. log'[r][i] = Summary(r, i)
    BY <1>1
  <2> QED BY <1>4, <2>1
<1> QED BY <1>3, <1>5

\* An outcome "completed" means that each item was moved, or skipped untouched.
LEMMA OutcomeHonest ==
  ASSUME TypeOK, SummaryBacked, SkippedUntouched, NEW r \in Run, Outcome(r) = "completed",
         NEW i \in Item
  PROVE  journal[r][i] = "completed" \/ (journal[r][i] = "none" /\ Summary(r, i) = "skipped")
BY DEF TypeOK, SummaryBacked, SkippedUntouched, Outcome, Entries, Summary, Result, EntryState

----------------------------------------------------------------------------
\* Before anything has been begun there is nothing to relate.
LEMMA InitIInv == Init => IInv
<1> SUFFICES ASSUME Init PROVE IInv
  OBVIOUS
<1>1. Idle \in Job
  BY DEF Idle, Job, Pc, Result, Error, RunStatus, Item
<1>2. TypeOK
  BY <1>1 DEF Init, TypeOK, Idle, NoLease, RunStatus, EntryState, Result
<1>3. Records
  BY DEF Init, Records, LiveOnce, Live, UntouchedRuns, AbandonedEnded, SkippedUntouched,
     SummaryBacked, HonestSuccess
<1>4. LeaseHeld /\ RunAlone /\ Progress
  BY DEF Init, Idle, LeaseHeld, RunAlone, Progress
<1> QED BY <1>2, <1>3, <1>4 DEF IInv

\* Steps that leave the database alone.
LEMMA RecordsKept ==
  ASSUME Records, UNCHANGED <<status, journal, log, abandoned>>
  PROVE  Records'
<1>1. LiveOnce' /\ UntouchedRuns' /\ AbandonedEnded'
  BY DEF Records, LiveOnce, Live, UntouchedRuns, AbandonedEnded
<1>2. SkippedUntouched' /\ SummaryBacked' /\ HonestSuccess'
  BY DEF Records, SkippedUntouched, SummaryBacked, HonestSuccess
<1> QED BY <1>1, <1>2 DEF Records

\* An item of the loop is skipped, refused or handed to the journal.
LEMMA NextItemStep ==
  ASSUME IInv, NextItem
  PROVE  IInv'
<1> USE DEF IInv
<1>1. /\ UNCHANGED <<status, journal, log, abandoned, recovery, lease>>
      /\ job.pc = "item" /\ job.item \in Item /\ job \in Job
      /\ faults' \in 0..MaxFaults
  BY DEF NextItem, TypeOK
<1>2. /\ job' \in Job /\ SameItem
      /\ \/ job'.pc = "finish" /\ job'.status = "failed"
         \/ job'.pc = "save" /\ job'.result \in {"skipped", "failed"}
         \/ job'.pc = "prepare" /\ job.item \notin job.done
  BY <1>1, Ends, Results, Goes DEF NextItem, RunStatus, Result, Error, Pc
<1>3. TypeOK'
  BY <1>1, <1>2 DEF TypeOK, SameItem
<1>4. Records'
  BY <1>1, RecordsKept
<1>5. LeaseHeld' /\ RunAlone'
  BY <1>1, <1>2 DEF LeaseHeld, RunAlone, SameItem
<1>6. Progress'
  BY <1>1, <1>2 DEF TypeOK, Progress, SameItem, Item
<1> QED BY <1>3, <1>4, <1>5, <1>6

\* The loop is through: the status follows from the summaries of the run.
LEMMA LastItemStep ==
  ASSUME IInv, LastItem
  PROVE  IInv'
<1> USE DEF IInv
<1>1. /\ UNCHANGED <<status, journal, log, abandoned, recovery, lease>>
      /\ job.pc = "item" /\ job.item = Items + 1 /\ job \in Job /\ job.run \in Run
      /\ faults' \in 0..MaxFaults
  BY DEF LastItem, TypeOK
<1>2. /\ job' \in Job /\ SameItem /\ job'.pc = "finish"
      /\ job'.status \in {"completed", "partial", "failed"}
      /\ job'.status = "completed" => \A i \in Item : log[job.run][i] # "failed"
  BY <1>1, Ends DEF LastItem, RunStatus
<1>3. TypeOK'
  BY <1>1, <1>2 DEF TypeOK, SameItem
<1>4. Records'
  BY <1>1, RecordsKept
<1>5. LeaseHeld' /\ RunAlone'
  BY <1>1, <1>2 DEF LeaseHeld, RunAlone, SameItem
<1>6. Progress'
  <2>1. \A i \in Item :
          /\ log[job.run][i] \in {"success", "skipped", "failed"}
          /\ Open(job.run, i) => log[job.run][i] = "failed"
    <3>1. \A i \in Item : i < job.item
      BY <1>1 DEF Item
    <3>2. \A i \in Item :
            /\ log[job.run][i] # "none"
            /\ Open(job.run, i) => log[job.run][i] = "failed"
      BY <1>1, <3>1 DEF Progress
    <3>3. \A i \in Item : log[job.run][i] \in Result
      BY <1>1, Tables
    <3> QED BY <3>2, <3>3 DEF Result
  <2>2. job'.status = "completed" =>
          \A i \in Item : log[job.run][i] \in {"success", "skipped"} /\ ~Open(job.run, i)
    BY <1>2, <2>1
  <2> QED BY <1>1, <1>2, <2>2 DEF Progress, SameItem
<1> QED BY <1>3, <1>4, <1>5, <1>6

\* The entry that is begun is the first trace of its item in any run: the others
\* have completed only what is in job.done.
LEMMA PrepareStep ==
  ASSUME IInv, Prepare
  PROVE  IInv'
<1> USE DEF IInv
<1>1. /\ UNCHANGED <<status, log, abandoned, recovery, lease>>
      /\ job.pc = "prepare" /\ job \in Job /\ job.run \in Run /\ job.item \in Item
      /\ faults' \in 0..MaxFaults
  BY DEF Prepare, TypeOK
<1>2. CASE /\ journal' = [journal EXCEPT ![job.run][job.item] = "begun"]
           /\ Goto("move")
  <2>1. /\ journal' \in [Run -> [Item -> EntryState]]
        /\ \A r \in Run, i \in Item :
             journal'[r][i] = IF r = job.run /\ i = job.item THEN "begun" ELSE journal[r][i]
    BY <1>1, <1>2, Writes DEF EntryState
  <2>2. job' \in Job /\ SameItem /\ job'.pc = "move"
    BY <1>1, <1>2, Goes DEF Pc
  <2>3. /\ status[job.run] = "running" /\ lease.run = job.run /\ lease.item = 0
        /\ journal[job.run][job.item] = "none" /\ log[job.run][job.item] = "none"
    BY <1>1 DEF LeaseHeld, RunAlone, Progress, Item
  <2>4. TypeOK'
    BY <1>1, <2>1, <2>2 DEF TypeOK, SameItem
  <2>5. LiveOnce'
    BY <1>1, <2>1 DEF Records, LiveOnce, Live, RunAlone, Progress
  <2>6. UntouchedRuns' /\ AbandonedEnded'
    BY <1>1, <2>1, <2>3 DEF Records, UntouchedRuns, AbandonedEnded, RunAlone
  <2>7. SkippedUntouched' /\ SummaryBacked' /\ HonestSuccess'
    BY <1>1, <2>1, <2>3 DEF Records, SkippedUntouched, SummaryBacked, HonestSuccess
  <2>8. LeaseHeld' /\ RunAlone'
    BY <1>1, <2>1, <2>2, <2>3 DEF RunAlone, LeaseHeld, SameItem
  <2>9. Progress'
    <3>1. \A i \in Item : i # job.item => journal'[job.run][i] = journal[job.run][i]
      BY <1>1, <2>1
    <3>2. journal'[job.run][job.item] = "begun"
      BY <1>1, <2>1
    <3> QED BY <1>1, <2>2, <3>1, <3>2 DEF Progress, SameItem, Item
  <2> QED BY <2>4, <2>5, <2>6, <2>7, <2>8, <2>9 DEF Records
<1>3. CASE Resulting("failed", "plain") /\ UNCHANGED journal
  <2>1. job' \in Job /\ SameItem /\ job'.pc = "save" /\ job'.result = "failed"
    BY <1>1, <1>3, Results DEF Result, Error
  <2>2. TypeOK'
    BY <1>1, <1>3, <2>1 DEF TypeOK, SameItem
  <2>3. Records'
    BY <1>1, <1>3, RecordsKept
  <2>4. LeaseHeld' /\ RunAlone'
    BY <1>1, <1>3, <2>1 DEF LeaseHeld, RunAlone, SameItem
  <2>5. Progress'
    BY <1>1, <1>3, <2>1 DEF Progress, SameItem, Item
  <2> QED BY <2>2, <2>3, <2>4, <2>5
<1> QED BY <1>2, <1>3 DEF Prepare

\* Whichever way a move ends, the result that waits to be saved does not say more
\* than the entry.
LEMMA MoveStep ==
  ASSUME IInv, Move
  PROVE  IInv'
<1> USE DEF IInv
<1>1. /\ UNCHANGED <<status, log, abandoned, recovery, lease>>
      /\ job.pc = "move" /\ job \in Job /\ job.run \in Run /\ job.item \in Item
      /\ faults' \in 0..MaxFaults
  BY DEF Move, TypeOK
<1>2. /\ status[job.run] = "running" /\ lease.run = job.run /\ lease.item = 0
      /\ journal[job.run][job.item] = "begun"
  BY <1>1 DEF LeaseHeld, RunAlone, Progress
<1>3. job' \in Job /\ SameItem /\ job'.pc = "save" /\ job'.result \in {"success", "failed"}
  BY <1>1, Results DEF Move, Result, Error
<1>4. \E s \in {"begun", "completed", "failed", "recovery_required"} :
        /\ journal' = [journal EXCEPT ![job.run][job.item] = s]
        /\ job'.result = "success" <=> s = "completed"
  <2>1. CASE UNCHANGED journal /\ \E e \in Error : Resulting("failed", e)
    <3>1. journal' = [journal EXCEPT ![job.run][job.item] = "begun"]
      BY <1>1, <1>2, <2>1 DEF TypeOK
    <3> QED BY <1>1, <2>1, <3>1, Results DEF Result
  <2> QED BY <1>1, <2>1, Results DEF Move, Result, Error
<1>5. PICK s \in {"begun", "completed", "failed", "recovery_required"} :
        /\ journal' = [journal EXCEPT ![job.run][job.item] = s]
        /\ job'.result = "success" <=> s = "completed"
  BY <1>4
<1>6. /\ journal' \in [Run -> [Item -> EntryState]]
      /\ \A r \in Run, i \in Item :
           journal'[r][i] = IF r = job.run /\ i = job.item THEN s ELSE journal[r][i]
  <2>1. s \in EntryState
    BY DEF EntryState
  <2> QED BY <1>1, <1>5, <2>1, Writes
<1>7. TypeOK'
  BY <1>1, <1>3, <1>6 DEF TypeOK, SameItem
<1>8. LiveOnce'
  BY <1>1, <1>2, <1>6 DEF Records, LiveOnce, Live
<1>9. UntouchedRuns' /\ AbandonedEnded'
  BY <1>1, <1>2, <1>6 DEF Records, UntouchedRuns, AbandonedEnded, RunAlone
<1>10. SkippedUntouched' /\ SummaryBacked' /\ HonestSuccess'
  BY <1>1, <1>2, <1>6 DEF Records, SkippedUntouched, SummaryBacked, HonestSuccess
<1>11. LeaseHeld' /\ RunAlone'
  BY <1>1, <1>2, <1>3, <1>6 DEF RunAlone, LeaseHeld, SameItem
<1>12. Progress'
  BY <1>1, <1>3, <1>5, <1>6 DEF Progress, SameItem, Item
<1> QED BY <1>7, <1>8, <1>9, <1>10, <1>11, <1>12 DEF Records

\* The summary that is saved is the result of the item; that of another process is
\* not overwritten and ends the run.
LEMMA SaveOperationStep ==
  ASSUME IInv, SaveOperation
  PROVE  IInv'
<1> USE DEF IInv
<1>1. /\ UNCHANGED <<status, journal, abandoned, recovery, lease>>
      /\ job.pc = "save" /\ job \in Job /\ job.run \in Run /\ job.item \in Item
      /\ faults' \in 0..MaxFaults
  BY DEF SaveOperation, TypeOK
<1>2. CASE UNCHANGED log
  <2>1. /\ job' \in Job /\ SameItem /\ job'.pc = "finish"
        /\ job'.status \in {"failed", "recovery_required"}
    <3>1. log[job.run][job.item] # "none" \/ Fault
      BY <1>1, <1>2 DEF SaveOperation, TypeOK, Progress
    <3> QED BY <1>1, <1>2, Ends DEF SaveOperation, TypeOK, Progress, RunStatus
  <2>2. TypeOK'
    BY <1>1, <1>2, <2>1 DEF TypeOK, SameItem
  <2>3. Records'
    BY <1>1, <1>2, RecordsKept
  <2>4. LeaseHeld' /\ RunAlone'
    BY <1>1, <1>2, <2>1 DEF LeaseHeld, RunAlone, SameItem
  <2>5. Progress'
    BY <1>1, <1>2, <2>1 DEF Progress, SameItem
  <2> QED BY <2>2, <2>3, <2>4, <2>5
<1>3. CASE /\ log[job.run][job.item] = "none"
           /\ log' = [log EXCEPT ![job.run][job.item] = job.result]
           /\ IF job.error = "recovery" THEN Ending("recovery_required", 2)
              ELSE job' = [job EXCEPT !.pc = "item", !.item = job.item + 1]
  <2>1. /\ log' \in [Run -> [Item -> Result]]
        /\ \A r \in Run, i \in Item :
             log'[r][i] = IF r = job.run /\ i = job.item THEN job.result ELSE log[r][i]
    BY <1>1, <1>3 DEF TypeOK, Job
  <2>2. /\ job.result # "none"
        /\ job.result = "success" => journal[job.run][job.item] = "completed"
        /\ job.result = "skipped" => journal[job.run][job.item] = "none"
        /\ Open(job.run, job.item) => job.result = "failed"
        /\ status[job.run] = "running"
    BY <1>1 DEF Progress, RunAlone
  <2>3. /\ job' \in Job /\ job'.run = job.run /\ job'.done = job.done
        /\ \/ job'.pc = "finish" /\ job'.status = "recovery_required"
           \/ job'.pc = "item" /\ job'.item = job.item + 1
    <3>1. CASE job.error = "recovery"
      BY <1>1, <1>3, <3>1, Ends DEF SameItem, RunStatus
    <3>2. CASE job' = [job EXCEPT !.pc = "item", !.item = job.item + 1]
      <4>1. "item" \in Pc /\ job.item + 1 \in 1..(Items + 1)
        BY <1>1 DEF Pc, Item
      <4> QED BY <1>1, <3>2, <4>1 DEF Job
    <3> QED BY <1>3, <3>1, <3>2
  <2>4. TypeOK'
    BY <1>1, <2>1, <2>3 DEF TypeOK
  <2>5. LiveOnce' /\ UntouchedRuns' /\ AbandonedEnded'
    BY <1>1, <2>1, <2>2 DEF Records, LiveOnce, Live, UntouchedRuns, AbandonedEnded
  <2>6. SkippedUntouched' /\ SummaryBacked'
    BY <1>1, <2>1, <2>2 DEF Records, SkippedUntouched, SummaryBacked
  <2>7. HonestSuccess'
    BY <1>1, <2>1, <2>2 DEF Records, HonestSuccess
  <2>8. LeaseHeld' /\ RunAlone'
    BY <1>1, <2>3 DEF LeaseHeld, RunAlone
  <2>9. Progress'
    <3>1. CASE job'.pc = "finish"
      BY <2>3, <3>1 DEF Progress
    <3>2. CASE job'.pc = "item" /\ job'.item = job.item + 1
      <4>0. /\ \A i \in Item : i >= job.item + 1 => i > job.item
            /\ \A i \in Item : i < job.item + 1 => i = job.item \/ i < job.item
            /\ \A i \in Item : i > job.item \/ i < job.item => i # job.item
        BY <1>1 DEF Item
      <4>1. \A i \in Item : i >= job'.item =>
              i > job.item /\ log'[job.run][i] = log[job.run][i]
        BY ONLY <1>1, <2>1, <3>2, <4>0
      <4>2. \A i \in Item : i < job'.item =>
              i = job.item \/ (i < job.item /\ log'[job.run][i] = log[job.run][i])
        BY ONLY <1>1, <2>1, <3>2, <4>0
      <4>3. log'[job.run][job.item] = job.result
        BY <1>1, <2>1
      <4> QED BY <1>1, <2>2, <2>3, <3>2, <4>1, <4>2, <4>3 DEF Progress
    <3> QED BY <2>3, <3>1, <3>2
  <2> QED BY <2>4, <2>5, <2>6, <2>7, <2>8, <2>9 DEF Records
<1> QED BY <1>2, <1>3 DEF SaveOperation

\* Summaries that are written where there were none contradict no record.
LEMMA RecordsSummarised ==
  ASSUME TypeOK, Records, WriteSummaries, UNCHANGED journal
  PROVE  SkippedUntouched' /\ SummaryBacked'
<1>1. SkippedUntouched'
  BY Summarises DEF Records, SkippedUntouched
<1>2. SummaryBacked'
  BY Summarises DEF Records, SummaryBacked
<1> QED BY <1>1, <1>2

\* A status that is overwritten with an outcome tells the truth.
LEMMA OutcomesHonest ==
  ASSUME TypeOK, Records, WriteSummaries, UNCHANGED journal,
         \A r \in Run : status'[r] = "completed" =>
           \/ status[r] = "completed"
           \/ Outcome(r) = "completed"
           \/ \A i \in Item : journal[r][i] = "none" /\ log[r][i] \in {"success", "skipped"}
  PROVE  HonestSuccess'
<1> SUFFICES ASSUME NEW r \in Run, NEW i \in Item, status'[r] = "completed"
             PROVE  journal[r][i] = "completed" \/ (journal[r][i] = "none" /\ log'[r][i] = "skipped")
  BY DEF HonestSuccess
<1>1. CASE status[r] = "completed"
  BY <1>1, Summarises DEF Records, HonestSuccess
<1>2. CASE Outcome(r) = "completed"
  BY <1>2, OutcomeHonest, Summarises DEF Records
<1>3. CASE \A k \in Item : journal[r][k] = "none" /\ log[r][k] \in {"success", "skipped"}
  BY <1>3, Summarises DEF Records, SummaryBacked
<1> QED BY <1>1, <1>2, <1>3

\* finish_execution writes the status, or fails and is tried once more.
LEMMA FinishExecutionStep ==
  ASSUME IInv, FinishExecution
  PROVE  IInv'
<1> USE DEF IInv
<1>1. /\ UNCHANGED <<journal, abandoned, recovery, lease>>
      /\ job.pc = "finish" /\ job \in Job /\ job.run \in Run
      /\ faults' \in 0..MaxFaults
  BY DEF FinishExecution, TypeOK
<1>2. ASSUME WriteSummaries, Goto("release"),
             status' = [status EXCEPT ![job.run] =
                          IF job.status # "failed" /\ HasOutcome(job.run) THEN Outcome(job.run)
                                                                         ELSE job.status]
      PROVE  IInv'
  <2> DEFINE s == IF job.status # "failed" /\ HasOutcome(job.run) THEN Outcome(job.run)
                                                                   ELSE job.status
  <2>1. s \in RunStatus \ {"none", "running"}
    <3>1. job.status \in RunStatus \ {"none", "running"}
      BY <1>1 DEF Progress, Job
    <3>2. Outcome(job.run) \in {"completed", "partial"}
      BY DEF Outcome
    <3> QED BY <3>1, <3>2 DEF RunStatus
  <2>2. /\ status' \in [Run -> RunStatus]
        /\ \A r \in Run : status'[r] = IF r = job.run THEN s ELSE status[r]
    BY <1>2, <2>1 DEF TypeOK
  <2>3. job' \in Job /\ SameItem /\ job'.pc = "release"
    BY <1>1, <1>2, Goes DEF Pc
  <2>4. TypeOK'
    BY <1>1, <1>2, <2>2, <2>3, Summarises DEF TypeOK, SameItem
  <2>5. LiveOnce'
    BY <1>1 DEF Records, LiveOnce, Live
  <2>6. UntouchedRuns'
    BY <1>1, <1>2, <2>1, <2>2, Summarises DEF Records, UntouchedRuns
  <2>7. AbandonedEnded'
    BY <1>1, <2>1, <2>2 DEF Records, AbandonedEnded
  <2>8. HonestSuccess'
    <3>1. s = "completed" =>
            \/ Outcome(job.run) = "completed"
            \/ \A i \in Item : journal[job.run][i] = "none" /\ log[job.run][i] \in {"success", "skipped"}
      <4> SUFFICES ASSUME job.status = "completed", ~HasOutcome(job.run)
                   PROVE  \A i \in Item : /\ journal[job.run][i] = "none"
                                          /\ log[job.run][i] \in {"success", "skipped"}
        OBVIOUS
      <4>1. \A i \in Item : log[job.run][i] \in {"success", "skipped"} /\ ~Open(job.run, i)
        BY <1>1 DEF Progress
      <4>2. Entries(job.run) = {}
        BY <4>1 DEF HasOutcome, OpenEntries
      <4> QED BY <4>1, <4>2 DEF Entries
    <3>2. \A r \in Run : status'[r] = "completed" =>
            \/ status[r] = "completed"
            \/ Outcome(r) = "completed"
            \/ \A i \in Item : journal[r][i] = "none" /\ log[r][i] \in {"success", "skipped"}
      BY <2>2, <3>1
    <3> QED BY <1>1, <1>2, <3>2, OutcomesHonest
  <2>9. LeaseHeld' /\ RunAlone' /\ Progress'
    BY <1>1, <2>3 DEF LeaseHeld, RunAlone, Progress, SameItem
  <2> QED BY <1>1, <1>2, <2>4, <2>5, <2>6, <2>7, <2>8, <2>9, RecordsSummarised DEF Records
<1>3. ASSUME UNCHANGED <<log, status>>,
             IF job.tries > 1 THEN job' = [job EXCEPT !.tries = job.tries - 1]
                              ELSE Goto("release")
      PROVE  IInv'
  <2>1. /\ job' \in Job /\ SameItem
        /\ \/ job'.pc = "finish" /\ job'.status = job.status
           \/ job'.pc = "release"
    <3>1. CASE Goto("release")
      BY <1>1, <3>1, Goes DEF Pc
    <3>2. CASE job.tries > 1 /\ job' = [job EXCEPT !.tries = job.tries - 1]
      <4>1. job.tries - 1 \in 0..2
        BY <1>1, <3>2 DEF Job
      <4> QED BY <1>1, <3>2, <4>1 DEF Job, SameItem
    <3> QED BY <1>3, <3>1, <3>2
  <2>2. TypeOK'
    BY <1>1, <1>3, <2>1 DEF TypeOK, SameItem
  <2>3. Records'
    BY <1>1, <1>3, RecordsKept
  <2>4. LeaseHeld' /\ RunAlone' /\ Progress'
    BY <1>1, <1>3, <2>1 DEF LeaseHeld, RunAlone, Progress, SameItem
  <2> QED BY <2>2, <2>3, <2>4
<1> QED BY <1>2, <1>3 DEF FinishExecution

\* A worker that ends, or is ended, leaves its records and keeps no promise.
LEMMA ReleaseStep ==
  ASSUME IInv, Release \/ Crash
  PROVE  IInv'
<1> USE DEF IInv
<1>1. /\ UNCHANGED <<status, journal, log, abandoned>>
      /\ job' = Idle /\ recovery' = "none" /\ lease' \in {lease, NoLease}
      /\ faults' \in 0..MaxFaults
  BY DEF Release, Crash, TypeOK
<1>2. Idle \in Job
  BY DEF Idle, Job, Pc, Result, Error, RunStatus, Item
<1>3. TypeOK'
  BY <1>1, <1>2 DEF TypeOK, Idle
<1>4. Records'
  BY <1>1, RecordsKept
<1>5. LeaseHeld' /\ RunAlone' /\ Progress'
  BY <1>1 DEF Idle, LeaseHeld, RunAlone, Progress
<1> QED BY <1>3, <1>4, <1>5

\* A run begins while nothing is open and knows what was completed before.
LEMMA BeginStep ==
  ASSUME IInv, NEW r \in Run, Begin(r)
  PROVE  IInv'
<1> USE DEF IInv
<1>1. /\ UNCHANGED <<journal, log, abandoned, recovery, faults>>
      /\ status[r] = "none" /\ status' = [status EXCEPT ![r] = "running"]
      /\ lease' = [run |-> r, item |-> 0]
      /\ \A q \in Run, i \in Item : ~Open(q, i)
  BY DEF Begin, OpenEntries
<1>2. \A q \in Run : status'[q] = IF q = r THEN "running" ELSE status[q]
  BY <1>1 DEF TypeOK
<1>3. job' \in Job /\ job'.pc = "item" /\ job'.run = r /\ job'.item = 1 /\ job'.done = AlreadyDone(Run)
  <2>1. Idle \in Job /\ AlreadyDone(Run) \in SUBSET Item /\ "item" \in Pc
    BY DEF Idle, Job, Pc, Result, Error, RunStatus, Item, AlreadyDone
  <2>2. job' = [Idle EXCEPT !.pc = "item", !.run = r, !.done = AlreadyDone(Run)]
    BY DEF Begin
  <2> QED BY <2>1, <2>2 DEF Job, Idle
<1>4. TypeOK'
  <2>1. status' \in [Run -> RunStatus] /\ lease' \in [run : Run, item : Item \cup {0}]
    BY <1>1 DEF TypeOK, RunStatus
  <2> QED BY <1>1, <1>3, <2>1 DEF TypeOK
<1>5. LiveOnce' /\ UntouchedRuns' /\ AbandonedEnded'
  BY <1>1, <1>2 DEF Records, LiveOnce, Live, UntouchedRuns, AbandonedEnded
<1>6. /\ SkippedUntouched' /\ SummaryBacked'
      /\ HonestSuccess'
  <2>1. SkippedUntouched' /\ SummaryBacked'
    BY <1>1 DEF Records, SkippedUntouched, SummaryBacked
  <2>2. HonestSuccess'
    BY <1>1, <1>2 DEF Records, HonestSuccess
  <2> QED BY <2>1, <2>2
<1>7. LeaseHeld'
  BY <1>1, <1>3 DEF LeaseHeld
<1>8. \A i \in Item : journal[r][i] = "none" /\ log[r][i] = "none" /\ <<r, i>> \notin abandoned
  BY <1>1 DEF Records, UntouchedRuns
<1>9. RunAlone'
  BY <1>1, <1>2, <1>3, <1>8 DEF RunAlone, AlreadyDone
<1>10. Progress'
  <2>1. \A i \in Item : ~(i < job'.item)
    BY <1>3 DEF Item
  <2> QED BY <1>1, <1>3, <1>8, <2>1 DEF Progress
<1> QED BY <1>4, <1>5, <1>6, <1>7, <1>9, <1>10 DEF Records

----------------------------------------------------------------------------
\* A recovery takes the entry of a run nobody works on.
LEMMA RecoverStep ==
  ASSUME IInv, NEW r \in Run, NEW i \in Item, Recover(r, i)
  PROVE  IInv'
<1> USE DEF IInv
<1>1. /\ UNCHANGED <<status, journal, log, abandoned, faults>>
      /\ Open(r, i) /\ \A k \in Item : Open(r, k) => k = i
      /\ lease' = [run |-> r, item |-> i] /\ recovery' = "running"
  BY DEF Recover, OpenEntries
<1>2. job' \in Job /\ job'.pc = "recover" /\ job'.run = r /\ job'.item = i
  <2>1. Idle \in Job /\ "recover" \in Pc /\ i \in 1..(Items + 1)
    BY DEF Idle, Job, Pc, Result, Error, RunStatus, Item
  <2>2. job' = [Idle EXCEPT !.pc = "recover", !.run = r, !.item = i]
    BY DEF Recover
  <2> QED BY <2>1, <2>2 DEF Job, Idle
<1>3. TypeOK'
  <2>1. lease' \in [run : Run, item : Item \cup {0}]
    BY <1>1
  <2> QED BY <1>1, <1>2, <2>1 DEF TypeOK
<1>4. Records'
  BY <1>1, RecordsKept
<1>5. LeaseHeld' /\ RunAlone' /\ Progress'
  BY <1>1, <1>2 DEF LeaseHeld, RunAlone, Progress
<1> QED BY <1>3, <1>4, <1>5

\* A recovery changes the entry its lease is for, which was open.
LEMMA RecoverEntryStep ==
  ASSUME IInv, RecoverEntry
  PROVE  IInv'
<1> USE DEF IInv
<1>1. /\ UNCHANGED <<status, log, recovery, lease, faults>>
      /\ job.pc = "recover" /\ job \in Job /\ job.run \in Run /\ job.item \in Item
      /\ Open(job.run, job.item)
  BY DEF RecoverEntry, TypeOK, Progress
<1>2. job' \in Job /\ SameItem /\ job'.pc = "finish_recovery"
  BY <1>1, Goes DEF RecoverEntry, Pc
<1>3. CASE UNCHANGED <<journal, abandoned>>
  <2>1. TypeOK'
    BY <1>1, <1>2, <1>3 DEF TypeOK, SameItem
  <2>2. Records'
    BY <1>1, <1>3, RecordsKept
  <2>3. LeaseHeld' /\ RunAlone' /\ Progress'
    BY <1>1, <1>2, <1>3 DEF LeaseHeld, RunAlone, Progress, SameItem
  <2> QED BY <2>1, <2>2, <2>3
<1>4. ASSUME NEW s \in {"begun", "completed", "failed", "recovery_required"},
             journal' = [journal EXCEPT ![job.run][job.item] = s],
             abandoned' = abandoned \ {<<job.run, job.item>>}
      PROVE  IInv'
  <2>1. /\ journal' \in [Run -> [Item -> EntryState]]
        /\ \A r \in Run, i \in Item :
             journal'[r][i] = IF r = job.run /\ i = job.item THEN s ELSE journal[r][i]
    <3>1. s \in EntryState
      BY DEF EntryState
    <3> QED BY <1>1, <1>4, <3>1, Writes
  <2>2. TypeOK'
    BY <1>1, <1>2, <1>4, <2>1 DEF TypeOK, SameItem
  <2>3. LiveOnce'
    <3>1. \A r \in Run, i \in Item : Live(r, i)' => Live(r, i)
      BY <1>1, <2>1 DEF Live
    <3> QED BY <3>1 DEF Records, LiveOnce
  <2>4. UntouchedRuns' /\ AbandonedEnded'
    BY <1>1, <1>4, <2>1 DEF Records, UntouchedRuns, AbandonedEnded
  <2>5. SkippedUntouched' /\ SummaryBacked' /\ HonestSuccess'
    BY <1>1, <2>1 DEF Records, SkippedUntouched, SummaryBacked, HonestSuccess
  <2>6. LeaseHeld'
    <3>1. lease.run = job.run /\ (lease.item # 0 => lease.item = job.item)
      BY <1>1 DEF LeaseHeld
    <3>2. journal'[job.run][job.item] # "none"
      BY <1>1, <2>1
    <3>3. lease.item # 0 => \A i \in Item : Open(job.run, i)' => i = lease.item
      BY <1>1, <1>2, <2>1, <3>1 DEF LeaseHeld, SameItem
    <3> QED BY <1>1, <1>2, <3>1, <3>2, <3>3 DEF LeaseHeld, SameItem
  <2>7. RunAlone' /\ Progress'
    BY <1>2 DEF RunAlone, Progress
  <2> QED BY <2>2, <2>3, <2>4, <2>5, <2>6, <2>7 DEF Records
<1> QED BY <1>3, <1>4 DEF RecoverEntry

\* finish_recovery settles the run, or leaves it as it is.
LEMMA FinishRecoveryStep ==
  ASSUME IInv, FinishRecovery
  PROVE  IInv'
<1> USE DEF IInv
<1>1. /\ UNCHANGED <<journal, abandoned, recovery, lease>>
      /\ job.pc = "finish_recovery" /\ job \in Job /\ job.run \in Run
      /\ faults' \in 0..MaxFaults
  BY DEF FinishRecovery, TypeOK
<1>2. job' \in Job /\ SameItem /\ job'.pc = "release"
  BY <1>1, Goes DEF FinishRecovery, Pc
<1>3. LeaseHeld' /\ RunAlone' /\ Progress'
  BY <1>1, <1>2 DEF LeaseHeld, RunAlone, Progress, SameItem
<1>4. CASE UNCHANGED <<log, status>>
  <2>1. TypeOK'
    BY <1>1, <1>2, <1>4 DEF TypeOK, SameItem
  <2>2. Records'
    BY <1>1, <1>4, RecordsKept
  <2> QED BY <1>3, <2>1, <2>2
<1>5. CASE /\ WriteSummaries
           /\ status' = IF ~Open(job.run, job.item) /\ Settles(job.run)
                        THEN [status EXCEPT ![job.run] = Outcome(job.run)] ELSE status
  <2>1. /\ status' \in [Run -> RunStatus]
        /\ \A r \in Run : \/ status'[r] = status[r]
                          \/ /\ status'[r] = Outcome(r) /\ Outcome(r) \in {"completed", "partial"}
                             /\ status[r] # "none"
    BY <1>1, <1>5 DEF TypeOK, Outcome, RunStatus, Settles
  <2>2. TypeOK'
    BY <1>1, <1>2, <1>5, <2>1, Summarises DEF TypeOK, SameItem
  <2>3. LiveOnce'
    BY <1>1 DEF Records, LiveOnce, Live
  <2>4. /\ UntouchedRuns'
        /\ AbandonedEnded'
    <3>1. UntouchedRuns'
      BY <1>1, <1>5, <2>1, Summarises DEF Records, UntouchedRuns
    <3>2. AbandonedEnded'
      BY <1>1, <2>1 DEF Records, AbandonedEnded
    <3> QED BY <3>1, <3>2
  <2>5. HonestSuccess'
    BY <1>1, <1>5, <2>1, OutcomesHonest
  <2> QED BY <1>1, <1>3, <1>5, <2>2, <2>3, <2>4, <2>5, RecordsSummarised DEF Records
<1> QED BY <1>4, <1>5 DEF FinishRecovery

----------------------------------------------------------------------------
\* Another process opens the database.  It ends no run whose lease it finds, and a
\* summary it writes for the working run is the one its entry deserves.
LEMMA ReopenStep ==
  ASSUME IInv, Reopen
  PROVE  IInv'
<1> USE DEF IInv
<1>1. /\ UNCHANGED <<journal, job, faults>>
      /\ WriteSummaries
      /\ lease' = RemainingLease
      /\ recovery' \in {recovery, "completed", "recovery_required"}
  BY DEF Reopen
<1>2. \A r \in Run, i \in Item :
        <<r, i>> \in abandoned' <=>
          <<r, i>> \in abandoned \/ (Open(r, i) /\ ~Covers(RemainingLease, r, i))
  BY DEF Reopen
<1>3. \A r \in Run :
        \/ status'[r] = status[r] /\ (status[r] = "running" => ~\E i \in Item : Open(r, i) /\ <<r, i>> \in abandoned')
        \/ status'[r] = Outcome(r) /\ Settles(r) /\ \A i \in Entries(r) : ~Covers(RemainingLease, r, i)
        \/ /\ status'[r] = "recovery_required" /\ status[r] = "running"
           /\ \E i \in Item : Open(r, i) /\ <<r, i>> \in abandoned'
  BY DEF Reopen
<1>4. \A r \in Run : Outcome(r) \in {"completed", "partial"}
  BY DEF Outcome
<1>5. TypeOK'
  <2>1. status' \in [Run -> RunStatus]
    <3>1. \A r \in Run : status'[r] \in RunStatus
      BY <1>3, <1>4 DEF TypeOK, RunStatus
    <3>2. status' = [r \in Run |-> status'[r]]
      BY DEF Reopen
    <3> QED BY <3>1, <3>2
  <2>2. abandoned' \subseteq Run \X Item
    BY DEF Reopen, TypeOK
  <2>3. lease' = NoLease \/ lease' \in [run : Run, item : Item \cup {0}]
    BY <1>1 DEF RemainingLease, TypeOK
  <2> QED BY <1>1, <2>1, <2>2, <2>3, Summarises DEF TypeOK
<1>6. LiveOnce'
  BY <1>1 DEF Records, LiveOnce, Live
<1>7. UntouchedRuns'
  BY <1>1, <1>2, <1>3, <1>4, Summarises DEF Records, UntouchedRuns
<1>8. AbandonedEnded'
  BY <1>1, <1>3, <1>4 DEF AbandonedEnded
<1>9. HonestSuccess'
  BY <1>1, <1>3, OutcomesHonest
<1>10. LeaseHeld'
  BY <1>1 DEF LeaseHeld, RemainingLease
<1>11. RunAlone'
  <2> SUFFICES ASSUME job.pc \in {"item", "prepare", "move", "save", "finish"}
               PROVE  /\ lease'.item = 0 /\ status'[job.run] = "running"
                      /\ \A i \in Item : <<job.run, i>> \notin abandoned'
                      /\ \A q \in Run \ {job.run}, i \in Item :
                           ~Open(q, i)' /\ (journal'[q][i] = "completed" => i \in job.done)
    BY <1>1 DEF RunAlone
  <2>1. job.run \in Run /\ RemainingLease = lease /\ \A i \in Item : Covers(lease, job.run, i)
    BY DEF TypeOK, RemainingLease, LeaseHeld, RunAlone, Covers
  <2>2. \A i \in Item : <<job.run, i>> \notin abandoned'
    BY <1>2, <2>1 DEF RunAlone
  <2>3. status'[job.run] = "running"
    <3>1. ~(Settles(job.run) /\ \A i \in Entries(job.run) : ~Covers(lease, job.run, i))
      BY <2>1 DEF Settles, HasOutcome, Entries
    <3> QED BY <1>3, <2>1, <2>2, <3>1 DEF RunAlone
  <2> QED BY <1>1, <2>1, <2>2, <2>3 DEF RunAlone
<1>12. Progress'
  <2>1. job.pc # "idle" => job.run \in Run
    BY DEF TypeOK
  <2>2. job.pc # "idle" => \A i \in Item :
          /\ log[job.run][i] # "none" => log'[job.run][i] = log[job.run][i]
          /\ journal[job.run][i] = "none" /\ log[job.run][i] = "none" => log'[job.run][i] = "none"
    BY <1>1, <2>1, Summarises
  <2> QED BY <1>1, <2>1, <2>2 DEF Progress
<1> QED BY <1>1, <1>5, <1>6, <1>7, <1>8, <1>9, <1>10, <1>11, <1>12, RecordsSummarised DEF Records

----------------------------------------------------------------------------
\* No step leads out of the invariant.
LEMMA Inductive ==
  ASSUME IInv, [Next]_vars
  PROVE  IInv'
<1>1. CASE UNCHANGED vars
  <2>1. Records'
    BY <1>1, RecordsKept DEF vars, IInv
  <2>2. LeaseHeld' /\ RunAlone' /\ Progress'
    BY <1>1 DEF vars, IInv, LeaseHeld, RunAlone, Progress
  <2>3. TypeOK'
    BY <1>1 DEF vars, IInv, TypeOK
  <2> QED BY <2>1, <2>2, <2>3 DEF IInv
<1>2. CASE Work
  BY <1>2, NextItemStep, LastItemStep, PrepareStep, MoveStep, SaveOperationStep,
     FinishExecutionStep, ReleaseStep, RecoverEntryStep, FinishRecoveryStep DEF Work
<1>3. CASE Crash \/ Reopen
  BY <1>3, ReleaseStep, ReopenStep
<1>4. CASE \E r \in Run : Begin(r) \/ \E i \in Item : Recover(r, i)
  BY <1>4, BeginStep, RecoverStep
<1> QED BY <1>1, <1>2, <1>3, <1>4 DEF Next

\* Every reachable state satisfies the invariant.
THEOREM Invariance == Spec => []IInv
<1>1. Init => IInv
  BY InitIInv
<1>2. IInv /\ [Next]_vars => IInv'
  BY Inductive
<1> QED BY <1>1, <1>2, PTL DEF Spec

\* Tables, lease and worker always hold values of their types, whichever writes
\* fail and wherever a process dies.
THEOREM TypeCorrect == Spec => []TypeOK
<1>1. IInv => TypeOK
  BY DEF IInv
<1> QED BY <1>1, Invariance, PTL

\* However many runs apply a plan, an item is completed by one of them at most: the
\* next one knows, by summary or entry, what was completed before it began.
THEOREM MovedOnce == Spec => []AppliedOnce
<1>1. ASSUME IInv, NEW i \in Item
      PROVE  Cardinality({r \in Run : journal[r][i] = "completed"}) <= 1
  <2> DEFINE Done == {r \in Run : journal[r][i] = "completed"}
  <2>1. Done = {} \/ \E r : Done = {r}
    BY <1>1 DEF IInv, Records, LiveOnce, Live
  <2> HIDE DEF Done
  <2>2. Cardinality(Done) \in {0, 1}
    BY <2>1, FS_EmptySet, FS_Singleton
  <2>3. Cardinality(Done) <= 1
    BY <2>2
  <2> QED BY <2>3 DEF Done
<1>2. IInv => AppliedOnce
  BY <1>1 DEF AppliedOnce
<1> QED BY <1>2, Invariance, PTL

\* A run recorded as completed left nothing undone, though three places may write
\* that status and each of them may find summaries missing.
THEOREM Honest == Spec => []HonestSuccess
<1>1. IInv => HonestSuccess
  BY DEF IInv, Records
<1> QED BY <1>1, Invariance, PTL

\* No summary, of a worker or of a repair, claims a success its entry does not have.
THEOREM Backed == Spec => []SummaryBacked
<1>1. IInv => SummaryBacked
  BY DEF IInv, Records
<1> QED BY <1>1, Invariance, PTL

\* Steps that may write the status of a run.
LEMMA StatusWriters ==
  ASSUME [Next]_vars, ~UNCHANGED status
  PROVE  FinishExecution \/ FinishRecovery \/ Reopen \/ \E r \in Run : Begin(r)
BY DEF Next, Work, vars, NextItem, LastItem, Prepare, Move, SaveOperation, Release, Crash,
   Recover, RecoverEntry

\* No repair changes what was said of an ended run, except that one which required
\* recovery ends when none of its entries is open.
THEOREM Stands == Spec => StatusStands
<1> DEFINE A == \A r \in Run : status'[r] # status[r] =>
                  \/ status[r] \in {"none", "running"}
                  \/ status[r] = "recovery_required" /\ OpenEntries(r)' = {}
<1>1. ASSUME IInv, [Next]_vars PROVE A
  <2> SUFFICES ASSUME NEW r \in Run, status'[r] # status[r], status[r] \notin {"none", "running"}
               PROVE  status[r] = "recovery_required" /\ OpenEntries(r)' = {}
    OBVIOUS
  <2>1. CASE FinishExecution
    BY <1>1, <2>1 DEF FinishExecution, IInv, TypeOK
  <2>2. CASE \E q \in Run : Begin(q)
    BY <1>1, <2>2 DEF Begin, IInv, TypeOK
  <2>3. CASE FinishRecovery \/ Reopen
    <3>1. Settles(r) /\ UNCHANGED journal
      BY <1>1, <2>3 DEF FinishRecovery, Reopen, IInv, TypeOK
    <3>2. OpenEntries(r)' = OpenEntries(r)
      BY <3>1 DEF OpenEntries
    <3> QED BY <3>1, <3>2 DEF Settles, HasOutcome
  <2> QED BY <1>1, <2>1, <2>2, <2>3, StatusWriters
<1>2. IInv /\ [Next]_vars => [A]_vars
  BY <1>1
<1> QED BY <1>2, Invariance, PTL DEF Spec, StatusStands

\* Opening the database does not end a run another process is working on: the rows
\* of its lease cover each of its entries.
THEOREM Kept == Spec => WorkingRunKept
<1> DEFINE A == \A r \in Run :
                  (job.run = r /\ job' = job /\ job.pc # "idle" /\ status[r] = "running")
                    => status'[r] = "running"
<1>1. ASSUME IInv, [Next]_vars PROVE A
  <2> SUFFICES ASSUME job.run \in Run, job' = job, job.pc # "idle", status[job.run] = "running",
                      status'[job.run] # "running"
               PROVE  FALSE
    OBVIOUS
  <2>1. Reopen
    BY <1>1, StatusWriters
       DEF FinishExecution, FinishRecovery, Begin, Goto, IInv, TypeOK, Job
  <2>2. \A i \in Item : Open(job.run, i) => Covers(RemainingLease, job.run, i)
    BY <1>1 DEF IInv, LeaseHeld, RemainingLease, Covers
  <2>3. HasOutcome(job.run) => \E i \in Entries(job.run) : Covers(RemainingLease, job.run, i)
    BY <1>1 DEF IInv, TypeOK, LeaseHeld, RemainingLease, Covers, HasOutcome, Entries, NoLease
  <2>4. \A i \in Item : Open(job.run, i) => <<job.run, i>> \notin abandoned'
    BY <1>1, <2>1, <2>2 DEF Reopen, IInv, Records, AbandonedEnded
  <2> QED BY <2>1, <2>3, <2>4 DEF Reopen, Settles
<1>2. IInv /\ [Next]_vars => [A]_vars
  BY <1>1
<1> QED BY <1>2, Invariance, PTL DEF Spec, WorkingRunKept
=============================================================================
