------------------------------ MODULE ApplyRun ------------------------------
(***************************************************************************)
(* Runs of a plan and what the database says of them.                      *)
(*                                                                         *)
(* An apply run (ApplyUseCase::execute) goes through the items of a plan.  *)
(* For each it moves a file, which leaves a journal entry, and then writes *)
(* a row of operation_logs, the summary a later rollback and the user      *)
(* interface read.  At the end it writes the status of the run.  Each of   *)
(* these writes may fail or be cut off by a crash, so three other places   *)
(* repair them: opening the database, which any process may do while a run *)
(* works, finishing a run, and finishing a recovery.                       *)
(*                                                                         *)
(* How a file is moved is MoveProtocol; here a move ends in one of the     *)
(* ways it may.  That one worker at a time has the roots, and that it does *)
(* not start over an open entry, is MutationLease.                         *)
(***************************************************************************)
EXTENDS Integers, FiniteSets

CONSTANTS
  Run,        \* execution_runs of the plan, started in this order
  Items,      \* number of items of the plan
  MaxFaults   \* bound on failing writes and crashes

\* Rows are numbered from one.
ASSUME RunAssumption == Run \subseteq Nat \ {0} /\ Items \in Nat \ {0} /\ MaxFaults \in Nat

VARIABLES
  status,     \* execution_runs.status
  journal,    \* operation_journal.state: "begun" is any open state but parked
  log,        \* operation_logs.result
  abandoned,  \* entries whose error says 'mutation_lease_abandoned'
  lease,      \* the lease whose rows exist: a run's, or a recovery's of one item
  recovery,   \* recovery_runs.status of the recovery in progress
  job,        \* what the worker does
  faults

dbVars == <<status, journal, log, abandoned, recovery>>
vars == <<dbVars, lease, job, faults>>

Item == 1..Items
EntryState == {"none", "begun", "recovery_required", "completed", "failed"}
Result == {"none", "success", "skipped", "failed"}
RunStatus == {"none", "running", "completed", "partial", "failed", "recovery_required"}
NoLease == [run |-> 0, item |-> 0]
Pc == {"idle", "item", "prepare", "move", "save", "finish", "release", "recover", "finish_recovery"}
Error == {"none", "plain", "recovery"}
Job == [pc: Pc, run: Run \cup {0}, item: 1..(Items + 1), done: SUBSET Item, result: Result,
        error: Error, status: RunStatus, tries: 0..2]
Idle == [pc |-> "idle", run |-> 0, item |-> 1, done |-> {}, result |-> "none",
         error |-> "none", status |-> "none", tries |-> 0]

TypeOK ==
  /\ status \in [Run -> RunStatus]
  /\ journal \in [Run -> [Item -> EntryState]]
  /\ log \in [Run -> [Item -> Result]]
  /\ abandoned \subseteq Run \X Item
  /\ lease = NoLease \/ lease \in [run: Run, item: Item \cup {0}]
  /\ recovery \in {"none", "running", "completed", "recovery_required"}
  /\ job \in Job
  /\ job.pc # "idle" => job.run \in Run
  /\ job.pc \in {"prepare", "move", "save", "recover"} => job.item \in Item
  /\ faults \in 0..MaxFaults

Open(r, i) == journal[r][i] \in {"begun", "recovery_required"}
Entries(r) == {i \in Item : journal[r][i] # "none"}
OpenEntries(r) == {i \in Item : Open(r, i)}

\* The entry's fencing token has rows in mutation_leases.
Covers(l, r, i) == l.run = r /\ l.item \in {0, i}

\* successful_plan_item_ids, by the summaries alone
AlreadyDone_LogsOnly(runs) ==
  {i \in Item : \E r \in runs : log[r][i] = "success"}

\* successful_plan_item_ids
AlreadyDone(runs) ==
  {i \in Item : \E r \in runs : log[r][i] = "success" \/ journal[r][i] = "completed"}

Init ==
  /\ status = [r \in Run |-> "none"]
  /\ journal = [r \in Run |-> [i \in Item |-> "none"]]
  /\ log = [r \in Run |-> [i \in Item |-> "none"]]
  /\ abandoned = {}
  /\ lease = NoLease
  /\ recovery = "none"
  /\ job = Idle
  /\ faults = 0

----------------------------------------------------------------------------
(***************************************************************************)
(* The repairs every finishing or opening process makes.                   *)
(***************************************************************************)
\* Variant: only a failed entry counts as a failure.
Summary_Parked(r, i) ==
  IF log[r][i] # "none" THEN log[r][i] ELSE
  CASE journal[r][i] \in {"completed", "recovery_required"} -> "success"
    [] journal[r][i] = "failed" -> "failed"
    [] OTHER -> "none"

\* reconcile_terminal_journal_summaries: the summary an entry without one gets,
\* also if its run is still working and about to write its own.
Summary(r, i) ==
  IF log[r][i] # "none" THEN log[r][i] ELSE
  CASE journal[r][i] = "completed" -> "success"
    [] journal[r][i] \in {"failed", "recovery_required"} -> "failed"
    [] OTHER -> "none"

WriteSummaries == log' = [r \in Run |-> [i \in Item |-> Summary(r, i)]]

\* Variant: an item without any trace is not counted.
Outcome_Observed(r) ==
  IF \A i \in Item : IF i \in Entries(r) THEN journal[r][i] = "completed"
                                        ELSE Summary(r, i) # "failed"
  THEN "completed" ELSE "partial"

\* terminal_apply_journal_outcome: the entries decide, the summaries where there
\* is no entry; an item without either has failed.
Outcome(r) ==
  IF \A i \in Item : IF i \in Entries(r) THEN journal[r][i] = "completed"
                                        ELSE Summary(r, i) \in {"success", "skipped"}
  THEN "completed" ELSE "partial"

HasOutcome(r) == Entries(r) # {} /\ OpenEntries(r) = {}

\* Variant: the status that is overwritten does not matter.
Settles_Any(r) == status[r] # "none" /\ HasOutcome(r)

\* persist_terminal_apply_outcome
Settles(r) == status[r] \in {"running", "recovery_required"} /\ HasOutcome(r)

----------------------------------------------------------------------------
Goto(pc) == job' = [job EXCEPT !.pc = pc]
Fault == faults < MaxFaults /\ faults' = faults + 1
NoFault == UNCHANGED faults
KeepDb == UNCHANGED dbVars

\* The run ends with a status it proposes; a normal end is tried twice.
Ending(s, n) == job' = [job EXCEPT !.pc = "finish", !.status = s, !.tries = n]

\* The result of an item is ready to be saved.
Resulting(result, error) ==
  job' = [job EXCEPT !.pc = "save", !.result = result, !.error = error]

\* Variant: the first item is skipped over.
Begin_Zero(r) ==
  /\ job.pc = "idle" /\ status[r] = "none"
  /\ \A q \in Run : OpenEntries(q) = {} /\ (q < r => status[q] # "none")
  /\ status' = [status EXCEPT ![r] = "running"]
  /\ lease' = [run |-> r, item |-> 0]
  /\ job' = [Idle EXCEPT !.pc = "item", !.run = r, !.item = 0, !.done = AlreadyDone(Run)]
  /\ UNCHANGED <<journal, log, abandoned, recovery, faults>>

\* acquire_apply_lease, successful_plan_item_ids, begin_execution.  Rows a crash
\* left behind block the lease only until they expire.
Begin(r) ==
  /\ job.pc = "idle" /\ status[r] = "none"
  /\ \A q \in Run : OpenEntries(q) = {} /\ (q < r => status[q] # "none")
  /\ status' = [status EXCEPT ![r] = "running"]
  /\ lease' = [run |-> r, item |-> 0]
  /\ job' = [Idle EXCEPT !.pc = "item", !.run = r, !.done = AlreadyDone(Run)]
  /\ UNCHANGED <<journal, log, abandoned, recovery, faults>>

\* Heartbeat, preflight and the decision about the next item.  The preflight is
\* about files the user may have changed, or moved back: it may go either way.
NextItem ==
  /\ job.pc = "item" /\ job.item \in Item
  /\ \/ Fault /\ Ending("failed", 1)
     \/ NoFault /\ job.item \in job.done /\ Resulting("skipped", "none")
     \/ NoFault /\ job.item \notin job.done /\ \E res \in {"skipped", "failed"} : Resulting(res, "plain")
     \/ NoFault /\ job.item \notin job.done /\ Goto("prepare")
  /\ KeepDb /\ UNCHANGED lease

LastItem ==
  /\ job.pc = "item" /\ job.item = Items + 1
  /\ \/ NoFault /\ Ending(IF \E i \in Item : log[job.run][i] = "failed" THEN "partial"
                                                                   ELSE "completed", 2)
     \/ Fault /\ Ending("failed", 1)
  /\ KeepDb /\ UNCHANGED lease

\* prepare_operation
Prepare ==
  /\ job.pc = "prepare"
  /\ \/ /\ journal' = [journal EXCEPT ![job.run][job.item] = "begun"]
        /\ NoFault /\ Goto("move")
     \/ Fault /\ Resulting("failed", "plain") /\ UNCHANGED journal
  /\ UNCHANGED <<status, log, abandoned, recovery, lease>>

\* apply_one: the move is completed; it fails and the entry is closed; a write
\* before the publication fails and nothing is said of the entry; a step after
\* it fails and the entry is parked, unless that write fails too.
Move ==
  /\ job.pc = "move"
  /\ \/ /\ journal' = [journal EXCEPT ![job.run][job.item] = "completed"]
        /\ NoFault /\ Resulting("success", "none")
     \/ /\ journal' = [journal EXCEPT ![job.run][job.item] = "failed"]
        /\ NoFault /\ Resulting("failed", "plain")
     \/ UNCHANGED journal /\ Fault /\ Resulting("failed", "plain")
     \/ /\ \/ journal' = [journal EXCEPT ![job.run][job.item] = "recovery_required"]
           \/ UNCHANGED journal
        /\ Fault /\ Resulting("failed", "recovery")
  /\ UNCHANGED <<status, log, abandoned, recovery, lease>>

\* save_operation: (execution_id, sequence_no) is unique, so a summary somebody
\* else wrote meanwhile makes it fail.
SaveOperation ==
  /\ job.pc = "save"
  /\ \/ /\ log[job.run][job.item] = "none"
        /\ log' = [log EXCEPT ![job.run][job.item] = job.result]
        /\ NoFault
        /\ IF job.error = "recovery" THEN Ending("recovery_required", 2)
           ELSE job' = [job EXCEPT !.pc = "item", !.item = job.item + 1]
     \/ /\ \/ log[job.run][job.item] # "none" /\ NoFault
           \/ Fault
        /\ Ending(IF job.result = "skipped" THEN "failed" ELSE "recovery_required", 1)
        /\ UNCHANGED log
  /\ UNCHANGED <<status, journal, abandoned, recovery, lease>>

\* finish_execution: the entries overrule the proposed status unless it is
\* "failed"; a failing one is tried again or leaves the run as it is.
FinishExecution ==
  /\ job.pc = "finish"
  /\ \/ /\ status[job.run] = "running"
        /\ WriteSummaries
        /\ status' = [status EXCEPT ![job.run] =
                        IF job.status # "failed" /\ HasOutcome(job.run) THEN Outcome(job.run)
                                                                       ELSE job.status]
        /\ NoFault /\ Goto("release")
     \/ /\ Fault /\ UNCHANGED <<log, status>>
        /\ IF job.tries > 1 THEN job' = [job EXCEPT !.tries = job.tries - 1]
                            ELSE Goto("release")
  /\ UNCHANGED <<journal, abandoned, recovery, lease>>

Release ==
  /\ job.pc = "release"
  /\ lease' = NoLease /\ job' = Idle /\ recovery' = "none"
  /\ UNCHANGED <<status, journal, log, abandoned, faults>>

Crash ==
  /\ job.pc # "idle" /\ Fault
  /\ job' = Idle /\ recovery' = "none"
  /\ UNCHANGED <<status, journal, log, abandoned, lease>>

----------------------------------------------------------------------------
\* acquire_recovery_lease and begin_recovery, for the only open entry.
Recover(r, i) ==
  /\ job.pc = "idle" /\ Open(r, i)
  /\ \A q \in Run : OpenEntries(q) \subseteq (IF q = r THEN {i} ELSE {})
  /\ lease' = [run |-> r, item |-> i]
  /\ recovery' = "running"
  /\ job' = [Idle EXCEPT !.pc = "recover", !.run = r, !.item = i]
  /\ UNCHANGED <<status, journal, log, abandoned, faults>>

\* execute_recovery_action: resumed, taken back, or parked, which overwrites the
\* error of the entry; a refusal or a failing write leaves the entry as it is.
RecoverEntry ==
  /\ job.pc = "recover"
  /\ \/ \E s \in {"begun", "completed", "failed", "recovery_required"} :
          /\ journal' = [journal EXCEPT ![job.run][job.item] = s]
          /\ abandoned' = abandoned \ {<<job.run, job.item>>}
     \/ UNCHANGED <<journal, abandoned>>
  /\ Goto("finish_recovery")
  /\ UNCHANGED <<status, log, recovery, lease, faults>>

\* finish_recovery: refused if somebody who opened the database ended the
\* recovery run already.
FinishRecovery ==
  /\ job.pc = "finish_recovery"
  /\ \/ /\ recovery = "running" /\ NoFault
        /\ WriteSummaries
        /\ status' = IF ~Open(job.run, job.item) /\ Settles(job.run)
                     THEN [status EXCEPT ![job.run] = Outcome(job.run)] ELSE status
     \/ recovery # "running" /\ NoFault /\ UNCHANGED <<status, log>>
     \/ Fault /\ UNCHANGED <<status, log>>
  /\ Goto("release")
  /\ UNCHANGED <<journal, abandoned, recovery, lease>>

----------------------------------------------------------------------------
\* Rows whose lock nobody holds are removed.
RemainingLease == IF job.pc = "idle" THEN NoLease ELSE lease

\* Variant: runs whose lease is alive are not spared.
Reopen_Blind ==
  /\ lease' = RemainingLease
  /\ abandoned' = abandoned
  /\ WriteSummaries
  /\ recovery' = recovery
  /\ status' = [r \in Run |-> IF Settles(r) THEN Outcome(r) ELSE status[r]]
  /\ UNCHANGED <<journal, job, faults>>

\* Variant: entries a crash left open are marked, their runs are not.
Reopen_EntriesOnly ==
  LET orphan(r, i) == Open(r, i) /\ ~Covers(RemainingLease, r, i)
      free(r) == \A i \in Entries(r) : ~Covers(RemainingLease, r, i)
  IN  /\ lease' = RemainingLease
      /\ abandoned' = abandoned \cup {e \in Run \X Item : orphan(e[1], e[2])}
      /\ WriteSummaries
      /\ recovery' = recovery
      /\ status' = [r \in Run |-> IF Settles(r) /\ free(r) THEN Outcome(r) ELSE status[r]]
      /\ UNCHANGED <<journal, job, faults>>

\* Some process opens the database (reconcile_abandoned_journals), before, during
\* or after the work of another one.
Reopen ==
  LET orphan(r, i) == Open(r, i) /\ ~Covers(RemainingLease, r, i)
      free(r) == \A i \in Entries(r) : ~Covers(RemainingLease, r, i)
  IN  /\ lease' = RemainingLease
      /\ abandoned' = abandoned \cup {e \in Run \X Item : orphan(e[1], e[2])}
      /\ WriteSummaries
      /\ recovery' =
           IF recovery # "running" THEN recovery
           ELSE IF ~Open(job.run, job.item) THEN "completed"
           ELSE IF <<job.run, job.item>> \in abandoned' THEN "recovery_required" ELSE recovery
      /\ status' =
           [r \in Run |->
              IF Settles(r) /\ free(r) THEN Outcome(r)
              ELSE IF status[r] = "running"
                      /\ \E i \in Item : Open(r, i) /\ <<r, i>> \in abandoned'
                   THEN "recovery_required" ELSE status[r]]
      /\ UNCHANGED <<journal, job, faults>>

Work ==
  \/ NextItem \/ LastItem \/ Prepare \/ Move \/ SaveOperation \/ FinishExecution \/ Release
  \/ RecoverEntry \/ FinishRecovery

Next ==
  \/ Work \/ Crash \/ Reopen
  \/ \E r \in Run : Begin(r) \/ \E i \in Item : Recover(r, i)

Spec == Init /\ [][Next]_vars

\* A living process goes on, and the program is started again while nobody works
\* as long as it is used: every command opens the database before it does anything.
FairSpec == Spec /\ WF_vars(Work) /\ SF_vars(job.pc = "idle" /\ Reopen)

----------------------------------------------------------------------------
(***************************************************************************)
(* Properties.                                                             *)
(***************************************************************************)
\* However often a plan is applied, interrupted and recovered, an item is moved
\* by one run at most, even if its file is back at the source.
AppliedOnce ==
  \A i \in Item : Cardinality({r \in Run : journal[r][i] = "completed"}) <= 1

\* A run that says "completed" left nothing undone: each item was moved, by this
\* run or its recovery, or was skipped on purpose.
HonestSuccess ==
  \A r \in Run : status[r] = "completed" =>
    \A i \in Item : journal[r][i] = "completed" \/ (journal[r][i] = "none" /\ log[r][i] = "skipped")

\* A summary that says "success" is backed by a completed entry, whoever wrote it.
SummaryBacked ==
  \A r \in Run, i \in Item : log[r][i] = "success" => journal[r][i] = "completed"

\* The status of an ended run stands; one that requires recovery ends only once
\* none of its entries is open.
StatusStands ==
  [][\A r \in Run : status'[r] # status[r] =>
       \/ status[r] \in {"none", "running"}
       \/ status[r] = "recovery_required" /\ OpenEntries(r)' = {}]_vars

\* A process that opens the database does not end a run that is still working.
WorkingRunKept ==
  [][\A r \in Run : (job.run = r /\ job' = job /\ job.pc # "idle" /\ status[r] = "running")
                      => status'[r] = "running"]_vars

\* A run that began to move a file does not stay "running" once its process ended.
InterruptedRunEnds ==
  \A r \in Run :
    (job.pc = "idle" /\ status[r] = "running" /\ Entries(r) # {}) ~> status[r] # "running"
=============================================================================
