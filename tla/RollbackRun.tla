----------------------------- MODULE RollbackRun -----------------------------
(***************************************************************************)
(* Rollbacks of one apply run (RollbackUseCase::execute).  A rollback goes *)
(* through what the apply run did in reverse order: a file it moved is     *)
(* moved back, a copy it left beside the source is deleted.  It journals   *)
(* each step, writes a row of rollback_logs per item and a status at the   *)
(* end.  It may be cut off at any point and started again, and the rows    *)
(* and the statuses are repaired as those of an apply run are (ApplyRun).  *)
(* Meanwhile the user may touch the files.                                 *)
(***************************************************************************)
EXTENDS Integers, FiniteSets

CONSTANTS
  Run,         \* rollback_runs of the apply run, started in this order
  Items,       \* number of items the apply run worked on
  MaxUnmoved,  \* bound on items whose move was not completed and summarised
  MaxTouches,  \* bound on what the user does to the files
  MaxFaults    \* bound on failing calls and crashes

\* Rows are numbered from one.
ASSUME RollbackAssumption ==
  /\ Run \subseteq Nat \ {0} /\ Items \in Nat \ {0} /\ MaxUnmoved \in Nat
  /\ MaxTouches \in Nat /\ MaxFaults \in Nat

VARIABLES
  kind,       \* what the apply run did to each item
  logged,     \* items with a row in operation_logs
  at,         \* what lies at the source and at the target of each item
  entry,      \* operation_journal.state of the rollback's entries
  rows,       \* results in rollback_logs
  status,     \* rollback_runs.status
  abandoned,  \* entries whose error says 'mutation_lease_abandoned'
  lease,      \* the lease whose rows exist, see ApplyRun
  recovery,   \* recovery_runs.status of the recovery in progress
  job,        \* what the worker does
  touches, faults

files == <<kind, at, touches>>
db == <<logged, entry, rows, status, abandoned, recovery>>
vars == <<files, db, lease, job, faults>>

Item == 1..Items
Kind == {"moved", "unlogged", "retained", "unpublished"}
Content == {"none", "ours", "other"}
Place == {"source", "target"}
EntryState == {"none", "begun", "recovery_required", "completed", "failed"}
RunStatus == {"none", "running", "completed", "partial", "failed", "recovery_required"}
NoLease == [run |-> 0, item |-> 0]
Pc == {"idle", "item", "prepare", "restore", "check", "delete", "save", "finish", "release",
       "recover", "finish_recovery"}
Result == {"none", "success", "skipped", "failed"}
Error == {"none", "recovery"}
Job == [pc: Pc, run: Run \cup {0}, item: 0..Items, todo: SUBSET Item, result: Result,
        error: Error, status: RunStatus, failed: BOOLEAN, tries: 0..2, late: BOOLEAN]
Idle == [pc |-> "idle", run |-> 0, item |-> Items, todo |-> {}, result |-> "none",
         error |-> "none", status |-> "none", failed |-> FALSE, tries |-> 0, late |-> FALSE]

TypeOK ==
  /\ kind \in [Item -> Kind] /\ logged \subseteq Item
  /\ at \in [Item -> [Place -> Content]]
  /\ entry \in [Run -> [Item -> EntryState]]
  /\ rows \in [Run -> [Item -> SUBSET {"success", "skipped", "failed"}]]
  /\ status \in [Run -> RunStatus]
  /\ abandoned \subseteq Run \X Item
  /\ lease = NoLease \/ lease \in [run: Run, item: Item \cup {0}]
  /\ recovery \in {"none", "running", "completed", "recovery_required"}
  /\ job \in Job
  /\ job.pc # "idle" => job.run \in Run
  /\ job.pc \in {"prepare", "restore", "check", "delete", "save", "recover"} => job.item \in Item
  /\ touches \in 0..MaxTouches /\ faults \in 0..MaxFaults

Open(r, i) == entry[r][i] \in {"begun", "recovery_required"}
Entries(r) == {i \in Item : entry[r][i] # "none"}
OpenEntries(r) == {i \in Item : Open(r, i)}
Covers(l, r, i) == l.run = r /\ l.item \in {0, i}

\* What an apply run may leave: files moved with a summary or, if writing it failed
\* in a process that still lives, without; copies whose publication is said to
\* have failed, there or not, beside their sources.
Init ==
  /\ kind \in [Item -> Kind] /\ Cardinality({i \in Item : kind[i] # "moved"}) <= MaxUnmoved
  /\ logged = {i \in Item : kind[i] # "unlogged"}
  /\ at = [i \in Item |->
             [source |-> IF kind[i] \in {"moved", "unlogged"} THEN "none" ELSE "ours",
              target |-> IF kind[i] = "unpublished" THEN "none" ELSE "ours"]]
  /\ entry = [r \in Run |-> [i \in Item |-> "none"]]
  /\ rows = [r \in Run |-> [i \in Item |-> {}]]
  /\ status = [r \in Run |-> "none"]
  /\ abandoned = {} /\ lease = NoLease /\ recovery = "none" /\ job = Idle
  /\ touches = 0 /\ faults = 0

Moved(i) == kind[i] \in {"moved", "unlogged"}

\* load_rollback_items: an entry without its summary is not found.
Loaded == logged

----------------------------------------------------------------------------
(***************************************************************************)
(* The repairs every finishing or opening process makes.                   *)
(***************************************************************************)
\* reconcile_terminal_journal_summaries, of the apply run and its rollbacks.
WriteSummaries ==
  /\ logged' = Item
  /\ rows' = [r \in Run |-> [i \in Item |->
       IF rows[r][i] # {} \/ i \notin logged' THEN rows[r][i] ELSE
       CASE entry[r][i] = "completed" -> {"success"}
         [] entry[r][i] \in {"failed", "recovery_required"} -> {"failed"}
         [] OTHER -> {}]]

\* What is known of an item: by its entry, or else by its row.
Observed(r, i) == entry[r][i] # "none" \/ rows'[r][i] # {}
Failing(r, i) == IF entry[r][i] # "none" THEN entry[r][i] # "completed"
                                         ELSE "failed" \in rows'[r][i]

\* Variant: items nothing is known of do not count.
Outcome_Observed(r) ==
  IF \E i \in Item : Observed(r, i) /\ Failing(r, i) THEN "partial" ELSE "completed"

\* terminal_rollback_journal_outcome: items of the apply run nothing is known of have failed.
Outcome(r) ==
  IF \E i \in Item : IF Observed(r, i) THEN Failing(r, i) ELSE i \in logged'
  THEN "partial" ELSE "completed"

HasOutcome(r) == Entries(r) # {} /\ OpenEntries(r) = {}

\* persist_terminal_rollback_outcome
Settles(r) == status[r] \in {"running", "recovery_required"} /\ HasOutcome(r)

----------------------------------------------------------------------------
Goto(pc) == job' = [job EXCEPT !.pc = pc]
Fault == faults < MaxFaults /\ faults' = faults + 1
NoFault == UNCHANGED faults
KeepDb == UNCHANGED db

\* The run ends with a status it proposes; a normal end is tried twice.
Ending(s, n) == job' = [Idle EXCEPT !.pc = "finish", !.run = job.run, !.status = s, !.tries = n]
Resulting(result, error) ==
  job' = [job EXCEPT !.pc = "save", !.result = result, !.error = error]
Record(s) == entry' = [entry EXCEPT ![job.run][job.item] = s]
Put(i, source, target) == at' = [at EXCEPT ![i] = [source |-> source, target |-> target]]
KeepRuns == UNCHANGED <<logged, rows, status, abandoned, recovery, lease, kind, touches>>

\* Variant: the items are counted from one too many.
Begin_Past(r) ==
  /\ job.pc = "idle" /\ status[r] = "none"
  /\ \A q \in Run : OpenEntries(q) = {} /\ (q < r => status[q] # "none")
  /\ status' = [status EXCEPT ![r] = "running"]
  /\ lease' = [run |-> r, item |-> 0]
  /\ job' = [Idle EXCEPT !.pc = "item", !.run = r, !.item = Items + 1, !.todo = Loaded]
  /\ UNCHANGED <<files, logged, entry, rows, abandoned, recovery, faults>>

\* acquire_rollback_lease, begin_rollback and load_rollback_items.
Begin(r) ==
  /\ job.pc = "idle" /\ status[r] = "none"
  /\ \A q \in Run : OpenEntries(q) = {} /\ (q < r => status[q] # "none")
  /\ status' = [status EXCEPT ![r] = "running"]
  /\ lease' = [run |-> r, item |-> 0]
  /\ job' = [Idle EXCEPT !.pc = "item", !.run = r, !.todo = Loaded]
  /\ UNCHANGED <<files, logged, entry, rows, abandoned, recovery, faults>>

\* completed_rollback_evidence: an earlier run says it restored the item; a run
\* that ended as failed is not asked.
Evidence(i) ==
  \E r \in Run : /\ status[r] \in {"completed", "partial", "recovery_required"}
                 /\ "success" \in rows[r][i] /\ entry[r][i] = "completed"

\* PreflightEngine::rollback and ::duplicate_cleanup
Preflight(i) == /\ at[i].target = "ours"
                /\ at[i].source = IF Moved(i) THEN "none" ELSE "ours"

\* Heartbeat, evidence, preflight and its log, then the decision about the item.
NextItem ==
  LET i == job.item
      restored == at[i].target = "none" /\ at[i].source = "ours"
  IN  /\ job.pc = "item" /\ i \in Item
      /\ \/ i \notin job.todo /\ NoFault /\ job' = [job EXCEPT !.item = i - 1]
         \/ i \in job.todo /\ Fault /\ Ending("failed", 1)
         \/ /\ i \in job.todo /\ NoFault /\ Evidence(i)
            /\ Resulting(IF restored THEN "skipped" ELSE "failed", "none")
         \/ /\ i \in job.todo /\ NoFault /\ ~Evidence(i) /\ ~Preflight(i)
            /\ Resulting("failed", "none")
         \/ i \in job.todo /\ NoFault /\ ~Evidence(i) /\ Preflight(i) /\ Goto("prepare")
      /\ KeepDb /\ UNCHANGED <<files, lease>>

\* The copy is read, or a moved file asked for its volume, which only Windows does, and
\* then prepare_rollback_operation.
Prepare ==
  LET gone == at[job.item].target = "none"
  IN  /\ job.pc = "prepare"
      /\ \/ /\ Moved(job.item) \/ ~gone
            /\ NoFault /\ Record("begun") /\ Goto(IF Moved(job.item) THEN "restore" ELSE "check")
         \/ gone /\ NoFault /\ Resulting("failed", "none") /\ UNCHANGED entry
         \/ Fault /\ Resulting("failed", "none") /\ UNCHANGED entry
      /\ KeepRuns /\ UNCHANGED at

\* rollback_one: the file is moved back; it fails and the entry is closed; a write
\* before the publication fails and nothing is said of the entry; a step after
\* it fails and the entry is parked, unless that write fails too.
Restore ==
  LET i == job.item
  IN  /\ job.pc = "restore"
      /\ \/ /\ at[i] = [source |-> "none", target |-> "ours"]
            /\ Put(i, "ours", "none") /\ Record("completed")
            /\ NoFault /\ Resulting("success", "none")
         \/ UNCHANGED at /\ Record("failed") /\ NoFault /\ Resulting("failed", "none")
         \/ UNCHANGED <<at, entry>> /\ Fault /\ Resulting("failed", "none")
         \/ /\ at[i] = [source |-> "none", target |-> "ours"]
            /\ \E left \in {"none", "ours"} : Put(i, "ours", left)
            /\ \E s \in {"begun", "recovery_required"} : Record(s)
            /\ Fault /\ Resulting("failed", "recovery")
      /\ KeepRuns

\* Variant: the copy is prepared and deleted, and the source not looked at again.
CheckCopy_Unseen ==
  /\ job.pc = "check" /\ Goto("delete") /\ NoFault
  /\ KeepRuns /\ UNCHANGED <<at, entry>>

\* cleanup_partial_copy: the source, then the copy, is compared with what was prepared,
\* which may itself be what the user put in the place of the copy.  A file that is not
\* there ends the check, as does a write that fails, and nothing is said of the entry.
CheckCopy ==
  LET i == job.item
      intact == at[i] = [source |-> "ours", target |-> "ours"]
  IN  /\ job.pc = "check"
      /\ \/ intact /\ Goto("delete") /\ NoFault /\ UNCHANGED entry
         \/ /\ ~intact /\ at[i].source # "none" /\ Record("failed")
            /\ NoFault /\ Resulting("failed", "none")
         \/ /\ at[i].source = "ours" /\ at[i].target = "other" /\ Record("recovery_required")
            /\ NoFault /\ Resulting("failed", "recovery")
         \/ /\ at[i].source = "none" \/ (at[i].source = "ours" /\ at[i].target = "none")
            /\ NoFault /\ Resulting("failed", "none") /\ UNCHANGED entry
         \/ UNCHANGED entry /\ Fault /\ Resulting("failed", "none")
      /\ KeepRuns /\ UNCHANGED at

\* delete_file_if_matches and the two transitions after it.
DeleteCopy ==
  LET i == job.item
  IN  /\ job.pc = "delete"
      /\ \/ /\ at[i].target = "ours" /\ Put(i, at[i].source, "none")
            /\ \/ Record("completed") /\ NoFault /\ Resulting("success", "none")
               \/ /\ \E s \in {"begun", "recovery_required"} : Record(s)
                  /\ Fault /\ Resulting("failed", "recovery")
         \/ /\ UNCHANGED at /\ Record("recovery_required") /\ Resulting("failed", "recovery")
            /\ IF at[i].target = "ours" THEN Fault ELSE NoFault
         \/ UNCHANGED <<at, entry>> /\ Fault /\ Resulting("failed", "none")
      /\ KeepRuns

\* save_rollback_result: nothing keeps a second row of an item out.
SaveResult ==
  /\ job.pc = "save"
  /\ \/ /\ rows' = [rows EXCEPT ![job.run][job.item] = @ \cup {job.result}]
        /\ NoFault
        /\ IF job.error = "recovery" THEN Ending("recovery_required", 2)
           ELSE job' = [Idle EXCEPT !.pc = "item", !.run = job.run, !.item = job.item - 1,
                          !.todo = job.todo, !.failed = job.failed \/ job.result = "failed"]
     \/ Fault /\ Ending("recovery_required", 1) /\ UNCHANGED rows
  /\ UNCHANGED <<files, logged, entry, status, abandoned, recovery, lease>>

LastItem ==
  /\ job.pc = "item" /\ job.item = 0
  /\ \/ NoFault /\ Ending(IF job.failed THEN "partial" ELSE "completed", 2)
     \/ Fault /\ Ending("failed", 1)
  /\ KeepDb /\ UNCHANGED <<files, lease>>

\* finish_rollback: the entries overrule the proposed status unless it is "failed".
FinishRollback ==
  /\ job.pc = "finish"
  /\ \/ /\ status[job.run] = "running" /\ NoFault
        /\ WriteSummaries
        /\ status' = [status EXCEPT ![job.run] =
                        IF job.status # "failed" /\ HasOutcome(job.run) THEN Outcome(job.run)
                                                                       ELSE job.status]
        /\ Goto("release")
     \/ /\ Fault /\ UNCHANGED <<logged, rows, status>>
        /\ IF job.tries > 1 THEN job' = [job EXCEPT !.tries = job.tries - 1]
                            ELSE Goto("release")
  /\ UNCHANGED <<files, entry, abandoned, recovery, lease>>

Release ==
  /\ job.pc = "release"
  /\ lease' = NoLease /\ job' = Idle /\ recovery' = "none"
  /\ UNCHANGED <<files, logged, entry, rows, status, abandoned, faults>>

Crash ==
  /\ job.pc # "idle" /\ Fault
  /\ job' = Idle /\ recovery' = "none"
  /\ UNCHANGED <<files, logged, entry, rows, status, abandoned, lease>>

----------------------------------------------------------------------------
\* Recovery refuses an entry of cleanup_partial_copy (conditional_delete_only), so
\* that one stays open.
Recover(r, i) ==
  /\ job.pc = "idle" /\ Open(r, i) /\ Moved(i)
  /\ \A q \in Run : OpenEntries(q) \subseteq (IF q = r THEN {i} ELSE {})
  /\ lease' = [run |-> r, item |-> i]
  /\ recovery' = "running"
  /\ job' = [Idle EXCEPT !.pc = "recover", !.run = r, !.item = i]
  /\ UNCHANGED <<files, logged, entry, rows, status, abandoned, faults>>

\* execute_recovery_action: the move is resumed or taken back, if the user has
\* left the file alone; a refusal or a failing write leaves the entry as it is.
RecoverEntry ==
  LET i == job.item
      intact == "other" \notin {at[i].source, at[i].target} /\ "ours" \in {at[i].source, at[i].target}
  IN  /\ job.pc = "recover"
      /\ \/ /\ intact /\ abandoned' = abandoned \ {<<job.run, i>>}
            /\ \/ Put(i, "ours", "none") /\ \E s \in {"completed", "begun", "recovery_required"} : Record(s)
               \/ Put(i, "none", "ours") /\ \E s \in {"failed", "begun", "recovery_required"} : Record(s)
         \/ UNCHANGED <<at, entry, abandoned>>
      /\ Goto("finish_recovery")
      /\ UNCHANGED <<kind, touches, logged, rows, status, recovery, lease, faults>>

\* finish_recovery: refused if somebody ended the recovery run already.
FinishRecovery ==
  /\ job.pc = "finish_recovery"
  /\ \/ /\ recovery = "running" /\ NoFault
        /\ WriteSummaries
        /\ status' = IF ~Open(job.run, job.item) /\ Settles(job.run)
                     THEN [status EXCEPT ![job.run] = Outcome(job.run)] ELSE status
     \/ recovery # "running" /\ NoFault /\ UNCHANGED <<logged, rows, status>>
     \/ Fault /\ UNCHANGED <<logged, rows, status>>
  /\ Goto("release")
  /\ UNCHANGED <<files, entry, abandoned, recovery, lease>>

\* Rows whose lock nobody holds are removed.
RemainingLease == IF job.pc = "idle" THEN NoLease ELSE lease

\* Variant: runs are settled, but those a crash left with an open entry are not marked.
Reopen_Unmarked ==
  LET free(r) == \A i \in Entries(r) : ~Covers(RemainingLease, r, i)
  IN  /\ lease' = RemainingLease
      /\ WriteSummaries
      /\ status' = [r \in Run |-> IF Settles(r) /\ free(r) THEN Outcome(r) ELSE status[r]]
      /\ UNCHANGED <<files, entry, abandoned, recovery, job, faults>>

\* Some process opens the database (reconcile_abandoned_journals).
Reopen ==
  LET orphan(r, i) == Open(r, i) /\ ~Covers(RemainingLease, r, i)
      free(r) == \A i \in Entries(r) : ~Covers(RemainingLease, r, i)
  IN  /\ lease' = RemainingLease
      /\ abandoned' = abandoned \cup {e \in Run \X Item : orphan(e[1], e[2])}
      /\ WriteSummaries
      /\ recovery' =
           IF recovery # "running" THEN recovery
           ELSE IF ~Open(job.run, job.item) THEN "completed"
           ELSE IF <<job.run, job.item>> \in abandoned' THEN "recovery_required" ELSE recovery
      /\ status' =
           [r \in Run |->
              IF Settles(r) /\ free(r) THEN Outcome(r)
              ELSE IF status[r] = "running"
                      /\ \E i \in Item : Open(r, i) /\ <<r, i>> \in abandoned'
                   THEN "recovery_required" ELSE status[r]]
      /\ UNCHANGED <<files, entry, job, faults>>

\* The user removes a file, or saves another one, at the source or the target, at a
\* time when the program has yet to look at it.
Touch(i, p) ==
  /\ job.pc \in {"item", "prepare", "restore", "check", "delete"}
  /\ touches < MaxTouches /\ touches' = touches + 1
  /\ \E c \in {"none", "other"} \ {at[i][p]} : at' = [at EXCEPT ![i][p] = c]
  /\ job' = IF job.pc = "delete" /\ job.item = i THEN [job EXCEPT !.late = TRUE] ELSE job
  /\ UNCHANGED <<kind, db, lease, faults>>

Work ==
  \/ NextItem \/ Prepare \/ Restore \/ CheckCopy \/ DeleteCopy \/ SaveResult \/ LastItem
  \/ FinishRollback \/ Release \/ RecoverEntry \/ FinishRecovery

Next ==
  \/ Work \/ Crash \/ Reopen
  \/ \E r \in Run : Begin(r) \/ \E i \in Item : Recover(r, i)
  \/ \E i \in Item, p \in Place : Touch(i, p)

Spec == Init /\ [][Next]_vars

\* As in ApplyRun: a living process goes on, and the database is opened again.
FairSpec == Spec /\ WF_vars(Work) /\ SF_vars(job.pc = "idle" /\ Reopen)

----------------------------------------------------------------------------
(***************************************************************************)
(* Properties.                                                             *)
(***************************************************************************)
Restored(i) == \E r \in Run : entry[r][i] = "completed"

\* A rollback that says "completed" leaves nothing of the apply run in place: each
\* of its effects was undone by this rollback or an earlier one, however often they
\* were cut off, recovered and repaired.  Files whose summary was never written are
\* out of its sight as long as it journals nothing.
HonestRollback ==
  \A r \in Run : status[r] = "completed" =>
    \A i \in Item : Restored(i) \/ (kind[i] = "unlogged" /\ Entries(r) = {})

\* A copy is deleted only while the original it duplicates is in place; the user may
\* still remove that in the moment between the last look and the deletion.
OriginalKept ==
  [][\A i \in Item :
       (DeleteCopy /\ at[i].target = "ours" /\ at'[i].target # "ours")
          => at[i].source = "ours" \/ job.late]_vars

\* A rollback that journaled a step does not stay "running" once its process ended.
InterruptedRollbackEnds ==
  \A r \in Run :
    (job.pc = "idle" /\ status[r] = "running" /\ Entries(r) # {}) ~> status[r] # "running"
=============================================================================
