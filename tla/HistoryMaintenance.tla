------------------------- MODULE HistoryMaintenance -------------------------
(***************************************************************************)
(* What becomes of a workflow when it is done: its plan is applied, rolled *)
(* back and verified, in any order and by several processes, until it can  *)
(* be archived into a file and then purged from the database.  Archiving   *)
(* and purging run in an immediate transaction, which no other write       *)
(* enters; files change whenever the user likes, and every process may     *)
(* end between two steps.                                                  *)
(*                                                                         *)
(* The runs are taken at the level of their rows: an item has an open      *)
(* journal entry, a completed one, and a summary.  How one item is moved   *)
(* is MoveProtocol, how runs end is ApplyRun and RollbackRun.  A recovery  *)
(* is one step.                                                            *)
(***************************************************************************)
EXTENDS Integers, Sequences, FiniteSets

CONSTANTS
  Item,        \* items of the plan, numbered as they are applied
  MaxRuns,     \* bound on apply, rollback and verify runs
  MaxFaults,   \* bound on crashes and failing writes
  MaxTouched   \* bound on files the user moves away and archives he changes

ASSUME HistoryAssumption ==
  /\ Item \subseteq Nat \ {0} /\ IsFiniteSet(Item)
  /\ MaxRuns \in Nat /\ MaxFaults \in Nat /\ MaxTouched \in Nat

VARIABLES
  runs,       \* execution_runs, rollback_runs and verify_runs with their journal and logs
  worker,     \* per run: the next step of the thread that works on it
  lease,      \* the row of mutation_leases for the roots of the workflow
  starting,   \* the run whose caller holds the lease and has no row yet
  place,      \* where each file is
  tx,         \* the transaction of archive_history
  files,      \* published archives
  manifest,   \* the archive of the completed row of archive_manifests, or 0
  purged,     \* delete_history removed the workflow
  confirmed,  \* items a verify run found restored (history variable)
  faults,
  touched

rows == <<runs, worker, lease, starting>>
store == <<tx, files, manifest, purged>>
vars == <<rows, place, store, confirmed, faults, touched>>

None == 0
Kinds == {"apply", "rollback", "verify"}
Status == {"running", "completed", "partial", "failed", "recovery_required"}
\* open, moved: items with an open or a completed entry; journaled: there is an
\* entry; logged: moved items with a summary; failed: items whose summary, or
\* else whose entry, says that they failed.
Record == [kind: Kinds, subject: 0..MaxRuns, status: Status, todo: SUBSET Item,
           journaled: BOOLEAN, open: SUBSET Item, moved: SUBSET Item, logged: SUBSET Item,
           failed: SUBSET Item]
NewRun(kind, subject, todo) ==
  [kind |-> kind, subject |-> subject, status |-> "running", todo |-> todo,
   journaled |-> FALSE, open |-> {}, moved |-> {}, logged |-> {}, failed |-> {}]
Gone == [pc |-> "gone", item |-> None]
Archived == manifest # 0
NoStart == [kind |-> "apply", subject |-> 0]

TypeOK ==
  /\ Len(runs) <= MaxRuns /\ \A r \in DOMAIN runs : runs[r] \in Record
  /\ worker \in [1..MaxRuns -> [pc: {"gone", "items", "moving", "log"}, item: Item \cup {None}]]
  /\ lease \in {"free", "taken", "checked", "run", "stale"}
  /\ (lease = "run") <=>
       \E r \in DOMAIN runs : worker[r].pc # "gone" /\ runs[r].kind # "verify"
  /\ starting \in [kind: Kinds, subject: 0..MaxRuns]
  /\ place \in [Item -> {"source", "target", "away"}]
  /\ tx \in {"none", "published"}
  /\ \A f \in DOMAIN files : files[f].whole \in BOOLEAN
  /\ manifest \in 0..Len(files) /\ purged \in BOOLEAN
  /\ confirmed \subseteq Item /\ faults \in 0..MaxFaults /\ touched \in 0..MaxTouched

\* A completed scan and its completed plan.
Init ==
  /\ runs = <<>> /\ worker = [r \in 1..MaxRuns |-> Gone]
  /\ lease = "free" /\ starting = NoStart
  /\ place = [i \in Item |-> "source"]
  /\ tx = "none" /\ files = <<>> /\ manifest = 0 /\ purged = FALSE
  /\ confirmed = {} /\ faults = 0 /\ touched = 0

----------------------------------------------------------------------------
\* No other transaction is in the way of a write, and the workflow is there.
Writable == tx = "none" /\ ~purged
\* ensure_plan_mutable, ensure_execution_mutable, ensure_rollback_mutable
Mutable == ~Archived
Fault == faults < MaxFaults /\ faults' = faults + 1
Applies == {r \in DOMAIN runs : runs[r].kind = "apply"}
Rollbacks == {r \in DOMAIN runs : runs[r].kind = "rollback"}

\* Items whose summary says that they were restored.
Successes(run) == run.logged \ run.failed

\* successful_plan_item_ids, load_rollback_items, load_successful_operations,
\* load_successful_rollback_operations
Todo(kind, subject) ==
  CASE kind = "apply" -> Item \ UNION {runs[r].moved : r \in Applies}
    [] kind = "rollback" -> runs[subject].logged
    [] kind = "verify" -> IF subject \in Rollbacks THEN Successes(runs[subject])
                                                   ELSE runs[subject].logged

\* completed_rollback_evidence
Restored(r, i) ==
  \E e \in Rollbacks \ {r} :
    /\ runs[e].subject = runs[r].subject /\ i \in Successes(runs[e])
    /\ runs[e].status \in {"completed", "partial", "recovery_required"}

\* terminal_apply_journal_outcome, terminal_rollback_journal_outcome: entries
\* overrule summaries, and an item without either has failed.
HasOutcome(run) == run.journaled /\ run.open = {}
Outcome(run) == IF run.failed \subseteq run.moved /\ run.todo = {} THEN "completed" ELSE "partial"

\* reconcile_terminal_journal_summaries, of one run; other runs have theirs by then.
Summarised(run) == [run EXCEPT !.logged = run.moved]

\* finish_execution, finish_rollback
Finished(run, proposed) ==
  [Summarised(run) EXCEPT !.status = IF proposed # "failed" /\ HasOutcome(run) THEN Outcome(run)
                                                                             ELSE proposed]

\* persist_terminal_apply_outcome, persist_terminal_rollback_outcome
Reconciled(run) ==
  IF run.status \in {"running", "recovery_required"} /\ HasOutcome(run)
  THEN [Summarised(run) EXCEPT !.status = Outcome(run)] ELSE Summarised(run)

----------------------------------------------------------------------------
(***************************************************************************)
(* Runs.  Apply and rollback take the lease before they have a row;        *)
(* verification needs none.                                                *)
(***************************************************************************)
\* acquire_apply_lease and acquire_rollback_lease look before and after.
AcquireLease ==
  /\ Writable /\ Mutable /\ lease = "free"
  /\ \A r \in DOMAIN runs : runs[r].open = {}
  /\ \E kind \in {"apply", "rollback"}, subject \in Applies \cup {0} :
       /\ (kind = "apply") <=> (subject = 0)
       /\ starting' = [kind |-> kind, subject |-> subject]
  /\ lease' = "taken"
  /\ UNCHANGED <<runs, worker, place, store, confirmed, faults, touched>>

CheckLease ==
  /\ Writable /\ lease = "taken"
  /\ lease' = IF Mutable THEN "checked" ELSE "free"
  /\ UNCHANGED <<runs, worker, starting, place, store, confirmed, faults, touched>>

Begin(kind, subject) ==
  LET r == Len(runs) + 1 IN
  /\ r <= MaxRuns
  /\ runs' = Append(runs, NewRun(kind, subject, Todo(kind, subject)))
  /\ worker' = [worker EXCEPT ![r].pc = "items"]

\* begin_execution and begin_rollback look once more, in their transaction.
BeginRun ==
  /\ Writable /\ lease = "checked"
  /\ IF Mutable THEN Begin(starting.kind, starting.subject) /\ lease' = "run"
     ELSE lease' = "free" /\ UNCHANGED <<runs, worker>>
  /\ starting' = NoStart
  /\ UNCHANGED <<place, store, confirmed, faults, touched>>

\* Variant: what is archived can be verified again.
BeginVerify_Archived ==
  /\ Writable
  /\ \E r \in Applies \cup Rollbacks : Begin("verify", r)
  /\ UNCHANGED <<lease, starting, place, store, confirmed, faults, touched>>

\* begin_verify, begin_verify_subject: whatever the status of the subject is.
BeginVerify ==
  /\ Writable /\ Mutable
  /\ \E r \in Applies \cup Rollbacks : Begin("verify", r)
  /\ UNCHANGED <<lease, starting, place, store, confirmed, faults, touched>>

\* Apply goes through the plan forwards, rollback backwards.
Chosen(run) ==
  CHOOSE i \in run.todo :
    \A k \in run.todo : IF run.kind = "rollback" THEN k <= i ELSE i <= k

\* Preflight of one item: its journal entry is opened, or it fails or is skipped.
\* A heartbeat or a write that fails ends the run.
NextItem(r) ==
  /\ Writable /\ worker[r].pc = "items" /\ runs[r].kind # "verify" /\ runs[r].todo # {}
  /\ LET i == Chosen(runs[r])
         there == place[i] = IF runs[r].kind = "apply" THEN "source" ELSE "target"
         done == runs[r].kind = "rollback" /\ Restored(r, i)
     IN IF there /\ ~done
        THEN /\ runs' = [runs EXCEPT ![r].open = @ \cup {i}, ![r].journaled = TRUE,
                                     ![r].todo = @ \ {i}]
             /\ worker' = [worker EXCEPT ![r] = [pc |-> "moving", item |-> i]]
        ELSE /\ runs' = [runs EXCEPT ![r].todo = @ \ {i},
                           ![r].failed = IF done /\ place[i] = "source" THEN @ ELSE @ \cup {i}]
             /\ UNCHANGED worker
  /\ UNCHANGED <<lease, starting, place, store, confirmed, faults, touched>>

MoveTo(r) == IF runs[r].kind = "apply" THEN "target" ELSE "source"

\* The file is moved and its entry completed.
Complete(r) ==
  /\ Writable /\ worker[r].pc = "moving"
  /\ runs' = [runs EXCEPT ![r].open = @ \ {worker[r].item}, ![r].moved = @ \cup {worker[r].item}]
  /\ place' = [place EXCEPT ![worker[r].item] = MoveTo(r)]
  /\ worker' = [worker EXCEPT ![r].pc = "log"]
  /\ confirmed' = confirmed \ {worker[r].item}
  /\ UNCHANGED <<lease, starting, store, faults, touched>>

\* The run ends: its status is written, its lease released.
End(r, run) ==
  /\ runs' = [runs EXCEPT ![r] = run]
  /\ worker' = [worker EXCEPT ![r] = Gone] /\ lease' = "free"

\* A move fails: its entry is closed or stays open, and the run goes on, or ends
\* over an open entry.
MoveFails(r) ==
  LET i == worker[r].item
      failing == [runs[r] EXCEPT !.failed = @ \cup {i}]
  IN
  /\ Writable /\ Fault /\ worker[r].pc = "moving"
  /\ \/ /\ \E open \in {runs[r].open, runs[r].open \ {i}} :
             runs' = [runs EXCEPT ![r] = [failing EXCEPT !.open = open]]
        /\ worker' = [worker EXCEPT ![r] = [pc |-> "items", item |-> None]]
        /\ UNCHANGED lease
     \/ End(r, Finished(failing, "recovery_required"))
  /\ UNCHANGED <<starting, place, store, confirmed, touched>>

\* save_operation and save_rollback_result; if the write fails, or a starting
\* process has written the summary of an apply run already, the run ends.
LogItem(r) ==
  LET i == worker[r].item IN
  /\ Writable /\ worker[r].pc = "log"
  /\ \/ /\ ~(runs[r].kind = "apply" /\ i \in runs[r].logged)
        /\ runs' = [runs EXCEPT ![r].logged = @ \cup {i}]
        /\ worker' = [worker EXCEPT ![r] = [pc |-> "items", item |-> None]]
        /\ UNCHANGED <<lease, faults>>
     \/ /\ IF runs[r].kind = "apply" /\ i \in runs[r].logged THEN UNCHANGED faults ELSE Fault
        /\ End(r, Finished(runs[r], "recovery_required"))
  /\ UNCHANGED <<starting, place, store, confirmed, touched>>

\* What a run that has gone through its items proposes.
Proposed(run) == IF run.failed = {} THEN "completed" ELSE "partial"

\* Variant: the lease is not released.
FinishRun_Held(r) ==
  /\ Writable /\ worker[r].pc = "items" /\ runs[r].kind # "verify" /\ runs[r].todo = {}
  /\ runs' = [runs EXCEPT ![r] = Finished(runs[r], Proposed(runs[r]))]
  /\ worker' = [worker EXCEPT ![r] = Gone]
  /\ UNCHANGED <<lease, starting, place, store, confirmed, faults, touched>>

\* The last item is done, or a heartbeat or a preflight row fails before that.
FinishRun(r) ==
  /\ Writable /\ worker[r].pc = "items" /\ runs[r].kind # "verify"
  /\ \/ /\ runs[r].todo = {} /\ UNCHANGED faults
        /\ End(r, Finished(runs[r], Proposed(runs[r])))
     \/ Fault /\ End(r, Finished(runs[r], "failed"))
  /\ UNCHANGED <<starting, place, store, confirmed, touched>>

\* One item of VerifyUseCase::execute_subject.  A result that cannot be saved
\* ends it at once, with the run as it is.
VerifyItem(r) ==
  /\ Writable /\ worker[r].pc = "items" /\ runs[r].kind = "verify" /\ runs[r].todo # {}
  /\ LET i == Chosen(runs[r])
         found == place[i] = MoveTo(runs[r].subject)
     IN \/ /\ runs' = [runs EXCEPT ![r].todo = @ \ {i},
                                    ![r].failed = IF found THEN @ ELSE @ \cup {i}]
           /\ confirmed' = IF found /\ MoveTo(runs[r].subject) = "source"
                           THEN confirmed \cup {i} ELSE confirmed
           /\ UNCHANGED <<worker, faults>>
        \/ /\ Fault /\ worker' = [worker EXCEPT ![r] = Gone] /\ UNCHANGED <<runs, confirmed>>
  /\ UNCHANGED <<lease, starting, place, store, touched>>

\* finish_verify
FinishVerify(r) ==
  /\ Writable /\ worker[r].pc = "items" /\ runs[r].kind = "verify" /\ runs[r].todo = {}
  /\ runs' = [runs EXCEPT ![r].status = IF runs[r].failed = {} THEN "completed" ELSE "failed"]
  /\ worker' = [worker EXCEPT ![r] = Gone]
  /\ UNCHANGED <<lease, starting, place, store, confirmed, faults, touched>>

----------------------------------------------------------------------------
(***************************************************************************)
(* Crashes, the next opening of the database, recovery.                    *)
(***************************************************************************)
Crash ==
  /\ Fault
  /\ \/ /\ lease \in {"taken", "checked"} /\ lease' = "stale" /\ starting' = NoStart
        /\ UNCHANGED worker
     \/ \E r \in DOMAIN runs :
          /\ worker[r].pc # "gone" /\ worker' = [worker EXCEPT ![r] = Gone]
          /\ lease' = IF runs[r].kind = "verify" THEN lease ELSE "stale"
          /\ UNCHANGED starting
  /\ UNCHANGED <<runs, place, store, confirmed, touched>>

\* reconcile_abandoned_journals: summaries of all closed entries, of living runs
\* too; then the status of runs without a lease that have entries.  Verify runs
\* are not looked at.
Settled(r) ==
  CASE runs[r].kind = "verify" -> runs[r]
    [] runs[r].kind # "verify" /\ worker[r].pc # "gone" -> Summarised(runs[r])
    [] runs[r].kind # "verify" /\ worker[r].pc = "gone" ->
         IF runs[r].status = "running" /\ runs[r].open # {}
         THEN [Summarised(runs[r]) EXCEPT !.status = "recovery_required"]
         ELSE Reconciled(runs[r])

Reopen ==
  /\ Writable
  /\ runs' = [r \in DOMAIN runs |-> Settled(r)]
  /\ lease' = IF lease = "stale" THEN "free" ELSE lease
  /\ <<runs', lease'>> # <<runs, lease>>
  /\ UNCHANGED <<worker, starting, place, store, confirmed, faults, touched>>

\* RecoveryUseCase takes the only open move to its end or back, and settles the run.
Recover(r) ==
  /\ Writable /\ lease = "free"
  /\ \E i \in runs[r].open, done \in BOOLEAN :
       LET run == IF done THEN [runs[r] EXCEPT !.open = {}, !.moved = @ \cup {i}]
                  ELSE [runs[r] EXCEPT !.open = {}, !.failed = @ \cup {i}]
       IN /\ \A q \in DOMAIN runs : runs[q].open = IF q = r THEN {i} ELSE {}
          /\ runs' = [runs EXCEPT ![r] = Reconciled(run)]
          /\ place' = IF done THEN [place EXCEPT ![i] = MoveTo(r)] ELSE place
          /\ confirmed' = IF done THEN confirmed \ {i} ELSE confirmed
  /\ UNCHANGED <<worker, lease, starting, store, faults, touched>>

----------------------------------------------------------------------------
(***************************************************************************)
(* Archive and purge.                                                      *)
(***************************************************************************)
\* completed_rollback of archive_block_reasons
RolledBackBy(e, r, i) ==
  /\ e \in Rollbacks /\ runs[e].subject = r /\ i \in runs[e].moved
  /\ runs[e].status = "completed" /\ runs[e].failed \subseteq runs[e].moved
Verified(e) ==
  \E v \in DOMAIN runs : /\ runs[v].kind = "verify" /\ runs[v].subject = e
                         /\ runs[v].status = "completed" /\ runs[v].failed = {}

\* Variant: only a running run is in the way, not an entry a run left open.
BlockReasons_Open ==
  {w \in {"running_attempt", "unrolled_mutation", "rollback_unverified", "active_mutation_lease"} :
     CASE w = "running_attempt" -> \E r \in DOMAIN runs : runs[r].status = "running"
       [] w = "unrolled_mutation" ->
            \E r \in Applies : \E i \in runs[r].moved :
              i \notin runs[r].logged \/ ~\E e \in Rollbacks : RolledBackBy(e, r, i)
       [] w = "rollback_unverified" ->
            \E r \in Applies : \E i \in runs[r].logged :
              /\ \E e \in Rollbacks : RolledBackBy(e, r, i)
              /\ ~\E e \in Rollbacks : RolledBackBy(e, r, i) /\ Verified(e)
       [] w = "active_mutation_lease" -> lease # "free"}

\* archive_block_reasons
BlockReasons ==
  {w \in {"running_attempt", "recovery_required", "unrolled_mutation", "rollback_unverified",
          "active_mutation_lease"} :
     CASE w = "running_attempt" -> \E r \in DOMAIN runs : runs[r].status = "running"
       [] w = "recovery_required" -> \E r \in DOMAIN runs : runs[r].open # {}
       [] w = "unrolled_mutation" ->
            \E r \in Applies : \E i \in runs[r].moved :
              i \notin runs[r].logged \/ ~\E e \in Rollbacks : RolledBackBy(e, r, i)
       [] w = "rollback_unverified" ->
            \E r \in Applies : \E i \in runs[r].logged :
              /\ \E e \in Rollbacks : RolledBackBy(e, r, i)
              /\ ~\E e \in Rollbacks : RolledBackBy(e, r, i) /\ Verified(e)
       [] w = "active_mutation_lease" -> lease # "free"}

\* export_workflow writes every row of the workflow, runs, entries and logs alike.
Exported == [content |-> runs, whole |-> TRUE]

\* verify_completed_archive: the newest archive has the length and digest of its row.
Readable == Archived /\ files[manifest].whole

\* archive_history exports what the transaction sees, links the file to its name
\* and reads it back.
ArchivePublish ==
  /\ Writable /\ ~Archived /\ BlockReasons = {}
  /\ files' = Append(files, Exported)
  /\ tx' = "published"
  /\ UNCHANGED <<rows, place, manifest, purged, confirmed, faults, touched>>

ArchiveCommit ==
  /\ tx = "published" /\ tx' = "none" /\ manifest' = Len(files)
  /\ UNCHANGED <<rows, place, files, purged, confirmed, faults, touched>>

\* A failure or the end of the process takes the transaction back, not the file.
ArchiveLost ==
  /\ tx = "published" /\ Fault /\ tx' = "none"
  /\ UNCHANGED <<rows, place, files, manifest, purged, confirmed, touched>>

\* Variant: the rows that say archived are enough.
Purge_Unread ==
  /\ Writable /\ Archived /\ BlockReasons = {}
  /\ purged' = TRUE /\ runs' = <<>>
  /\ UNCHANGED <<worker, lease, starting, place, tx, files, manifest, confirmed, faults, touched>>

\* delete_history reads the archive again, under the transaction that deletes.
Purge ==
  /\ Writable /\ Readable /\ BlockReasons = {}
  /\ purged' = TRUE /\ runs' = <<>>
  /\ UNCHANGED <<worker, lease, starting, place, tx, files, manifest, confirmed, faults, touched>>

\* The user moves a file elsewhere, or changes or deletes an archive.
User ==
  /\ touched < MaxTouched /\ touched' = touched + 1
  /\ \/ /\ \E i \in Item : place[i] # "away" /\ place' = [place EXCEPT ![i] = "away"]
        /\ UNCHANGED files
     \/ /\ \E f \in DOMAIN files : files[f].whole /\ files' = [files EXCEPT ![f].whole = FALSE]
        /\ UNCHANGED place
  /\ UNCHANGED <<rows, tx, manifest, purged, confirmed, faults>>

----------------------------------------------------------------------------
Next ==
  \/ AcquireLease \/ CheckLease \/ BeginRun \/ BeginVerify
  \/ \E r \in DOMAIN runs :
       \/ NextItem(r) \/ Complete(r) \/ MoveFails(r) \/ LogItem(r) \/ FinishRun(r)
       \/ VerifyItem(r) \/ FinishVerify(r) \/ Recover(r)
  \/ Crash \/ Reopen
  \/ ArchivePublish \/ ArchiveCommit \/ ArchiveLost \/ Purge \/ User

Spec == Init /\ [][Next]_vars

----------------------------------------------------------------------------
\* An archive holds every run as the database has it.
Holds(f) == files[f].content = runs

\* As long as an archived workflow is in the database, its archive says what the
\* database says: nothing was under way when it was written, nothing has been
\* begun or summarised since (archive_history, ensure_*_mutable,
\* reconcile_abandoned_journals).
ArchiveCurrent ==
  Archived /\ ~purged => Holds(manifest)

\* A file the program moved and has not moved back keeps its history: no such
\* workflow is archived, and so none is purged (archive_block_reasons,
\* delete_history).
UnrolledKept ==
  Archived => \A i \in Item : place[i] # "target"

\* A workflow leaves the database only if a readable archive holds all of it,
\* whatever has been done to the archive since it was written (delete_history,
\* verify_completed_archive).
PurgeHasArchive ==
  [][purged' /\ ~purged => files[manifest].whole /\ Holds(manifest)]_vars

\* Not so: what was rolled back is archived only after a verification has found it
\* restored.  A verify run may begin while its rollback is still at work and then
\* stands for items it never looked at (begin_verify_subject,
\* archive_block_reasons).
RestorationVerified ==
  Archived /\ ~purged =>
    \A r \in Applies : runs[r].moved \subseteq confirmed
=============================================================================
