# TLA+ specifications of music_folder_builder

Specifications, model-checking configurations and proofs for this program, from the
part that can lose a user's music (taking exclusive charge of folders, moving files
one by one through a write-ahead journal, putting things right after a crash) to the
scan and the plan before it, the history after it and the desktop around it. Paths and line numbers below are relative to the repository.

## 1. The system

The program organises a music library in steps the user starts one after the
other: scan → plan → (dry run | apply) → verify → rollback → verify. The command
line (`crates/cli`) opens the database anew for every command, the desktop
(`crates/desktop`) once when it starts; both may run at the same time on the same
database, or on different databases and the same folders.

| Component | State it keeps | Operations | Interacts with | What makes it correct |
|---|---|---|---|---|
| Mutation lease (`infra/sqlite.rs`, `infra/root_lock.rs`) | OS range locks, in-process reservations, `mutation_leases` rows, `mutation_lease_sequence`, `lease_handles` in memory | acquire, heartbeat, release, refence, reconcile at open | every mutation use case; crashes | exclusion over overlapping roots; living owners keep their rows; late writers are fenced off |
| Operation journal (`sqlite.rs`, `core/preflight.rs`, `core/execution.rs`) | `operation_journal`, its events | prepare, transition (compare-and-swap) | lease (token), move, recovery | intent before effect; terminal states stay |
| Moving one file (`core/usecases.rs` apply_one, rollback_one; `infra/windows_fs.rs`) | source, temporary, target | stage, publish, verify, delete; atomic rename; delete of a duplicate | journal, the user who edits files | content never lost, nothing overwritten |
| Recovery (`usecases.rs` 59–976) | `recovery_runs` | resume, roll back, discard, for one entry | lease, journal, files | every interrupted move can be closed |
| Apply runs (`usecases.rs` 3761–4148, `sqlite.rs`) | `execution_runs`, `operation_logs`, preflight logs | begin, per-item loop, save, finish | all of the above; processes that open the database | statuses and summaries agree with the journal |
| Rollback and verify runs | `rollback_runs`, `rollback_logs`, `verify_runs` | the same, backwards; comparison with disk | journal of the applied run | only what the run published is taken back |
| Scan pipeline | enumeration, workers, bounded channels, `scan_items`, cache | start, cancel, batch write, finish | file system, metadata reader | cancellation and errors end the run; no deadlock on a full channel |
| Plan build and revision | `plan_builds`, staged items, plans, snapshot hash | stage, resolve, publish page by page, abort, revise | scan results, apply | only complete plans can be applied |
| History: archive, purge, diagnostics retention | archives on disk, all run tables | preview, export, verify, delete | every run | nothing live or unresolved is deleted |
| Desktop backend | job, scan, selection and authorization registries, session generation | begin/finish jobs, reserve mutation or reader | use cases on threads, UI | one mutation at a time; late results are dropped |
| UI reducer (`ui/src/workflow.ts`) | workflow state | events with generation and sequence | desktop commands | stale events change nothing |
| Library doctor, metadata reading, CLI, migrations, naming and path policy, scripts | – | – | – | not concurrent, or pure functions |

Hard to test here: two processes on one database with crashes in between; the
steps between a file system effect and the journal write about it; recoveries that
are themselves interrupted; a slow owner whose lease expires; a starting process
that repairs rows of a run which is alive; writes that fail at any one of some
thirty places. `PROJECT.json` lists each such hazard with its line and the
properties that cover it.

## 2. Modules

```
JournalStates ──┬── MutationLease ── MCMutationLease
                └── MoveProtocol ── AbstractMove (refinement)
ScanPipeline    PlanBuild ── AbstractPlan (refinement), MCPlanBuild
ApplyRun        RollbackRun        HistoryMaintenance        DesktopJobs

M_proofs extends M, for M = MutationLease, MoveProtocol, ScanPipeline, PlanBuild,
ApplyRun, RollbackRun, HistoryMaintenance, DesktopJobs
```

A file goes through them in the order scan (ScanPipeline), plan (PlanBuild), apply
(ApplyRun over MoveProtocol under MutationLease), rollback (RollbackRun),
verification and archive (HistoryMaintenance); DesktopJobs is the shell all of
these run in. They look at the same data at different resolutions, and each takes
from the others what it does not show itself: MoveProtocol has one entry and one
worker, because MutationLease shows that an entry has one owner at a time; ApplyRun
and RollbackRun have many entries of which each move is one step that ends in one of
the ways MoveProtocol allows; HistoryMaintenance has many runs of both kinds, with
statuses that end as those two modules show; DesktopJobs sees of a use case that it
returns a run or an error, and of a scan also that it may never return, which
ScanPipeline shows (`scan_stuck`). MutationLease has
entries whose state its workers advance along `journal_transition_allowed` in any
order.

**JournalStates** — the vocabulary: states, directions, recovery actions and the
transition table of `core/preflight.rs:299`.

**MutationLease** — who may change which folders. A folder tree is the set of
regions it covers; two roots overlap iff they share one, which is what
`windows_path_scopes_overlap` decides.

| TLA+ | Code |
|---|---|
| `rows`, `rowScopes`, `expires` | `mutation_leases` grouped by fencing token |
| `lastToken` | `mutation_lease_sequence.last_fencing_token` |
| `phase`, `scopes`, `token`, `target` of a store | the progress of `acquire_mutation_lease`, `acquire_recovery_lease`, `release_mutation_lease`; `RootProcessLock`; `lease_handles` |
| `seen`, `cand` | `leases_by_token` and `candidates` in `reconcile_abandoned_journals` |
| `journal[j]` | state and fencing token of an `operation_journal` row, the files it is about, and the roots of its run |
| `OpenStore … ReconcileCommit` | the steps of `reconcile_abandoned_journals`: read, probe each lock, lock all candidates, delete |
| `LockForRun`, `LockForRecovery`, `AcquireCommit`, `InsertHandle` | OS lock, SQLite transaction, handle |
| `Refence`, `RefenceRejected`, `RefenceError` | second transaction of `acquire_recovery_lease` |
| `Heartbeat`, `Prepare`, `Transition` | the writes under a lease, all of which renew its rows |
| `ReleaseRows`, `DropHandle`, `ReleaseError` | `release_mutation_lease` |
| `Crash` | the end of a process, at any point |

A SQLite `BEGIN IMMEDIATE` transaction is one step. Its other failures (busy,
poisoned mutex) are `AcquireFails`, `RefenceError`, `ReleaseError`; a failing
heartbeat or journal write changes nothing. The clock does not run backwards.
On platforms other than Windows the code has only the in-process reservation; the
model is the Windows build.

**MoveProtocol** — one file moved by apply or rollback, and its recovery. `fs` says
which file is at the source, temporary and target path (identity, content, who made
it; a hard link is the same identity at two paths), `journal` is the entry, `pc` the
next call or write of the worker. Each call may succeed, fail for a reason of its
own, or fail after its effect where the code distinguishes that (a flush after a
link, a rename or a delete); each write may fail; the process may crash anywhere;
the user may delete, edit or replace files at any moment, between a check and the
call it guards included. Apply and rollback have the same steps with the paths
swapped, and differ where a copy that cannot be published is left behind
(`PublishError`). Recovery re-uses the steps of a run from the point where it joins
them. A conditional deletion (`delete_file_if_matches`) is two steps, as on Windows:
`Validate` opens the file and compares it, `Dispose` marks the open file for deletion;
the handle lets others write, so the user may edit the file between the two
(`Condemned`), or put another one at its path. The source of a rename is open without
write sharing, and `AtomicMove` is one step. What the identity and content of a file
are compared with (`Matches`) follows each call site: identity is compared only where
the code has one.

**AbstractMove** — what a move promises: a complete copy at the source, the target
or both, never at neither, and a closed operation names the one place where it is.
`MoveProtocol` implements it (`MoveIsAtomic`) with
`place <- {p : Matches(p, NoId)}` and the journal state as outcome.

**ApplyRun** — runs over the items of a plan. `status`, `journal`, `log`, `recovery`
are the columns of `execution_runs`, `operation_journal`, `operation_logs` and
`recovery_runs`; `lease` is which entries have rows in `mutation_leases`; `job` is
the use case at work. `Reopen` is `reconcile_abandoned_journals` in one transaction,
run by any process at any time. `Summary`, `Outcome` and `Settles` are the SQL the
three repair paths (opening, `finish_execution`, `finish_recovery`) share.

**ScanPipeline** — `ScanUseCase::execute_started`. `walker`, `worker[w]` and `writer`
are the enumerating thread, the threads of `spawn_scan_worker` and the calling
thread in `consume_scan_results`; `paths` and `results` are the two crossbeam channels.
A channel is closed for a receiver when it is empty and all senders are dropped, and
for a sender when all receivers are; the calling thread's own clone of
`path_receiver` is one (`PathsOpen`). `content[f]` counts the versions of a file the
user edits; a fingerprint is that number, because `fingerprint_file` takes identity,
size, time and digest. `cache` are the pairs of fingerprint and tags that
`previous_metadata` would serve. Each send, receive, read and transaction is a step.

**PlanBuild** — `PlanUseCase::execute` and `execute_bounded_plan_revision`. A step is
one page of one pass: `DraftPage` (`stage_plan_batch`), `ImagesPage`
(`resolve_staged_images`), `NamesPage` (`resolve_staged_duplicate_targets`),
`ConflictsPage` (`mark_staged_target_conflicts`), `PublishPage`, and
`complete_plan_build` or `abort_plan_build`. `build[p]` are `plan_item_staging`
(current item and the target it was staged with) and `plan_target_allocations`;
`plan[p]` are the rows an application reads, with the snapshot hash as the sequence of
items it is taken of. A name is a number for the file's own name followed by those of
its suffixes, so that a file of its own may be called what a suffix makes of another.
`wanted` keeps what was staged and is read by properties only. A target that is too long for the
path policy (`Valid`) blocks its item wherever one is made: when an item is drafted or
kept by a revision, when an image follows its music (`Checked`), and when a name gets
a suffix.

**AbstractPlan** — what a plan promises whoever applies it: absent or open, then either
failed or, in one step, applicable with one item per file and never different
again. `PlanBuild` implements it with `View`, the answer of `load_completed_plan` and
`validate_plan_snapshot`.

**RollbackRun** — rollbacks of one apply run, in the vocabulary of ApplyRun. `kind[i]`
is what the apply run did to an item: moved it, moved it without a summary, or left
a copy behind (`copy_source_retained`) that is there or was never published. `at` is
what lies at source and target, which the user may touch; `rows` are
`rollback_logs`, which have no unique key. `WriteSummaries`, `Outcome` and `Settles`
are the SQL of `reconcile_terminal_journal_summaries`,
`terminal_rollback_journal_outcome` and `persist_terminal_rollback_outcome`. A copy
whose original is gone when it is measured again leaves its entry open (`CheckCopy`).

**HistoryMaintenance** — all runs of one workflow at the level of their rows, its
archive and its end. `lease` follows the acquisition of a run through the three places
where `ensure_*_mutable` is asked (before, after, and in the transaction that inserts
the run). `tx` is the immediate transaction of `archive_history`, in which no other
write happens (`Writable`); a published file outlives it. `BlockReasons` are the
queries of `archive_block_reasons`. A run has any number of open entries, since it may
go on after a failing write. `Finished` is `finish_execution` and `finish_rollback`,
which repair summaries and put what the journal says before what the run proposes;
`Settled` is the reconciliation of a starting process, which leaves a run without
entries and every verify run as they are. A recovery is one step here, of the only
open entry there is (several block each other, see `lease_recovery`).

**DesktopJobs** — the Tauri backend. `session` is `WorkflowSessionState`; `jobs`,
`mutation` and `reader` are `JobRegistryState`; `scan` is the scan thread with its
entry in `ScanRegistry`; `command` is a recovery, an opening of the history or a
manual target under way between its two locks; `caps` the target capabilities.
`ScanLost` is a scan thread that panics or whose use case never returns, `DoctorLost`
a diagnosis whose scan never returns (its panics are caught). The
window may issue any command at any time with the generation it last saw; commands
that take session and registry at once are one step. `runs`, `deleted` and `archived`
are the history the commands read and write.

## 3. What is checked

| Run | Question | Bounds |
|---|---|---|
| `lease` | does the two-layer lease exclude, whoever crashes, expires or reconciles? | 2 processes, 2 regions (so 3 roots: two siblings and their parent), 1 entry, 3 tokens, clock 0..1 with a lifetime of 1 |
| `lease_recovery` | can an open entry always be recovered? **No** | 1 process, 2 entries |
| `move` | can a file be lost, a user's file be damaged, an interrupted move be left half done? | both strategies, 3 failures or crashes, the user changes 2 of the paths |
| `move_owner` | does recovery delete only its own copies? **No** | 1 failure, 1 path touched |
| `scan` | is a completed scan complete, the cache true, and does a scan end? | 3 files (1 image, 1 cached), 2 workers, channels and batches of 2, 1 edit, 1 panic or failing write, cancellation |
| `scan_stuck` | does a scan end when its workers fail? **No** | 3 files, 1 worker, channels of 1, 1 panic |
| `plan` | does a plan depend on its pages, and when can it be applied? | 15 scans of 2 to 4 files, plan and revision, pages of 1 and 2, 1 suffix, 1 failure or crash |
| `apply` | do run statuses and summaries tell the truth, are items moved once? | 2 runs, 2 items, 2 failures or crashes |
| `rollback` | does "completed" mean undone, and does a copy keep its original? | 2 runs, 2 items, one of them of any kind (`MaxUnmoved` = 1), 2 failures or crashes, 1 touched file |
| `desktop` | do the three registries exclude, and does every job end usable? | 2 jobs, 5 entries of history, 3 changes of the session, a registry of 1 snapshot |
| `history` | what may be archived and purged? | 2 items, 4 runs, 1 failure or crash, the user moves a file or changes an archive |
| `history_unverified` | is what was rolled back verified before it is archived? **No** | the same |

Why the bounds are enough to see the interesting cases. `lease`: three tokens allow a
lease, the one that replaces it and the recovery of the entry of the first while the
second process reconciles; two clock values make every lease expire while its owner
lives. `move`: three failures allow a move to be interrupted, its recovery to be
interrupted and the next one to fail once more; identities are re-used when no file
or evidence bears them (`FreshId`), so nine are as good as any number. `scan`: three
files fill a channel of two with one more to send, and two workers can overtake each
other; a batch of two leaves a rest of one. `plan`: three files ask for one name or
for the name a suffix makes of it, in all combinations, on one page or on two or
three; the others put images above, beside and between music of one or two
directories; revisions start from every plan that results. `apply`, `rollback`: the
second run meets everything the first can leave behind. `desktop`: two jobs are a
finished one and one at work, three changes outdate every generation remembered;
the registry of one snapshot prunes at the second job. `history`: apply, rollback and
verification take three runs, the fourth repeats one of them. One failure leaves
one entry open; with two, and three runs, several (it holds there as well, in 442,470
states), and the theorems are for any number. Failing
calls are bounded because a model in which every call always fails has no liveness;
`Recoverable` speaks of one failure, the state the code's own crash-boundary tests
look at.

Properties, beside a type invariant per module:

* `ScopeExclusion`, `LivingOwnerKeepsRows`, `IsolatedScope`, `FencingAdvances`
  (MutationLease);
* `CopyBeforeDelete`, `UserContentKept`: a good copy is taken away only when the
  other place holds one, and a file the user wrote is neither touched nor opened for
  deletion, also across the windows between check and use, with one exception (below):
  an edit in place of a file already open for deletion; `Recoverable`: after one crash
  or failure there is always an action whose preflight passes; `MoveIsAtomic`: the refinement;
  `RecoveryCloses` (liveness);
* `AppliedOnce`, `HonestSuccess`, `SummaryBacked`, `StatusStands`, `WorkingRunKept`,
  `InterruptedRunEnds` (liveness) (ApplyRun);
* `HonestCompletion`: a completed scan saved or warned about every file, once;
  `CacheTruthful`: tags are filed under the version they were read of;
  `ScanReturns` (liveness): all threads end, but for the case of `scan_stuck`;
* `NamesResolved`: the outcome for equal targets, stated without pages or passes;
  `PlanAppearsAtOnce`: the refinement; `BuildEnds` (liveness);
* `HonestRollback`, `OriginalKept`, `InterruptedRollbackEnds` (liveness);
* `OneAtATime`: session fields and reservations, taken under different locks, add up
  to one exclusion; `ContextConsistent`; `ResultUsable`: whoever sees a job ended
  finds session and reservation free; `ReservationsReturned` (liveness): all of them
  come back, but for that of a scan or diagnosis that is lost (below);
* `ArchiveCurrent`, `UnrolledKept`, `PurgeHasArchive` (HistoryMaintenance).

Operators with a suffix (`Dispose_ByPath`, `Settles_Any`, …) are variants of the
definition that follows them with one plausible mistake. They are not part of any
specification; they record which mistake each property catches (`mutants` in
`PROJECT.json`). One mistake is caught by none: a reconciliation that deletes the
probed rows without locking their roots a second time. Tokens are never used twice
and a row whose lock was once found free has no living owner, so for the rows alone
the probe is enough; the second lock is a precaution.

Fairness. `MoveProtocol`: the worker's steps go on (a process that is alive is
scheduled), and the user asks again for a resumption or a discard while an entry
stays open; the recovery screen offers both as long as it does. `ApplyRun` and
`RollbackRun`: the worker's steps go on, and the program is started again while nobody
works; strong fairness, because a start and a recovery that occupies the lease may
alternate, and every command opens the database before it does anything else.
`ScanPipeline`: each thread goes on by itself; a blocked send or receive is a
disabled step, and no thread's progress is promised by another's. `PlanBuild`: the
building thread goes on. `DesktopJobs`: each thread and each command that was begun
goes on, unless it is lost (`ScanLost` and `DoctorLost` may happen at any time and are
in no fairness condition); the window need not do anything. `MutationLease` and
`HistoryMaintenance` have no fairness and no liveness property.

`CHECK_DEADLOCK FALSE` everywhere: a finished move or scan, a plan without runs left,
or a set of bounds that is used up are states in which nothing has to happen.

### Where the code and its documents disagree

1. `lease_recovery`: two open entries in overlapping roots block each other's
   recovery (`sqlite.rs:515`); `architecture.ja.md:56` promises that an explicit
   recovery can obtain a token. A run gets there by going on after a failing write.
2. `move_owner`: an entry without a staged identity is judged by content alone, so
   taking it back deletes a user's copy (`usecases.rs:358`;
   `library-workflow-requirements.ja.md:75`).
3. `scan_stuck`: the calling thread waits for the enumeration while it holds a
   receiver of its channel; when all workers have panicked and the channel is full,
   neither ends and the run stays `running` (`usecases.rs:2044`;
   `library-workflow-requirements.ja.md:49`).
4. `history_unverified`: a verification may begin while its rollback is at work and
   later counts for all of it, so that an archive holds a rollback nobody verified
   (`sqlite.rs:6127`; `library-workflow-requirements.ja.md:323`).

Seen while modelling and followed in the models, without a run of their own:

* Deletion: `identity_bound_delete` compares the file over a handle that lets others
  write (`windows_fs.rs:413`) and then deletes it. An edit in place between the two is
  deleted, although `ports.rs:346` promises "only the file object whose bytes … match";
  the writer must have opened the file with delete sharing. `UserContentKept` excepts
  just this (`Condemned`): without the exception TLC finds the edit lost, even when
  nothing fails. On Unix the file is renamed into a private directory, compared and
  unlinked there (`windows_fs.rs:852`), which leaves the same window to whoever has it
  open; only the Windows variant is modelled.
* Lost scans: the thread of `start_scan` catches no panic (`main.rs:918`), unlike those of
  `run_job` and `start_doctor`, and its use case may never return (3 above). The scan
  then stays `running`, which `scan-pipeline.ja.md:57` rules out also for a panic, and
  its reservation keeps every later scan, job, recovery and history command out until
  the program is restarted. `ReservationsReturned` excepts just this (`ScanLost`,
  `DoctorLost`): without the exception TLC finds the reservation that stays.
* Leases: renewal ignores `expires_at` (`sqlite.rs:458`; `architecture.ja.md:56` wants
  unexpired rows, a test expects the renewal); `ScopeExclusion` shows it does no harm.
* Apply: a failing write before publication is an ordinary item failure
  (`usecases.rs:4195`), so a run may end as `partial` over an open entry
  (`architecture.ja.md:58`). A run that crashed before its first entry stays `running`
  (`sqlite.rs:3027`; `library-workflow-requirements.ja.md:51`); the same holds for a
  rollback.
* Rollback: a rollback that ended as `failed` is no evidence for the next one
  (`sqlite.rs:6370`), which then reports what was restored as failed. An entry of a
  duplicate's deletion (`conditional_delete_only`) that was left open can never be
  closed and blocks its roots. A copy that was never published makes every rollback
  `partial`. A completed entry without its summary is not loaded until a process opens
  the database again. A restored entry may keep a `failed` row.
* Verification: `save_verify_result` returns with `?` (`usecases.rs:3724`), no
  reconciliation looks at `verify_runs`, and a run left `running` blocks archive and
  purge for good.
* Archive: an item restored by a `partial` rollback and skipped by a later completed one
  never counts as rolled back, so its workflow stays protected. A published file whose
  transaction was lost stays; a changed archive cannot be made again, and neither
  archive nor purge goes on.
* Plans: a file that is in place already does not reserve its name. A crash, or an abort
  that fails, leaves the plan `running` with rows and scratch (it cannot be applied).
  A metric that cannot be written after completion makes the caller see an error for an
  applicable plan.
* Desktop: `supersede` has no reachable caller. A scan's status is published before the
  session and the reader reservation follow; a cancellation after its end reports
  `cancelled` until it is read.

`RecoveryCloses` excludes `Stranded`, the entries for which no recovery has anything
to work with: a copy cut short by a crash, a temporary file whose identity is not the
recorded one, a publication and the write that closes it both failing, and a
withdrawal whose last write was lost. They need manual intervention.

## 4. What is proved

All eight state machines have proofs, checked by TLAPS. A theorem holds for every value of the
constants, so for any number of processes, folders, items, runs, jobs, failures,
crashes and changes of the user, from the assumption of its module alone; the run of
the same property in section 3 is one instance of it. No module declares a recursive
operator.

| Module | Theorem | Statement |
|---|---|---|
| `MutationLease_proofs` | `TypeCorrect` | `Spec => []TypeOK` |
| | `Exclusion` | `Spec => []ScopeExclusion` |
| | `OwnersKeepRows` | `Spec => []LivingOwnerKeepsRows` |
| | `Isolation` | `Spec => []IsolatedScope` |
| | `TokensAdvance` | `Spec => FencingAdvances` |
| `MoveProtocol_proofs` | `TypeCorrect` | `Spec => []TypeOK` |
| | `CopyFirst` | `Spec => CopyBeforeDelete` |
| | `UserFilesStay` | `Spec => UserContentKept` |
| | `Refinement` | `Spec => MoveIsAtomic`, that is `AbstractMove` |
| | `AlwaysRecoverable` | `Spec => []Recoverable` |
| `ScanPipeline_proofs` | `TypeCorrect` | `Spec => []TypeOK` |
| | `Truth` | `Spec => []CacheTruthful` |
| | `Honest` | `Spec => []HonestCompletion` |
| `PlanBuild_proofs` | `TypeCorrect` | `Spec => []TypeOK` |
| | `Resolved` | `Spec => []NamesResolved` |
| | `PlansAppear` | `Spec => PlanAppearsAtOnce`, that is `AbstractPlan` |
| `ApplyRun_proofs` | `TypeCorrect` | `Spec => []TypeOK` |
| | `MovedOnce` | `Spec => []AppliedOnce` |
| | `Honest` | `Spec => []HonestSuccess` |
| | `Backed` | `Spec => []SummaryBacked` |
| | `Stands` | `Spec => StatusStands` |
| | `Kept` | `Spec => WorkingRunKept` |
| `RollbackRun_proofs` | `TypeCorrect` | `Spec => []TypeOK` |
| | `Honest` | `Spec => []HonestRollback` |
| | `OriginalSafe` | `Spec => OriginalKept` |
| `HistoryMaintenance_proofs` | `TypeCorrect` | `Spec => []TypeOK` |
| | `Current` | `Spec => []ArchiveCurrent` |
| | `Unrolled` | `Spec => []UnrolledKept` |
| | `PurgeArchived` | `Spec => PurgeHasArchive` |
| `DesktopJobs_proofs` | `TypeCorrect` | `Spec => []TypeOK` |
| | `Exclusion` | `Spec => []OneAtATime` |
| | `Context` | `Spec => []ContextConsistent` |
| | `Usable` | `Spec => []ResultUsable` |

None of the properties is inductive. Each module defines an `IInv` that is, which TLC
confirmed on the instance of its run (or a smaller one) before it was proved; a lemma
per action, with one step per conjunct the action can disturb, shows that it is kept,
and `Invariance` (`IInvHolds`) puts them together with PTL. What the invariants add,
and why it is needed:

* MutationLease. Tokens never run ahead of the persistent counter (so a new one is
  fresh, also for tokens a reconciliation still remembers), locks are disjoint, an
  entry stays within the rows of its token (`EntriesCovered`), and no row overlaps the
  roots of a living lease (`RowsDisjoint`). The sweep of expired rows is harmless for a
  reason found in that combination: a row that overlaps the acquirer's scopes belongs
  to nobody alive, because a living owner's lock would have made the acquirer's fail.
* MoveProtocol. `Claims(pc)` says what the worker may rely on before its next step: the
  deletion of one path is reached only with a match at the other, or after the user
  changed that path. While a file is held open, it is the one at its path unless that
  path was touched, and it was compared as `Claims` says: this is what
  `UserFilesStay` needs of the step that opens it, and all it can have of the step that
  deletes it. `QuietClaims` and `Untouched` say where the content is as long as
  the user changed nothing, which is what AbstractMove promises anything about;
  `Distinct` and `Private` that identities do not run into each other, without which
  "the same identity" would prove nothing. They are written as functions of a step `q`,
  because a recovery enters the sequence of a run in the middle and has to arrive at
  the same claims from what it finds. For the refinement every step is shown to be a
  stutter or one step of AbstractMove. `Recoverable` needs a second invariant, `Scene`,
  which holds as long as the user touched nothing and at most one call or write failed:
  what is on disk for every journal state (`CopyOnDisk`, `FileOnDisk`), that the
  recorded identities are those of the files there (`Tied`), and where a run or a
  recovery can stand with which evidence (`Stages`, `Finds`). `Blameless` counts the
  failures: before the first one no recovery is at work, after it no check fails any
  more, so that whatever step the one failure hits leaves what a recovery can finish.
* ScanPipeline. A file is in one place at a time: on the way to the workers, in the hand
  of one, or as a result in a channel, a batch or the table (`PathsInv`, `HeldInv`,
  `GotInv`), so that none is saved twice; `Coverage` says that it is in some place, or
  saved or warned about, as long as nothing was cancelled or panicked. `WalkerPhase`,
  `WorkerPhase` and `WriterPhase` say what the end of a thread implies about those
  before it, which is why an empty closed channel means that everything arrived.
  `Shape` orders what a worker read: the tags lie between two fingerprints, so that
  tags filed under equal fingerprints are those of that content.
* PlanBuild. What each pass has done is said of the files up to its cursor, whatever the
  page sizes. `Fresh`: an item before names are resolved asks for what it moves to.
  `NamesInv`: the first to ask for a target has it, every later one that may be renamed
  has a name nobody else has or asked for (`Apart`). `Settled`: marking conflicts keeps
  what an item is compared by, so a `Twin` on an earlier page is found as well as one on
  a later. A free suffix always exists among the 2n + 1 that `NextName` looks at for n
  items, by the pigeonhole principle, and what a page does to its files in order is shown by
  the least file for which it would fail. `Finished` keeps a completed plan whole, also
  as the parent of a revision. Every step is a stutter or one of AbstractPlan's.
* ApplyRun, RollbackRun. `Progress` relates the loop's position to the tables (what lies
  behind has a summary, what lies ahead has no trace), `RunAlone` and `RunHeld` say
  that a run at work is the only one with open entries, and `AbandonedEnded` that
  whoever marks an entry as abandoned has ended its run: this is why a process that
  starts beside a living run neither settles it nor writes a summary the run would
  contradict. `LiveOnce` carries `AppliedOnce` through a run that was interrupted, taken
  up by a recovery, and followed by another.
* HistoryMaintenance. `Shape`: a run without a thread has summaries of all it moved
  unless a crash left it `running`, and one in `recovery_required` has an open entry.
  `Alone`: one mutating run is at work or has an entry open, and none while the lease
  has only been taken. `Fates`: a file is moved by at most one
  apply run and taken back by at most one rollback; from this, `Places`: a file at the
  target is one nobody has taken back. What can be archived is `Quiet`: no thread, no
  open entry, nothing moved without a summary. `archive_block_reasons` asks for the
  summaries of apply runs only; those of rollbacks follow from `Shape`, because it finds
  no run `running` and no entry open. A reconciliation changes nothing of a quiet run, and
  every other write asks for the archive first.
* DesktopJobs. `Owned`, `Reserved` and `Registered` relate the session's job, the
  reservation and the snapshots to the threads behind them (each reservation belongs
  to somebody who will give it back), so that fields under two locks add up to one
  exclusion. `Forest`, `JobsFit`, `ScanFits` and `Expected` say that what a thread
  works on is what the session shows, and that what was read of the history holds as
  long as the generation does, which is what `ContextConsistent` needs when a late
  result is committed.

The proofs corrected the models. A `CASE` had arms that could both
apply, of which TLC takes the first and a proof neither. The number of a job was taken
from the session, so that a new session could use one again (`Fresh`, as the registry
numbers them). The items whose move left something behind were bounded by a number in
`Init` of RollbackRun, which is now the constant `MaxUnmoved`. `HonestCompletion` is
false for a scan without workers, which the code excludes (`.max(1)`, `usecases.rs:1953`)
and the model now assumes; `TypeOK` of ScanPipeline was false for a source without
files. A plan numbered 0 was the same as no parent. The scans of PlanBuild had no types
to reason from: `ScannedFile` and `Path` say what they are, and `Renamed` is a recursive
function instead of a fold.

Every invariant, action property and refinement of a passing run in section 3 is
stated by one of these theorems. Only model-checked is liveness (`RecoveryCloses`,
`InterruptedRunEnds`, `InterruptedRollbackEnds`, `ScanReturns`, `BuildEnds`,
`ReservationsReturned`): TLAPS does not reason about `ENABLED` or fairness.

## 5. What is not modelled, and the plan

Left out of the modelled components: dry runs, counters and elapsed times,
`workflow_attempts` (a copy of the run's status), preflight logs, journal events,
diagnostics and their retention, legal holds (no code sets one), the verification of
a recovery, conflict groups and their candidates, path confinement and reparse points,
`LockFileEx` byte ranges (only that the lock of overlapping scopes excludes), I/O errors
of a read-only check other than "the check fails". In DesktopJobs at most one command
with more than one step is under way, and folder selections and the list of recoverable
operations are not shown. In ScanPipeline the store and the calling thread do not
panic (DesktopJobs has what becomes of the desktop if one does). The deletion of a file
on Unix is not modelled. In HistoryMaintenance a closed entry that failed gets no
summary of its own (`failed` says it already), recovery is one step, and a write of the
final status that fails twice is a crash.

In order of importance, what is to come:

1. the user interface's reducer against the snapshots of DesktopJobs;
2. retention and export of diagnostics.

Not planned: migrations, the doctor's diagnosis, metadata, argument parsing, naming
templates, release scripts: sequential code over data, without behaviour a model
checker reaches better than a unit test.
