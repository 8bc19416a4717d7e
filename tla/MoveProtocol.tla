--------------------------- MODULE MoveProtocol ---------------------------
(***************************************************************************)
(* How one file is moved, and how an interrupted move is taken up again.   *)
(*                                                                         *)
(* A run (ApplyUseCase::apply_one, RollbackUseCase::rollback_one) moves a  *)
(* file from a source to a target path, over a temporary copy or with one  *)
(* rename, and records every phase in a journal entry.  Each step is one   *)
(* file system call or one journal write; any of them may fail and the     *)
(* process may crash between any two.  RecoveryUseCase then looks at what  *)
(* is on disk and finishes the move, takes it back or discards the copy.   *)
(* Meanwhile the user may change the files.                                *)
(*                                                                         *)
(* The lease is not modelled here: MutationLease shows that one worker at  *)
(* a time has the entry.                                                   *)
(***************************************************************************)
EXTENDS Integers, FiniteSets, JournalStates

CONSTANTS
  Strategy,     \* the strategies select_move_strategy picks from
  Id,           \* file identities
  Original,     \* identity of the scanned file, expected_file_identity
  NoId,         \* staged_file_identity IS NULL
  MaxFaults,    \* bound on failing calls and crashes
  MaxTouched    \* bound on the paths the user changes, as often as he likes

ASSUME MoveAssumption ==
  /\ Strategy \subseteq {"copy_publish_delete", "atomic_no_replace_rename"}
  /\ Original \in Id
  /\ NoId \notin Id
  /\ IsFiniteSet(Id) /\ Cardinality(Id) > 8
  /\ MaxFaults \in Nat
  /\ MaxTouched \in Nat

VARIABLES
  fs,        \* what is at the source, temporary and target paths
  journal,   \* the entry: its strategy, its state and staged_file_identity
  pc,        \* the next step of the worker, "idle" when there is none
  mode,      \* what the worker is: an apply or rollback run, or a recovery
  loaded,    \* staged identity the recovery read with the entry
  staged,    \* the file the worker is about to put at the target
  opened,    \* identity of the file it holds open, to copy or to delete it
  faults,    \* failures so far
  touched    \* the paths the user changed

worker == <<pc, mode, loaded, staged, opened>>
vars == <<fs, journal, worker, faults, touched>>

Path == {"source", "temporary", "target"}
\* "orig" is the content of the scanned file, "part" a prefix of it.
Content == {"orig", "part", "other"}
File == [id: Id, content: Content, owner: {"app", "user"}]
Absent == [id |-> NoId, content |-> "none", owner |-> "none"]

Step == {"idle", "prepare", "to_staging", "stage", "copying", "to_staged", "compare",
         "to_verified", "publish", "unstage", "rename", "to_published", "verify_target",
         "verify_moved", "verify_source", "delete_source", "to_source_deleted",
         "to_completed", "drop_staged", "fail", "park", "resume", "discard",
         "withdraw", "delete_target", "turn_back", "move_back", "verify_back", "to_failed"}

\* Steps with a file held open: stage_copy_exclusive reads the source, and
\* delete_file_if_matches validates what it is going to delete.
DeletesAt ==
  [source |-> {"delete_source"}, target |-> {"delete_target"},
   temporary |-> {"drop_staged", "unstage", "discard"}]
Holding == {"copying", "delete_source", "delete_target", "drop_staged", "unstage", "discard"}

TypeOK ==
  /\ fs \in [Path -> File \cup {Absent}]
  /\ journal \in [strategy: Strategy, state: JournalState \cup {"none"}, staged: Id \cup {NoId}]
  /\ pc \in Step
  /\ mode \in MutationDirection
  /\ loaded \in Id \cup {NoId}
  /\ staged \in File \cup {Absent}
  /\ opened \in Id \cup {NoId}
  /\ pc = "copying" => opened # NoId
  /\ opened # NoId => pc \in Holding
  /\ faults \in 0..MaxFaults
  /\ touched \subseteq Path

Copying == journal.strategy = "copy_publish_delete"
Exists(p) == fs[p] # Absent
Open == journal.state \in OpenState

\* The evidence a file is compared with: mutation_fingerprint, or a
\* DeleteExpectation whose identity may be missing.
Matches(p, id) == Exists(p) /\ fs[p].content = "orig" /\ (id = NoId \/ fs[p].id = id)
\* Variant: a source that is gone passes.
SourceIntact_OrGone == ~Exists("source") \/ Matches("source", Original)
SourceIntact == Matches("source", Original)

\* An identity no file and no evidence bears.
FreshId ==
  CHOOSE i \in Id \ {Original, journal.staged, loaded, staged.id, opened} :
    \A p \in Path : fs[p].id # i

Init ==
  /\ fs = [p \in Path |->
             IF p = "source" THEN [id |-> Original, content |-> "orig", owner |-> "user"]
                             ELSE Absent]
  /\ journal \in [strategy: Strategy, state: {"none"}, staged: {NoId}]
  /\ pc = "idle"
  /\ mode \in {"apply", "rollback"}
  /\ loaded = NoId
  /\ staged = Absent
  /\ faults = 0
  /\ opened = NoId
  /\ touched = {}

----------------------------------------------------------------------------
(***************************************************************************)
(* The shapes of a step.                                                   *)
(***************************************************************************)
At(p) == pc = p
Goto(p) == pc' = p
Put(p, f) == fs' = [fs EXCEPT ![p] = f]
Remove(p) == Put(p, Absent)
Keep == UNCHANGED <<mode, loaded, opened, touched>>

\* A call fails for a reason of its own.
Fault == faults < MaxFaults /\ faults' = faults + 1
NoFault == UNCHANGED faults

\* What a transition after staging carries along.  (A rename carries the identity
\* of the moved file, which nobody reads again.)
Evidence == IF Copying THEN staged.id ELSE NoId

\* transition_journal_operation: a compare-and-swap that commits or reports an
\* error.  The staged evidence is only ever replaced, never cleared (COALESCE).
Record(to, evidence, next, onError) ==
  /\ \/ /\ TransitionAllowed(journal.state, to)
        /\ journal' = [journal EXCEPT !.state = to,
                                      !.staged = IF evidence = NoId THEN @ ELSE evidence]
        /\ NoFault
        /\ Goto(next)
     \/ ~TransitionAllowed(journal.state, to) /\ NoFault /\ Goto(onError) /\ UNCHANGED journal
     \/ Fault /\ Goto(onError) /\ UNCHANGED journal
  /\ UNCHANGED <<fs, staged>> /\ Keep

\* Before anything was committed to the file system a failing transition leaves
\* the run with `?` ("idle"); after that it tries to park the entry ("park").
\* A recovery has nothing to protect only until it staged its copy.
PreCommitError == IF mode = "recovery" /\ Copying THEN "park" ELSE "idle"

\* A file system call that changes nothing on success.
Check(ok, next, otherwise) ==
  /\ \/ ok /\ NoFault /\ Goto(next)
     \/ ~ok /\ NoFault /\ Goto(otherwise)
     \/ Fault /\ Goto(otherwise)
  /\ UNCHANGED <<fs, journal, staged>> /\ Keep

\* delete_file_if_matches, first half: the file is opened, for others to write to
\* as well, and its content and identity are compared on the handle.
Validate(p, ok, otherwise) ==
  /\ opened = NoId
  /\ \/ Exists(p) /\ ok /\ opened' = fs[p].id /\ NoFault /\ UNCHANGED pc
     \/ ~(Exists(p) /\ ok) /\ NoFault /\ Goto(otherwise) /\ UNCHANGED opened
     \/ Fault /\ Goto(otherwise) /\ UNCHANGED opened
  /\ UNCHANGED fs

\* Variant: whatever is at the path by now is deleted.
Dispose_ByPath(p, next, otherwise) ==
  /\ opened # NoId /\ opened' = NoId
  /\ Remove(p) /\ NoFault /\ Goto(next)

\* Second half: the open file is marked for deletion, whatever it contains by
\* now.  It may fail before, or after when the directory cannot be flushed, and
\* it finds nothing to delete at a path that names another file by now.
Dispose(p, next, otherwise) ==
  /\ opened # NoId /\ opened' = NoId
  /\ \/ fs[p].id = opened /\ Remove(p) /\ NoFault /\ Goto(next)
     \/ fs[p].id = opened /\ Remove(p) /\ Fault /\ Goto(otherwise)
     \/ fs[p].id # opened /\ UNCHANGED fs /\ NoFault /\ (Goto(next) \/ Goto(otherwise))
     \/ UNCHANGED fs /\ Fault /\ Goto(otherwise)

Delete(p, ok, next, otherwise) ==
  /\ Validate(p, ok, otherwise) \/ Dispose(p, next, otherwise)
  /\ UNCHANGED <<journal, staged, mode, loaded, touched>>

----------------------------------------------------------------------------
(***************************************************************************)
(* A run over a temporary copy.                                            *)
(***************************************************************************)
\* PreflightEngine::apply and rollback: the scanned file is where it was and
\* the target is free.
Preflight ==
  /\ At("idle") /\ journal.state = "none"
  /\ SourceIntact /\ ~Exists("target")
  /\ Goto("prepare")
  /\ staged' = IF Copying THEN Absent ELSE fs["source"]
  /\ UNCHANGED <<fs, journal, faults>> /\ Keep

\* prepare_operation
Prepare ==
  /\ At("prepare")
  /\ \/ /\ journal' = [journal EXCEPT !.state = "prepared"]
        /\ Goto(IF Copying THEN "to_staging" ELSE "to_verified")
        /\ NoFault
     \/ Fault /\ Goto("idle") /\ UNCHANGED journal
  /\ UNCHANGED <<fs, staged>> /\ Keep

RecordStaging == At("to_staging") /\ Record("staging", NoId, "stage", "idle")

\* A run closes its entry when staging fails, a recovery leaves it as it is.
StageError == IF mode = "recovery" THEN "idle" ELSE "fail"

\* stage_copy_exclusive, up to the exclusive create: `staged` is what the
\* completed copy will be.
StageCreate ==
  /\ At("stage")
  /\ \/ /\ Exists("source") /\ ~Exists("temporary")
        /\ staged' = [id |-> FreshId, content |-> fs["source"].content, owner |-> "app"]
        /\ opened' = fs["source"].id
        /\ Put("temporary", [staged' EXCEPT !.content = "part"])
        /\ NoFault /\ Goto("copying")
     \/ /\ ~Exists("source") \/ Exists("temporary")
        /\ NoFault /\ Goto(StageError) /\ UNCHANGED <<fs, staged, opened>>
     \/ Fault /\ Goto(StageError) /\ UNCHANGED <<fs, staged, opened>>
  /\ UNCHANGED <<journal, mode, loaded, touched>>

\* Variant: the source handle stays open.
StageFinish_KeepOpen ==
  /\ At("copying")
  /\ Put("temporary", staged) /\ NoFault /\ Goto("to_staged")
  /\ UNCHANGED <<journal, staged, mode, loaded, opened, touched>>

\* The copy ends.  A failed one, or one whose source changed meanwhile, is
\* removed by its path; that the removal fails is ignored.
StageFinish ==
  LET unchanged == fs["source"].id = opened /\ fs["source"].content = staged.content
      written == IF Exists("temporary") THEN staged ELSE Absent
  IN  /\ At("copying")
      /\ \/ unchanged /\ Put("temporary", written) /\ NoFault /\ Goto("to_staged")
         \/ ~unchanged /\ Remove("temporary") /\ NoFault /\ Goto(StageError)
         \/ Fault /\ Goto(StageError) /\ (Remove("temporary") \/ UNCHANGED fs)
      /\ opened' = NoId
      /\ UNCHANGED <<journal, staged, mode, loaded, touched>>

RecordStaged ==
  At("to_staged") /\ Record("staged", Evidence,
                            IF mode = "recovery" THEN "to_verified" ELSE "compare",
                            PreCommitError)

\* A run compares the copy with what it expected; a recovery did so before.
CompareStaged ==
  /\ At("compare")
  /\ Goto(IF staged.content = "orig" THEN "to_verified" ELSE "drop_staged")
  /\ UNCHANGED <<fs, journal, staged, faults>> /\ Keep

\* Best effort, then the entry fails.
DropStaged ==
  At("drop_staged") /\ Delete("temporary",
                              fs["temporary"].content = staged.content,
                              "fail", "fail")

RecordVerified ==
  At("to_verified") /\ Record("content_verified", Evidence,
                              IF staged = Absent THEN "to_published"
                              ELSE IF Copying THEN "publish" ELSE "rename",
                              PreCommitError)

\* publish_no_replace links the copy, whatever it is by now, to the target.  An
\* apply drops the copy it cannot publish, a rollback leaves it behind.
PublishError ==
  [apply |-> "drop_staged", rollback |-> "fail", recovery |-> "park"][mode]

Publish ==
  /\ At("publish")
  /\ \/ /\ Exists("temporary") /\ ~Exists("target")
        /\ Put("target", fs["temporary"]) /\ NoFault /\ Goto("unstage")
     \/ /\ ~Exists("temporary") \/ Exists("target")
        /\ UNCHANGED fs /\ NoFault /\ Goto(PublishError)
     \/ UNCHANGED fs /\ Fault /\ Goto(PublishError)
  /\ UNCHANGED <<journal, staged>> /\ Keep

\* Variant: an error after the link counts like one before it.
Unstage_Unpublished ==
  At("unstage") /\ Delete("temporary", fs["temporary"] = staged, "to_published", "fail")

\* The second half of publish_no_replace: flush the target, then unlink the temporary name.
\* Every error from here on is a "published_" one.
Unstage ==
  At("unstage") /\ Delete("temporary", fs["temporary"] = staged /\ Exists("target"),
                          "to_published", "park")

RecordPublished ==
  At("to_published") /\ Record("published", Evidence,
                               IF Copying THEN "verify_target" ELSE "verify_moved", "park")

\* A run asks for the content, a recovery also for the identity it loaded with
\* the entry, even if it has just staged the copy anew.
VerifyTarget ==
  At("verify_target") /\ Check(Matches("target", loaded), "verify_source", "park")

VerifySource ==
  /\ At("verify_source")
  /\ IF mode = "recovery" /\ ~Exists("source")
     THEN /\ Goto(IF journal.state = "source_deleted" THEN "to_completed"
                                                     ELSE "to_source_deleted")
          /\ UNCHANGED <<fs, journal, staged, faults>> /\ Keep
     ELSE Check(SourceIntact /\ ~(mode = "recovery" /\ journal.state = "source_deleted"),
                "delete_source", "park")

DeleteSource ==
  At("delete_source") /\ Delete("source", SourceIntact, "to_source_deleted", "park")

RecordSourceDeleted ==
  At("to_source_deleted") /\ Record("source_deleted", Evidence, "to_completed", "park")

RecordCompleted == At("to_completed") /\ Record("completed", Evidence, "idle", "park")

\* let _ = transition_operation(.., Failed, ..)
CloseFailed == At("fail") /\ Record("failed", NoId, "idle", "idle")

\* mark_apply_recovery, mark_rollback_recovery and mark_recovery_post_commit, the
\* last of which writes nothing if the entry is parked already.
Park ==
  /\ At("park")
  /\ IF mode = "recovery" /\ journal.state = "recovery_required"
     THEN Goto("idle") /\ UNCHANGED <<fs, journal, staged, faults>> /\ Keep
     ELSE Record("recovery_required", Evidence, "idle", "idle")

----------------------------------------------------------------------------
(***************************************************************************)
(* A run with one rename.                                                  *)
(***************************************************************************)
\* atomic_move_no_replace_if_matches: the identity checked on a handle is the
\* one renamed.  The directory may fail to flush afterwards.
AtomicMove(from, to, next, notMoved) ==
  /\ \/ /\ Matches(from, Original) /\ ~Exists(to)
        /\ fs' = [fs EXCEPT ![to] = fs[from], ![from] = Absent]
        /\ \/ NoFault /\ Goto(next)
           \/ Fault /\ Goto("park")
     \/ /\ ~(Matches(from, Original) /\ ~Exists(to))
        /\ UNCHANGED fs /\ NoFault /\ Goto(notMoved)
     \/ UNCHANGED fs /\ Fault /\ Goto(notMoved)
  /\ UNCHANGED <<journal, staged>> /\ Keep

Rename ==
  At("rename") /\ AtomicMove("source", "target",
                             IF journal.state \in {"published", "source_deleted"}
                             THEN "verify_moved" ELSE "to_published",
                             IF mode = "recovery" THEN "park" ELSE "fail")

\* verify_atomic_move_result, atomic_recovery_position
OnlyAt(p, q) == Matches(p, Original) /\ ~Exists(q)

VerifyMoved ==
  At("verify_moved") /\ Check(OnlyAt("target", "source"),
                              IF journal.state = "source_deleted" THEN "to_completed"
                                                                  ELSE "to_source_deleted",
                              "park")

----------------------------------------------------------------------------
(***************************************************************************)
(* Recovery.                                                               *)
(***************************************************************************)
\* Variant: an interrupted staging cannot be resumed.
CopyPreflight_NoStaging(action) ==
  CASE action = "discard_unpublished_temp" ->
         ~Exists("target") /\ Matches("temporary", journal.staged)
    [] action = "resume" ->
         \/ Exists("target") /\ Matches("target", journal.staged)
         \/ ~Exists("target") /\ Exists("temporary") /\ Matches("temporary", journal.staged)
         \/ journal.state \in {"prepared", "recovery_required"} /\ SourceIntact
    [] action = "rollback_published" -> SourceIntact /\ Matches("target", journal.staged)
    [] OTHER -> FALSE

\* preflight_copy_recovery
CopyPreflight(action) ==
  CASE action = "discard_unpublished_temp" ->
         /\ ~Exists("target")
         /\ journal.state \notin {"published", "source_deleted", "completed"}
         /\ Matches("temporary", journal.staged)
    [] action = "resume" ->
         IF Exists("target")
         THEN /\ ~(journal.state \in {"prepared", "staging"} /\ journal.staged = NoId)
              /\ Matches("target", journal.staged)
         ELSE IF Exists("temporary")
         THEN Matches("temporary", journal.staged)
         ELSE /\ journal.state \in {"prepared", "staging", "recovery_required"}
              /\ SourceIntact
    [] action = "rollback_published" ->
         SourceIntact /\ Matches("target", journal.staged)
    [] OTHER -> FALSE

\* preflight_atomic_recovery
AtomicPreflight(action) ==
  /\ action \in {"resume", "rollback_published"}
  /\ journal.state \notin {"staging", "staged"}
  /\ OnlyAt("source", "target") \/ OnlyAt("target", "source")

RecoveryPreflight(action) ==
  IF Copying THEN CopyPreflight(action) ELSE AtomicPreflight(action)

FirstStep ==
  [resume |-> "resume",
   discard_unpublished_temp |-> "discard",
   rollback_published |-> IF Copying THEN "withdraw" ELSE "turn_back",
   manual_intervention |-> "idle"]

\* RecoveryUseCase::execute on an open entry nobody works on.
Recover(action) ==
  /\ At("idle") /\ Open
  /\ RecoveryPreflight(action)
  /\ mode' = "recovery"
  /\ loaded' = journal.staged
  /\ staged' = Absent
  /\ Goto(FirstStep[action])
  /\ UNCHANGED <<fs, journal, opened, faults, touched>>

\* resume_copy_recovery, target missing: stage again or adopt the temporary copy.
\* (A prepared entry has no copy yet; the branch for it is never taken.)
ResumeUnpublished ==
  /\ At("resume") /\ Copying /\ ~Exists("target")
  /\ IF Exists("temporary")
     THEN IF Matches("temporary", loaded)
          THEN /\ staged' = fs["temporary"]
               /\ Goto(CASE journal.state \in {"staging", "recovery_required"} -> "to_staged"
                         [] journal.state = "staged" -> "to_verified"
                         [] journal.state = "content_verified" -> "publish"
                         [] OTHER -> "idle")
          ELSE Goto("idle") /\ UNCHANGED staged
     ELSE /\ Goto(IF SourceIntact /\ journal.state \in {"prepared", "recovery_required"}
                  THEN "to_staging"
                  ELSE IF SourceIntact /\ journal.state = "staging" THEN "stage" ELSE "idle")
          /\ UNCHANGED staged
  /\ UNCHANGED <<fs, journal, faults>> /\ Keep

\* Variant: a published entry is taken for a finished one.
ResumePublished_Skip ==
  /\ At("resume") /\ Copying /\ Exists("target")
  /\ Check(Matches("target", loaded),
           IF journal.state = "published" THEN "idle" ELSE "to_published", "park")

\* resume_copy_recovery, target there: catch the entry up with the file system.
ResumePublished ==
  /\ At("resume") /\ Copying /\ Exists("target")
  /\ Check(Matches("target", loaded),
           IF journal.state \in {"prepared", "staging"} /\ loaded = NoId THEN "idle"
           ELSE CASE journal.state = "staging" -> "to_staged"
                  [] journal.state \in {"prepared", "staged"} -> "to_verified"
                  [] journal.state \in {"published", "source_deleted"} -> "verify_target"
                  [] OTHER -> "to_published",
           "park")

\* execute_atomic_recovery_action, Resume
ResumeAtomic ==
  /\ At("resume") /\ ~Copying
  /\ \/ /\ OnlyAt("source", "target")
        /\ staged' = fs["source"]
        /\ Goto(IF journal.state = "prepared" THEN "to_verified" ELSE "rename")
     \/ /\ OnlyAt("target", "source")
        /\ Goto(CASE journal.state = "prepared" -> "to_verified"
                  [] journal.state \in {"published", "source_deleted"} -> "verify_moved"
                  [] OTHER -> "to_published")
        /\ UNCHANGED staged
     \/ /\ ~OnlyAt("source", "target") /\ ~OnlyAt("target", "source")
        /\ Goto("idle") /\ UNCHANGED staged
  /\ UNCHANGED <<fs, journal, faults>> /\ Keep

\* DiscardUnpublishedTemporary
Discard ==
  At("discard") /\ Delete("temporary", Matches("temporary", loaded), "to_failed", "park")

\* RollbackPublished on a copy: both files are verified once more, then the
\* target is deleted.
Withdraw ==
  At("withdraw") /\ Check(SourceIntact /\ Matches("target", loaded), "delete_target", "idle")

DeleteTarget ==
  At("delete_target") /\ Delete("target", Matches("target", loaded), "to_failed", "park")

\* RollbackPublished on a rename.
TurnBack ==
  /\ At("turn_back")
  /\ Goto(CASE OnlyAt("source", "target") -> "verify_back"
            [] OnlyAt("target", "source") -> "move_back"
            [] OTHER -> "idle")
  /\ UNCHANGED <<fs, journal, staged, faults>> /\ Keep

MoveBack == At("move_back") /\ AtomicMove("target", "source", "verify_back", "park")

VerifyBack == At("verify_back") /\ Check(OnlyAt("source", "target"), "to_failed", "park")

RecordFailed == At("to_failed") /\ Record("failed", NoId, "idle", "park")

----------------------------------------------------------------------------
(***************************************************************************)
(* The environment.                                                        *)
(***************************************************************************)
\* The process ends between two steps.  Opening the database again marks the
\* entry's error and changes neither its state nor any file.
Crash ==
  /\ ~At("idle") /\ Fault
  /\ Goto("idle")
  /\ staged' = Absent /\ loaded' = NoId /\ opened' = NoId
  /\ UNCHANGED <<fs, journal, mode, touched>>

\* Writing to a file shows under all its names.
Edited(id) ==
  [p \in Path |-> IF fs[p].id = id THEN [id |-> id, content |-> "other", owner |-> "user"]
                                   ELSE fs[p]]

\* The user deletes a file, edits it in place, or puts another one at the source
\* or target path, a copy of the scanned file included.  The temporary name is a
\* generated one: nobody but the protocol creates or edits it.
Interfere ==
  \E p \in Path :
    /\ Cardinality(touched \cup {p}) <= MaxTouched
    /\ touched' = touched \cup {p}
    /\ \/ Exists(p) /\ Remove(p)
       \/ p # "temporary" /\ Exists(p) /\ fs' = Edited(fs[p].id)
       \/ /\ p # "temporary"
          /\ \E c \in {"orig", "other"} :
               Put(p, [id |-> FreshId, content |-> c, owner |-> "user"])
  /\ UNCHANGED <<journal, worker, faults>>

WorkerStep ==
  \/ Preflight \/ Prepare \/ RecordStaging \/ StageCreate \/ StageFinish \/ RecordStaged
  \/ CompareStaged \/ DropStaged \/ RecordVerified \/ Publish \/ Unstage \/ RecordPublished
  \/ VerifyTarget \/ VerifySource \/ DeleteSource \/ RecordSourceDeleted \/ RecordCompleted
  \/ CloseFailed \/ Park \/ Rename \/ VerifyMoved
  \/ ResumeUnpublished \/ ResumePublished \/ ResumeAtomic
  \/ Discard \/ Withdraw \/ DeleteTarget \/ TurnBack \/ MoveBack \/ VerifyBack \/ RecordFailed

Next ==
  \/ WorkerStep
  \/ \E action \in RecoveryAction : Recover(action)
  \/ Crash
  \/ Interfere

Spec == Init /\ [][Next]_vars
\* The worker's steps go on; the user asks for a resumption again while the
\* entry stays open.
Fairness ==
  /\ WF_vars(WorkerStep)
  /\ WF_vars(Recover("resume")) /\ WF_vars(Recover("discard_unpublished_temp"))

FairSpec == Spec /\ Fairness

----------------------------------------------------------------------------
(***************************************************************************)
(* Properties.                                                             *)
(***************************************************************************)
\* A step of the worker, as opposed to one of the user.
Working == worker' # worker

\* The worker has the file at p open and is about to delete it.
Condemned(p) == Exists(p) /\ opened = fs[p].id /\ pc \in DeletesAt[p]

\* Whatever fails, crashes and is recovered: the worker takes a good copy away
\* from one path only when the other one holds a good copy, unless the user
\* changed the other path after it was verified.
CopyBeforeDelete ==
  [][\A p \in {"source", "target"} :
       LET q == IF p = "source" THEN "target" ELSE "source"
       IN  (Working /\ Matches(p, NoId) /\ ~Matches(p, NoId)')
             => Matches(q, NoId)' \/ q \in touched]_vars

\* No file the user wrote is removed, replaced or renamed, not even one that
\* appears between a check and the call that follows it, and none is opened for
\* deletion.  Only what the user writes in place into a file already opened for
\* deletion goes with it, although ports.rs:346 has it that only matching bytes are
\* deleted (identity_bound_delete, publish_no_replace, atomic_handle_bound_move).
UserContentKept ==
  [][\A p \in Path :
       (Working /\ fs[p].owner = "user" /\ fs[p].content = "other" /\ ~Condemned(p))
         => fs'[p] = fs[p] /\ ~Condemned(p)']_vars

\* A file that is at the target but was never published by this entry stays.
\* library-workflow-requirements.ja.md:75 forbids the automatic deletion of a
\* duplicate whose owning attempt is not proven, even if its content matches.
OwnCopiesOnly ==
  [][(Working /\ Copying /\ fs["target"].owner = "user") => fs'["target"] = fs["target"]]_vars

\* What is on disk after a single crash or failing call, if the user touched
\* nothing, always admits a recovery.  The one exception is a copy cut short.
Recoverable ==
  (/\ Open /\ At("idle")
   /\ touched = {} /\ faults <= 1
   /\ fs["temporary"].content # "part")
    => \E action \in RecoveryAction : RecoveryPreflight(action)

\* No recovery has anything left to work with: a withdrawal lost its last write,
\* the copy was cut short or is not the one whose identity was recorded (a crash
\* while staging anew), or it was removed and the entry still counts on it (a
\* failed publication that could not close the entry).
Stranded ==
  /\ ~Exists("target")
  /\ \/ journal.state = "published"
     \/ Exists("temporary") /\ ~Matches("temporary", journal.staged)
     \/ ~Exists("temporary") /\ journal.state \in {"staged", "content_verified"}

\* Once the failures stop, a user who keeps asking for a resumption or a discard
\* gets every entry closed whose files nobody touched.
RecoveryCloses == (Open /\ At("idle")) ~> (~Open \/ Stranded \/ touched # {})

----------------------------------------------------------------------------
(***************************************************************************)
(* What a move promises.                                                   *)
(***************************************************************************)
Abstract ==
  INSTANCE AbstractMove WITH
    place <- {p \in {"source", "target"} : Matches(p, NoId)},
    outcome <- CASE journal.state = "none" -> "none"
                 [] journal.state = "completed" -> "moved"
                 [] journal.state = "failed" -> "kept"
                 [] OTHER -> "open",
    disturbed <- touched # {}

MoveIsAtomic == Abstract!Spec
=============================================================================
