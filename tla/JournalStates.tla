--------------------------- MODULE JournalStates ---------------------------
(***************************************************************************)
(* The vocabulary of the operation journal (crates/core/src/execution.rs   *)
(* and preflight.rs): the states an entry goes through, the transitions    *)
(* the store accepts, the ways a file is moved and what recovery may do.   *)
(* Constant level: every module of the mutation core extends it.           *)
(***************************************************************************)

\* JournalState: the state column of operation_journal.
JournalState ==
  {"prepared", "staging", "staged", "content_verified", "published",
   "source_deleted", "completed", "failed", "recovery_required"}

\* States no transition leaves: journal.state IN ('completed','failed').
TerminalState == {"completed", "failed"}

OpenState == JournalState \ TerminalState

\* MutationStrategy: how one file is moved, or removed as a duplicate.
MutationStrategy ==
  {"atomic_no_replace_rename", "copy_publish_delete", "conditional_delete_only"}

\* MutationDirection: the kind of run an entry or an error belongs to.
MutationDirection == {"apply", "rollback", "recovery"}

\* RecoveryAction: what the user may ask recovery to do with an open entry.
RecoveryAction ==
  {"resume", "rollback_published", "discard_unpublished_temp", "manual_intervention"}

\* journal_transition_allowed: the successors of a state. Every open state may
\* also fail or be parked for recovery; "prepared" skips staging when the move
\* is a rename, "content_verified" skips publishing when it is only a removal.
Advance ==
  [prepared         |-> {"staging", "content_verified"},
   staging          |-> {"staged"},
   staged           |-> {"content_verified"},
   content_verified |-> {"published", "source_deleted"},
   published        |-> {"source_deleted"},
   source_deleted   |-> {"completed"},
   recovery_required |->
     {"staging", "staged", "content_verified", "published", "source_deleted", "completed"}]

TransitionAllowed(from, to) ==
  /\ from \in OpenState
  /\ to \in Advance[from] \cup {"failed", "recovery_required"}
=============================================================================
