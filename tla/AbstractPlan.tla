---------------------------- MODULE AbstractPlan ----------------------------
(***************************************************************************)
(* What a plan promises to whoever applies it (ApplyStore): it becomes     *)
(* visible whole, in one step, and never changes afterwards.  A plan that  *)
(* is being built, or whose build failed, cannot be applied.               *)
(***************************************************************************)
EXTENDS Naturals, Sequences

CONSTANT Plan  \* identities of plans

VARIABLES
  files,       \* number of files in the scan
  view         \* what load_completed_plan gives for each plan

\* Every file has its decision, and no two are moved to one place.
Whole(items) ==
  /\ Len(items) = files
  /\ \A f, g \in DOMAIN items :
       f # g /\ items[f].move /\ items[g].move => items[f].target # items[g].target

Init == view = [p \in Plan |-> [state |-> "absent"]]

\* A plan or a revision is begun.
Open(p) ==
  /\ view[p].state = "absent"
  /\ view' = [view EXCEPT ![p] = [state |-> "open"]]

\* Its build fails.
Drop(p) ==
  /\ view[p].state = "open"
  /\ view' = [view EXCEPT ![p] = [state |-> "failed"]]

\* All its items appear at once, and the other plans stay as they are.
Appear(p) ==
  /\ view[p].state = "open"
  /\ view'[p].state = "applicable" /\ Whole(view'[p].items)
  /\ view' = [view EXCEPT ![p] = view'[p]]

Next == UNCHANGED files /\ \E p \in Plan : Open(p) \/ Drop(p) \/ Appear(p)

Spec == Init /\ [][Next]_<<files, view>>
=============================================================================
