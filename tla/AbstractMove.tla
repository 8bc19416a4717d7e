---------------------------- MODULE AbstractMove ----------------------------
(***************************************************************************)
(* What moving a file promises: the scanned content is always complete at  *)
(* the source, at the target or at both, and when the operation is closed  *)
(* it is at exactly the one place the outcome names.  Nothing is promised  *)
(* once somebody else changed the files.                                   *)
(***************************************************************************)
VARIABLES
  place,     \* where complete copies are
  outcome,   \* what the journal says
  disturbed  \* somebody else changed a file

vars == <<place, outcome, disturbed>>

Place == SUBSET {"source", "target"}
Outcome == {"none", "open", "moved", "kept"}

Init == place = {"source"} /\ outcome = "none" /\ disturbed = FALSE

\* The intent is durable before anything is changed.
Begin ==
  /\ outcome = "none"
  /\ outcome' = "open"
  /\ UNCHANGED <<place, disturbed>>

\* Copies come and go while the operation is open, but never the last one.
Rearrange ==
  /\ outcome = "open"
  /\ place' \in Place \ {{}}
  /\ UNCHANGED <<outcome, disturbed>>

Close ==
  /\ outcome = "open"
  /\ \/ place = {"target"} /\ outcome' = "moved"
     \/ place = {"source"} /\ outcome' = "kept"
  /\ UNCHANGED <<place, disturbed>>

Disturb == disturbed' = TRUE /\ place' \in Place /\ UNCHANGED outcome

\* Still, a closed operation stays closed.
AfterDisturbance ==
  /\ disturbed /\ UNCHANGED disturbed
  /\ place' \in Place
  /\ outcome \in {"moved", "kept"} => UNCHANGED outcome
  /\ outcome' \in Outcome

Next == Begin \/ Rearrange \/ Close \/ Disturb \/ AfterDisturbance

Spec == Init /\ [][Next]_vars
=============================================================================
