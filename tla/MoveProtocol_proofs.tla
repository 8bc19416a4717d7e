-------------------------- MODULE MoveProtocol_proofs --------------------------
(***************************************************************************)
(* Proofs about MoveProtocol, for any identities, any number of failing    *)
(* calls and crashes and any interference of the user.                     *)
(*                                                                         *)
(* Claims says what holds wherever the worker is, by its next step: which  *)
(* copies it may take for its own, which file it has verified, and, if the *)
(* user touched nothing, where the scanned content is.  Distinct keeps an  *)
(* edit of the source from showing at the target, Life ties the entry to   *)
(* the worker, Untouched says what is on disk if the user touched nothing. *)
(* Scene says more as long as no more than one call failed: what is on     *)
(* disk for every state of the entry, from which no recovery can fail.     *)
(***************************************************************************)
EXTENDS MoveProtocol, FiniteSetTheorems, TLAPS

Scanned == [id |-> Original, content |-> "orig", owner |-> "user"]

\* Steps of one strategy only.
CopySteps ==
  {"to_staging", "stage", "copying", "to_staged", "compare", "drop_staged", "publish", "unstage",
   "verify_target", "verify_source", "delete_source", "discard", "withdraw", "delete_target"}
RenameSteps == {"rename", "verify_moved", "turn_back", "move_back", "verify_back"}
\* Steps of a run before it has put anything at the target.
EarlySteps ==
  {"prepare", "to_staging", "stage", "copying", "to_staged", "compare", "to_verified", "publish",
   "drop_staged", "fail", "rename"}

\* The source has no identity in common with the other files.
Distinct ==
  Exists("source") =>
    fs["temporary"].id # fs["source"].id /\ fs["target"].id # fs["source"].id

\* The worker is at work on an open entry, or about to prepare one.
Life ==
  /\ pc = "prepare" => journal.state = "none"
  /\ pc \notin {"idle", "prepare"} => Open
  /\ journal.state = "none" => ~Exists("temporary") /\ mode # "recovery"
  /\ ~Copying => ~Exists("temporary")
  /\ staged.content = "other" => staged.owner = "app"

\* Nobody else can reach the temporary copy.
Private ==
  /\ fs["temporary"].owner # "user"
  /\ Exists("temporary") => fs["temporary"].id # fs["target"].id

\* What the worker may rely on before the step q.
Claims(q) ==
  /\ q \in CopySteps => Copying
  /\ q \in RenameSteps => ~Copying
  /\ q \in {"compare", "drop_staged", "fail", "prepare"} => mode # "recovery"
  /\ q = "resume" => staged = Absent /\ mode = "recovery"
  /\ q = "copying" =>
       /\ staged.owner = "app" /\ staged.id \in Id
       /\ staged.id # fs["source"].id /\ staged.id # fs["target"].id
       /\ fs["temporary"] = Absent \/ fs["temporary"] = [staged EXCEPT !.content = "part"]
  /\ mode # "recovery" /\ q \in {"to_staged", "compare", "to_verified", "publish", "drop_staged"} => Private
  /\ q \in {"verify_source", "delete_source"} => Matches("target", NoId) \/ "target" \in touched
  /\ q = "delete_target" => Matches("source", NoId) \/ "source" \in touched

\* What it may rely on as long as the user touched nothing.
QuietClaims(q) ==
  /\ mode # "recovery" /\ q \in EarlySteps => fs["source"] = Scanned /\ ~Exists("target")
  /\ q = "copying" => staged.content = "orig"
  /\ q \in {"compare", "publish"} \/ (q \in {"to_staged", "to_verified"} /\ (staged # Absent \/ mode # "recovery")) =>
       fs["temporary"].content # "part"
  /\ q \in {"to_source_deleted", "to_completed"} => ~Exists("source") /\ Matches("target", NoId)
  /\ q = "discard" => ~Exists("target")
  /\ q = "to_failed" => fs["source"] = Scanned /\ ~Exists("target")
  /\ q = "delete_source" => opened \in {NoId, fs["source"].id}
  /\ q = "delete_target" => opened \in {NoId, fs["target"].id}
  /\ q \in {"drop_staged", "unstage", "discard"} => opened \in {NoId, fs["temporary"].id}

\* The scanned content is at the source or at the target, complete.
Untouched ==
  /\ fs["source"] = Absent \/ fs["source"] = Scanned
  /\ Exists("target") => fs["target"].content = "orig"
  /\ fs["temporary"].content # "other"
  /\ Exists("source") \/ Exists("target")
  /\ ~Copying => ~(Exists("source") /\ Exists("target"))
  /\ ~Copying => fs["target"] = Absent \/ fs["target"] = Scanned
  /\ journal.state = "completed" => ~Exists("source")
  /\ journal.state = "failed" => ~Exists("target")

IInv ==
  /\ TypeOK
  /\ Distinct
  /\ Life
  /\ Claims(pc)
  /\ touched = {} => Untouched /\ QuietClaims(pc)

----------------------------------------------------------------------------
\* Files have identities, and what is absent has none.
LEMMA Marks ==
  /\ NoId \notin Id /\ Original \in Id /\ Original # NoId
  /\ Absent.id = NoId /\ Absent.content = "none" /\ Absent.owner = "none"
  /\ Scanned \in File /\ Scanned # Absent
  /\ Scanned.id = Original /\ Scanned.content = "orig" /\ Scanned.owner = "user"
  /\ \A f \in File : f # Absent /\ f.id \in Id /\ f.id # NoId /\ f.content \in Content
                       /\ f.owner \in {"app", "user"}
BY MoveAssumption DEF Absent, Scanned, File, Content

\* Of the types of the variables.
LEMMA Typed ==
  ASSUME TypeOK
  PROVE  /\ fs \in [Path -> File \cup {Absent}]
         /\ \A p \in Path : fs[p] \in File \cup {Absent}
         /\ fs["source"] \in File \cup {Absent} /\ fs["temporary"] \in File \cup {Absent}
         /\ fs["target"] \in File \cup {Absent}
         /\ \A p \in Path : fs[p].id \in Id \cup {NoId}
         /\ staged \in File \cup {Absent} /\ staged.id \in Id \cup {NoId}
         /\ journal.staged \in Id \cup {NoId} /\ journal.state \in JournalState \cup {"none"}
         /\ loaded \in Id \cup {NoId} /\ opened \in Id \cup {NoId}
         /\ faults \in 0..MaxFaults /\ pc \in Step /\ mode \in MutationDirection
         /\ touched \subseteq Path
<1>1. /\ fs \in [Path -> File \cup {Absent}] /\ staged \in File \cup {Absent}
      /\ loaded \in Id \cup {NoId} /\ opened \in Id \cup {NoId}
      /\ faults \in 0..MaxFaults /\ pc \in Step /\ mode \in MutationDirection
      /\ touched \subseteq Path
  BY DEF TypeOK
<1>2. \A p \in Path : fs[p] \in File \cup {Absent}
  BY <1>1
<1>3. fs["source"] \in File \cup {Absent} /\ fs["temporary"] \in File \cup {Absent}
      /\ fs["target"] \in File \cup {Absent}
  BY <1>2 DEF Path
<1>4. \A f \in File \cup {Absent} : f.id \in Id \cup {NoId}
  BY Marks
<1>5. journal.staged \in Id \cup {NoId} /\ journal.state \in JournalState \cup {"none"}
  BY DEF TypeOK
<1> QED BY <1>1, <1>2, <1>3, <1>4, <1>5

\* A set of at most n elements, and one more.
Small(S, n) == IsFiniteSet(S) /\ Cardinality(S) <= n

\* One element more makes a small set at most one element larger.
LEMMA OneMore ==
  ASSUME NEW S, NEW x, NEW n \in Nat, Small(S, n)
  PROVE  Small(S \cup {x}, n + 1)
<1>1. IsFiniteSet(S) /\ Cardinality(S) \in Nat /\ Cardinality(S) <= n
  BY FS_CardinalityType DEF Small
<1>2. IsFiniteSet(S \cup {x})
      /\ Cardinality(S \cup {x}) = (IF x \in S THEN Cardinality(S) ELSE Cardinality(S) + 1)
  BY <1>1, FS_AddElement
<1> QED BY <1>1, <1>2 DEF Small

\* Eight names name at most eight things.
LEMMA EightOrLess ==
  ASSUME NEW a, NEW b, NEW c, NEW d, NEW e, NEW f, NEW g, NEW h
  PROVE  Small({a, b, c, d, e, f, g, h}, 8)
<1>1. Small({a}, 1)
  BY FS_Singleton DEF Small
<1>2. Small({a, b}, 2)
  <2>1. Small({a} \cup {b}, 1 + 1)
    BY <1>1, OneMore
  <2>2. {a} \cup {b} = {a, b} /\ 1 + 1 = 2
    OBVIOUS
  <2> QED BY <2>1, <2>2
<1>3. Small({a, b, c}, 3)
  <2>1. Small({a, b} \cup {c}, 2 + 1)
    BY <1>2, OneMore
  <2>2. {a, b} \cup {c} = {a, b, c} /\ 2 + 1 = 3
    OBVIOUS
  <2> QED BY <2>1, <2>2
<1>4. Small({a, b, c, d}, 4)
  <2>1. Small({a, b, c} \cup {d}, 3 + 1)
    BY <1>3, OneMore
  <2>2. {a, b, c} \cup {d} = {a, b, c, d} /\ 3 + 1 = 4
    OBVIOUS
  <2> QED BY <2>1, <2>2
<1>5. Small({a, b, c, d, e}, 5)
  <2>1. Small({a, b, c, d} \cup {e}, 4 + 1)
    BY <1>4, OneMore
  <2>2. {a, b, c, d} \cup {e} = {a, b, c, d, e} /\ 4 + 1 = 5
    OBVIOUS
  <2> QED BY <2>1, <2>2
<1>6. Small({a, b, c, d, e, f}, 6)
  <2>1. Small({a, b, c, d, e} \cup {f}, 5 + 1)
    BY <1>5, OneMore
  <2>2. {a, b, c, d, e} \cup {f} = {a, b, c, d, e, f} /\ 5 + 1 = 6
    OBVIOUS
  <2> QED BY <2>1, <2>2
<1>7. Small({a, b, c, d, e, f, g}, 7)
  <2>1. Small({a, b, c, d, e, f} \cup {g}, 6 + 1)
    BY <1>6, OneMore
  <2>2. {a, b, c, d, e, f} \cup {g} = {a, b, c, d, e, f, g} /\ 6 + 1 = 7
    OBVIOUS
  <2> QED BY <2>1, <2>2
<1>8. Small({a, b, c, d, e, f, g, h}, 8)
  <2>1. Small({a, b, c, d, e, f, g} \cup {h}, 7 + 1)
    BY <1>7, OneMore
  <2>2. {a, b, c, d, e, f, g} \cup {h} = {a, b, c, d, e, f, g, h} /\ 7 + 1 = 8
    OBVIOUS
  <2> QED BY <2>1, <2>2
<1> QED BY <1>8

\* There is always an identity left that nothing bears.
LEMMA Fresh ==
  ASSUME TypeOK
  PROVE  /\ FreshId \in Id /\ FreshId # NoId
         /\ FreshId \notin {Original, journal.staged, loaded, staged.id, opened}
         /\ \A p \in Path : fs[p].id # FreshId
<1> DEFINE used == {Original, journal.staged, loaded, staged.id, opened,
                    fs["source"].id, fs["temporary"].id, fs["target"].id}
<1>1. IsFiniteSet(used) /\ Cardinality(used) <= 8
  BY EightOrLess DEF Small
<1> HIDE DEF used
<1>2. ~(Id \subseteq used)
  <2> SUFFICES ASSUME Id \subseteq used PROVE FALSE
    OBVIOUS
  <2>1. Cardinality(Id) <= Cardinality(used) /\ Cardinality(used) \in Nat /\ Cardinality(Id) \in Nat
    BY <1>1, FS_Subset, FS_CardinalityType
  <2> QED BY <1>1, <2>1, MoveAssumption
<1>3. PICK i \in Id : i \notin used
  BY <1>2
<1>4. /\ i \in Id \ {Original, journal.staged, loaded, staged.id, opened}
      /\ \A p \in Path : fs[p].id # i
  BY <1>3 DEF used, Path
<1>5. /\ FreshId \in Id \ {Original, journal.staged, loaded, staged.id, opened}
      /\ \A p \in Path : fs[p].id # FreshId
  BY <1>4 DEF FreshId
<1> QED BY <1>5, Marks

\* A file that was scanned and a run that has not begun satisfy the invariant.
LEMMA InitIInv == Init => IInv
<1> SUFFICES ASSUME Init PROVE IInv
  OBVIOUS
<1>1. /\ fs["source"] = Scanned /\ fs["temporary"] = Absent /\ fs["target"] = Absent
      /\ journal.state = "none" /\ journal.staged = NoId /\ journal.strategy \in Strategy
      /\ pc = "idle" /\ mode \in {"apply", "rollback"} /\ loaded = NoId /\ staged = Absent
      /\ faults = 0 /\ opened = NoId /\ touched = {}
  BY DEF Init, Path, Scanned
<1>2. TypeOK
  <2>1. fs \in [Path -> File \cup {Absent}]
    BY Marks DEF Init, Scanned
  <2>2. journal \in [strategy: Strategy, state: JournalState \cup {"none"}, staged: Id \cup {NoId}]
    BY DEF Init
  <2> QED BY <1>1, <2>1, <2>2, MoveAssumption DEF TypeOK, Step, MutationDirection
<1>3. Distinct
  BY <1>1, Marks DEF Distinct
<1>4. Life
  BY <1>1, Marks DEF Life, Exists
<1>5. Claims(pc) /\ QuietClaims(pc)
  BY <1>1 DEF Claims, QuietClaims, CopySteps, RenameSteps, EarlySteps
<1>6. Untouched
  BY <1>1, Marks DEF Untouched, Exists
<1> QED BY <1>2, <1>3, <1>4, <1>5, <1>6 DEF IInv

----------------------------------------------------------------------------
(***************************************************************************)
(* Steps that leave the files alone.                                       *)
(***************************************************************************)
\* Nothing is claimed of a worker that is gone or gives up.
LEMMA Unclaimed == \A q \in {"idle", "park"} : Claims(q) /\ QuietClaims(q)
BY DEF Claims, QuietClaims, CopySteps, RenameSteps, EarlySteps

\* The worker goes on, and what its next step relies on is there.
LEMMA QuietStep ==
  ASSUME IInv, UNCHANGED <<fs, mode, touched>>, staged' \in File \cup {Absent},
         loaded' \in Id \cup {NoId}, opened' = NoId, pc' # "copying",
         pc' \in Step, faults' \in 0..MaxFaults,
         journal' \in [strategy: Strategy, state: JournalState \cup {"none"}, staged: Id \cup {NoId}],
         journal'.strategy = journal.strategy,
         Life', Claims(pc)',
         touched = {} => QuietClaims(pc)' /\ (journal'.state = "completed" => ~Exists("source"))
                           /\ (journal'.state = "failed" => ~Exists("target"))
  PROVE  IInv'
<1>1. TypeOK'
  BY MoveAssumption DEF IInv, TypeOK
<1>2. Distinct'
  BY DEF IInv, Distinct, Exists
<1>3. touched' = {} => Untouched'
  BY DEF IInv, Untouched, Exists, Copying
<1> QED BY <1>1, <1>2, <1>3 DEF IInv

\* Claims that are the same before and after, as their variables are.
LEMMA ClaimsKept ==
  ASSUME UNCHANGED <<fs, staged, mode, opened, touched>>, journal'.strategy = journal.strategy, NEW q,
         pc' = q, Claims(q), touched = {} => QuietClaims(q)
  PROVE  Claims(pc)' /\ (touched = {} => QuietClaims(pc)')
<1>1. Claims(pc)'
  BY DEF Claims, Copying, Private, Matches, Exists
<1>2. touched = {} => QuietClaims(pc)'
  BY DEF QuietClaims, Matches, Exists
<1> QED BY <1>1, <1>2

\* One step more of the count of failures.
LEMMA Faults ==
  ASSUME TypeOK, Fault \/ NoFault
  PROVE  faults' \in 0..MaxFaults
BY MoveAssumption DEF TypeOK, Fault, NoFault

\* A write to the journal.
LEMMA RecordStep ==
  ASSUME IInv, NEW to \in JournalState, NEW evidence \in Id \cup {NoId},
         NEW next \in Step, NEW onError \in Step,
         Record(to, evidence, next, onError), pc \notin Holding \cup {"idle", "prepare"},
         next \notin {"copying", "prepare"}, onError \notin {"copying", "prepare"},
         Claims(next), Claims(onError), touched = {} => QuietClaims(next) /\ QuietClaims(onError),
         to \in TerminalState => next = "idle",
         touched = {} => (to = "completed" => ~Exists("source")) /\ (to = "failed" => ~Exists("target"))
  PROVE  IInv'
<1>1. /\ UNCHANGED <<fs, staged, mode, loaded, opened, touched>>
      /\ Fault \/ NoFault
      /\ pc' \in {next, onError}
  BY DEF Record, Keep, Goto
<1>2. faults' \in 0..MaxFaults
  BY <1>1, Faults DEF IInv
<1>3. /\ journal' \in [strategy: Strategy, state: JournalState \cup {"none"}, staged: Id \cup {NoId}]
      /\ journal'.strategy = journal.strategy
      /\ journal' = journal \/ (journal'.state = to /\ pc' = next)
  BY DEF Record, IInv, TypeOK, Goto
<1>4. Open
  BY DEF IInv, Life
<1>5. journal.state # "none" /\ journal.state \notin TerminalState
  BY <1>4 DEF Open, OpenState, JournalState, TerminalState
<1>6. Open' \/ pc' = "idle"
  BY <1>3, <1>4 DEF Open, OpenState
<1>7. Life'
  <2>1. journal'.state # "none" /\ pc' # "prepare"
    BY <1>1, <1>3, <1>5 DEF JournalState
  <2>2. ~Copying' => ~Exists("temporary")'
    BY <1>1, <1>3 DEF IInv, Life, Copying, Exists
  <2>3. staged'.content = "other" => staged'.owner = "app"
    BY <1>1 DEF IInv, Life
  <2> QED BY <1>6, <2>1, <2>2, <2>3 DEF Life
<1>8. Claims(pc)' /\ (touched = {} => QuietClaims(pc)')
  BY <1>1, <1>3, ClaimsKept
<1>9. touched = {} => (journal'.state = "completed" => ~Exists("source"))
                        /\ (journal'.state = "failed" => ~Exists("target"))
  BY <1>3, <1>5 DEF TerminalState
<1>10. pc' # "copying" /\ pc' \in Step /\ opened' = NoId
  BY <1>1 DEF IInv, TypeOK
<1> QED BY <1>1, <1>2, <1>3, <1>7, <1>8, <1>9, <1>10, QuietStep, Typed DEF IInv

\* A step that decides by the files where to go on.
LEMMA GoStep ==
  ASSUME IInv, UNCHANGED <<fs, journal, staged, mode, loaded, opened, touched>>,
         Fault \/ NoFault, pc' \in Step, pc \notin Holding \cup {"idle", "prepare"},
         pc' \notin {"copying", "prepare"},
         Claims(pc'), touched = {} => QuietClaims(pc')
  PROVE  IInv'
<1>1. faults' \in 0..MaxFaults
  BY Faults DEF IInv
<1>2. Claims(pc)' /\ (touched = {} => QuietClaims(pc)')
  BY ClaimsKept
<1>3. Life'
  <2>1. Open
    BY DEF IInv, Life
  <2>2. Open' /\ journal'.state # "none" /\ ~(~Copying' /\ Exists("temporary")')
    BY <2>1 DEF Open, OpenState, JournalState, IInv, Life, Copying, Exists
  <2> QED BY <2>2 DEF IInv, Life
<1>4. touched = {} => (journal'.state = "completed" => ~Exists("source"))
                        /\ (journal'.state = "failed" => ~Exists("target"))
  BY DEF IInv, Untouched
<1>5. opened' = NoId
  BY DEF IInv, TypeOK
<1>6. journal' \in [strategy: Strategy, state: JournalState \cup {"none"}, staged: Id \cup {NoId}]
  BY DEF IInv, TypeOK
<1> QED BY <1>1, <1>2, <1>3, <1>4, <1>5, <1>6, QuietStep, Typed DEF IInv

\* Preflight and the first write of the entry.
LEMMA BeginStep ==
  ASSUME IInv, Preflight \/ Prepare
  PROVE  IInv'
<1>1. /\ UNCHANGED <<fs, mode, touched, loaded, opened>> /\ journal.state = "none"
      /\ mode # "recovery" /\ ~Exists("temporary")
      /\ pc \in {"idle", "prepare"} /\ opened = NoId
  <2>1. pc \in {"idle", "prepare"} /\ journal.state = "none"
    BY DEF Preflight, Prepare, At, IInv, Life
  <2> QED BY <2>1 DEF Preflight, Prepare, Keep, IInv, Life, TypeOK, Holding
<1>2. Private
  BY <1>1, Marks DEF Private, Exists
<1>3. CASE Preflight
  <2>1. /\ pc' = "prepare" /\ UNCHANGED <<journal, faults>>
        /\ Matches("source", Original) /\ ~Exists("target")
        /\ staged' \in {Absent, fs["source"]}
    BY <1>3 DEF Preflight, Goto, SourceIntact
  <2>2. staged' \in File \cup {Absent} /\ staged'.content # "other"
    BY <2>1, Typed, Marks DEF IInv, Matches
  <2>3. Life'
    BY <1>1, <2>1, <2>2 DEF Life, Exists
  <2>4. Claims(pc)'
    BY <1>1, <2>1 DEF Claims, CopySteps, RenameSteps
  <2>5. touched = {} => QuietClaims(pc)'
    BY <1>1, <2>1 DEF QuietClaims, IInv, Untouched, Matches, Exists
  <2>6. /\ journal' \in [strategy: Strategy, state: JournalState \cup {"none"}, staged: Id \cup {NoId}]
        /\ journal'.state = "none"
    BY <1>1, <2>1 DEF IInv, TypeOK
  <2> QED BY <1>1, <2>1, <2>2, <2>3, <2>4, <2>5, <2>6, QuietStep, Typed DEF IInv, Step
<1>4. CASE Prepare
  <2>1. /\ pc = "prepare" /\ UNCHANGED staged
        /\ Fault \/ NoFault
        /\ \/ /\ journal' = [journal EXCEPT !.state = "prepared"]
              /\ pc' = (IF Copying THEN "to_staging" ELSE "to_verified")
           \/ pc' = "idle" /\ UNCHANGED journal
    BY <1>4 DEF Prepare, At, Goto
  <2>2. /\ journal' \in [strategy: Strategy, state: JournalState \cup {"none"}, staged: Id \cup {NoId}]
        /\ journal'.strategy = journal.strategy
        /\ \/ journal'.state = "prepared" /\ Copying /\ pc' = "to_staging"
           \/ journal'.state = "prepared" /\ ~Copying /\ pc' = "to_verified"
           \/ journal'.state = "none" /\ pc' = "idle"
    BY <1>1, <2>1 DEF IInv, TypeOK, JournalState
  <2>3. Life'
    BY <1>1, <2>1, <2>2 DEF Life, Open, OpenState, JournalState, TerminalState, Exists, IInv
  <2>4. faults' \in 0..MaxFaults
    BY <2>1, Faults DEF IInv
  <2>5. Claims(pc') /\ (touched = {} => QuietClaims(pc'))
    <3>1. CASE pc' = "idle"
      BY <3>1, Unclaimed
    <3>2. CASE Copying /\ pc' = "to_staging"
      BY <1>1, <2>1, <3>2 DEF Claims, QuietClaims, CopySteps, RenameSteps, EarlySteps, IInv
    <3>3. CASE ~Copying /\ pc' = "to_verified"
      BY <1>1, <1>2, <2>1, <3>3, Marks
         DEF Claims, QuietClaims, CopySteps, RenameSteps, EarlySteps, IInv, Exists
    <3> QED BY <2>2, <3>1, <3>2, <3>3
  <2>6. Claims(pc)' /\ (touched = {} => QuietClaims(pc)')
    BY <1>1, <2>1, <2>2, <2>5, ClaimsKept
  <2>7. pc' \in Step /\ pc' # "copying" /\ journal'.state \notin {"completed", "failed"}
    BY <2>2 DEF Step
  <2> QED BY <1>1, <2>1, <2>2, <2>3, <2>4, <2>6, <2>7, QuietStep, Typed DEF IInv
<1> QED BY <1>3, <1>4

\* The evidence a write carries is an identity or none.
LEMMA EvidenceTyped ==
  ASSUME TypeOK
  PROVE  Evidence \in Id \cup {NoId} /\ NoId \in Id \cup {NoId}
BY Typed DEF Evidence

\* The writes to the journal, one by one.
LEMMA RecordSteps ==
  ASSUME IInv,
         \/ RecordStaging \/ RecordStaged \/ RecordVerified \/ RecordPublished
         \/ RecordSourceDeleted \/ RecordCompleted \/ CloseFailed \/ RecordFailed
  PROVE  IInv'
<1>1. PICK evidence \in Id \cup {NoId} : evidence = Evidence
  BY EvidenceTyped DEF IInv
<1>2. NoId \in Id \cup {NoId} /\ Claims(pc) /\ (touched = {} => Untouched /\ QuietClaims(pc))
  BY DEF IInv
<1>3. CASE RecordStaging
  <2>1. pc = "to_staging" /\ Record("staging", NoId, "stage", "idle")
    BY <1>3 DEF RecordStaging, At
  <2>2. Claims("stage") /\ (touched = {} => QuietClaims("stage"))
    BY <1>2, <2>1 DEF Claims, QuietClaims, CopySteps, RenameSteps, EarlySteps
  <2>3. "staging" \in JournalState /\ "staging" \notin TerminalState /\ "stage" \in Step /\ "idle" \in Step
    BY DEF JournalState, TerminalState, Step
  <2> QED BY <1>2, <2>1, <2>2, <2>3, Unclaimed, RecordStep DEF Holding
<1>4. CASE RecordStaged
  <2>1. PICK next \in {"to_verified", "compare"}, onError \in {"park", "idle"} :
          /\ pc = "to_staged" /\ Record("staged", evidence, next, onError)
          /\ mode = "recovery" <=> next = "to_verified"
    BY <1>1, <1>4 DEF RecordStaged, At, PreCommitError
  <2>2. Claims(next) /\ (touched = {} => QuietClaims(next))
    BY <1>2, <2>1 DEF Claims, QuietClaims, CopySteps, RenameSteps, EarlySteps
  <2>3. "staged" \in JournalState /\ "staged" \notin TerminalState /\ next \in Step /\ onError \in Step
    BY DEF JournalState, TerminalState, Step
  <2> QED BY <1>2, <2>1, <2>2, <2>3, Unclaimed, RecordStep DEF Holding
<1>5. CASE RecordVerified
  <2>1. PICK next \in {"to_published", "publish", "rename"}, onError \in {"park", "idle"} :
          /\ pc = "to_verified" /\ Record("content_verified", evidence, next, onError)
          /\ next = "publish" => staged # Absent /\ Copying
          /\ next = "rename" => ~Copying
    BY <1>1, <1>5 DEF RecordVerified, At, PreCommitError
  <2>2. Claims(next) /\ (touched = {} => QuietClaims(next))
    BY <1>2, <2>1 DEF Claims, QuietClaims, CopySteps, RenameSteps, EarlySteps
  <2>3. /\ "content_verified" \in JournalState /\ "content_verified" \notin TerminalState
        /\ next \in Step /\ onError \in Step
    BY DEF JournalState, TerminalState, Step
  <2> QED BY <1>2, <2>1, <2>2, <2>3, Unclaimed, RecordStep DEF Holding
<1>6. CASE RecordPublished
  <2>1. PICK next \in {"verify_target", "verify_moved"} :
          /\ pc = "to_published" /\ Record("published", evidence, next, "park")
          /\ next = "verify_target" <=> Copying
    BY <1>1, <1>6 DEF RecordPublished, At
  <2>2. Claims(next) /\ (touched = {} => QuietClaims(next))
    BY <1>2, <2>1 DEF Claims, QuietClaims, CopySteps, RenameSteps, EarlySteps
  <2>3. "published" \in JournalState /\ "published" \notin TerminalState /\ next \in Step /\ "park" \in Step
    BY DEF JournalState, TerminalState, Step
  <2> QED BY <1>2, <2>1, <2>2, <2>3, Unclaimed, RecordStep DEF Holding
<1>7. CASE RecordSourceDeleted
  <2>1. pc = "to_source_deleted" /\ Record("source_deleted", evidence, "to_completed", "park")
    BY <1>1, <1>7 DEF RecordSourceDeleted, At
  <2>2. Claims("to_completed") /\ (touched = {} => QuietClaims("to_completed"))
    BY <1>2, <2>1 DEF Claims, QuietClaims, CopySteps, RenameSteps, EarlySteps
  <2>3. /\ "source_deleted" \in JournalState /\ "source_deleted" \notin TerminalState
        /\ "to_completed" \in Step /\ "park" \in Step
    BY DEF JournalState, TerminalState, Step
  <2> QED BY <1>2, <2>1, <2>2, <2>3, Unclaimed, RecordStep DEF Holding
<1>8. CASE RecordCompleted
  <2>1. pc = "to_completed" /\ Record("completed", evidence, "idle", "park")
    BY <1>1, <1>8 DEF RecordCompleted, At
  <2>2. touched = {} => ~Exists("source")
    BY <1>2, <2>1 DEF QuietClaims
  <2>3. "completed" \in JournalState /\ "idle" \in Step /\ "park" \in Step
    BY DEF JournalState, Step
  <2> QED BY <1>2, <2>1, <2>2, <2>3, Unclaimed, RecordStep DEF Holding
<1>9. CASE CloseFailed
  <2>1. pc = "fail" /\ Record("failed", NoId, "idle", "idle")
    BY <1>9 DEF CloseFailed, At
  <2>2. touched = {} => ~Exists("target")
    BY <1>2, <2>1 DEF Claims, QuietClaims, EarlySteps
  <2>3. "failed" \in JournalState /\ "idle" \in Step
    BY DEF JournalState, Step
  <2> QED BY <1>2, <2>1, <2>2, <2>3, Unclaimed, RecordStep DEF Holding
<1>10. CASE RecordFailed
  <2>1. pc = "to_failed" /\ Record("failed", NoId, "idle", "park")
    BY <1>10 DEF RecordFailed, At
  <2>2. touched = {} => ~Exists("target")
    BY <1>2, <2>1 DEF QuietClaims
  <2>3. "failed" \in JournalState /\ "idle" \in Step /\ "park" \in Step
    BY DEF JournalState, Step
  <2> QED BY <1>2, <2>1, <2>2, <2>3, Unclaimed, RecordStep DEF Holding
<1> QED BY <1>3, <1>4, <1>5, <1>6, <1>7, <1>8, <1>9, <1>10

\* A worker that gives up parks the entry.
LEMMA ParkStep ==
  ASSUME IInv, Park
  PROVE  IInv'
<1>1. pc = "park"
  BY DEF Park, At
<1>2. CASE Record("recovery_required", Evidence, "idle", "idle")
  <2>1. PICK evidence \in Id \cup {NoId} : evidence = Evidence
    BY EvidenceTyped DEF IInv
  <2>2. "recovery_required" \in JournalState /\ "recovery_required" \notin TerminalState /\ "idle" \in Step
    BY DEF JournalState, TerminalState, Step
  <2> QED BY <1>1, <1>2, <2>1, <2>2, Unclaimed, RecordStep DEF Holding
<1>3. CASE pc' = "idle" /\ UNCHANGED <<fs, journal, staged, faults>> /\ Keep
  BY <1>1, <1>3, Unclaimed, GoStep DEF Keep, NoFault, Step, Holding
<1> QED BY <1>2, <1>3 DEF Park, Goto

\* Looking at the files.
LEMMA LookSteps ==
  ASSUME IInv,
         CompareStaged \/ VerifyTarget \/ VerifySource \/ VerifyMoved \/ Withdraw \/ TurnBack \/ VerifyBack
           \/ ResumePublished
  PROVE  IInv'
<1>1. /\ UNCHANGED <<fs, journal, staged, mode, loaded, opened, touched>>
      /\ Fault \/ NoFault
      /\ pc \in {"compare", "verify_target", "verify_source", "verify_moved", "withdraw", "turn_back",
                 "verify_back", "resume"}
  BY DEF CompareStaged, VerifyTarget, VerifySource, VerifyMoved, Withdraw, TurnBack, VerifyBack,
         ResumePublished, Check, Keep, At, NoFault
<1>2. Claims(pc) /\ (touched = {} => Untouched /\ QuietClaims(pc))
  BY DEF IInv
<1>3. /\ "idle" \in Step /\ "park" \in Step
      /\ pc \notin Holding \cup {"idle", "prepare"}
      /\ opened = NoId
  BY <1>1 DEF Step, Holding, IInv, TypeOK
<1>4. CASE pc' \in {"idle", "park"}
  <2>1. pc \notin Holding \cup {"idle", "prepare"} /\ pc' \in Step /\ pc' \notin {"copying", "prepare"}
    BY <1>1, <1>3, <1>4
  <2>2. Claims(pc') /\ QuietClaims(pc')
    BY <1>4, Unclaimed
  <2> QED BY <1>1, <2>1, <2>2, GoStep
<1> SUFFICES ASSUME pc' # "idle", pc' # "park"
             PROVE  /\ pc' \in Step \ {"copying", "prepare"}
                    /\ Claims(pc') /\ (touched = {} => QuietClaims(pc'))
  <2>1. CASE pc' \notin {"idle", "park"}
    <3>1. pc' \in Step /\ pc' \notin {"copying", "prepare"} /\ Claims(pc') /\ (touched = {} => QuietClaims(pc'))
      BY <2>1
    <3>2. pc \notin Holding \cup {"idle", "prepare"}
      BY <1>3
    <3> QED BY <1>1, <3>1, <3>2, GoStep
  <2> QED BY <1>4, <2>1
<1>5. CASE CompareStaged
  <2>1. pc = "compare" /\ pc' \in {"to_verified", "drop_staged"}
    BY <1>5 DEF CompareStaged, At, Goto
  <2> QED BY <1>2, <1>3, <2>1 DEF Claims, QuietClaims, CopySteps, RenameSteps, EarlySteps, Step
<1>6. CASE VerifyTarget
  <2>1. pc = "verify_target" /\ pc' = "verify_source" /\ Matches("target", NoId)
    BY <1>6 DEF VerifyTarget, Check, At, Goto, Matches
  <2> QED BY <1>2, <1>3, <2>1 DEF Claims, QuietClaims, CopySteps, RenameSteps, EarlySteps, Step
<1>7. CASE VerifySource
  <2>1. /\ pc = "verify_source"
        /\ \/ pc' \in {"to_completed", "to_source_deleted"} /\ ~Exists("source")
           \/ pc' = "delete_source"
    BY <1>7 DEF VerifySource, Check, At, Goto
  <2> QED BY <1>2, <1>3, <2>1 DEF Claims, QuietClaims, CopySteps, RenameSteps, EarlySteps, Step
<1>8. CASE VerifyMoved
  <2>1. /\ pc = "verify_moved" /\ pc' \in {"to_completed", "to_source_deleted"}
        /\ ~Exists("source") /\ Matches("target", NoId)
    BY <1>8 DEF VerifyMoved, Check, At, Goto, OnlyAt, Matches
  <2> QED BY <1>2, <1>3, <2>1 DEF Claims, QuietClaims, CopySteps, RenameSteps, EarlySteps, Step
<1>9. CASE Withdraw
  <2>1. pc = "withdraw" /\ pc' = "delete_target" /\ Matches("source", NoId)
    BY <1>9 DEF Withdraw, Check, At, Goto, SourceIntact, Matches
  <2> QED BY <1>2, <1>3, <2>1 DEF Claims, QuietClaims, CopySteps, RenameSteps, EarlySteps, Step
<1>10. CASE TurnBack
  <2>1. pc = "turn_back" /\ pc' \in {"verify_back", "move_back"}
    <3>1. /\ pc = "turn_back"
          /\ pc' = CASE OnlyAt("source", "target") -> "verify_back"
                     [] OnlyAt("target", "source") -> "move_back"
                     [] OTHER -> "idle"
      BY <1>10 DEF TurnBack, At, Goto
    <3>2. ~(OnlyAt("source", "target") /\ OnlyAt("target", "source"))
      BY DEF OnlyAt, Matches
    <3> QED BY <3>1, <3>2
  <2> QED BY <1>2, <1>3, <2>1 DEF Claims, QuietClaims, CopySteps, RenameSteps, EarlySteps, Step
<1>11. CASE VerifyBack
  <2>1. pc = "verify_back" /\ pc' = "to_failed" /\ Exists("source") /\ ~Exists("target")
    BY <1>11 DEF VerifyBack, Check, At, Goto, OnlyAt, Matches
  <2>2. touched = {} => fs["source"] = Scanned
    BY <1>2, <2>1 DEF Untouched, Exists
  <2> QED BY <1>2, <1>3, <2>1, <2>2 DEF Claims, QuietClaims, CopySteps, RenameSteps, EarlySteps, Step
<1>12. CASE ResumePublished
  <2>1. /\ pc = "resume" /\ Copying
        /\ pc' \in {"to_staged", "to_verified", "verify_target", "to_published"}
    BY <1>12 DEF ResumePublished, Check, At, Goto
  <2>2. staged = Absent /\ mode = "recovery"
    BY <1>2, <2>1 DEF Claims
  <2> QED BY <1>2, <1>3, <2>1, <2>2 DEF Claims, QuietClaims, CopySteps, RenameSteps, EarlySteps, Step
<1> QED BY <1>5, <1>6, <1>7, <1>8, <1>9, <1>10, <1>11, <1>12

----------------------------------------------------------------------------
(***************************************************************************)
(* Steps that change a file.                                               *)
(***************************************************************************)
\* The worker changed a file, and everything is as its next step expects it.
LEMMA FilesStep ==
  ASSUME IInv, fs' \in [Path -> File \cup {Absent}], UNCHANGED <<journal, mode, loaded, touched>>,
         staged' \in File \cup {Absent}, opened' \in Id \cup {NoId}, opened' = NoId <=> pc' # "copying",
         Fault \/ NoFault, pc' \in Step, pc' # "prepare", pc \notin {"idle", "prepare"},
         Distinct', ~Copying => ~Exists("temporary")',
         staged'.content = "other" => staged'.owner = "app",
         Claims(pc)', touched = {} => Untouched' /\ QuietClaims(pc)'
  PROVE  IInv'
<1>1. faults' \in 0..MaxFaults
  BY Faults DEF IInv
<1>2. TypeOK'
  BY <1>1 DEF IInv, TypeOK, Holding
<1>3. Life'
  <2>1. Open /\ journal.state # "none"
    BY DEF IInv, Life, Open, OpenState, JournalState
  <2>2. Open' /\ journal'.state # "none" /\ (Copying' <=> Copying)
    BY <2>1 DEF Open, Copying
  <2> QED BY <2>2 DEF Life
<1> QED BY <1>2, <1>3 DEF IInv

\* A file is removed, or nothing happens: the other files stay as they are.
LEMMA Removed ==
  ASSUME TypeOK, Distinct, NEW p \in Path, fs' = fs \/ fs' = [fs EXCEPT ![p] = Absent]
  PROVE  /\ fs' \in [Path -> File \cup {Absent}]
         /\ \A q \in Path : q # p => fs'[q] = fs[q]
         /\ fs'[p] = fs[p] \/ fs'[p] = Absent
         /\ \A q \in Path : Exists(q)' => fs'[q] = fs[q]
         /\ Distinct'
<1>1. fs \in [Path -> File \cup {Absent}]
  BY DEF TypeOK
<1>2. /\ fs' \in [Path -> File \cup {Absent}]
      /\ \A q \in Path : q # p => fs'[q] = fs[q]
      /\ fs'[p] = fs[p] \/ fs'[p] = Absent
  BY <1>1
<1>3. \A q \in Path : fs'[q] = fs[q] \/ fs'[q] = Absent
  BY <1>2
<1>4. \A q \in Path : Exists(q)' => fs'[q] = fs[q]
  BY <1>3 DEF Exists
<1>5. Distinct'
  <2> SUFFICES ASSUME fs'["source"] # Absent
               PROVE  fs'["temporary"].id # fs'["source"].id /\ fs'["target"].id # fs'["source"].id
    BY DEF Distinct, Exists
  <2>1. fs'["source"] = fs["source"] /\ fs["source"] # Absent
    BY <1>3 DEF Path
  <2>2. fs["source"].id # NoId
    BY <2>1, Marks, Typed
  <2>3. fs'["temporary"].id \in {fs["temporary"].id, NoId} /\ fs'["target"].id \in {fs["target"].id, NoId}
    BY <1>3, Marks DEF Path
  <2> QED BY <2>1, <2>2, <2>3 DEF Distinct, Exists
<1> QED BY <1>2, <1>4, <1>5

\* As long as a complete copy stays, removing a file leaves what was there.
LEMMA StillUntouched ==
  ASSUME TypeOK, Distinct, Untouched, NEW p \in Path, fs' = fs \/ fs' = [fs EXCEPT ![p] = Absent],
         UNCHANGED journal, Exists("source")' \/ Exists("target")'
  PROVE  Untouched'
<1>1. \A q \in Path : fs'[q] = fs[q] \/ fs'[q] = Absent
  BY Removed
<1>2. /\ fs'["source"] = fs["source"] \/ fs'["source"] = Absent
      /\ fs'["temporary"] = fs["temporary"] \/ fs'["temporary"] = Absent
      /\ fs'["target"] = fs["target"] \/ fs'["target"] = Absent
  BY <1>1 DEF Path
<1> QED BY <1>2, Marks DEF Untouched, Exists, Copying

\* The file at p is opened for deletion and is what was expected.
Opens(p, ok) ==
  /\ opened = NoId /\ Exists(p) /\ ok
  /\ opened' = fs[p].id /\ UNCHANGED <<fs, pc>>

\* The two halves of Delete: a file is opened and found to be the right one, or
\* the call ends, and what it removed is what it had opened.
LEMMA Deleted ==
  ASSUME IInv, NEW p \in Path, NEW ok, NEW next \in Step, NEW otherwise \in Step,
         Delete(p, ok, next, otherwise)
  PROVE  /\ UNCHANGED <<journal, staged, mode, loaded, touched>>
         /\ Fault \/ NoFault
         /\ fs' = fs \/ (fs' = [fs EXCEPT ![p] = Absent] /\ fs'[p] = Absent /\ opened = fs[p].id /\ opened # NoId)
         /\ \A q \in Path : q # p => fs'[q] = fs[q]
         /\ \/ Opens(p, ok)
            \/ /\ opened' = NoId
               /\ pc' = otherwise \/ (pc' = next /\ (fs'[p] = Absent \/ opened \notin {NoId, fs[p].id}))
         /\ ~Copying => ~Exists("temporary")'
         /\ staged'.content = "other" => staged'.owner = "app"
<1>1. fs \in [Path -> File \cup {Absent}]
  BY DEF IInv, TypeOK
<1>2. /\ UNCHANGED <<journal, staged, mode, loaded, touched>>
      /\ Fault \/ NoFault
  BY DEF Delete, Validate, Dispose
<1>3. CASE Validate(p, ok, otherwise)
  <2>1. fs' = fs /\ (Opens(p, ok) \/ (opened' = NoId /\ pc' = otherwise))
    BY <1>3 DEF Validate, Opens, Goto
  <2> QED BY <1>2, <2>1 DEF IInv, Life, Exists
<1>4. CASE Dispose(p, next, otherwise)
  <2>1. /\ opened' = NoId /\ opened # NoId
        /\ fs' = fs \/ (fs' = [fs EXCEPT ![p] = Absent] /\ fs'[p] = Absent /\ opened = fs[p].id)
        /\ pc' = otherwise \/ (pc' = next /\ (fs'[p] = Absent \/ opened \notin {NoId, fs[p].id}))
    BY <1>1, <1>4 DEF Dispose, Remove, Put, Goto
  <2>2. \A q \in Path : q # p => fs'[q] = fs[q]
    BY <1>1, <2>1
  <2>3. fs'["temporary"] = fs["temporary"] \/ fs'["temporary"] = Absent
    BY <2>1, <2>2 DEF Path
  <2>4. ~Copying => ~Exists("temporary")'
    BY <2>3 DEF Exists, IInv, Life
  <2> QED BY <1>2, <2>1, <2>2, <2>4 DEF IInv, Life
<1> QED BY <1>3, <1>4 DEF Delete

\* A file is opened for deletion: nothing else changes.
LEMMA OpensStep ==
  ASSUME IInv, NEW p \in Path, NEW ok, Opens(p, ok), pc \in DeletesAt[p],
         UNCHANGED <<journal, staged, mode, loaded, touched>>, Fault \/ NoFault
  PROVE  IInv'
<1>1. UNCHANGED <<fs, pc, journal, staged, mode, loaded, touched>> /\ opened' = fs[p].id
  BY DEF Opens
<1>2. \/ p = "source" /\ pc = "delete_source"
      \/ p = "target" /\ pc = "delete_target"
      \/ p = "temporary" /\ pc \in {"drop_staged", "unstage", "discard"}
  BY DEF DeletesAt, Path
<1>3. opened' \in Id \cup {NoId} /\ faults' \in 0..MaxFaults
  BY <1>1, Typed, Faults DEF IInv
<1>4. TypeOK'
  <2>1. TypeOK
    BY DEF IInv
  <2>2. pc' # "copying" /\ pc' \in Holding
    BY <1>1, <1>2 DEF Holding
  <2> QED BY <1>1, <1>3, <2>1, <2>2 DEF TypeOK
<1>5. Distinct' /\ Life' /\ Claims(pc)'
  BY <1>1 DEF IInv, Distinct, Life, Claims, Private, Matches, Open, Copying, Exists
<1>6. touched' = {} => Untouched' /\ QuietClaims(pc)'
  <2> SUFFICES ASSUME touched = {} PROVE Untouched' /\ QuietClaims(pc)'
    BY <1>1
  <2>1. Untouched /\ QuietClaims(pc)
    BY DEF IInv
  <2>2. Untouched'
    BY <1>1, <2>1 DEF Untouched, Copying, Exists
  <2>3. QuietClaims(pc)'
    BY <1>1, <1>2, <2>1 DEF QuietClaims, Matches, Exists
  <2> QED BY <2>2, <2>3
<1> QED BY <1>4, <1>5, <1>6 DEF IInv

\* The removals, one by one.
LEMMA DeleteSteps ==
  ASSUME IInv, DropStaged \/ Unstage \/ DeleteSource \/ Discard \/ DeleteTarget
  PROVE  IInv'
<1>1. Claims(pc) /\ (touched = {} => Untouched /\ QuietClaims(pc)) /\ TypeOK /\ Distinct
  BY DEF IInv
<1>2. "source" \in Path /\ "temporary" \in Path /\ "target" \in Path
  BY DEF Path
<1>3. ASSUME NEW p \in Path, NEW ok, NEW next \in Step \ {"prepare", "copying"},
             NEW otherwise \in Step \ {"prepare", "copying"},
             Delete(p, ok, next, otherwise), pc \in DeletesAt[p], ~Opens(p, ok),
             Claims(pc)', touched = {} => (Exists("source")' \/ Exists("target")') /\ QuietClaims(pc)'
      PROVE  IInv'
  <2>1. /\ UNCHANGED <<journal, staged, mode, loaded, touched>> /\ opened' = NoId
        /\ Fault \/ NoFault
        /\ fs' = fs \/ fs' = [fs EXCEPT ![p] = Absent]
        /\ pc' = otherwise \/ pc' = next
        /\ ~Copying => ~Exists("temporary")'
        /\ staged'.content = "other" => staged'.owner = "app"
    BY <1>3, Deleted
  <2>2. fs' \in [Path -> File \cup {Absent}] /\ Distinct'
    BY <1>1, <2>1, Removed
  <2>3. touched = {} => Untouched'
    BY <1>1, <1>3, <2>1, StillUntouched
  <2>4. pc' \in Step /\ pc' # "prepare" /\ pc' # "copying"
    BY <2>1
  <2>5. pc \notin {"idle", "prepare"}
    BY <1>3 DEF DeletesAt, Path
  <2> QED BY <1>1, <1>3, <2>1, <2>2, <2>3, <2>4, <2>5, FilesStep, Typed
<1>4. ASSUME NEW p \in Path, NEW ok, NEW next \in Step, NEW otherwise \in Step,
             Delete(p, ok, next, otherwise), pc \in DeletesAt[p], Opens(p, ok)
      PROVE  IInv'
  BY <1>4, Deleted, OpensStep
<1>5. CASE DropStaged
  <2>1. PICK ok : pc = "drop_staged" /\ Delete("temporary", ok, "fail", "fail")
    BY <1>5 DEF DropStaged, At
  <2>2. "fail" \in Step \ {"prepare", "copying"} /\ pc \in DeletesAt["temporary"]
    BY <2>1 DEF Step, DeletesAt
  <2> SUFFICES ASSUME ~Opens("temporary", ok) PROVE IInv'
    BY <1>2, <1>4, <2>1, <2>2
  <2>3. /\ fs'["source"] = fs["source"] /\ fs'["target"] = fs["target"] /\ pc' = "fail"
        /\ UNCHANGED <<mode, touched, staged>>
    BY <1>2, <2>1, <2>2, Deleted
  <2>4. Claims(pc)'
    BY <1>1, <2>1, <2>3 DEF Claims, CopySteps, RenameSteps
  <2>5. touched = {} => QuietClaims(pc)' /\ Exists("source")'
    BY <1>1, <2>1, <2>3, Marks DEF QuietClaims, EarlySteps, Exists, Claims
  <2> QED BY <1>2, <1>3, <2>1, <2>2, <2>4, <2>5
<1>6. CASE Unstage
  <2>1. PICK ok : pc = "unstage" /\ Delete("temporary", ok, "to_published", "park")
    BY <1>6 DEF Unstage, At
  <2>2. /\ "to_published" \in Step \ {"prepare", "copying"} /\ "park" \in Step \ {"prepare", "copying"}
        /\ pc \in DeletesAt["temporary"]
    BY <2>1 DEF Step, DeletesAt
  <2> SUFFICES ASSUME ~Opens("temporary", ok) PROVE IInv'
    BY <1>2, <1>4, <2>1, <2>2
  <2>3. /\ fs'["source"] = fs["source"] /\ fs'["target"] = fs["target"]
        /\ pc' \in {"to_published", "park"}
    BY <1>2, <2>1, <2>2, Deleted
  <2>4. Claims(pc)' /\ QuietClaims(pc)'
    BY <2>3 DEF Claims, QuietClaims, CopySteps, RenameSteps, EarlySteps
  <2>5. touched = {} => Exists("source")' \/ Exists("target")'
    BY <1>1, <2>3 DEF Untouched, Exists
  <2> QED BY <1>2, <1>3, <2>1, <2>2, <2>4, <2>5
<1>7. CASE DeleteSource
  <2>1. PICK ok : pc = "delete_source" /\ Delete("source", ok, "to_source_deleted", "park")
    BY <1>7 DEF DeleteSource, At
  <2>2. /\ "to_source_deleted" \in Step \ {"prepare", "copying"} /\ "park" \in Step \ {"prepare", "copying"}
        /\ pc \in DeletesAt["source"]
    BY <2>1 DEF Step, DeletesAt
  <2> SUFFICES ASSUME ~Opens("source", ok) PROVE IInv'
    BY <1>2, <1>4, <2>1, <2>2
  <2>3. /\ fs'["target"] = fs["target"]
        /\ \/ pc' = "park"
           \/ pc' = "to_source_deleted" /\ (fs'["source"] = Absent \/ opened \notin {NoId, fs["source"].id})
    BY <1>2, <2>1, <2>2, Deleted
  <2>4. Claims(pc)'
    BY <2>3 DEF Claims, CopySteps, RenameSteps
  <2>5. touched = {} => Matches("target", NoId) /\ opened \in {NoId, fs["source"].id}
    BY <1>1, <2>1 DEF Claims, QuietClaims
  <2>6. touched = {} => Matches("target", NoId)'
    BY <2>3, <2>5 DEF Matches, Exists
  <2>7. touched = {} => QuietClaims(pc)' /\ Exists("target")'
    BY <2>3, <2>5, <2>6 DEF QuietClaims, EarlySteps, Exists, Matches
  <2> QED BY <1>2, <1>3, <2>1, <2>2, <2>4, <2>7
<1>8. CASE Discard
  <2>1. PICK ok : pc = "discard" /\ Delete("temporary", ok, "to_failed", "park")
    BY <1>8 DEF Discard, At
  <2>2. /\ "to_failed" \in Step \ {"prepare", "copying"} /\ "park" \in Step \ {"prepare", "copying"}
        /\ pc \in DeletesAt["temporary"]
    BY <2>1 DEF Step, DeletesAt
  <2> SUFFICES ASSUME ~Opens("temporary", ok) PROVE IInv'
    BY <1>2, <1>4, <2>1, <2>2
  <2>3. /\ fs'["source"] = fs["source"] /\ fs'["target"] = fs["target"]
        /\ pc' \in {"to_failed", "park"}
    BY <1>2, <2>1, <2>2, Deleted
  <2>4. Claims(pc)'
    BY <2>3 DEF Claims, CopySteps, RenameSteps
  <2>5. touched = {} => fs["source"] = Scanned /\ fs["target"] = Absent
    BY <1>1, <2>1 DEF QuietClaims, Untouched, Exists
  <2>6. touched = {} => QuietClaims(pc)' /\ Exists("source")'
    BY <2>3, <2>5, Marks DEF QuietClaims, EarlySteps, Exists
  <2> QED BY <1>2, <1>3, <2>1, <2>2, <2>4, <2>6
<1>9. CASE DeleteTarget
  <2>1. PICK ok : pc = "delete_target" /\ Delete("target", ok, "to_failed", "park")
    BY <1>9 DEF DeleteTarget, At
  <2>2. /\ "to_failed" \in Step \ {"prepare", "copying"} /\ "park" \in Step \ {"prepare", "copying"}
        /\ pc \in DeletesAt["target"]
    BY <2>1 DEF Step, DeletesAt
  <2> SUFFICES ASSUME ~Opens("target", ok) PROVE IInv'
    BY <1>2, <1>4, <2>1, <2>2
  <2>3. /\ fs'["source"] = fs["source"]
        /\ \/ pc' = "park"
           \/ pc' = "to_failed" /\ (fs'["target"] = Absent \/ opened \notin {NoId, fs["target"].id})
    BY <1>2, <2>1, <2>2, Deleted
  <2>4. Claims(pc)'
    BY <2>3 DEF Claims, CopySteps, RenameSteps
  <2>5. touched = {} => fs["source"] = Scanned /\ opened \in {NoId, fs["target"].id}
    BY <1>1, <2>1 DEF Claims, Matches, Untouched, Exists, QuietClaims
  <2>6. touched = {} => QuietClaims(pc)' /\ Exists("source")'
    BY <2>3, <2>5, Marks DEF QuietClaims, EarlySteps, Exists
  <2> QED BY <1>2, <1>3, <2>1, <2>2, <2>4, <2>6
<1> QED BY <1>5, <1>6, <1>7, <1>8, <1>9

\* A copy is begun.
LEMMA StageCreateStep ==
  ASSUME IInv, StageCreate
  PROVE  IInv'
<1>1. Claims(pc) /\ (touched = {} => Untouched /\ QuietClaims(pc)) /\ TypeOK /\ Distinct /\ Life
  BY DEF IInv
<1>2. pc = "stage" /\ Copying /\ opened = NoId /\ UNCHANGED <<journal, mode, loaded, touched>>
  BY <1>1 DEF StageCreate, At, Claims, CopySteps, TypeOK, Holding
<1>3. CASE /\ UNCHANGED <<fs, staged, opened>> /\ pc' = StageError
           /\ Fault \/ NoFault
  <2>1. pc' \in {"idle", "fail"} /\ (pc' = "fail" => mode # "recovery")
    BY <1>3 DEF StageError
  <2>2. Claims(pc') /\ (touched = {} => QuietClaims(pc'))
    BY <1>1, <1>2, <2>1 DEF Claims, QuietClaims, CopySteps, RenameSteps, EarlySteps
  <2>3. pc' \in Step /\ pc' \notin {"copying", "prepare"}
    BY <2>1 DEF Step
  <2> QED BY <1>2, <1>3, <2>2, <2>3, GoStep DEF Holding
<1>4. CASE /\ Exists("source") /\ ~Exists("temporary")
           /\ staged' = [id |-> FreshId, content |-> fs["source"].content, owner |-> "app"]
           /\ opened' = fs["source"].id
           /\ fs' = [fs EXCEPT !["temporary"] = [staged' EXCEPT !.content = "part"]]
           /\ NoFault /\ pc' = "copying"
  <2>1. /\ FreshId \in Id /\ FreshId # NoId /\ fs["source"].id # FreshId /\ fs["target"].id # FreshId
    BY <1>1, Fresh DEF Path
  <2>2. /\ fs["source"] \in File /\ fs["source"].content \in Content /\ fs["source"].id \in Id
        /\ fs["source"].id # NoId
    BY <1>1, <1>4, Typed, Marks DEF Exists
  <2>3. PICK i \in Id : i = FreshId
    BY <2>1
  <2>4. PICK c \in Content : c = fs["source"].content
    BY <2>2
  <2>5. /\ staged' = [id |-> i, content |-> c, owner |-> "app"]
        /\ fs' = [fs EXCEPT !["temporary"] = [id |-> i, content |-> "part", owner |-> "app"]]
    <3>1. staged' = [id |-> i, content |-> c, owner |-> "app"]
      BY <1>4, <2>3, <2>4
    <3>2. [[id |-> i, content |-> c, owner |-> "app"] EXCEPT !.content = "part"]
             = [id |-> i, content |-> "part", owner |-> "app"]
      OBVIOUS
    <3> QED BY <1>4, <3>1, <3>2
  <2>6. /\ staged' \in File /\ staged'.id = i /\ staged'.content = c /\ staged'.owner = "app"
        /\ [id |-> i, content |-> "part", owner |-> "app"] \in File
    BY <2>5 DEF File, Content
  <2>7. fs \in [Path -> File \cup {Absent}]
    BY <1>1 DEF TypeOK
  <2>8. fs' \in [Path -> File \cup {Absent}]
    BY <2>5, <2>6, <2>7
  <2>9. /\ fs'["source"] = fs["source"] /\ fs'["target"] = fs["target"]
        /\ fs'["temporary"] = [id |-> i, content |-> "part", owner |-> "app"]
    BY <2>5, <2>7 DEF Path
  <2>10. Distinct'
    BY <1>1, <2>1, <2>3, <2>9 DEF Distinct, Exists
  <2>11. fs'["temporary"] = [staged EXCEPT !.content = "part"]'
    BY <2>5, <2>9
  <2>12. Claims(pc)'
    BY <1>2, <1>4, <2>1, <2>3, <2>6, <2>9, <2>11 DEF Claims, CopySteps, RenameSteps, Copying
  <2>13. touched = {} => Untouched'
    BY <1>1, <1>2, <2>9, Marks DEF Untouched, Exists, Copying
  <2>14. touched = {} => c = "orig"
    BY <1>1, <1>4, <2>4, Marks DEF Untouched, Exists
  <2>15. touched = {} => QuietClaims(pc)'
    <3>1. mode # "recovery" /\ touched = {} => fs["source"] = Scanned /\ ~Exists("target")
      BY <1>1, <1>2 DEF QuietClaims, EarlySteps
    <3> QED BY <1>2, <1>4, <2>6, <2>9, <2>14, <3>1 DEF QuietClaims, Exists
  <2>16. Fault \/ NoFault
    BY <1>4
  <2>17. "copying" \in Step
    BY DEF Step
  <2> QED BY <1>2, <1>4, <2>2, <2>6, <2>8, <2>10, <2>12, <2>13, <2>15, <2>16, <2>17, FilesStep
<1> QED BY <1>3, <1>4 DEF StageCreate, Put, Goto

\* A copy ends.
LEMMA StageFinishStep ==
  ASSUME IInv, StageFinish
  PROVE  IInv'
<1>1. Claims(pc) /\ (touched = {} => Untouched /\ QuietClaims(pc)) /\ TypeOK /\ Distinct /\ Life
  BY DEF IInv
<1>2. pc = "copying" /\ opened' = NoId /\ UNCHANGED <<journal, staged, mode, loaded, touched>>
  BY DEF StageFinish, At
<1>3. /\ Copying /\ staged.owner = "app" /\ staged.id \in Id
      /\ staged.id # fs["source"].id /\ staged.id # fs["target"].id
      /\ fs["temporary"] = Absent \/ fs["temporary"] = [staged EXCEPT !.content = "part"]
  BY <1>1, <1>2 DEF Claims, CopySteps
<1>4. staged \in File /\ fs \in [Path -> File \cup {Absent}]
  BY <1>1, <1>3, Marks DEF TypeOK
<1>5. /\ Fault \/ NoFault
      /\ \/ /\ pc' = "to_staged"
            /\ fs' = [fs EXCEPT !["temporary"] = Absent] \/ fs' = [fs EXCEPT !["temporary"] = staged]
         \/ /\ pc' = StageError
            /\ fs' = fs \/ fs' = [fs EXCEPT !["temporary"] = Absent]
  BY DEF StageFinish, Remove, Put, Goto
<1>6. /\ fs'["source"] = fs["source"] /\ fs'["target"] = fs["target"]
      /\ fs' \in [Path -> File \cup {Absent}]
      /\ pc' = "to_staged" => fs'["temporary"] \in {Absent, staged}
      /\ fs'["temporary"] \in {Absent, staged, fs["temporary"]}
  BY <1>4, <1>5 DEF Path, StageError
<1>7. Distinct'
  <2>1. fs'["source"] # Absent => fs["source"].id # NoId
    BY <1>1, <1>6, Typed, Marks
  <2> QED BY <1>1, <1>3, <1>6, <2>1, Marks DEF Distinct, Exists
<1>8. pc' \in {"to_staged", "idle", "fail"} /\ (pc' = "fail" => mode # "recovery")
  BY <1>5 DEF StageError
<1>9. pc' = "to_staged" => Private'
  BY <1>3, <1>6, Marks DEF Private, Exists
<1>10. Claims(pc)'
  BY <1>2, <1>3, <1>8, <1>9 DEF Claims, CopySteps, RenameSteps, Copying
<1>11. touched = {} => Untouched'
  <2>1. touched = {} => staged.content = "orig" /\ fs["temporary"].content # "other"
    BY <1>1, <1>2 DEF QuietClaims, Untouched
  <2>2. touched = {} => fs'["temporary"].content # "other"
    BY <1>6, <2>1, Marks
  <2> QED BY <1>1, <1>2, <1>3, <1>6, <2>2 DEF Untouched, Exists, Copying
<1>12. touched = {} => QuietClaims(pc)'
  <2>1. mode # "recovery" /\ touched = {} => fs["source"] = Scanned /\ ~Exists("target")
    BY <1>1, <1>2 DEF QuietClaims, EarlySteps
  <2>2. touched = {} /\ pc' = "to_staged" => fs'["temporary"].content # "part"
    BY <1>1, <1>2, <1>6, Marks DEF QuietClaims
  <2> QED BY <1>2, <1>6, <1>8, <2>1, <2>2 DEF QuietClaims, Exists
<1>13. pc' \in Step /\ pc' # "copying" /\ pc' # "prepare"
  BY <1>8 DEF Step
<1>14. (~Copying => ~Exists("temporary")') /\ (staged'.content = "other" => staged'.owner = "app")
  BY <1>1, <1>2, <1>3 DEF Life
<1> QED BY <1>1, <1>2, <1>4, <1>5, <1>6, <1>7, <1>10, <1>11, <1>12, <1>13, <1>14, FilesStep

\* The copy is linked to the target.
LEMMA PublishStep ==
  ASSUME IInv, Publish
  PROVE  IInv'
<1>1. Claims(pc) /\ (touched = {} => Untouched /\ QuietClaims(pc)) /\ TypeOK /\ Distinct /\ Life
  BY DEF IInv
<1>2. /\ pc = "publish" /\ Copying /\ opened = NoId
      /\ UNCHANGED <<journal, staged, mode, loaded, opened, touched>>
      /\ Fault \/ NoFault
  BY <1>1 DEF Publish, At, Keep, Claims, CopySteps, TypeOK, Holding
<1>3. CASE UNCHANGED fs /\ pc' = PublishError
  <2>1. mode \in {"apply", "rollback", "recovery"}
    BY <1>1 DEF TypeOK, MutationDirection
  <2>2. /\ pc' \in {"drop_staged", "fail", "park"}
        /\ pc' \in {"drop_staged", "fail"} => mode # "recovery"
    BY <1>3, <2>1 DEF PublishError
  <2>3. Claims(pc') /\ (touched = {} => QuietClaims(pc'))
    BY <1>1, <1>2, <2>2 DEF Claims, QuietClaims, CopySteps, RenameSteps, EarlySteps
  <2>4. pc' \in Step /\ pc' \notin {"copying", "prepare"}
    BY <2>2 DEF Step
  <2> QED BY <1>2, <1>3, <2>3, <2>4, GoStep DEF Holding
<1>4. CASE /\ Exists("temporary") /\ ~Exists("target")
           /\ fs' = [fs EXCEPT !["target"] = fs["temporary"]] /\ pc' = "unstage"
  <2>1. fs \in [Path -> File \cup {Absent}] /\ fs["temporary"] \in File \cup {Absent}
    BY <1>1, Typed
  <2>2. fs' \in [Path -> File \cup {Absent}]
    BY <1>4, <2>1
  <2>3. /\ fs'["source"] = fs["source"] /\ fs'["temporary"] = fs["temporary"]
        /\ fs'["target"] = fs["temporary"]
    BY <1>4, <2>1 DEF Path
  <2>4. Distinct'
    BY <1>1, <2>3 DEF Distinct, Exists
  <2>5. Claims(pc)'
    BY <1>2, <1>4 DEF Claims, CopySteps, RenameSteps, Copying
  <2>6. touched = {} => fs["temporary"].content = "orig"
    BY <1>1, <1>2, <1>4, <2>1, Marks DEF QuietClaims, Untouched, Exists, Content
  <2>7. journal.state \notin {"completed", "failed"}
    BY <1>1, <1>2 DEF Life, Open, OpenState, TerminalState
  <2>8. touched = {} => Untouched'
    BY <1>1, <1>2, <1>4, <2>3, <2>6, <2>7 DEF Untouched, Exists, Copying
  <2>9. QuietClaims(pc)'
    BY <1>2, <1>4 DEF QuietClaims, EarlySteps
  <2>10. "unstage" \in Step
    BY DEF Step
  <2> QED BY <1>1, <1>2, <1>4, <2>2, <2>4, <2>5, <2>8, <2>9, <2>10, FilesStep, Typed DEF Life
<1> QED BY <1>3, <1>4 DEF Publish, Put, Goto

\* The renames, there and back.
LEMMA AtomicMoveStep ==
  ASSUME IInv, Rename \/ MoveBack
  PROVE  IInv'
<1>1. Claims(pc) /\ (touched = {} => Untouched /\ QuietClaims(pc)) /\ TypeOK /\ Distinct /\ Life
  BY DEF IInv
<1>2. PICK from \in {"source", "target"}, to \in {"source", "target"},
           next \in {"verify_moved", "to_published", "verify_back"}, notMoved \in {"park", "fail"} :
        /\ from # to /\ pc \in {"rename", "move_back"}
        /\ AtomicMove(from, to, next, notMoved)
        /\ notMoved = "fail" => mode # "recovery" /\ pc = "rename"
  <2>1. CASE Rename
    <3>1. /\ pc = "rename"
          /\ AtomicMove("source", "target",
                        IF journal.state \in {"published", "source_deleted"}
                        THEN "verify_moved" ELSE "to_published",
                        IF mode = "recovery" THEN "park" ELSE "fail")
      BY <2>1 DEF Rename, At
    <3> QED BY <3>1
  <2>2. CASE MoveBack
    <3>1. pc = "move_back" /\ AtomicMove("target", "source", "verify_back", "park")
      BY <2>2 DEF MoveBack, At
    <3> QED BY <3>1
  <2> QED BY <2>1, <2>2
<1>3. /\ ~Copying /\ ~Exists("temporary") /\ opened = NoId
      /\ UNCHANGED <<journal, staged, mode, loaded, opened, touched>>
      /\ Fault \/ NoFault
  BY <1>1, <1>2 DEF AtomicMove, Keep, Claims, RenameSteps, Life, TypeOK, Holding
<1>4. CASE UNCHANGED fs /\ pc' = notMoved
  <2>1. Claims(pc') /\ (touched = {} => QuietClaims(pc'))
    BY <1>1, <1>2, <1>4 DEF Claims, QuietClaims, CopySteps, RenameSteps, EarlySteps
  <2>2. pc' \in Step /\ pc' \notin {"copying", "prepare"} /\ pc \notin Holding \cup {"idle", "prepare"}
    BY <1>2, <1>4 DEF Step, Holding
  <2> QED BY <1>3, <1>4, <2>1, <2>2, GoStep
<1>5. CASE /\ Matches(from, Original) /\ ~Exists(to)
           /\ fs' = [fs EXCEPT ![to] = fs[from], ![from] = Absent]
           /\ pc' \in {next, "park"}
  <2>1. fs \in [Path -> File \cup {Absent}] /\ from \in Path /\ to \in Path
    BY <1>1, <1>2, Typed DEF Path
  <2>2. fs[from] \in File \cup {Absent}
    BY <2>1
  <2>3. fs' \in [Path -> File \cup {Absent}]
    BY <1>5, <2>1, <2>2
  <2>4. fs'[to] = fs[from] /\ fs'[from] = Absent /\ fs'["temporary"] = fs["temporary"]
    BY <1>2, <1>5, <2>1 DEF Path
  <2>5. fs[from].id = Original /\ fs[from].content = "orig" /\ fs[from] # Absent /\ fs["temporary"] = Absent
    BY <1>3, <1>5, Marks DEF Matches, Exists
  <2>6. Distinct'
    BY <1>2, <2>4, <2>5, Marks DEF Distinct, Exists
  <2>7. Claims(pc)' /\ QuietClaims(pc)'
    BY <1>2, <1>3, <1>5, Marks DEF Claims, QuietClaims, CopySteps, RenameSteps, EarlySteps, Copying
  <2>8. journal.state \notin {"completed", "failed"}
    BY <1>1, <1>2 DEF Life, Open, OpenState, TerminalState
  <2>9. touched = {} => Untouched'
    <3>1. touched = {} => fs[from] = Scanned
      BY <1>1, <1>2, <1>3, <2>5 DEF Untouched
    <3> QED BY <1>2, <1>3, <2>4, <2>5, <2>8, <3>1, Marks DEF Untouched, Exists, Copying
  <2>10. pc' \in Step /\ pc' # "copying" /\ pc' # "prepare" /\ pc \notin {"idle", "prepare"}
    BY <1>2, <1>5 DEF Step
  <2>11. ~Exists("temporary")'
    BY <2>4, <2>5 DEF Exists
  <2> QED BY <1>1, <1>3, <2>3, <2>6, <2>7, <2>9, <2>10, <2>11, FilesStep, Typed DEF Life
<1> QED BY <1>2, <1>4, <1>5 DEF AtomicMove, Goto

----------------------------------------------------------------------------
(***************************************************************************)
(* Recovery, crashes and the user.                                         *)
(***************************************************************************)
\* A recovery begins.
LEMMA RecoverStep ==
  ASSUME IInv, NEW action \in RecoveryAction, Recover(action)
  PROVE  IInv'
<1>1. TypeOK /\ Life /\ (touched = {} => Untouched)
  BY DEF IInv
<1>2. /\ pc = "idle" /\ Open /\ RecoveryPreflight(action) /\ mode' = "recovery"
      /\ loaded' = journal.staged /\ staged' = Absent /\ pc' = FirstStep[action]
      /\ UNCHANGED <<fs, journal, opened, faults, touched>>
  BY DEF Recover, At, Goto
<1>3. \/ pc' = "resume"
      \/ pc' = "discard" /\ Copying /\ ~Exists("target")
      \/ pc' = "withdraw" /\ Copying
      \/ pc' = "turn_back" /\ ~Copying
  <2>1. CASE Copying
    <3>1. CopyPreflight(action)
      BY <1>2, <2>1 DEF RecoveryPreflight
    <3>2. action # "manual_intervention"
      BY <3>1 DEF CopyPreflight
    <3>3. action = "discard_unpublished_temp" => ~Exists("target")
      BY <3>1 DEF CopyPreflight
    <3> QED BY <1>2, <2>1, <3>2, <3>3 DEF FirstStep, RecoveryAction
  <2>2. CASE ~Copying
    <3>1. action \in {"resume", "rollback_published"}
      BY <1>2, <2>2 DEF RecoveryPreflight, AtomicPreflight
    <3> QED BY <1>2, <2>2, <3>1 DEF FirstStep
  <2> QED BY <2>1, <2>2
<1>4. pc' \in Step \ {"idle", "prepare", "copying"}
  BY <1>3 DEF Step
<1>10. opened = NoId
  BY <1>1, <1>2 DEF TypeOK, Holding
<1>5. TypeOK'
  BY <1>1, <1>2, <1>4, <1>10 DEF TypeOK, MutationDirection
<1>6. Life'
  <2>1. journal.state # "none"
    BY <1>2 DEF Open, OpenState, JournalState
  <2> QED BY <1>1, <1>2, <1>4, <2>1, Marks DEF Life, Open, Copying, Exists
<1>7. Claims(pc)'
  BY <1>2, <1>3 DEF Claims, CopySteps, RenameSteps, Copying
<1>8. touched = {} => QuietClaims(pc)'
  BY <1>2, <1>3, <1>10 DEF QuietClaims, EarlySteps, Exists
<1>9. touched' = {} => Untouched'
  BY <1>1, <1>2 DEF Untouched, Exists, Copying
<1> QED BY <1>2, <1>5, <1>6, <1>7, <1>8, <1>9 DEF IInv, Distinct, Exists

\* A recovery takes a copy or a file over.
LEMMA ResumeSteps ==
  ASSUME IInv, ResumeUnpublished \/ ResumeAtomic
  PROVE  IInv'
<1>1. Claims(pc) /\ TypeOK /\ Life /\ (touched = {} => Untouched)
  BY DEF IInv
<1>2. /\ pc = "resume" /\ staged = Absent /\ mode = "recovery" /\ opened = NoId
      /\ UNCHANGED <<fs, journal, faults, mode, loaded, opened, touched>>
  BY <1>1 DEF ResumeUnpublished, ResumeAtomic, At, Keep, Claims, TypeOK, Holding
<1>3. /\ staged' = Absent \/ (staged' \in File /\ staged'.content = "orig")
      /\ pc' \in Step \ {"prepare", "copying"} /\ Claims(pc)'
      /\ touched = {} => QuietClaims(pc)'
  <2>1. CASE ResumeUnpublished
    <3>1. Copying /\ Copying'
      BY <1>2, <2>1 DEF ResumeUnpublished, Copying
    <3>2. \/ /\ staged' = fs["temporary"] /\ Exists("temporary") /\ fs["temporary"].content = "orig"
             /\ pc' \in {"to_staged", "to_verified", "publish", "idle"}
          \/ staged' = Absent /\ pc' \in {"to_staging", "stage", "idle"}
      <4>1. CASE Exists("temporary") /\ Matches("temporary", loaded)
        BY <2>1, <4>1 DEF ResumeUnpublished, Goto, Matches
      <4>2. CASE Exists("temporary") /\ ~Matches("temporary", loaded)
        BY <1>2, <2>1, <4>2 DEF ResumeUnpublished, Goto
      <4>3. CASE ~Exists("temporary")
        BY <1>2, <2>1, <4>3 DEF ResumeUnpublished, Goto
      <4> QED BY <4>1, <4>2, <4>3
    <3>3. Claims(pc)'
      BY <1>2, <3>1, <3>2 DEF Claims, CopySteps, RenameSteps
    <3>4. QuietClaims(pc)'
      BY <1>2, <3>2 DEF QuietClaims, EarlySteps
    <3>5. pc' \in Step \ {"prepare", "copying"}
      BY <3>2 DEF Step
    <3>6. staged' = Absent \/ (staged' \in File /\ staged'.content = "orig")
      BY <1>1, <3>2, Typed DEF Exists
    <3> QED BY <3>3, <3>4, <3>5, <3>6
  <2>2. CASE ResumeAtomic
    <3>1. ~Copying /\ ~Copying' /\ ~Exists("temporary")
      BY <1>1, <1>2, <2>2 DEF ResumeAtomic, Copying, Life
    <3>2. \/ /\ staged' = fs["source"] /\ Exists("source") /\ fs["source"].content = "orig"
             /\ pc' \in {"to_verified", "rename"}
          \/ staged' = Absent /\ pc' \in {"to_verified", "verify_moved", "to_published", "idle"}
      BY <1>2, <2>2 DEF ResumeAtomic, Goto, OnlyAt, Matches
    <3>3. Claims(pc)'
      BY <1>2, <3>1, <3>2 DEF Claims, CopySteps, RenameSteps
    <3>4. QuietClaims(pc)'
      BY <1>2, <3>1, <3>2, Marks DEF QuietClaims, EarlySteps, Exists
    <3>5. pc' \in Step \ {"prepare", "copying"}
      BY <3>2 DEF Step
    <3>6. staged' = Absent \/ (staged' \in File /\ staged'.content = "orig")
      BY <1>1, <3>2, Typed DEF Exists
    <3> QED BY <3>3, <3>4, <3>5, <3>6
  <2> QED BY <2>1, <2>2
<1>4. Life'
  <2>1. Open /\ journal.state # "none"
    BY <1>1, <1>2 DEF Life, Open, OpenState, JournalState
  <2> QED BY <1>1, <1>2, <1>3, <2>1, Marks DEF Life, Open, Copying, Exists
<1>5. /\ faults' \in 0..MaxFaults
      /\ journal' \in [strategy: Strategy, state: JournalState \cup {"none"}, staged: Id \cup {NoId}]
      /\ loaded' \in Id \cup {NoId} /\ opened' = NoId
      /\ staged' \in File \cup {Absent}
  BY <1>1, <1>2, <1>3 DEF TypeOK, Holding
<1>6. touched = {} => (journal'.state = "completed" => ~Exists("source"))
                        /\ (journal'.state = "failed" => ~Exists("target"))
  BY <1>1, <1>2 DEF Untouched
<1> QED BY <1>2, <1>3, <1>4, <1>5, <1>6, QuietStep

\* The process is gone; the entry and the files stay.
LEMMA CrashStep ==
  ASSUME IInv, Crash
  PROVE  IInv'
<1>1. /\ pc' = "idle" /\ staged' = Absent /\ loaded' = NoId /\ opened' = NoId
      /\ UNCHANGED <<fs, journal, mode, touched>>
      /\ Fault \/ NoFault
  BY DEF Crash, Goto
<1>2. faults' \in 0..MaxFaults
  BY <1>1, Faults DEF IInv
<1>3. Claims(pc)' /\ QuietClaims(pc)'
  BY <1>1 DEF Claims, QuietClaims, CopySteps, RenameSteps, EarlySteps
<1>4. Life'
  BY <1>1, Marks DEF IInv, Life, Copying, Exists
<1>5. /\ journal' \in [strategy: Strategy, state: JournalState \cup {"none"}, staged: Id \cup {NoId}]
      /\ touched = {} => (journal'.state = "completed" => ~Exists("source"))
                           /\ (journal'.state = "failed" => ~Exists("target"))
  BY <1>1 DEF IInv, TypeOK, Untouched
<1>6. pc' \in Step /\ opened' = NoId /\ pc' # "copying"
  BY <1>1 DEF Step
<1> QED BY <1>1, <1>2, <1>3, <1>4, <1>5, <1>6, QuietStep

\* What the user can do to the files: one of them goes, is edited under each of
\* its names, or is replaced by a file of an identity of its own.
LEMMA Interfered ==
  ASSUME IInv, Interfere
  PROVE  \E p \in Path :
           /\ touched' = touched \cup {p}
           /\ UNCHANGED <<journal, pc, mode, loaded, staged, opened, faults>>
           /\ fs' \in [Path -> File \cup {Absent}]
           /\ \/ fs' = [fs EXCEPT ![p] = Absent]
              \/ /\ p # "temporary" /\ Exists(p)
                 /\ \A q \in Path : /\ fs'[q].id = fs[q].id
                                    /\ fs[q].id # fs[p].id => fs'[q] = fs[q]
                                    /\ Exists(q)' <=> Exists(q)
              \/ /\ p # "temporary"
                 /\ \A q \in Path : q # p => fs'[q] = fs[q]
                 /\ fs'[p].id = FreshId
<1>1. TypeOK
  BY DEF IInv
<1>2. PICK p \in Path :
        /\ touched' = touched \cup {p}
        /\ \/ Exists(p) /\ Remove(p)
           \/ p # "temporary" /\ Exists(p) /\ fs' = Edited(fs[p].id)
           \/ /\ p # "temporary"
              /\ \E c \in {"orig", "other"} :
                   Put(p, [id |-> FreshId, content |-> c, owner |-> "user"])
  BY DEF Interfere
<1>3. UNCHANGED <<journal, pc, mode, loaded, staged, opened, faults>>
  BY DEF Interfere, worker
<1>4. fs \in [Path -> File \cup {Absent}]
  BY <1>1 DEF TypeOK
<1>5. CASE Exists(p) /\ Remove(p)
  <2>1. fs' = [fs EXCEPT ![p] = Absent]
    BY <1>5 DEF Remove, Put
  <2>2. fs' \in [Path -> File \cup {Absent}]
    BY <1>4, <2>1
  <2> QED BY <1>2, <1>3, <2>1, <2>2
<1>6. CASE p # "temporary" /\ Exists(p) /\ fs' = Edited(fs[p].id)
  <2>1. PICK i \in Id : i = fs[p].id
    BY <1>1, <1>6, Marks, Typed DEF Exists
  <2>2. PICK edited \in File : edited = [id |-> i, content |-> "other", owner |-> "user"]
    BY DEF File, Content
  <2>3. edited.id = i /\ edited # Absent
    BY <2>2, Marks
  <2>4. fs' = [q \in Path |-> IF fs[q].id = i THEN edited ELSE fs[q]]
    BY <1>6, <2>1, <2>2 DEF Edited
  <2>5. fs' \in [Path -> File \cup {Absent}]
    BY <1>4, <2>4
  <2>6. \A q \in Path : fs[q].id = i => fs[q] # Absent
    BY <2>1, Marks
  <2>7. \A q \in Path : /\ fs'[q].id = fs[q].id
                        /\ fs[q].id # i => fs'[q] = fs[q]
                        /\ fs'[q] # Absent <=> fs[q] # Absent
    BY <2>3, <2>4, <2>6
  <2>8. \A q \in Path : /\ fs'[q].id = fs[q].id
                        /\ fs[q].id # fs[p].id => fs'[q] = fs[q]
                        /\ Exists(q)' <=> Exists(q)
    BY <2>1, <2>7 DEF Exists
  <2> QED BY <1>2, <1>3, <1>6, <2>5, <2>8
<1>7. ASSUME p # "temporary",
             NEW c \in {"orig", "other"}, Put(p, [id |-> FreshId, content |-> c, owner |-> "user"])
      PROVE  /\ fs' \in [Path -> File \cup {Absent}]
             /\ \A q \in Path : q # p => fs'[q] = fs[q]
             /\ fs'[p].id = FreshId
  <2>1. PICK i \in Id : i = FreshId
    BY <1>1, Fresh
  <2>2. PICK new \in File : new = [id |-> i, content |-> c, owner |-> "user"]
    BY DEF File, Content
  <2>3. fs' = [fs EXCEPT ![p] = new] /\ new.id = FreshId
    BY <1>7, <2>1, <2>2 DEF Put
  <2> QED BY <1>4, <2>3
<1> QED BY <1>2, <1>3, <1>5, <1>6, <1>7

\* The user's changes leave the worker what it relies on.
LEMMA InterfereStep ==
  ASSUME IInv, Interfere
  PROVE  IInv'
<1>1. Claims(pc) /\ TypeOK /\ Distinct /\ Life
  BY DEF IInv
<1>2. PICK p \in Path :
        /\ touched' = touched \cup {p}
        /\ UNCHANGED <<journal, pc, mode, loaded, staged, opened, faults>>
        /\ fs' \in [Path -> File \cup {Absent}]
        /\ \/ fs' = [fs EXCEPT ![p] = Absent]
           \/ /\ p # "temporary" /\ Exists(p)
              /\ \A q \in Path : /\ fs'[q].id = fs[q].id
                                 /\ fs[q].id # fs[p].id => fs'[q] = fs[q]
                                 /\ Exists(q)' <=> Exists(q)
           \/ /\ p # "temporary"
              /\ \A q \in Path : q # p => fs'[q] = fs[q]
              /\ fs'[p].id = FreshId
  BY Interfered
<1>3. TypeOK'
  BY <1>1, <1>2 DEF TypeOK
<1>4. /\ fs["source"].id # FreshId /\ fs["temporary"].id # FreshId /\ fs["target"].id # FreshId
      /\ staged.id # FreshId /\ FreshId # NoId
  BY <1>1, Fresh DEF Path
<1>5. fs["temporary"].id # fs["source"].id \/ ~Exists("source")
  BY <1>1 DEF Distinct
<1>6. \A q \in Path : Exists(q) => fs[q].id # NoId
  BY <1>1, Typed, Marks DEF Exists
<1>7. /\ fs'["source"].id \in {fs["source"].id, NoId, FreshId}
      /\ fs'["target"].id \in {fs["target"].id, NoId, FreshId}
      /\ fs'["temporary"].id \in {fs["temporary"].id, NoId}
  <2>1. fs \in [Path -> File \cup {Absent}] /\ Absent.id = NoId
    BY <1>1, Marks DEF TypeOK
  <2> QED BY <1>2, <2>1 DEF Path
<1>8. ~Exists("temporary") => ~Exists("temporary")'
  <2>1. fs \in [Path -> File \cup {Absent}]
    BY <1>1 DEF TypeOK
  <2> QED BY <1>2, <2>1 DEF Path, Exists
<1>9. Life'
  BY <1>1, <1>2, <1>8 DEF Life, Open, Copying
<1>10. Distinct'
  <2>1. CASE fs' = [fs EXCEPT ![p] = Absent]
    BY <1>1, <2>1, Removed
  <2>2. CASE \A q \in Path : fs'[q].id = fs[q].id /\ (Exists(q)' <=> Exists(q))
    BY <1>1, <2>2 DEF Distinct, Path
  <2>3. CASE /\ p # "temporary"
             /\ \A q \in Path : q # p => fs'[q] = fs[q]
             /\ fs'[p].id = FreshId
    <3>1. CASE p = "source"
      BY <1>4, <2>3, <3>1 DEF Distinct, Path
    <3>2. CASE p = "target"
      BY <1>1, <1>4, <2>3, <3>2 DEF Distinct, Exists, Path
    <3> QED BY <2>3, <3>1, <3>2 DEF Path
  <2> QED BY <1>2, <2>1, <2>2, <2>3
\* The temporary copy is nobody else's.
<1>11. ASSUME Exists("temporary") => fs["temporary"].id # fs["target"].id
       PROVE  fs'["temporary"] = fs["temporary"] \/ fs'["temporary"] = Absent
  <2>1. fs \in [Path -> File \cup {Absent}]
    BY <1>1 DEF TypeOK
  <2>2. CASE fs' = [fs EXCEPT ![p] = Absent]
    BY <2>1, <2>2 DEF Path
  <2>3. CASE /\ p # "temporary" /\ Exists(p)
             /\ \A q \in Path : fs[q].id # fs[p].id => fs'[q] = fs[q]
             /\ Exists("temporary")' <=> Exists("temporary")
    <3>1. p = "source" \/ p = "target"
      BY <2>3 DEF Path
    <3>2. Exists("temporary") => fs["temporary"].id # fs[p].id
      BY <1>1, <1>11, <2>3, <3>1 DEF Distinct
    <3> QED BY <2>3, <3>2 DEF Exists, Path
  <2>4. CASE p # "temporary" /\ \A q \in Path : q # p => fs'[q] = fs[q]
    BY <2>4 DEF Path
  <2> QED BY <1>2, <2>2, <2>3, <2>4 DEF Path
<1>12. ASSUME NEW q \in {"source", "target"}, Matches(q, NoId) \/ q \in touched
       PROVE  (Matches(q, NoId) \/ q \in touched)'
  <2>1. CASE p = q
    BY <1>2, <2>1
  <2>2. CASE p # q /\ q \in touched
    BY <1>2, <2>2
  <2>3. CASE p # q /\ Matches(q, NoId)
    <3>1. fs \in [Path -> File \cup {Absent}] /\ q \in Path
      BY <1>1 DEF TypeOK, Path
    <3>2. Exists(p) /\ p # "temporary" => fs[q].id # fs[p].id
      <4>1. p \in {"source", "temporary", "target"}
        BY DEF Path
      <4> QED BY <1>1, <2>3, <4>1 DEF Distinct, Matches
    <3>3. fs'[q] = fs[q]
      BY <1>2, <2>3, <3>1, <3>2
    <3> QED BY <2>3, <3>3 DEF Matches, Exists
  <2> QED BY <1>12, <2>1, <2>2, <2>3
<1>13. Private => Private'
  BY <1>4, <1>6, <1>7, <1>11, Marks DEF Private, Exists, Path
<1>14. ASSUME pc = "copying"
       PROVE  /\ staged.id # fs'["source"].id /\ staged.id # fs'["target"].id
              /\ fs'["temporary"] = Absent \/ fs'["temporary"] = [staged EXCEPT !.content = "part"]
  <2>1. /\ staged.id \in Id
        /\ staged.id # fs["source"].id /\ staged.id # fs["target"].id
        /\ fs["temporary"] = Absent \/ fs["temporary"] = [staged EXCEPT !.content = "part"]
    BY <1>1, <1>14 DEF Claims
  <2>2. staged.id # fs'["source"].id /\ staged.id # fs'["target"].id
    BY <1>4, <1>7, <2>1, Marks
  <2>3. Exists("temporary") => fs["temporary"].id = staged.id
    BY <1>1, <2>1, Typed, Marks DEF Exists, File
  <2>4. fs'["temporary"] = fs["temporary"] \/ fs'["temporary"] = Absent
    BY <1>11, <2>1, <2>3
  <2> QED BY <2>1, <2>2, <2>4
<1>15. Claims(pc)'
  BY <1>1, <1>2, <1>12, <1>13, <1>14 DEF Claims, Copying
<1>16. touched' # {}
  BY <1>2
<1> QED BY <1>3, <1>9, <1>10, <1>15, <1>16 DEF IInv

\* Every step keeps the invariant.
LEMMA Inductive == IInv /\ [Next]_vars => IInv'
<1> SUFFICES ASSUME IInv, [Next]_vars PROVE IInv'
  OBVIOUS
<1>1. CASE WorkerStep
  BY <1>1, BeginStep, RecordSteps, ParkStep, LookSteps, DeleteSteps, StageCreateStep, StageFinishStep,
     PublishStep, AtomicMoveStep, ResumeSteps
     DEF WorkerStep
<1>2. CASE \E action \in RecoveryAction : Recover(action)
  BY <1>2, RecoverStep
<1>3. CASE Crash
  BY <1>3, CrashStep
<1>4. CASE Interfere
  BY <1>4, InterfereStep
<1>5. CASE UNCHANGED vars
  <2>1. UNCHANGED <<fs, journal, pc, mode, loaded, staged, opened, faults, touched>>
    BY <1>5 DEF vars, worker
  <2>2. TypeOK' /\ Distinct' /\ Life'
    BY <2>1 DEF IInv, TypeOK, Distinct, Life, Open, Copying, Exists
  <2>3. Claims(pc)' /\ (touched' = {} => Untouched' /\ QuietClaims(pc)')
    BY <2>1 DEF IInv, Claims, Private, QuietClaims, Untouched, Matches, Copying, Exists
  <2> QED BY <2>2, <2>3 DEF IInv
<1> QED BY <1>1, <1>2, <1>3, <1>4, <1>5 DEF Next

----------------------------------------------------------------------------
\* The invariant holds throughout every behaviour.
THEOREM Invariance == Spec => []IInv
BY InitIInv, Inductive, PTL DEF Spec

\* Every variable has its type: every file has an identity, the worker holds a file
\* open only while it copies or deletes (stage_copy_exclusive, delete_file_if_matches).
THEOREM TypeCorrect == Spec => []TypeOK
<1>1. IInv => TypeOK
  BY DEF IInv
<1> QED BY <1>1, Invariance, PTL

----------------------------------------------------------------------------
(***************************************************************************)
(* What a step of the worker does to the files and to the entry.           *)
(***************************************************************************)
\* Steps that look at the files or write to the journal.
Looks ==
  \/ Preflight \/ Prepare \/ RecordStaging \/ RecordStaged \/ CompareStaged \/ RecordVerified
  \/ RecordPublished \/ VerifyTarget \/ VerifySource \/ RecordSourceDeleted \/ RecordCompleted
  \/ CloseFailed \/ Park \/ VerifyMoved \/ ResumeUnpublished \/ ResumePublished \/ ResumeAtomic
  \/ Withdraw \/ TurnBack \/ VerifyBack \/ RecordFailed
  \/ (\E action \in RecoveryAction : Recover(action)) \/ Crash
\* Steps that change a file.
Files ==
  \/ StageCreate \/ StageFinish \/ DropStaged \/ Publish \/ Unstage \/ DeleteSource
  \/ Rename \/ Discard \/ DeleteTarget \/ MoveBack

\* There are no others but the user's.
LEMMA StepKinds == [Next]_vars => Looks \/ Files \/ Interfere \/ UNCHANGED vars
BY DEF Next, WorkerStep, Looks, Files

\* A write to the journal leaves the files alone and starts from an open entry.
LEMMA Recorded ==
  ASSUME TypeOK, NEW to \in JournalState, NEW evidence, NEW next, NEW onError,
         Record(to, evidence, next, onError)
  PROVE  /\ UNCHANGED <<fs, touched>>
         /\ journal' = journal \/ (Open /\ journal'.state \in JournalState)
BY DEF Record, Keep, TransitionAllowed, Open, TypeOK

\* A step that changes no file moves an entry on, if it is a new or an open one.
LEMMA Looked ==
  ASSUME IInv, Looks
  PROVE  /\ UNCHANGED <<fs, touched>>
         /\ \/ journal' = journal
            \/ journal.state = "none" /\ journal'.state = "prepared"
            \/ Open /\ journal'.state \in JournalState
<1>1. TypeOK
  BY DEF IInv
<1>2. /\ "staging" \in JournalState /\ "staged" \in JournalState /\ "content_verified" \in JournalState
      /\ "published" \in JournalState /\ "source_deleted" \in JournalState
      /\ "completed" \in JournalState /\ "failed" \in JournalState /\ "recovery_required" \in JournalState
  BY DEF JournalState
<1>3. CASE \/ RecordStaging \/ RecordStaged \/ RecordVerified \/ RecordPublished
           \/ RecordSourceDeleted \/ RecordCompleted \/ CloseFailed \/ RecordFailed
  BY <1>1, <1>2, <1>3, Recorded
     DEF RecordStaging, RecordStaged, RecordVerified, RecordPublished, RecordSourceDeleted,
         RecordCompleted, CloseFailed, RecordFailed
<1>4. CASE Park
  BY <1>1, <1>2, <1>4, Recorded DEF Park, Keep
<1>5. CASE \/ CompareStaged \/ VerifyTarget \/ VerifySource \/ VerifyMoved \/ Withdraw \/ TurnBack
           \/ VerifyBack \/ ResumePublished
  BY <1>5 DEF CompareStaged, VerifyTarget, VerifySource, VerifyMoved, Withdraw, TurnBack, VerifyBack,
              ResumePublished, Check, Keep
<1>6. CASE \/ Preflight \/ ResumeUnpublished \/ ResumeAtomic \/ Crash
           \/ \E action \in RecoveryAction : Recover(action)
  BY <1>6 DEF Preflight, ResumeUnpublished, ResumeAtomic, Crash, Recover, Keep
<1>7. CASE Prepare
  <2>1. UNCHANGED <<fs, touched>> /\ (journal' = journal \/ journal' = [journal EXCEPT !.state = "prepared"])
    BY <1>7 DEF Prepare, Keep
  <2>2. journal.state = "none"
    BY <1>7 DEF Prepare, At, IInv, Life
  <2> QED BY <1>1, <2>1, <2>2 DEF TypeOK
<1> QED BY <1>3, <1>4, <1>5, <1>6, <1>7 DEF Looks

\* Where a file goes: the copy to the target, nobody's place; a verified file
\* away; the scanned file from one place to the other; or only the temporary
\* copy changes.
LEMMA Filed ==
  ASSUME IInv, Files
  PROVE  /\ UNCHANGED <<journal, touched>> /\ Open
         /\ \/ fs'["source"] = fs["source"] /\ fs'["target"] = fs["target"]
            \/ fs'["source"] = fs["source"] /\ ~Exists("target")
            \/ /\ fs'["target"] = fs["target"]
               /\ fs' = fs \/ Condemned("source")
               /\ Matches("target", NoId) \/ "target" \in touched
            \/ /\ fs'["source"] = fs["source"]
               /\ fs' = fs \/ Condemned("target")
               /\ Matches("source", NoId) \/ "source" \in touched
            \/ \E from, to \in {"source", "target"} :
                 /\ from # to /\ Matches(from, NoId) /\ ~Exists(to) /\ fs'[to] = fs[from]
         /\ fs["temporary"].content # "other" \/ Condemned("temporary")
              \/ fs'["temporary"] = fs["temporary"]
<1>1. Claims(pc) /\ TypeOK /\ Distinct /\ Life /\ fs \in [Path -> File \cup {Absent}]
  BY DEF IInv, TypeOK
<1>2. UNCHANGED <<journal, touched>>
  BY DEF Files, StageCreate, StageFinish, DropStaged, Publish, Unstage, DeleteSource, Rename, Discard,
         DeleteTarget, MoveBack, Delete, AtomicMove, Keep
<1>3. pc \in {"stage", "copying", "drop_staged", "publish", "unstage", "delete_source", "rename",
              "discard", "delete_target", "move_back"}
  BY DEF Files, StageCreate, StageFinish, DropStaged, Publish, Unstage, DeleteSource, Rename, Discard,
         DeleteTarget, MoveBack, At
<1>4. Open
  BY <1>1, <1>3 DEF Life
<1>5. "source" \in Path /\ "temporary" \in Path /\ "target" \in Path
  BY DEF Path
<1>6. CASE StageCreate
  <2>1. ~Exists("temporary") \/ UNCHANGED fs
    BY <1>6 DEF StageCreate
  <2>2. fs'["source"] = fs["source"] /\ fs'["target"] = fs["target"]
    <3>1. fs' = fs \/ fs' = [fs EXCEPT !["temporary"] = [staged' EXCEPT !.content = "part"]]
      BY <1>6 DEF StageCreate, Put
    <3> QED BY <1>1, <1>5, <3>1
  <2> QED BY <1>2, <1>4, <2>1, <2>2, Marks DEF Exists
<1>7. CASE StageFinish
  <2>1. pc = "copying"
    BY <1>7 DEF StageFinish, At
  <2>2. fs["temporary"] = Absent \/ fs["temporary"] = [staged EXCEPT !.content = "part"]
    BY <1>1, <2>1 DEF Claims
  <2>3. fs["temporary"].content # "other"
    <3>1. CASE fs["temporary"] = Absent
      BY <3>1, Marks
    <3>2. CASE fs["temporary"] = [staged EXCEPT !.content = "part"]
      <4>1. staged \in File
        BY <1>1, <2>1, Marks DEF Claims, TypeOK
      <4> QED BY <3>2, <4>1 DEF File
    <3> QED BY <2>2, <3>1, <3>2
  <2>4. fs' = fs \/ \E f : fs' = [fs EXCEPT !["temporary"] = f]
    BY <1>7 DEF StageFinish, Put, Remove
  <2>5. fs'["source"] = fs["source"] /\ fs'["target"] = fs["target"]
    BY <1>1, <1>5, <2>4
  <2> QED BY <1>2, <1>4, <2>3, <2>5
<1>8. ASSUME NEW p \in Path, pc \in DeletesAt[p], NEW ok, NEW next \in Step, NEW otherwise \in Step,
             Delete(p, ok, next, otherwise)
      PROVE  /\ fs' = fs \/ Condemned(p)
             /\ \A q \in Path : q # p => fs'[q] = fs[q]
  <2>1. /\ fs' = fs \/ (opened = fs[p].id /\ opened # NoId)
        /\ \A q \in Path : q # p => fs'[q] = fs[q]
    BY <1>8, Deleted
  <2>2. opened = fs[p].id /\ opened # NoId => Condemned(p)
    BY <1>8, Marks DEF Condemned, Exists
  <2> QED BY <2>1, <2>2
<1>13. CASE DropStaged \/ Unstage \/ Discard
  <2>1. pc \in DeletesAt["temporary"]
    BY <1>13 DEF DropStaged, Unstage, Discard, At, DeletesAt
  <2>2. PICK ok : \/ Delete("temporary", ok, "fail", "fail")
                  \/ Delete("temporary", ok, "to_published", "park")
                  \/ Delete("temporary", ok, "to_failed", "park")
    BY <1>13 DEF DropStaged, Unstage, Discard
  <2>3. "fail" \in Step /\ "to_published" \in Step /\ "to_failed" \in Step /\ "park" \in Step
    BY DEF Step
  <2>4. /\ fs'["source"] = fs["source"] /\ fs'["target"] = fs["target"]
        /\ fs' = fs \/ Condemned("temporary")
    BY <1>5, <1>8, <2>1, <2>2, <2>3
  <2> QED BY <1>2, <1>4, <2>4
<1>9. CASE Publish
  <2>1. fs' = fs \/ (~Exists("target") /\ fs' = [fs EXCEPT !["target"] = fs["temporary"]])
    BY <1>9 DEF Publish, Put
  <2>2. fs'["source"] = fs["source"] /\ fs'["temporary"] = fs["temporary"]
    BY <1>1, <1>5, <2>1
  <2> QED BY <1>2, <1>4, <2>1, <2>2
<1>10. CASE DeleteSource
  <2>1. /\ pc = "delete_source" /\ pc \in DeletesAt["source"]
        /\ Delete("source", SourceIntact, "to_source_deleted", "park")
    BY <1>10 DEF DeleteSource, At, DeletesAt
  <2>2. "to_source_deleted" \in Step /\ "park" \in Step
    BY DEF Step
  <2>3. /\ fs'["target"] = fs["target"] /\ fs'["temporary"] = fs["temporary"]
        /\ fs' = fs \/ Condemned("source")
    BY <1>5, <1>8, <2>1, <2>2
  <2>4. Matches("target", NoId) \/ "target" \in touched
    BY <1>1, <2>1 DEF Claims
  <2> QED BY <1>2, <1>4, <2>3, <2>4
<1>11. CASE DeleteTarget
  <2>1. /\ pc = "delete_target" /\ pc \in DeletesAt["target"]
        /\ Delete("target", Matches("target", loaded), "to_failed", "park")
    BY <1>11 DEF DeleteTarget, At, DeletesAt
  <2>2. "to_failed" \in Step /\ "park" \in Step
    BY DEF Step
  <2>3. /\ fs'["source"] = fs["source"] /\ fs'["temporary"] = fs["temporary"]
        /\ fs' = fs \/ Condemned("target")
    BY <1>5, <1>8, <2>1, <2>2
  <2>4. Matches("source", NoId) \/ "source" \in touched
    BY <1>1, <2>1 DEF Claims
  <2> QED BY <1>2, <1>4, <2>3, <2>4
<1>12. CASE Rename \/ MoveBack
  <2>1. PICK from \in {"source", "target"}, to \in {"source", "target"} :
          /\ from # to
          /\ \/ fs' = fs
             \/ /\ Matches(from, Original) /\ ~Exists(to)
                /\ fs' = [fs EXCEPT ![to] = fs[from], ![from] = Absent]
    BY <1>12 DEF Rename, MoveBack, AtomicMove
  <2>2. fs'["temporary"] = fs["temporary"]
    BY <1>1, <1>5, <2>1
  <2>3. CASE fs' = fs
    BY <1>2, <1>4, <2>3
  <2>4. CASE /\ Matches(from, Original) /\ ~Exists(to)
             /\ fs' = [fs EXCEPT ![to] = fs[from], ![from] = Absent]
    <3>1. fs'[to] = fs[from]
      BY <1>1, <1>5, <2>1, <2>4
    <3>2. Matches(from, NoId)
      BY <2>4 DEF Matches
    <3> QED BY <1>2, <1>4, <2>1, <2>2, <2>4, <3>1, <3>2
  <2> QED BY <2>1, <2>3, <2>4
<1> QED BY <1>6, <1>7, <1>9, <1>10, <1>11, <1>12, <1>13 DEF Files

\* The user takes no step of the worker.
LEMMA NotWorking == Interfere \/ UNCHANGED vars => ~Working
BY DEF Interfere, Working, vars, worker

\* No good copy goes unless another one is left, whatever fails and whatever the
\* user does (apply_one and recovery verify the target before they delete the source).
THEOREM CopyFirst == Spec => CopyBeforeDelete
<1>1. ASSUME IInv, [Next]_vars, Working, NEW p \in {"source", "target"},
             NEW q \in {"source", "target"}, p # q, Matches(p, NoId), ~Matches(p, NoId)'
      PROVE  Matches(q, NoId)' \/ q \in touched
  <2>1. Looks \/ Files
    BY <1>1, StepKinds, NotWorking
  <2>2. CASE Looks
    BY <1>1, <2>2, Looked DEF Matches, Exists
  <2>3. CASE Files
    <3>1. fs'[p] # fs[p]
      BY <1>1 DEF Matches, Exists
    <3>2. CASE fs'["source"] = fs["source"] /\ ~Exists("target")
      BY <1>1, <3>1, <3>2 DEF Matches
    <3>3. CASE fs'[q] = fs[q] /\ (Matches(q, NoId) \/ q \in touched)
      BY <3>3 DEF Matches, Exists
    <3>4. CASE \E from, to \in {"source", "target"} :
                 from # to /\ Matches(from, NoId) /\ ~Exists(to) /\ fs'[to] = fs[from]
      <4>1. p # q /\ Matches(p, NoId)
        BY <1>1
      <4>2. PICK from \in {"source", "target"}, to \in {"source", "target"} :
              from # to /\ Matches(from, NoId) /\ ~Exists(to) /\ fs'[to] = fs[from]
        BY <3>4
      <4>3. from = p /\ to = q
        BY <4>1, <4>2 DEF Matches
      <4> QED BY <4>2, <4>3 DEF Matches, Exists
    <3> QED BY <1>1, <2>3, <3>1, <3>2, <3>3, <3>4, Filed
  <2> QED BY <2>1, <2>2, <2>3
<1>2. IInv /\ [Next]_vars =>
        [\A p \in {"source", "target"} :
           LET q == IF p = "source" THEN "target" ELSE "source"
           IN  (Working /\ Matches(p, NoId) /\ ~Matches(p, NoId)')
                 => Matches(q, NoId)' \/ q \in touched]_vars
  <2> SUFFICES ASSUME IInv, [Next]_vars, Working, NEW p \in {"source", "target"},
                      Matches(p, NoId), ~Matches(p, NoId)'
               PROVE  LET q == IF p = "source" THEN "target" ELSE "source"
                      IN  Matches(q, NoId)' \/ q \in touched
    OBVIOUS
  <2>1. CASE p = "source"
    BY <1>1, <2>1
  <2>2. CASE p = "target"
    BY <1>1, <2>2
  <2> QED BY <2>1, <2>2
<1> QED BY <1>2, Invariance, PTL DEF Spec, CopyBeforeDelete

\* What the worker opens for deletion is not a file the user wrote: it is compared with the
\* scanned content, or with a copy of this run that nobody else can reach.
LEMMA OpensOwn ==
  ASSUME IInv, Looks \/ Files, NEW p \in Path, Condemned(p)', ~Condemned(p)
  PROVE  fs[p].owner # "user" \/ fs[p].content # "other"
<1>1. Claims(pc) /\ Life /\ TypeOK
  BY DEF IInv
<1>2. pc' \in DeletesAt[p] /\ pc' \in Holding \ {"copying"} /\ opened' = fs'[p].id /\ Exists(p)'
  BY DEF Condemned, DeletesAt, Path, Holding
<1>3. opened' # NoId
  <2>1. IInv'
    BY Inductive DEF Looks, Files, Next, WorkerStep
  <2>2. fs'[p] \in File \cup {Absent} /\ fs'[p] # Absent
    BY <1>2, <2>1 DEF IInv, TypeOK, Exists
  <2> QED BY <1>2, <2>2, Marks
<1>4. PICK q \in Path, ok \in BOOLEAN, next \in Step, otherwise \in Step :
        /\ pc \in DeletesAt[q] /\ Delete(q, ok, next, otherwise)
        /\ ok => fs[q].content # "other" \/ fs[q].owner # "user"
  <2>1. "source" \in Path /\ "temporary" \in Path /\ "target" \in Path
    BY DEF Path
  <2>2. /\ "fail" \in Step /\ "to_published" \in Step /\ "to_failed" \in Step /\ "park" \in Step
        /\ "to_source_deleted" \in Step
    BY DEF Step
  <2>3. CASE DropStaged
    <3>1. pc = "drop_staged" /\ Private
      BY <1>1, <2>3 DEF DropStaged, At, Claims
    <3> QED BY <2>1, <2>2, <2>3, <3>1 DEF DropStaged, Private, DeletesAt
  <2>4. CASE Unstage
    <3>1. pc = "unstage" /\ (staged.content = "other" => staged.owner = "app")
      BY <1>1, <2>4 DEF Unstage, At, Life
    <3> QED BY <2>1, <2>2, <2>4, <3>1 DEF Unstage, Exists, DeletesAt
  <2>5. CASE Discard
    BY <2>1, <2>2, <2>5 DEF Discard, At, Matches, Exists, DeletesAt
  <2>6. CASE DeleteSource
    BY <2>1, <2>2, <2>6 DEF DeleteSource, At, SourceIntact, Matches, Exists, DeletesAt
  <2>7. CASE DeleteTarget
    BY <2>1, <2>2, <2>7 DEF DeleteTarget, At, Matches, Exists, DeletesAt
  <2>8. ASSUME ~(DropStaged \/ Unstage \/ Discard \/ DeleteSource \/ DeleteTarget) PROVE FALSE
    <3>1. CASE StageCreate
      BY <1>2, <3>1 DEF StageCreate, StageError, Goto, Holding
    <3>2. CASE StageFinish \/ Crash
      BY <1>3, <3>2 DEF StageFinish, Crash
    <3>3. ASSUME UNCHANGED opened PROVE FALSE
      <4>1. pc \in Holding
        BY <1>1, <1>3, <3>3 DEF TypeOK
      <4> QED BY <2>8, <3>1, <3>2, <4>1
             DEF Holding, At, Looks, Files, Preflight, Prepare, RecordStaging, RecordStaged, CompareStaged,
                 RecordVerified, RecordPublished, VerifyTarget, VerifySource, RecordSourceDeleted,
                 RecordCompleted, CloseFailed, Park, VerifyMoved, ResumeUnpublished, ResumePublished,
                 ResumeAtomic, Withdraw, TurnBack, VerifyBack, RecordFailed, Recover, Publish, Rename, MoveBack
    <3>4. Looks /\ ~Crash => UNCHANGED opened
      BY DEF Looks, Preflight, Prepare, RecordStaging, RecordStaged, CompareStaged,
             RecordVerified, RecordPublished, VerifyTarget, VerifySource, RecordSourceDeleted,
             RecordCompleted, CloseFailed, Park, VerifyMoved, ResumeUnpublished, ResumePublished,
             ResumeAtomic, Withdraw, TurnBack, VerifyBack, RecordFailed, Recover, Record, Check, Keep
    <3>5. Publish \/ Rename \/ MoveBack => UNCHANGED opened
      BY DEF Publish, Rename, MoveBack, AtomicMove, Keep
    <3> QED BY <2>8, <3>1, <3>2, <3>3, <3>4, <3>5 DEF Files
  <2> QED BY <2>3, <2>4, <2>5, <2>6, <2>7, <2>8
<1>5. Opens(q, ok)
  BY <1>3, <1>4, Deleted
<1>6. pc' = pc /\ p = q
  <2>1. pc \in DeletesAt[p] /\ pc \in DeletesAt[q]
    BY <1>2, <1>4, <1>5 DEF Opens
  <2> QED BY <1>5, <2>1 DEF Opens, DeletesAt, Path
<1> QED BY <1>4, <1>5, <1>6 DEF Opens

\* No file the user wrote goes in a step of the worker, even one that appears
\* between a check and the call that relies on it (create_new, hard_link and the
\* rename without replacement, the handle of delete_file_if_matches), and none is
\* opened for deletion.  What the user writes into a file while it is open for
\* deletion is not covered: delete_file_if_matches compares before it deletes.
THEOREM UserFilesStay == Spec => UserContentKept
<1>1. ASSUME IInv, [Next]_vars, Working, NEW p \in Path, fs[p].owner = "user", fs[p].content = "other",
             ~Condemned(p)
      PROVE  fs'[p] = fs[p]
  <2>1. Looks \/ Files
    BY <1>1, StepKinds, NotWorking
  <2>2. CASE Looks
    BY <2>2, <1>1, Looked
  <2>3. CASE Files
    <3>1. p \in {"source", "temporary", "target"}
      BY DEF Path
    <3>2. Exists(p) /\ ~Matches(p, NoId)
      BY <1>1, Marks DEF Exists, Matches
    <3>3. CASE p = "temporary"
      BY <1>1, <2>3, <3>3, Filed
    <3>4. CASE \E from, to \in {"source", "target"} :
                 from # to /\ Matches(from, NoId) /\ ~Exists(to)
      BY <3>1, <3>2, <3>3, <3>4, <1>1, <2>3, Filed DEF Matches
    <3> QED BY <1>1, <2>3, <3>1, <3>2, <3>3, <3>4, Filed
  <2> QED BY <2>1, <2>2, <2>3
<1>2. ASSUME IInv, [Next]_vars, Working, NEW p \in Path, fs[p].owner = "user", fs[p].content = "other",
             ~Condemned(p)
      PROVE  ~Condemned(p)'
  BY <1>2, OpensOwn, StepKinds, NotWorking
<1>3. IInv /\ [Next]_vars =>
        [\A p \in Path :
           (Working /\ fs[p].owner = "user" /\ fs[p].content = "other" /\ ~Condemned(p))
             => fs'[p] = fs[p] /\ ~Condemned(p)']_vars
  BY <1>1, <1>2
<1> QED BY <1>3, Invariance, PTL DEF Spec, UserContentKept

----------------------------------------------------------------------------
(***************************************************************************)
(* The protocol implements AbstractMove.                                   *)
(***************************************************************************)
\* The refinement mapping of Abstract, by name.
Copies == {p \in {"source", "target"} : Matches(p, NoId)}
Said ==
  CASE journal.state = "none" -> "none"
    [] journal.state = "completed" -> "moved"
    [] journal.state = "failed" -> "kept"
    [] OTHER -> "open"

\* What the entry says is one of the four outcomes, and "open" while it is open.
LEMMA Outcomes ==
  /\ Said \in {"none", "open", "moved", "kept"}
  /\ Open => Said = "open"
  /\ journal.state = "none" => Said = "none"
  /\ Said = "moved" => journal.state = "completed"
  /\ Said = "kept" => journal.state = "failed"
  /\ TypeOK /\ Said = "open" => Open
<1>1. /\ journal.state = "none" => Said = "none"
      /\ journal.state = "completed" => Said = "moved"
      /\ journal.state = "failed" => Said = "kept"
      /\ journal.state \notin {"none", "completed", "failed"} => Said = "open"
  BY DEF Said
<1>2. Open => journal.state \notin {"none", "completed", "failed"}
  BY DEF Open, OpenState, TerminalState, JournalState
<1>3. TypeOK /\ journal.state \notin {"none", "completed", "failed"} => Open
  BY DEF TypeOK, Open, OpenState, TerminalState
<1> QED BY <1>1, <1>2, <1>3

\* A step of the user is one of somebody else.
LEMMA InterfereDisturbs ==
  ASSUME IInv, Interfere
  PROVE  Abstract!Disturb
<1>1. (touched' # {}) /\ UNCHANGED journal
  BY Interfered
<1>2. Said' = Said
  BY <1>1 DEF Said
<1>3. Copies' \in SUBSET {"source", "target"}
  BY DEF Copies
<1>4. (touched # {})' = TRUE
  BY <1>1
<1> QED BY <1>2, <1>3, <1>4 DEF Abstract!Disturb, Abstract!Place, Copies, Said

\* A step of the worker once the user changed something keeps what is closed closed.
LEMMA WorksDisturbed ==
  ASSUME IInv, IInv', Looks \/ Files, touched # {}
  PROVE  Abstract!AfterDisturbance
<1>1. /\ UNCHANGED touched
      /\ journal' = journal \/ journal.state = "none" \/ Open
  BY Looked, Filed
<1>2. Said \in {"moved", "kept"} => Said' = Said
  <2>1. journal' = journal => Said' = Said
    BY DEF Said
  <2> QED BY <1>1, <2>1, Outcomes
<1>3. Said' \in {"none", "open", "moved", "kept"}
  BY DEF Said
<1>4. Copies' \in SUBSET {"source", "target"}
  BY DEF Copies
<1> QED BY <1>1, <1>2, <1>3, <1>4
        DEF Abstract!AfterDisturbance, Abstract!Place, Abstract!Outcome, Copies, Said

\* A step of the worker alone: it writes to the journal, or it moves copies.
LEMMA WorksAlone ==
  ASSUME IInv, IInv', Looks \/ Files, touched = {}
  PROVE  \/ Abstract!Begin \/ Abstract!Rearrange \/ Abstract!Close
         \/ UNCHANGED <<Copies, Said, touched>>
<1>1. UNCHANGED touched /\ touched' = {}
  BY Looked, Filed
\* There is a complete copy, and a closed entry says where the only one is.
<1>2. /\ Copies' # {} /\ Copies' \subseteq {"source", "target"}
      /\ Said' = "moved" => Copies' = {"target"}
      /\ Said' = "kept" => Copies' = {"source"}
  <2>1. ASSUME IInv', touched' = {}
        PROVE  /\ Copies' # {}
               /\ Said' = "moved" => Copies' = {"target"}
               /\ Said' = "kept" => Copies' = {"source"}
    <3>1. Untouched'
      BY <2>1 DEF IInv
    <3>2. /\ Exists("source")' => "source" \in Copies'
          /\ Exists("target")' => "target" \in Copies'
      BY <3>1, Marks DEF Untouched, Copies, Matches, Exists
    <3>3. /\ ~Exists("source")' => "source" \notin Copies'
          /\ ~Exists("target")' => "target" \notin Copies'
      BY DEF Copies, Matches
    <3>4. Copies' \subseteq {"source", "target"}
      BY DEF Copies
    <3>5. Exists("source")' \/ Exists("target")'
      BY <3>1 DEF Untouched
    <3>6. /\ Said' = "moved" => ~Exists("source")'
          /\ Said' = "kept" => ~Exists("target")'
      BY <3>1 DEF Untouched, Said
    <3> QED BY <3>2, <3>3, <3>4, <3>5, <3>6
  <2> QED BY <1>1, <2>1 DEF Copies
<1>3. CASE Files
  <2>1. Said = "open" /\ Said' = Said
    BY <1>3, Filed, Outcomes DEF Said
  <2>2. Copies' \in (SUBSET {"source", "target"}) \ {{}}
    BY <1>2
  <2> QED BY <1>1, <2>1, <2>2 DEF Abstract!Rearrange, Abstract!Place, Copies, Said
<1>4. CASE Looks
  <2>1. Copies' = Copies
    BY <1>4, Looked DEF Copies, Matches, Exists
  <2>2. CASE journal' = journal
    BY <1>1, <2>1, <2>2 DEF Said
  <2>3. CASE journal.state = "none" /\ journal'.state = "prepared"
    <3>1. Said = "none" /\ Said' = "open"
      BY <2>3 DEF Said
    <3> QED BY <1>1, <2>1, <3>1 DEF Abstract!Begin, Copies, Said
  <2>4. CASE Open /\ journal'.state \in JournalState
    <3>1. Said = "open"
      BY <2>4, Outcomes
    <3>2. Said' \in {"open", "moved", "kept"}
      BY <2>4 DEF Said, JournalState
    <3>3. CASE Said' = "open"
      BY <1>1, <2>1, <3>1, <3>3
    <3>4. CASE Said' = "moved"
      <4>1. Copies = {"target"}
        BY <1>2, <2>1, <3>4
      <4> QED BY <1>1, <2>1, <3>1, <3>4, <4>1 DEF Abstract!Close, Copies, Said
    <3>5. CASE Said' = "kept"
      <4>1. Copies = {"source"}
        BY <1>2, <2>1, <3>5
      <4> QED BY <1>1, <2>1, <3>1, <3>5, <4>1 DEF Abstract!Close, Copies, Said
    <3> QED BY <3>2, <3>3, <3>4, <3>5
  <2> QED BY <1>4, <2>2, <2>3, <2>4, Looked
<1> QED BY <1>3, <1>4

\* The protocol implements AbstractMove: unless somebody else changes a file the
\* scanned content is always complete at the source or at the target, and a
\* closed entry says truthfully where the only copy is.
THEOREM Refinement == Spec => MoveIsAtomic
<1>1. Init => Abstract!Init
  <2> SUFFICES ASSUME Init PROVE Abstract!Init
    OBVIOUS
  <2>1. /\ fs["source"] = Scanned /\ fs["target"] = Absent
        /\ journal.state = "none" /\ touched = {}
    BY DEF Init, Path, Scanned
  <2>2. Copies = {"source"}
    BY <2>1, Marks DEF Copies, Matches, Exists
  <2>3. Said = "none"
    BY <2>1 DEF Said
  <2> QED BY <2>1, <2>2, <2>3 DEF Abstract!Init, Copies, Said
<1>2. IInv /\ IInv' /\ [Next]_vars => [Abstract!Next]_Abstract!vars
  <2> SUFFICES ASSUME IInv, IInv', [Next]_vars
               PROVE  Abstract!Next \/ UNCHANGED Abstract!vars
    OBVIOUS
  <2>1. CASE Interfere
    BY <2>1, InterfereDisturbs DEF Abstract!Next
  <2>2. CASE UNCHANGED vars
    <3>1. UNCHANGED <<Copies, Said, touched>>
      BY <2>2 DEF vars, Copies, Said, Matches, Exists
    <3> QED BY <3>1 DEF Abstract!vars, Copies, Said
  <2>3. CASE Looks \/ Files
    <3>1. CASE touched # {}
      BY <2>3, <3>1, WorksDisturbed DEF Abstract!Next
    <3>2. CASE touched = {}
      <4>1. CASE UNCHANGED <<Copies, Said, touched>>
        BY <4>1 DEF Abstract!vars, Copies, Said
      <4> QED BY <2>3, <3>2, <4>1, WorksAlone DEF Abstract!Next
    <3> QED BY <3>1, <3>2
  <2> QED BY <2>1, <2>2, <2>3, StepKinds
<1> QED BY <1>1, <1>2, Invariance, PTL DEF Spec, MoveIsAtomic, Abstract!Spec

----------------------------------------------------------------------------
(***************************************************************************)
(* What one failure leaves behind.                                         *)
(***************************************************************************)
\* Whatever identity of the copy is known is the one of the copy.
Tied ==
  /\ journal.staged # NoId =>
       \A p \in {"temporary", "target"} : Exists(p) => fs[p].id = journal.staged
  /\ staged # Absent /\ journal.staged # NoId => staged.id = journal.staged
  /\ loaded \in {NoId, journal.staged}

\* Where the copy is by the state of an entry that is moved over one.
CopyOnDisk(state) ==
  /\ state \in {"none", "prepared"} => Exists("source") /\ ~Exists("temporary") /\ ~Exists("target")
  /\ state = "staging" => Exists("source") /\ ~Exists("target")
  /\ state = "staged" => Exists("source") /\ ~Exists("target") /\ Matches("temporary", NoId)
  /\ state = "content_verified" => Exists("source") /\ (Matches("temporary", NoId) \/ Exists("target"))
  /\ state \in {"published", "source_deleted", "recovery_required"} => Exists("target")
  /\ state = "source_deleted" => ~Exists("source")
  /\ journal.staged = NoId <=> state \in {"none", "prepared", "staging"}

\* Where the file is by the state of an entry that is moved by a rename.
FileOnDisk(state) ==
  /\ state \notin {"staging", "staged"}
  /\ state \in {"none", "prepared"} => Exists("source")
  /\ state \in {"published", "source_deleted", "recovery_required"} => Exists("target")

\* Steps from which the entry is closed as failed, without a look at the disk.
LastSteps == {"fail", "drop_staged", "verify_back", "to_failed"}
\* Steps only a recovery takes.
RecoverySteps ==
  {"resume", "discard", "withdraw", "delete_target", "turn_back", "move_back", "verify_back", "to_failed"}

\* Until the first failure no recovery is needed; after it no check fails any more.
Blameless(q) ==
  /\ mode = "recovery" \/ q \in {"fail", "drop_staged", "park"} => faults # 0
  /\ q = "idle" /\ Open => faults # 0 /\ mode # "recovery"
  /\ q \in RecoverySteps => mode = "recovery"
  /\ q = "park" => mode # "recovery"

\* The state of the entry before the step q.
Stages(q) ==
  /\ q = "to_staging" => journal.state = "prepared"
  /\ q \in {"stage", "copying", "to_staged"} => journal.state = "staging"
  /\ q = "compare" => journal.state = "staged"
  /\ q = "to_verified" => journal.state = IF Copying THEN "staged" ELSE "prepared"
  /\ q \in {"publish", "unstage", "rename"} => journal.state = "content_verified"
  /\ q = "to_published" =>
       \/ journal.state = "content_verified"
       \/ journal.state = "recovery_required" /\ mode = "recovery"
  /\ q \in {"verify_target", "verify_source", "verify_moved"} =>
       journal.state \in {"published", "source_deleted"}
  /\ q \in {"delete_source", "to_source_deleted"} => journal.state = "published"
  /\ q = "to_completed" => journal.state = "source_deleted"
  /\ q = "park" => journal.state \in {"content_verified", "published", "source_deleted"}

\* The files the step q needs.
Finds(q) ==
  /\ q = "stage" => ~Exists("temporary")
  /\ q = "copying" => Exists("temporary") /\ opened = Original
  /\ q \in {"to_staged", "compare", "publish", "unstage"} \/ (q = "to_verified" /\ Copying) =>
       Matches("temporary", NoId) /\ fs["temporary"] = staged
  /\ q = "to_verified" \/ (q = "prepare" /\ ~Copying) => staged # Absent
  /\ q = "publish" => ~Exists("target")
  /\ q \in {"rename", "delete_source", "withdraw", "verify_back"} => Exists("source")
  /\ q \in {"verify_target", "verify_source"} /\ mode # "recovery" => Exists("source")
  /\ q \in {"unstage", "to_published", "park", "withdraw", "delete_target", "move_back"} =>
       Exists("target")
  /\ q = "resume" /\ ~Exists("target") /\ Exists("temporary") => Matches("temporary", NoId)
  /\ q = "discard" => Matches("temporary", NoId)

\* As long as the user touched nothing and at most one call failed.
Scene ==
  /\ Blameless(pc)
  /\ Stages(pc)
  /\ Finds(pc)
  /\ Copying => Tied
  /\ pc \notin LastSteps /\ journal.state \notin TerminalState =>
       IF Copying THEN CopyOnDisk(journal.state) ELSE FileOnDisk(journal.state)

\* Both together are kept by every step.
RInv == IInv /\ (touched = {} /\ faults <= 1 => Scene)

\* No file was touched, one call may have failed.
Calm == IInv /\ touched = {} /\ faults <= 1 /\ Scene

\* Which comparisons hold then is a matter of what exists.
LEMMA Scenery ==
  ASSUME Calm
  PROVE  /\ Exists("source") => Matches("source", Original) /\ Matches("source", NoId)
         /\ Exists("source") => fs["source"] = Scanned
         /\ Exists("target") => Matches("target", NoId)
         /\ Exists("source") \/ Exists("target")
         /\ ~Copying => ~(Exists("source") /\ Exists("target")) /\ ~Exists("temporary")
         /\ ~Copying /\ Exists("source") => OnlyAt("source", "target")
         /\ ~Copying /\ Exists("target") => OnlyAt("target", "source") /\ Matches("target", Original)
         /\ Copying /\ Exists("target") => Matches("target", loaded) /\ Matches("target", journal.staged)
         /\ Copying /\ Matches("temporary", NoId) =>
              Matches("temporary", loaded) /\ Matches("temporary", journal.staged)
<1>1. Untouched /\ Life /\ TypeOK /\ (Copying => Tied)
  BY DEF Calm, IInv, Scene
<1>2. /\ fs["source"] = Absent \/ fs["source"] = Scanned
      /\ Exists("target") => fs["target"].content = "orig"
      /\ Exists("source") \/ Exists("target")
      /\ ~Copying => ~(Exists("source") /\ Exists("target"))
      /\ ~Copying => fs["target"] = Absent \/ fs["target"] = Scanned
      /\ ~Copying => ~Exists("temporary")
  BY <1>1 DEF Untouched, Life
<1>3. /\ Exists("source") => Matches("source", Original) /\ Matches("source", NoId)
      /\ Exists("source") => fs["source"] = Scanned
      /\ Exists("target") => Matches("target", NoId)
      /\ ~Copying /\ Exists("target") => Matches("target", Original)
  BY <1>2, Marks DEF Exists, Matches
<1>4. /\ Copying /\ Exists("target") => Matches("target", loaded) /\ Matches("target", journal.staged)
      /\ Copying /\ Matches("temporary", NoId) =>
           Matches("temporary", loaded) /\ Matches("temporary", journal.staged)
  BY <1>1, <1>2 DEF Tied, Exists, Matches
<1> QED BY <1>2, <1>3, <1>4 DEF OnlyAt

\* There is one failure at most.
LEMMA OneFault ==
  ASSUME Calm, faults' <= 1
  PROVE  /\ Fault => faults = 0 /\ faults' = 1
         /\ NoFault => faults' = faults
         /\ faults \in {0, 1}
<1>1. faults \in Nat
  BY MoveAssumption DEF Calm, IInv, TypeOK
<1> QED BY <1>1 DEF Fault, NoFault, Calm

\* The worker goes on without touching a file or the entry.
LEMMA SceneKept ==
  ASSUME Calm, UNCHANGED <<fs, journal, mode, loaded, opened>>, staged' \in {staged, Absent},
         NEW q, pc' = q, q \notin LastSteps => pc \notin LastSteps,
         faults' = faults \/ (faults = 0 /\ faults' = 1 /\ q \in {"idle", "fail", "drop_staged", "park"}),
         faults' = 0 => mode # "recovery" /\ q \notin {"fail", "drop_staged", "park"} /\ (q = "idle" => ~Open),
         q \in {"idle", "park"} => mode # "recovery",
         q \in RecoverySteps => mode = "recovery",
         Stages(q), Finds(q)'
  PROVE  Scene'
<1>1. Blameless(pc)'
  BY DEF Blameless, Open
<1>2. Stages(pc)'
  BY DEF Stages, Copying
<1>3. Finds(pc)'
  OBVIOUS
<1>4. Copying' => Tied'
  BY DEF Calm, Scene, Copying, Tied, Exists
<1>5. pc' \notin LastSteps /\ journal'.state \notin TerminalState =>
        IF Copying' THEN CopyOnDisk(journal.state)' ELSE FileOnDisk(journal.state)'
  BY DEF Calm, Scene, Copying, CopyOnDisk, FileOnDisk, Matches, Exists
<1> QED BY <1>1, <1>2, <1>3, <1>4, <1>5 DEF Scene

\* What a write to the journal does when it is allowed.
LEMMA Writes ==
  ASSUME Calm, faults' <= 1, NEW to, NEW evidence, NEW next, NEW onError,
         Record(to, evidence, next, onError), TransitionAllowed(journal.state, to)
  PROVE  /\ UNCHANGED <<fs, staged, mode, loaded, opened, touched>>
         /\ journal'.strategy = journal.strategy
         /\ \/ /\ journal'.state = to
               /\ journal'.staged = IF evidence = NoId THEN journal.staged ELSE evidence
               /\ faults' = faults /\ pc' = next
            \/ journal' = journal /\ faults = 0 /\ faults' = 1 /\ pc' = onError
<1>1. journal \in [strategy: Strategy, state: JournalState \cup {"none"}, staged: Id \cup {NoId}]
  BY DEF Calm, IInv, TypeOK
<1>2. UNCHANGED <<fs, staged, mode, loaded, opened, touched>>
  BY DEF Record, Keep
<1>3. CASE /\ journal' = [journal EXCEPT !.state = to,
                                        !.staged = IF evidence = NoId THEN @ ELSE evidence]
           /\ NoFault /\ pc' = next
  <2>1. /\ journal'.strategy = journal.strategy /\ journal'.state = to
        /\ journal'.staged = IF evidence = NoId THEN journal.staged ELSE evidence
    BY <1>1, <1>3
  <2> QED BY <1>2, <1>3, <2>1, OneFault
<1>4. CASE Fault /\ pc' = onError /\ UNCHANGED journal
  BY <1>2, <1>4, OneFault
<1> QED BY <1>3, <1>4 DEF Record, Goto

\* The entry takes its next state, which fits what is on disk.
LEMMA SceneWritten ==
  ASSUME Calm, UNCHANGED <<fs, staged, mode, loaded, opened>>, journal'.strategy = journal.strategy,
         faults' = faults, NEW q, pc' = q, q \notin RecoverySteps \cup {"fail", "drop_staged", "park"},
         q = "idle" => ~Open' \/ (faults # 0 /\ mode # "recovery"),
         Stages(q)', Finds(q),
         \/ journal'.staged = journal.staged
         \/ /\ staged # Absent /\ journal'.staged = staged.id
            /\ journal.staged = NoId => fs["temporary"] = staged /\ ~Exists("target"),
         journal'.state \in TerminalState
           \/ (IF Copying THEN CopyOnDisk(journal.state)' ELSE FileOnDisk(journal.state)')
  PROVE  Scene'
<1>1. Blameless(pc)'
  <2>1. mode = "recovery" => faults # 0
    BY DEF Calm, Scene, Blameless
  <2> QED BY <2>1 DEF Blameless
<1>2. Stages(pc)'
  OBVIOUS
<1>3. Finds(pc)'
  BY DEF Finds, Copying, Matches, Exists
<1>4. Copying' => Tied'
  <2>1. CASE journal'.staged = journal.staged
    BY <2>1 DEF Calm, Scene, Copying, Tied, Exists
  <2>2. CASE /\ staged # Absent /\ journal'.staged = staged.id
             /\ journal.staged = NoId => fs["temporary"] = staged /\ ~Exists("target")
    <3>1. CASE journal.staged = NoId
      BY <2>2, <3>1 DEF Calm, Scene, Copying, Tied, Exists
    <3>2. CASE journal.staged # NoId
      BY <2>2, <3>2 DEF Calm, Scene, Copying, Tied, Exists
    <3> QED BY <3>1, <3>2
  <2> QED BY <2>1, <2>2
<1>5. pc' \notin LastSteps /\ journal'.state \notin TerminalState =>
        IF Copying' THEN CopyOnDisk(journal.state)' ELSE FileOnDisk(journal.state)'
  BY DEF Copying
<1> QED BY <1>1, <1>2, <1>3, <1>4, <1>5 DEF Scene

\* An identity that a write carries is the one of the copy.
LEMMA Carried ==
  ASSUME Calm
  PROVE  /\ Evidence = NoId => ~Copying \/ staged = Absent
         /\ Evidence # NoId => Copying /\ staged # Absent /\ Evidence = staged.id
<1>1. staged \in File \cup {Absent}
  BY DEF Calm, IInv, TypeOK
<1> QED BY <1>1, Marks DEF Evidence

\* The parts of Calm.
LEMMA Parts ==
  ASSUME Calm
  PROVE  /\ TypeOK /\ Life /\ Claims(pc) /\ QuietClaims(pc) /\ Untouched
         /\ Blameless(pc) /\ Stages(pc) /\ Finds(pc) /\ (Copying => Tied)
         /\ pc \notin LastSteps /\ journal.state \notin TerminalState =>
              IF Copying THEN CopyOnDisk(journal.state) ELSE FileOnDisk(journal.state)
         /\ journal.state \in JournalState \cup {"none"}
BY DEF Calm, IInv, Scene, TypeOK

\* Which states follow which.
LEMMA Allowed ==
  /\ TransitionAllowed("prepared", "staging") /\ TransitionAllowed("staging", "staged")
  /\ TransitionAllowed("prepared", "content_verified") /\ TransitionAllowed("staged", "content_verified")
  /\ TransitionAllowed("content_verified", "published") /\ TransitionAllowed("recovery_required", "published")
  /\ TransitionAllowed("published", "source_deleted") /\ TransitionAllowed("source_deleted", "completed")
  /\ \A s \in OpenState : TransitionAllowed(s, "failed") /\ TransitionAllowed(s, "recovery_required")
BY DEF TransitionAllowed, Advance, OpenState, TerminalState, JournalState

\* RecordStaging: nothing is on disk yet.
LEMMA SceneStaging ==
  ASSUME Calm, faults' <= 1, RecordStaging
  PROVE  Scene'
<1>1. pc = "to_staging" /\ Record("staging", NoId, "stage", "idle")
  BY DEF RecordStaging, At
<1>2. Copying /\ journal.state = "prepared" /\ CopyOnDisk(journal.state) /\ Blameless(pc)
  BY <1>1, Parts DEF Claims, CopySteps, Stages, LastSteps, TerminalState
<1>3. /\ UNCHANGED <<fs, staged, mode, loaded, opened>> /\ journal'.strategy = journal.strategy
      /\ \/ journal'.state = "staging" /\ journal'.staged = journal.staged /\ faults' = faults /\ pc' = "stage"
         \/ journal' = journal /\ faults = 0 /\ faults' = 1 /\ pc' = "idle"
  <2>1. TransitionAllowed(journal.state, "staging")
    BY <1>2, Allowed
  <2>2. "staging" # "none" /\ (IF NoId = NoId THEN journal.staged ELSE NoId) = journal.staged
    OBVIOUS
  <2> QED BY <1>1, <2>1, <2>2, Writes
<1>4. CASE journal' = journal /\ faults = 0 /\ faults' = 1 /\ pc' = "idle"
  <2>1. mode # "recovery" /\ Stages("idle") /\ Finds("idle")'
    BY <1>2, <1>4 DEF Blameless, Stages, Finds
  <2> QED BY <1>1, <1>3, <1>4, <2>1, SceneKept DEF LastSteps, RecoverySteps
<1>5. CASE /\ journal'.state = "staging" /\ journal'.staged = journal.staged
           /\ faults' = faults /\ pc' = "stage"
  <2>1. Stages("stage")' /\ Finds("stage")
    BY <1>2, <1>5 DEF Stages, Finds, CopyOnDisk
  <2>2. CopyOnDisk(journal.state)'
    BY <1>2, <1>3, <1>5 DEF CopyOnDisk, Exists
  <2> QED BY <1>2, <1>3, <1>5, <2>1, <2>2, SceneWritten DEF RecoverySteps
<1> QED BY <1>3, <1>4, <1>5

\* A write that failed leaves a run where it gave up.
LEMMA SceneUnwritten ==
  ASSUME Calm, UNCHANGED <<fs, staged, mode, loaded, opened>>, journal' = journal,
         faults = 0, faults' = 1, pc \notin LastSteps, NEW q \in {"idle", "park"}, pc' = q,
         q = "park" => Stages("park") /\ Exists("target")
  PROVE  Scene'
<1>1. mode # "recovery"
  BY Parts DEF Blameless
<1>2. Stages(q) /\ Finds(q)'
  BY DEF Stages, Finds, Exists
<1> QED BY <1>1, <1>2, SceneKept DEF LastSteps, RecoverySteps

\* RecordStaged: the copy is complete, and its identity goes into the entry.
LEMMA SceneStaged ==
  ASSUME Calm, faults' <= 1, RecordStaged
  PROVE  Scene'
<1>1. PICK next \in {"to_verified", "compare"}, onError \in {"park", "idle"} :
        /\ pc = "to_staged" /\ Record("staged", Evidence, next, onError)
        /\ onError = "park" => mode = "recovery"
  BY DEF RecordStaged, At, PreCommitError
<1>2. /\ Copying /\ journal.state = "staging" /\ CopyOnDisk("staging") /\ Blameless(pc)
      /\ Matches("temporary", NoId) /\ fs["temporary"] = staged
  BY <1>1, Parts DEF Claims, CopySteps, Stages, Finds, LastSteps, TerminalState
<1>3. staged # Absent /\ staged.id # NoId /\ Evidence = staged.id
  BY <1>2, Parts, Marks DEF Matches, Exists, Evidence, TypeOK
<1>4. TransitionAllowed(journal.state, "staged")
  BY <1>2, Allowed
<1>5. /\ UNCHANGED <<fs, staged, mode, loaded, opened>> /\ journal'.strategy = journal.strategy
      /\ \/ journal'.state = "staged" /\ journal'.staged = staged.id /\ faults' = faults /\ pc' = next
         \/ journal' = journal /\ faults = 0 /\ faults' = 1 /\ pc' = onError
  BY <1>1, <1>3, <1>4, Writes
<1>6. CASE journal' = journal /\ faults = 0 /\ faults' = 1 /\ pc' = onError
  <2>1. onError = "idle"
    BY <1>1, <1>2, <1>6 DEF Blameless
  <2> QED BY <1>1, <1>5, <1>6, <2>1, SceneUnwritten DEF LastSteps
<1>7. CASE /\ journal'.state = "staged" /\ journal'.staged = staged.id
           /\ faults' = faults /\ pc' = next
  <2>1. Stages(next)' /\ Finds(next)
    BY <1>1, <1>2, <1>3, <1>5, <1>7 DEF Stages, Finds, Copying
  <2>2. CopyOnDisk(journal.state)'
    BY <1>2, <1>3, <1>5, <1>7 DEF CopyOnDisk, Exists, Matches
  <2>3. /\ next \notin RecoverySteps \cup {"fail", "drop_staged", "park"} /\ next # "idle"
        /\ ~Exists("target")
    BY <1>2 DEF RecoverySteps, CopyOnDisk
  <2> QED BY <1>2, <1>3, <1>5, <1>7, <2>1, <2>2, <2>3, SceneWritten
<1> QED BY <1>5, <1>6, <1>7

\* RecordVerified: the copy, or the file about to be renamed, is the scanned one.
LEMMA SceneVerified ==
  ASSUME Calm, faults' <= 1, RecordVerified
  PROVE  Scene'
<1>1. PICK onError \in {"park", "idle"} :
        /\ pc = "to_verified"
        /\ Record("content_verified", Evidence,
                  IF staged = Absent THEN "to_published" ELSE IF Copying THEN "publish" ELSE "rename",
                  onError)
        /\ onError = "park" => mode = "recovery"
  BY DEF RecordVerified, At, PreCommitError
<1>2. /\ staged # Absent /\ Blameless(pc)
      /\ Copying => /\ journal.state = "staged" /\ CopyOnDisk("staged")
                    /\ Matches("temporary", NoId) /\ fs["temporary"] = staged
      /\ ~Copying => journal.state = "prepared" /\ FileOnDisk("prepared")
  BY <1>1, Parts DEF Stages, Finds, LastSteps, TerminalState
<1>3. \/ Evidence = NoId /\ ~Copying
      \/ Evidence = staged.id /\ Copying /\ staged.id # NoId
  BY <1>2, Carried
<1>4. TransitionAllowed(journal.state, "content_verified")
  BY <1>2, Allowed
<1> PICK next \in {"publish", "rename"} : next = IF Copying THEN "publish" ELSE "rename"
  OBVIOUS
<1>5. /\ UNCHANGED <<fs, staged, mode, loaded, opened>> /\ journal'.strategy = journal.strategy
      /\ \/ /\ journal'.state = "content_verified" /\ faults' = faults /\ pc' = next
            /\ ~Copying => journal'.staged = journal.staged
            /\ Copying => journal'.staged = staged.id
         \/ journal' = journal /\ faults = 0 /\ faults' = 1 /\ pc' = onError
  BY <1>1, <1>2, <1>3, <1>4, Writes
<1>6. CASE journal' = journal /\ faults = 0 /\ faults' = 1 /\ pc' = onError
  <2>1. onError = "idle"
    BY <1>1, <1>2, <1>6 DEF Blameless
  <2> QED BY <1>1, <1>5, <1>6, <2>1, SceneUnwritten DEF LastSteps
<1>7. CASE /\ journal'.state = "content_verified" /\ faults' = faults /\ pc' = next
           /\ ~Copying => journal'.staged = journal.staged
           /\ Copying => journal'.staged = staged.id
  <2>1. Stages(next)'
    BY <1>5, <1>7 DEF Stages
  <2>2. Finds(next)
    BY <1>2, <1>5, <1>7 DEF Finds, CopyOnDisk, FileOnDisk
  <2>3. IF Copying THEN CopyOnDisk(journal.state)' ELSE FileOnDisk(journal.state)'
    BY <1>2, <1>3, <1>5, <1>7 DEF CopyOnDisk, FileOnDisk, Exists, Matches
  <2>4. next \notin RecoverySteps \cup {"fail", "drop_staged", "park"} /\ next # "idle"
    BY DEF RecoverySteps
  <2>5. Copying => journal.staged # NoId
    BY <1>2 DEF CopyOnDisk
  <2>6. \/ journal'.staged = journal.staged
        \/ staged # Absent /\ journal'.staged = staged.id /\ journal.staged # NoId
    BY <1>2, <1>7, <2>5
  <2>7. faults' = faults /\ pc' = next
    BY <1>7
  <2> QED BY <1>5, <2>1, <2>2, <2>3, <2>4, <2>6, <2>7, SceneWritten
<1> QED BY <1>5, <1>6, <1>7

\* What a copy in hand means for the evidence: once it has been recorded it stays.
LEMMA SameEvidence ==
  ASSUME Calm, journal.state \in {"content_verified", "published", "source_deleted", "recovery_required"},
         pc \notin LastSteps
  PROVE  (IF Evidence = NoId THEN journal.staged ELSE Evidence) = journal.staged
<1>1. Copying => journal.staged # NoId /\ Tied
  BY Parts DEF CopyOnDisk, TerminalState
<1> QED BY <1>1, Carried DEF Tied

\* RecordPublished: the copy or the file is at the target.
LEMMA ScenePublished ==
  ASSUME Calm, faults' <= 1, RecordPublished
  PROVE  Scene'
<1>1. PICK next \in {"verify_target", "verify_moved"} :
        /\ pc = "to_published" /\ Record("published", Evidence, next, "park")
        /\ next = "verify_target" <=> Copying
  BY DEF RecordPublished, At
<1>2. /\ Blameless(pc) /\ Exists("target")
      /\ \/ journal.state = "content_verified"
         \/ journal.state = "recovery_required" /\ mode = "recovery"
      /\ IF Copying THEN CopyOnDisk(journal.state) ELSE FileOnDisk(journal.state)
  BY <1>1, Parts DEF Stages, Finds, LastSteps, TerminalState
<1>3. TransitionAllowed(journal.state, "published")
  BY <1>2, Allowed
<1>4. (IF Evidence = NoId THEN journal.staged ELSE Evidence) = journal.staged
  BY <1>1, <1>2, SameEvidence DEF LastSteps
<1>5. /\ UNCHANGED <<fs, staged, mode, loaded, opened>> /\ journal'.strategy = journal.strategy
      /\ \/ journal'.state = "published" /\ journal'.staged = journal.staged /\ faults' = faults /\ pc' = next
         \/ journal' = journal /\ faults = 0 /\ faults' = 1 /\ pc' = "park"
  BY <1>1, <1>3, <1>4, Writes
<1>6. CASE journal' = journal /\ faults = 0 /\ faults' = 1 /\ pc' = "park"
  <2>1. Stages("park")
    BY <1>2, <1>6 DEF Stages, Blameless
  <2> QED BY <1>1, <1>2, <1>5, <1>6, <2>1, SceneUnwritten DEF LastSteps
<1>7. CASE /\ journal'.state = "published" /\ journal'.staged = journal.staged
           /\ faults' = faults /\ pc' = next
  <2>1. Stages(next)'
    BY <1>1, <1>7 DEF Stages
  <2>2. Finds(next)
    BY <1>1, <1>2 DEF Finds, CopyOnDisk
  <2>3. IF Copying THEN CopyOnDisk(journal.state)' ELSE FileOnDisk(journal.state)'
    BY <1>2, <1>5, <1>7 DEF CopyOnDisk, FileOnDisk, Exists, Matches
  <2>4. next \notin RecoverySteps \cup {"fail", "drop_staged", "park"} /\ next # "idle"
    BY DEF RecoverySteps
  <2> QED BY <1>5, <1>7, <2>1, <2>2, <2>3, <2>4, SceneWritten
<1> QED BY <1>5, <1>6, <1>7

\* RecordSourceDeleted and RecordCompleted: the target is all that is left.
LEMMA SceneFinished ==
  ASSUME Calm, faults' <= 1, RecordSourceDeleted \/ RecordCompleted
  PROVE  Scene'
<1>1. PICK to \in {"source_deleted", "completed"}, next \in {"to_completed", "idle"} :
        /\ pc = (IF to = "completed" THEN "to_completed" ELSE "to_source_deleted")
        /\ next = (IF to = "completed" THEN "idle" ELSE "to_completed")
        /\ Record(to, Evidence, next, "park")
  BY DEF RecordSourceDeleted, RecordCompleted, At
<1>2. /\ Blameless(pc) /\ pc \notin LastSteps
      /\ journal.state = (IF to = "completed" THEN "source_deleted" ELSE "published")
      /\ IF Copying THEN CopyOnDisk(journal.state) ELSE FileOnDisk(journal.state)
      /\ ~Exists("source") /\ Exists("target")
  <2>1. pc \in {"to_source_deleted", "to_completed"} /\ pc \notin LastSteps
    BY <1>1 DEF LastSteps
  <2>2. journal.state = (IF to = "completed" THEN "source_deleted" ELSE "published")
    BY <1>1, Parts DEF Stages
  <2>3. IF Copying THEN CopyOnDisk(journal.state) ELSE FileOnDisk(journal.state)
    BY <2>1, <2>2, Parts DEF TerminalState
  <2>4. ~Exists("source") /\ Exists("target")
    BY <2>1, Parts DEF QuietClaims, Matches
  <2> QED BY <2>1, <2>2, <2>3, <2>4, Parts
<1>3. TransitionAllowed(journal.state, to)
  BY <1>1, <1>2, Allowed
<1>4. (IF Evidence = NoId THEN journal.staged ELSE Evidence) = journal.staged
  BY <1>1, <1>2, SameEvidence
<1>5. /\ UNCHANGED <<fs, staged, mode, loaded, opened>> /\ journal'.strategy = journal.strategy
      /\ \/ journal'.state = to /\ journal'.staged = journal.staged /\ faults' = faults /\ pc' = next
         \/ journal' = journal /\ faults = 0 /\ faults' = 1 /\ pc' = "park"
  BY <1>1, <1>3, <1>4, Writes
<1>6. CASE journal' = journal /\ faults = 0 /\ faults' = 1 /\ pc' = "park"
  <2>1. Stages("park")
    BY <1>1, <1>2 DEF Stages
  <2> QED BY <1>2, <1>5, <1>6, <2>1, SceneUnwritten
<1>7. CASE journal'.state = to /\ journal'.staged = journal.staged /\ faults' = faults /\ pc' = next
  <2>1. Stages(next)'
    BY <1>1, <1>7 DEF Stages
  <2>2. Finds(next)
    BY <1>1 DEF Finds
  <2>3. journal'.state \in TerminalState
          \/ (IF Copying THEN CopyOnDisk(journal.state)' ELSE FileOnDisk(journal.state)')
    BY <1>1, <1>2, <1>5, <1>7 DEF CopyOnDisk, FileOnDisk, Exists, Matches, TerminalState
  <2>4. next \notin RecoverySteps \cup {"fail", "drop_staged", "park"}
    BY DEF RecoverySteps
  <2>5. next = "idle" => ~Open'
    BY <1>1, <1>7 DEF Open, OpenState, TerminalState
  <2> QED BY <1>5, <1>7, <2>1, <2>2, <2>3, <2>4, <2>5, SceneWritten
<1> QED BY <1>5, <1>6, <1>7

\* CloseFailed and RecordFailed: the second write does not fail again.
LEMMA SceneClosed ==
  ASSUME Calm, faults' <= 1, CloseFailed \/ RecordFailed
  PROVE  Scene'
<1>1. PICK onError \in {"idle", "park"} :
        pc \in {"fail", "to_failed"} /\ Record("failed", NoId, "idle", onError)
  BY DEF CloseFailed, RecordFailed, At
<1>2. faults # 0 /\ Open
  BY <1>1, Parts DEF Blameless, RecoverySteps, Life
<1>3. TransitionAllowed(journal.state, "failed")
  BY <1>2, Allowed DEF Open
<1>4. (IF NoId = NoId THEN journal.staged ELSE NoId) = journal.staged
  OBVIOUS
<1>5. /\ UNCHANGED <<fs, staged, mode, loaded, opened>> /\ journal'.strategy = journal.strategy
      /\ journal'.state = "failed" /\ journal'.staged = journal.staged /\ faults' = faults /\ pc' = "idle"
  BY <1>1, <1>2, <1>3, <1>4, Writes
<1>6. Stages("idle")' /\ Finds("idle") /\ ~Open' /\ journal'.state \in TerminalState
  BY <1>5 DEF Stages, Finds, Open, OpenState, TerminalState
<1> QED BY <1>5, <1>6, SceneWritten DEF RecoverySteps

\* Park: what is at the target stays in evidence.
LEMMA SceneParked ==
  ASSUME Calm, faults' <= 1, Park
  PROVE  Scene'
<1>1. /\ pc = "park" /\ mode # "recovery" /\ faults # 0 /\ Exists("target")
      /\ journal.state \in {"content_verified", "published", "source_deleted"}
      /\ IF Copying THEN CopyOnDisk(journal.state) ELSE FileOnDisk(journal.state)
  <2>1. pc = "park"
    BY DEF Park, At
  <2>2. journal.state \in {"content_verified", "published", "source_deleted"} /\ pc \notin LastSteps
    BY <2>1, Parts DEF Stages, LastSteps
  <2>3. IF Copying THEN CopyOnDisk(journal.state) ELSE FileOnDisk(journal.state)
    BY <2>2, Parts DEF TerminalState
  <2> QED BY <2>1, <2>2, <2>3, Parts DEF Blameless, Finds
<1>2. Record("recovery_required", Evidence, "idle", "idle")
  BY <1>1 DEF Park
<1>3. TransitionAllowed(journal.state, "recovery_required")
  BY <1>1, Allowed DEF OpenState, JournalState, TerminalState
<1>4. (IF Evidence = NoId THEN journal.staged ELSE Evidence) = journal.staged
  BY <1>1, SameEvidence DEF LastSteps
<1>5. /\ UNCHANGED <<fs, staged, mode, loaded, opened>> /\ journal'.strategy = journal.strategy
      /\ journal'.state = "recovery_required" /\ journal'.staged = journal.staged
      /\ faults' = faults /\ pc' = "idle"
  BY <1>1, <1>2, <1>3, <1>4, Writes
<1>6. Stages("idle")' /\ Finds("idle")
  BY DEF Stages, Finds
<1>7. IF Copying THEN CopyOnDisk(journal.state)' ELSE FileOnDisk(journal.state)'
  BY <1>1, <1>5 DEF CopyOnDisk, FileOnDisk, Exists, Matches
<1> QED BY <1>1, <1>5, <1>6, <1>7, SceneWritten DEF RecoverySteps

\* Preflight and Prepare: the entry begins with the file where it was scanned.
LEMMA SceneBegun ==
  ASSUME Calm, faults' <= 1, Preflight \/ Prepare
  PROVE  Scene'
<1>1. /\ UNCHANGED <<fs, mode, loaded, opened>> /\ journal.state = "none" /\ mode # "recovery"
      /\ pc \in {"idle", "prepare"} /\ ~Exists("temporary")
  BY Parts DEF Preflight, Prepare, At, Life, Keep
<1>2. /\ IF Copying THEN CopyOnDisk("none") ELSE FileOnDisk("none")
      /\ Exists("source")
  <2>1. pc \notin LastSteps /\ journal.state \notin TerminalState
    BY <1>1 DEF LastSteps, TerminalState
  <2> QED BY <1>1, <2>1, Parts DEF CopyOnDisk, FileOnDisk
<1>3. CASE Preflight
  <2>1. /\ pc' = "prepare" /\ UNCHANGED <<journal, faults>>
        /\ staged' = IF Copying THEN Absent ELSE fs["source"]
    BY <1>3 DEF Preflight, Goto
  <2>2. Blameless(pc)' /\ Stages(pc)' /\ Finds(pc)'
    <3>1. ~Copying' => staged' # Absent
      BY <1>2, <2>1 DEF Copying, Exists
    <3> QED BY <1>1, <2>1, <3>1 DEF Blameless, Stages, Finds, RecoverySteps
  <2>3. Copying' => Tied'
    BY <1>1, <1>2, <2>1, Parts DEF Tied, Copying, CopyOnDisk, Exists
  <2>4. IF Copying' THEN CopyOnDisk(journal.state)' ELSE FileOnDisk(journal.state)'
    BY <1>1, <1>2, <2>1 DEF Copying, CopyOnDisk, FileOnDisk, Exists, Matches
  <2> QED BY <2>2, <2>3, <2>4 DEF Scene
<1>4. CASE Prepare
  <2>1. /\ pc = "prepare" /\ UNCHANGED staged
        /\ \/ /\ journal' = [journal EXCEPT !.state = "prepared"] /\ NoFault
              /\ pc' = (IF Copying THEN "to_staging" ELSE "to_verified")
           \/ pc' = "idle" /\ UNCHANGED journal /\ Fault
    BY <1>4 DEF Prepare, At, Goto
  <2>2. CASE pc' = "idle" /\ UNCHANGED journal /\ Fault
    <3>1. faults = 0 /\ faults' = 1
      BY <2>2, OneFault
    <3> QED BY <1>1, <2>1, <2>2, <3>1, SceneUnwritten DEF LastSteps
  <2>3. CASE /\ journal' = [journal EXCEPT !.state = "prepared"] /\ NoFault
             /\ pc' = (IF Copying THEN "to_staging" ELSE "to_verified")
    <3>1. PICK q \in {"to_staging", "to_verified"} : q = IF Copying THEN "to_staging" ELSE "to_verified"
      OBVIOUS
    <3>2. /\ journal'.strategy = journal.strategy /\ journal'.staged = journal.staged
          /\ journal'.state = "prepared" /\ pc' = q /\ faults' = faults
      <4>1. journal \in [strategy: Strategy, state: JournalState \cup {"none"}, staged: Id \cup {NoId}]
        BY Parts DEF TypeOK
      <4> QED BY <2>3, <3>1, <4>1 DEF NoFault
    <3>3. Stages(q)'
      BY <3>1, <3>2 DEF Stages, Copying
    <3>4. Finds(q)
      <4>1. ~Copying => staged # Absent
        BY <2>1, Parts DEF Finds
      <4> QED BY <3>1, <4>1 DEF Finds
    <3>5. IF Copying THEN CopyOnDisk(journal.state)' ELSE FileOnDisk(journal.state)'
      BY <1>1, <1>2, <3>2 DEF CopyOnDisk, FileOnDisk, Exists, Matches
    <3>6. q \notin RecoverySteps \cup {"fail", "drop_staged", "park"} /\ q # "idle"
      BY DEF RecoverySteps
    <3> QED BY <1>1, <2>1, <3>2, <3>3, <3>4, <3>5, <3>6, SceneWritten
  <2> QED BY <2>1, <2>2, <2>3
<1> QED BY <1>3, <1>4

----------------------------------------------------------------------------
\* The call that failed was the first, and a run gives up.
LEMMA SceneGivenUp ==
  ASSUME Calm, UNCHANGED <<fs, journal, staged, mode, loaded>>, opened' = NoId, faults = 0, faults' = 1,
         NEW q \in {"idle", "fail", "drop_staged", "park"}, pc' = q,
         q = "park" => Stages("park") /\ Exists("target")
  PROVE  Scene'
<1>1. mode # "recovery" /\ pc \notin LastSteps
  BY Parts DEF Blameless, LastSteps, RecoverySteps
<1>2. Blameless(pc)' /\ Stages(pc)' /\ Finds(pc)'
  BY <1>1 DEF Blameless, Stages, Finds, RecoverySteps, Exists
<1>3. Copying' => Tied'
  BY Parts DEF Copying, Tied, Exists
<1>4. journal'.state \notin TerminalState =>
        IF Copying' THEN CopyOnDisk(journal.state)' ELSE FileOnDisk(journal.state)'
  BY <1>1, Parts DEF Copying, CopyOnDisk, FileOnDisk, Matches, Exists
<1> QED BY <1>2, <1>3, <1>4 DEF Scene

\* A look at the disk does not fail for what it finds.
LEMMA LooksOnce ==
  ASSUME Calm, faults' <= 1, NEW ok, NEW next, NEW otherwise, Check(ok, next, otherwise), ok
  PROVE  /\ UNCHANGED <<fs, journal, staged, mode, loaded, opened, touched>>
         /\ \/ pc' = next /\ faults' = faults
            \/ pc' = otherwise /\ faults = 0 /\ faults' = 1
BY OneFault DEF Check, Keep, Goto

\* CompareStaged: the copy is the scanned content.
LEMMA SceneCompared ==
  ASSUME Calm, faults' <= 1, CompareStaged
  PROVE  Scene'
<1>1. pc = "compare" /\ staged.content = "orig" /\ Copying /\ journal.state = "staged"
      /\ Matches("temporary", NoId) /\ fs["temporary"] = staged
  <2>1. pc = "compare"
    BY DEF CompareStaged, At
  <2> QED BY <2>1, Parts DEF Claims, CopySteps, Stages, Finds, Matches
<1>2. UNCHANGED <<fs, journal, staged, mode, loaded, opened, faults>> /\ pc' = "to_verified"
  BY <1>1 DEF CompareStaged, Keep, Goto
<1>3. Stages("to_verified") /\ Finds("to_verified")'
  BY <1>1, <1>2 DEF Stages, Finds, Matches, Exists
<1>4. mode = "recovery" => faults # 0
  BY Parts DEF Blameless
<1> QED BY <1>1, <1>2, <1>3, <1>4, SceneKept DEF LastSteps, RecoverySteps

\* VerifyTarget and VerifyMoved: the target is what was published.
LEMMA SceneTargetSeen ==
  ASSUME Calm, faults' <= 1, VerifyTarget \/ VerifyMoved
  PROVE  Scene'
<1>1. /\ pc \in {"verify_target", "verify_moved"} /\ pc \notin LastSteps
      /\ pc = "verify_target" <=> Copying
  BY Parts DEF VerifyTarget, VerifyMoved, At, LastSteps, Claims, CopySteps, RenameSteps
<1>2. journal.state \in {"published", "source_deleted"} /\ journal.state \notin TerminalState
  BY <1>1, Parts DEF Stages, TerminalState
<1>3. /\ Exists("target")
      /\ Copying => CopyOnDisk(journal.state) /\ Matches("target", loaded)
      /\ ~Copying => OnlyAt("target", "source")
  BY <1>1, <1>2, Parts, Scenery DEF CopyOnDisk, FileOnDisk
<1>4. PICK next \in {"verify_source", "to_completed", "to_source_deleted"} :
        /\ UNCHANGED <<fs, journal, staged, mode, loaded, opened>>
        /\ \/ pc' = next /\ faults' = faults
           \/ pc' = "park" /\ faults = 0 /\ faults' = 1
        /\ next = "verify_source" <=> Copying
        /\ next = "to_completed" => journal.state = "source_deleted"
        /\ next = "to_source_deleted" => journal.state = "published"
  <2>1. CASE VerifyTarget
    <3>1. Check(Matches("target", loaded), "verify_source", "park") /\ Copying
      BY <1>1, <2>1 DEF VerifyTarget, At
    <3> QED BY <1>3, <3>1, LooksOnce
  <2>2. CASE VerifyMoved
    <3>1. PICK next \in {"to_completed", "to_source_deleted"} :
            /\ Check(OnlyAt("target", "source"), next, "park") /\ ~Copying
            /\ next = IF journal.state = "source_deleted" THEN "to_completed" ELSE "to_source_deleted"
      BY <1>1, <2>2 DEF VerifyMoved, At
    <3> QED BY <1>2, <1>3, <3>1, LooksOnce
  <2> QED BY <2>1, <2>2
<1>5. CASE pc' = "park" /\ faults = 0 /\ faults' = 1
  <2>1. Stages("park") /\ opened' = NoId
    BY <1>1, <1>2, <1>4, Parts DEF Stages, TypeOK, Holding
  <2> QED BY <1>3, <1>4, <1>5, <2>1, SceneGivenUp
<1>6. CASE pc' = next /\ faults' = faults
  <2>1. Stages(next)
    BY <1>1, <1>2, <1>4 DEF Stages
  <2>2. Finds(next)'
    <3>1. next = "verify_source" /\ mode # "recovery" => Exists("source")
      BY <1>1, <1>4, Parts DEF Finds
    <3> QED BY <1>4, <3>1 DEF Finds, Exists
  <2>3. mode = "recovery" => faults # 0
    BY Parts DEF Blameless
  <2>4. next \notin LastSteps \cup RecoverySteps \cup {"idle", "park"}
    BY DEF LastSteps, RecoverySteps
  <2> QED BY <1>1, <1>4, <1>6, <2>1, <2>2, <2>3, <2>4, SceneKept DEF LastSteps
<1> QED BY <1>4, <1>5, <1>6

\* VerifySource: the source is gone, or it is the scanned file.
LEMMA SceneSourceSeen ==
  ASSUME Calm, faults' <= 1, VerifySource
  PROVE  Scene'
<1>1. /\ pc = "verify_source" /\ Copying /\ pc \notin LastSteps
      /\ journal.state \in {"published", "source_deleted"} /\ journal.state \notin TerminalState
      /\ mode # "recovery" => Exists("source")
  <2>1. pc = "verify_source"
    BY DEF VerifySource, At
  <2> QED BY <2>1, Parts DEF LastSteps, Claims, CopySteps, Stages, Finds, TerminalState
<1>2. CopyOnDisk(journal.state) /\ Exists("target")
  BY <1>1, Parts DEF CopyOnDisk
<1>3. mode = "recovery" => faults # 0
  BY Parts DEF Blameless
<1>4. CASE mode = "recovery" /\ ~Exists("source")
  <2>1. PICK q \in {"to_completed", "to_source_deleted"} :
          /\ q = IF journal.state = "source_deleted" THEN "to_completed" ELSE "to_source_deleted"
          /\ pc' = q /\ UNCHANGED <<fs, journal, staged, mode, loaded, opened, faults>>
    BY <1>4 DEF VerifySource, Goto, Keep
  <2>2. Stages(q) /\ Finds(q)'
    BY <1>1, <2>1 DEF Stages, Finds
  <2> QED BY <1>1, <1>3, <2>1, <2>2, SceneKept DEF LastSteps, RecoverySteps
<1>5. CASE ~(mode = "recovery" /\ ~Exists("source"))
  <2>1. Exists("source") /\ SourceIntact /\ journal.state = "published"
    BY <1>1, <1>2, <1>5, Scenery DEF CopyOnDisk, SourceIntact
  <2>2. Check(SourceIntact /\ ~(mode = "recovery" /\ journal.state = "source_deleted"),
              "delete_source", "park")
    BY <1>5 DEF VerifySource
  <2>3. /\ UNCHANGED <<fs, journal, staged, mode, loaded, opened>>
        /\ \/ pc' = "delete_source" /\ faults' = faults
           \/ pc' = "park" /\ faults = 0 /\ faults' = 1
    BY <2>1, <2>2, LooksOnce
  <2>4. CASE pc' = "park" /\ faults = 0 /\ faults' = 1
    <3>1. Stages("park") /\ opened' = NoId
      BY <1>1, <2>1, <2>3, Parts DEF Stages, TypeOK, Holding
    <3> QED BY <1>2, <2>3, <2>4, <3>1, SceneGivenUp
  <2>5. CASE pc' = "delete_source" /\ faults' = faults
    <3>1. Stages("delete_source") /\ Finds("delete_source")'
      BY <2>1, <2>3 DEF Stages, Finds, Exists
    <3> QED BY <1>1, <1>3, <2>3, <2>5, <3>1, SceneKept DEF LastSteps, RecoverySteps
  <2> QED BY <2>3, <2>4, <2>5
<1> QED BY <1>4, <1>5

\* The worker changed a file, and the entry fits what is on disk now.
LEMMA SceneMoved ==
  ASSUME Calm, UNCHANGED <<journal, mode, loaded, staged>>,
         Copying => \A p \in {"temporary", "target"} : fs'[p] \in {fs[p], Absent, fs["temporary"]},
         NEW q, pc' = q, q # "idle",
         faults' = faults \/ (faults = 0 /\ faults' = 1 /\ q \in {"fail", "drop_staged", "park"}),
         faults' = faults => q \notin {"drop_staged", "park"} /\ (q = "fail" => faults # 0),
         q = "park" => mode # "recovery", q \in RecoverySteps => mode = "recovery",
         Stages(q), Finds(q)',
         q \notin LastSteps => IF Copying THEN CopyOnDisk(journal.state)' ELSE FileOnDisk(journal.state)'
  PROVE  Scene'
<1>1. mode = "recovery" => faults # 0
  BY Parts DEF Blameless
<1>2. Blameless(pc)'
  BY <1>1 DEF Blameless
<1>3. Stages(pc)' /\ Finds(pc)'
  BY DEF Stages, Copying
<1>4. Copying' => Tied'
  <2> SUFFICES ASSUME Copying PROVE Tied'
    BY DEF Copying
  <2>1. Tied
    BY Parts
  <2>2. ASSUME NEW p \in {"temporary", "target"}, Exists(p)'
        PROVE  (fs'[p] = fs[p] /\ Exists(p)) \/ (fs'[p] = fs["temporary"] /\ Exists("temporary"))
    <3>1. fs'[p] \in {fs[p], Absent, fs["temporary"]} /\ fs'[p] # Absent
      BY <2>2 DEF Exists
    <3> QED BY <3>1 DEF Exists
  <2> QED BY <2>1, <2>2 DEF Tied
<1>5. pc' \notin LastSteps /\ journal'.state \notin TerminalState =>
        IF Copying' THEN CopyOnDisk(journal.state)' ELSE FileOnDisk(journal.state)'
  BY DEF Copying
<1> QED BY <1>2, <1>3, <1>4, <1>5 DEF Scene

\* A deletion goes through, or is the one call that fails.
LEMMA DeletesOnce ==
  ASSUME Calm, faults' <= 1, NEW p \in Path, NEW ok, NEW next, NEW otherwise,
         Delete(p, ok, next, otherwise), pc \in DeletesAt[p], Exists(p), ok, ~Opens(p, ok)
  PROVE  /\ UNCHANGED <<journal, staged, mode, loaded, touched>>
         /\ \A q \in Path : q # p => fs'[q] = fs[q]
         /\ \/ pc' = next /\ faults' = faults /\ fs'[p] = Absent
            \/ pc' = otherwise /\ faults = 0 /\ faults' = 1 /\ fs'[p] \in {fs[p], Absent}
<1>1. fs \in [Path -> File \cup {Absent}]
  BY Parts DEF TypeOK
<1>2. fs' = [fs EXCEPT ![p] = Absent] => fs'[p] = Absent /\ (\A q \in Path : q # p => fs'[q] = fs[q])
  BY <1>1
<1>3. UNCHANGED <<journal, staged, mode, loaded, touched>>
  BY DEF Delete
<1>4. opened = NoId \/ opened = fs[p].id
  BY Parts DEF QuietClaims, DeletesAt, Path
<1>5. CASE Validate(p, ok, otherwise)
  <2>1. fs' = fs /\ pc' = otherwise /\ Fault
    BY <1>5 DEF Validate, Opens, Goto
  <2> QED BY <1>3, <2>1, OneFault
<1>6. CASE Dispose(p, next, otherwise)
  <2>1. \/ fs' = [fs EXCEPT ![p] = Absent] /\ NoFault /\ pc' = next
        \/ (fs' = fs \/ fs' = [fs EXCEPT ![p] = Absent]) /\ Fault /\ pc' = otherwise
    BY <1>4, <1>6 DEF Dispose, Goto, Remove, Put
  <2> QED BY <1>2, <1>3, <2>1, OneFault
<1> QED BY <1>5, <1>6 DEF Delete

\* A file is opened for deletion: the scene stays.
LEMMA SceneOpened ==
  ASSUME Calm, NEW p \in Path, NEW ok, Opens(p, ok), pc \in DeletesAt[p],
         UNCHANGED <<journal, staged, mode, loaded>>, faults' = faults
  PROVE  Scene'
<1>1. UNCHANGED <<fs, pc, journal, staged, mode, loaded, faults>> /\ pc # "copying"
  BY DEF Opens, DeletesAt, Path
<1> QED BY <1>1 DEF Calm, Scene, Blameless, Stages, Finds, Tied, CopyOnDisk, FileOnDisk, Copying, Matches,
                    Exists, Open

\* Every deletion begins like that.
LEMMA SceneHeld ==
  ASSUME Calm, NEW p \in Path, NEW ok, NEW next, NEW otherwise, Delete(p, ok, next, otherwise),
         Opens(p, ok), pc \in DeletesAt[p]
  PROVE  Scene'
<1>1. UNCHANGED <<journal, staged, mode, loaded>>
  BY DEF Delete
<1>2. faults' = faults
  <2>1. opened' # NoId
    BY Parts, Typed, Marks DEF Opens, Exists
  <2> QED BY <2>1 DEF Delete, Validate, Dispose, NoFault, Opens
<1> QED BY <1>1, <1>2, SceneOpened

\* StageCreate: the copy begins.
LEMMA SceneCopying ==
  ASSUME Calm, faults' <= 1, StageCreate
  PROVE  Scene'
<1>1. /\ pc = "stage" /\ Copying /\ journal.state = "staging" /\ CopyOnDisk("staging") /\ Tied
      /\ ~Exists("temporary") /\ Exists("source")
  <2>1. pc = "stage" /\ pc \notin LastSteps
    BY DEF StageCreate, At, LastSteps
  <2>2. Copying /\ journal.state = "staging" /\ ~Exists("temporary")
    BY <2>1, Parts DEF Claims, CopySteps, Stages, Finds
  <2> QED BY <2>1, <2>2, Parts DEF CopyOnDisk, TerminalState
<1>2. UNCHANGED <<journal, mode, loaded, touched>>
  BY DEF StageCreate
<1>3. mode = "recovery" => faults # 0
  BY Parts DEF Blameless
<1>4. CASE Fault /\ Goto(StageError) /\ UNCHANGED <<fs, staged, opened>>
  <2>1. faults = 0 /\ faults' = 1 /\ mode # "recovery" /\ opened' = NoId
    BY <1>1, <1>3, <1>4, OneFault, Parts DEF TypeOK, Holding
  <2>2. pc' = "fail"
    BY <1>4, <2>1 DEF Goto, StageError
  <2> QED BY <1>2, <1>4, <2>1, <2>2, SceneGivenUp
<1>5. CASE /\ staged' = [id |-> FreshId, content |-> fs["source"].content, owner |-> "app"]
           /\ opened' = fs["source"].id
           /\ Put("temporary", [staged' EXCEPT !.content = "part"])
           /\ NoFault /\ Goto("copying")
  <2>1. fs["source"] = Scanned /\ opened' = Original /\ FreshId \in Id /\ FreshId # NoId
    BY <1>1, <1>5, Parts, Scenery, Fresh, Marks
  <2>2. fs'["source"] = fs["source"] /\ fs'["target"] = fs["target"] /\ fs'["temporary"].id = FreshId
    <3>1. fs \in [Path -> File \cup {Absent}]
      BY Parts DEF TypeOK
    <3>2. [staged' EXCEPT !.content = "part"].id = FreshId
      BY <1>5
    <3> QED BY <1>5, <3>1, <3>2 DEF Put, Path
  <2>3. Exists("temporary")' /\ Exists("source")' /\ ~Exists("target")'
    BY <1>1, <2>1, <2>2, Marks DEF Exists, CopyOnDisk
  <2>4. pc' = "copying" /\ faults' = faults
    BY <1>5, OneFault DEF Goto
  <2>5. Blameless(pc)'
    BY <1>2, <1>3, <2>4 DEF Blameless, RecoverySteps
  <2>6. Stages(pc)' /\ Finds(pc)'
    BY <1>1, <1>2, <2>1, <2>3, <2>4 DEF Stages, Finds
  <2>7. Copying' /\ Tied' /\ CopyOnDisk(journal.state)'
    BY <1>1, <1>2, <2>3 DEF Copying, Tied, CopyOnDisk
  <2> QED BY <2>5, <2>6, <2>7 DEF Scene
<1> QED BY <1>1, <1>4, <1>5 DEF StageCreate

\* StageFinish: the copy is complete, since its source has not changed.
LEMMA SceneCopied ==
  ASSUME Calm, faults' <= 1, StageFinish
  PROVE  Scene'
<1>1. /\ pc = "copying" /\ Copying /\ journal.state = "staging" /\ CopyOnDisk("staging") /\ Tied
      /\ Exists("temporary") /\ fs["source"] = Scanned /\ opened = Original
      /\ staged.content = "orig" /\ staged.id \in Id
  <2>1. pc = "copying" /\ pc \notin LastSteps
    BY DEF StageFinish, At, LastSteps
  <2>2. /\ Copying /\ journal.state = "staging" /\ Exists("temporary") /\ opened = Original
        /\ staged.content = "orig" /\ staged.id \in Id
    BY <2>1, Parts DEF Claims, CopySteps, Stages, Finds, QuietClaims
  <2>3. CopyOnDisk("staging") /\ Tied
    BY <2>1, <2>2, Parts DEF TerminalState
  <2> QED BY <2>1, <2>2, <2>3, Scenery DEF CopyOnDisk
<1>2. UNCHANGED <<journal, mode, loaded, touched, staged>> /\ opened' = NoId
  BY DEF StageFinish
<1>3. mode = "recovery" => faults # 0
  BY Parts DEF Blameless
<1>4. /\ fs["source"].id = opened /\ fs["source"].content = staged.content
      /\ (IF Exists("temporary") THEN staged ELSE Absent) = staged
      /\ staged # Absent
  BY <1>1, Marks
<1>5. \/ fs' = [fs EXCEPT !["temporary"] = staged] /\ NoFault /\ pc' = "to_staged"
      \/ /\ Fault /\ pc' = StageError
         /\ fs' = fs \/ fs' = [fs EXCEPT !["temporary"] = Absent]
  BY <1>4 DEF StageFinish, Put, Remove, Goto
<1>6. fs \in [Path -> File \cup {Absent}]
  BY Parts DEF TypeOK
<1>7. CASE fs' = [fs EXCEPT !["temporary"] = staged] /\ NoFault /\ pc' = "to_staged"
  <2>1. fs'["source"] = fs["source"] /\ fs'["target"] = fs["target"] /\ fs'["temporary"] = staged
    BY <1>6, <1>7 DEF Path
  <2>2. faults' = faults
    BY <1>7, OneFault
  <2>3. Exists("source")' /\ ~Exists("target")' /\ Matches("temporary", NoId)'
    BY <1>1, <1>4, <2>1, Marks DEF CopyOnDisk, Exists, Matches
  <2>4. Blameless(pc)'
    BY <1>2, <1>3, <1>7, <2>2 DEF Blameless, RecoverySteps
  <2>5. Stages(pc)' /\ Finds(pc)'
    BY <1>1, <1>2, <1>7, <2>1, <2>3 DEF Stages, Finds
  <2>6. Copying' /\ Tied' /\ CopyOnDisk(journal.state)'
    BY <1>1, <1>2, <2>3 DEF Copying, Tied, CopyOnDisk
  <2> QED BY <2>4, <2>5, <2>6 DEF Scene
<1>8. CASE Fault /\ pc' = StageError /\ (fs' = fs \/ fs' = [fs EXCEPT !["temporary"] = Absent])
  <2>1. faults = 0 /\ faults' = 1 /\ mode # "recovery" /\ pc' = "fail"
    BY <1>3, <1>8, OneFault DEF StageError
  <2>2. \A p \in {"temporary", "target"} : fs'[p] \in {fs[p], Absent, fs["temporary"]}
    BY <1>6, <1>8 DEF Path
  <2>3. Stages("fail") /\ Finds("fail")' /\ "fail" \in LastSteps
    BY DEF Stages, Finds, LastSteps
  <2> QED BY <1>2, <2>1, <2>2, <2>3, SceneMoved DEF RecoverySteps
<1> QED BY <1>5, <1>7, <1>8

\* Publish: the target is free, and the copy is there.
LEMMA ScenePublish ==
  ASSUME Calm, faults' <= 1, Publish
  PROVE  Scene'
<1>1. /\ pc = "publish" /\ Copying /\ journal.state = "content_verified" /\ CopyOnDisk("content_verified")
      /\ Matches("temporary", NoId) /\ fs["temporary"] = staged /\ ~Exists("target")
  <2>1. pc = "publish" /\ pc \notin LastSteps
    BY DEF Publish, At, LastSteps
  <2>2. Copying /\ journal.state = "content_verified"
    BY <2>1, Parts DEF Claims, CopySteps, Stages
  <2> QED BY <2>1, <2>2, Parts DEF Finds, TerminalState
<1>2. UNCHANGED <<journal, staged, mode, loaded, opened, touched>>
  BY DEF Publish, Keep
<1>3. mode = "recovery" => faults # 0
  BY Parts DEF Blameless
<1>4. \/ fs' = [fs EXCEPT !["target"] = fs["temporary"]] /\ NoFault /\ pc' = "unstage"
      \/ UNCHANGED fs /\ Fault /\ pc' = PublishError
  BY <1>1 DEF Publish, Put, Goto, Matches
<1>5. CASE UNCHANGED fs /\ Fault /\ pc' = PublishError
  <2>1. faults = 0 /\ faults' = 1 /\ mode # "recovery" /\ opened' = NoId
    BY <1>1, <1>2, <1>3, <1>5, OneFault, Parts DEF TypeOK, Holding
  <2>2. pc' \in {"drop_staged", "fail"}
    BY <1>5, <2>1, Parts DEF PublishError, TypeOK, MutationDirection
  <2>3. pc' \in {"idle", "fail", "drop_staged", "park"} /\ pc' # "park"
    BY <2>2
  <2> QED BY <1>2, <1>5, <2>1, <2>3, SceneGivenUp
<1>6. CASE fs' = [fs EXCEPT !["target"] = fs["temporary"]] /\ NoFault /\ pc' = "unstage"
  <2>1. /\ fs'["source"] = fs["source"] /\ fs'["target"] = fs["temporary"]
        /\ fs'["temporary"] = fs["temporary"]
    <3>1. fs \in [Path -> File \cup {Absent}]
      BY Parts DEF TypeOK
    <3> QED BY <1>6, <3>1 DEF Path
  <2>2. faults' = faults
    BY <1>6, OneFault
  <2>3. Exists("source")' /\ Exists("target")' /\ Matches("temporary", NoId)'
    BY <1>1, <2>1 DEF CopyOnDisk, Exists, Matches
  <2>4. Stages("unstage") /\ Finds("unstage")'
    BY <1>1, <1>2, <2>1, <2>3 DEF Stages, Finds
  <2>5. CopyOnDisk(journal.state)'
    BY <1>1, <1>2, <2>3 DEF CopyOnDisk
  <2>6. \A p \in {"temporary", "target"} : fs'[p] \in {fs[p], Absent, fs["temporary"]}
    BY <2>1
  <2> QED BY <1>1, <1>2, <1>6, <2>2, <2>4, <2>5, <2>6, SceneMoved DEF RecoverySteps
<1> QED BY <1>4, <1>5, <1>6

\* Unstage: the temporary name is what was published.
LEMMA SceneUnstaged ==
  ASSUME Calm, faults' <= 1, Unstage
  PROVE  Scene'
<1>1. /\ pc = "unstage" /\ Copying /\ journal.state = "content_verified" /\ CopyOnDisk("content_verified")
      /\ fs["temporary"] = staged /\ Exists("target")
  <2>1. pc = "unstage" /\ pc \notin LastSteps
    BY DEF Unstage, At, LastSteps
  <2>2. Copying /\ journal.state = "content_verified"
    BY <2>1, Parts DEF Claims, CopySteps, Stages
  <2> QED BY <2>1, <2>2, Parts DEF Finds, TerminalState
<1>2. PICK ok \in BOOLEAN :
        ok /\ Delete("temporary", ok, "to_published", "park")
  BY <1>1 DEF Unstage
<1>10. "temporary" \in Path /\ pc \in DeletesAt["temporary"] /\ Exists("temporary")
  BY <1>1, Parts DEF Path, DeletesAt, Finds, Matches
<1> SUFFICES ASSUME ~Opens("temporary", ok) PROVE Scene'
  BY <1>2, <1>10, SceneHeld
<1>3. /\ UNCHANGED <<journal, staged, mode, loaded, touched>>
      /\ fs'["source"] = fs["source"] /\ fs'["target"] = fs["target"]
      /\ \/ pc' = "to_published" /\ faults' = faults /\ fs'["temporary"] = Absent
         \/ pc' = "park" /\ faults = 0 /\ faults' = 1 /\ fs'["temporary"] \in {fs["temporary"], Absent}
  BY <1>2, <1>10, DeletesOnce DEF Path
<1>4. Exists("source")' /\ Exists("target")'
  BY <1>1, <1>3 DEF Exists, CopyOnDisk
<1>5. CopyOnDisk(journal.state)' /\ mode' = mode
  BY <1>1, <1>3, <1>4 DEF CopyOnDisk
<1>6. \A p \in {"temporary", "target"} : fs'[p] \in {fs[p], Absent, fs["temporary"]}
  BY <1>3
<1>7. /\ Stages("to_published") /\ Finds("to_published")'
      /\ Stages("park") /\ Finds("park")'
  BY <1>1, <1>3, <1>4 DEF Stages, Finds
<1>8. faults = 0 => mode # "recovery"
  BY Parts DEF Blameless
<1>9. PICK q \in {"to_published", "park"} : pc' = q
  BY <1>3
<1> QED BY <1>1, <1>3, <1>5, <1>6, <1>7, <1>8, <1>9, SceneMoved DEF RecoverySteps

\* DropStaged: whether the copy goes or not, the entry is closed next.
LEMMA SceneDropped ==
  ASSUME Calm, faults' <= 1, DropStaged
  PROVE  Scene'
<1>1. pc = "drop_staged" /\ faults # 0
  BY Parts DEF DropStaged, At, Blameless
<1>5. PICK ok : Delete("temporary", ok, "fail", "fail")
  BY DEF DropStaged
<1>6. "temporary" \in Path /\ "fail" \in Step /\ pc \in DeletesAt["temporary"]
  BY <1>1 DEF Path, Step, DeletesAt
<1> SUFFICES ASSUME ~Opens("temporary", ok) PROVE Scene'
  BY <1>5, <1>6, SceneHeld
<1>2. /\ UNCHANGED <<journal, staged, mode, loaded, touched>> /\ pc' = "fail" /\ faults' = faults
      /\ fs' = fs \/ fs' = [fs EXCEPT !["temporary"] = Absent]
  BY <1>1, <1>5, <1>6, OneFault, Deleted DEF Calm
<1>3. \A p \in {"temporary", "target"} : fs'[p] \in {fs[p], Absent, fs["temporary"]}
  <2>1. fs \in [Path -> File \cup {Absent}]
    BY Parts DEF TypeOK
  <2> QED BY <1>2, <2>1 DEF Path
<1>4. Stages("fail") /\ Finds("fail")' /\ "fail" \in LastSteps
  BY DEF Stages, Finds, LastSteps
<1> QED BY <1>1, <1>2, <1>3, <1>4, SceneMoved DEF RecoverySteps

\* DeleteSource: the target stays.
LEMMA SceneSourceDeleted ==
  ASSUME Calm, faults' <= 1, DeleteSource
  PROVE  Scene'
<1>1. /\ pc = "delete_source" /\ Copying /\ journal.state = "published" /\ CopyOnDisk("published")
      /\ SourceIntact
  <2>1. pc = "delete_source" /\ pc \notin LastSteps
    BY DEF DeleteSource, At, LastSteps
  <2>2. Copying /\ journal.state = "published" /\ Exists("source")
    BY <2>1, Parts DEF Claims, CopySteps, Stages, Finds
  <2> QED BY <2>1, <2>2, Parts, Scenery DEF TerminalState, SourceIntact
<1>2. PICK ok \in BOOLEAN :
        ok /\ Delete("source", ok, "to_source_deleted", "park")
  BY <1>1 DEF DeleteSource
<1>10. "source" \in Path /\ pc \in DeletesAt["source"] /\ Exists("source")
  BY <1>1 DEF Path, DeletesAt, SourceIntact, Matches
<1> SUFFICES ASSUME ~Opens("source", ok) PROVE Scene'
  BY <1>2, <1>10, SceneHeld
<1>3. /\ UNCHANGED <<journal, staged, mode, loaded, touched>>
      /\ fs'["temporary"] = fs["temporary"] /\ fs'["target"] = fs["target"]
      /\ \/ pc' = "to_source_deleted" /\ faults' = faults
         \/ pc' = "park" /\ faults = 0 /\ faults' = 1
  BY <1>2, <1>10, DeletesOnce DEF Path
<1>4. Exists("target")' /\ CopyOnDisk(journal.state)'
  BY <1>1, <1>3 DEF Exists, CopyOnDisk
<1>5. \A p \in {"temporary", "target"} : fs'[p] \in {fs[p], Absent, fs["temporary"]}
  BY <1>3
<1>6. /\ Stages("to_source_deleted") /\ Finds("to_source_deleted")'
      /\ Stages("park") /\ Finds("park")'
  BY <1>1, <1>4 DEF Stages, Finds
<1>7. faults = 0 => mode # "recovery"
  BY Parts DEF Blameless
<1>8. PICK q \in {"to_source_deleted", "park"} : pc' = q
  BY <1>3
<1> QED BY <1>1, <1>3, <1>4, <1>5, <1>6, <1>7, <1>8, SceneMoved DEF RecoverySteps

\* Discard and DeleteTarget: a recovery deletes what it matched, and closes the entry.
LEMMA SceneDiscarded ==
  ASSUME Calm, faults' <= 1, Discard \/ DeleteTarget
  PROVE  Scene'
<1>1. PICK p \in {"temporary", "target"} :
        /\ pc = (IF p = "target" THEN "delete_target" ELSE "discard")
        /\ Delete(p, Matches(p, loaded), "to_failed", "park")
  BY DEF Discard, DeleteTarget, At
<1>2. mode = "recovery" /\ faults # 0 /\ Copying
  BY <1>1, Parts DEF Blameless, RecoverySteps, Claims, CopySteps
<1>3. Matches(p, loaded)
  BY <1>1, <1>2, Parts, Scenery DEF Finds
<1>8. PICK ok \in BOOLEAN : ok /\ Delete(p, ok, "to_failed", "park")
  BY <1>1, <1>3 DEF Matches, Exists
<1>4. p \in Path /\ pc \in DeletesAt[p] /\ Exists(p)
  BY <1>1, <1>3 DEF Path, DeletesAt, Matches
<1> SUFFICES ASSUME ~Opens(p, ok) PROVE Scene'
  BY <1>4, <1>8, SceneHeld
<1>5. /\ UNCHANGED <<journal, staged, mode, loaded, touched>>
      /\ pc' = "to_failed" /\ faults' = faults /\ fs'[p] = Absent
      /\ \A q \in Path : q # p => fs'[q] = fs[q]
  BY <1>2, <1>4, <1>8, DeletesOnce
<1>6. \A q \in {"temporary", "target"} : fs'[q] \in {fs[q], Absent, fs["temporary"]}
  BY <1>5 DEF Path
<1>7. Stages("to_failed") /\ Finds("to_failed")' /\ "to_failed" \in LastSteps
  BY DEF Stages, Finds, LastSteps
<1> QED BY <1>2, <1>5, <1>6, <1>7, SceneMoved

\* A rename goes through, or is the one call that fails.
LEMMA Renames ==
  ASSUME Calm, faults' <= 1, ~Copying, NEW from \in {"source", "target"}, NEW to \in {"source", "target"},
         from # to, Exists(from), NEW next, NEW notMoved, AtomicMove(from, to, next, notMoved)
  PROVE  /\ UNCHANGED <<journal, staged, mode, loaded, opened, touched>>
         /\ \/ Exists(to)' /\ pc' = next /\ faults' = faults
            \/ Exists(to)' /\ pc' = "park" /\ faults = 0 /\ faults' = 1
            \/ UNCHANGED fs /\ pc' = notMoved /\ faults = 0 /\ faults' = 1
<1>1. Matches(from, Original) /\ ~Exists(to)
  BY Scenery
<1>2. fs \in [Path -> File \cup {Absent}] /\ from \in Path /\ to \in Path
  BY Parts DEF TypeOK, Path
<1>3. /\ UNCHANGED <<journal, staged, mode, loaded, opened, touched>>
      /\ \/ fs' = [fs EXCEPT ![to] = fs[from], ![from] = Absent] /\ NoFault /\ pc' = next
         \/ fs' = [fs EXCEPT ![to] = fs[from], ![from] = Absent] /\ Fault /\ pc' = "park"
         \/ UNCHANGED fs /\ Fault /\ pc' = notMoved
  BY <1>1 DEF AtomicMove, Keep, Goto
<1>4. fs' = [fs EXCEPT ![to] = fs[from], ![from] = Absent] => Exists(to)'
  BY <1>2 DEF Exists
<1> QED BY <1>3, <1>4, OneFault

\* Rename: the file is at the target, and an entry that could not be written is parked.
LEMMA SceneRenamed ==
  ASSUME Calm, faults' <= 1, Rename
  PROVE  Scene'
<1>1. pc = "rename" /\ ~Copying /\ journal.state = "content_verified" /\ Exists("source")
  BY Parts DEF Rename, At, Claims, RenameSteps, Stages, Finds
<1>2. PICK notMoved \in {"park", "fail"} :
        /\ AtomicMove("source", "target", "to_published", notMoved)
        /\ notMoved = "park" => mode = "recovery"
  BY <1>1 DEF Rename
<1>3. mode = "recovery" => faults # 0
  BY Parts DEF Blameless
<1>4. /\ UNCHANGED <<journal, staged, mode, loaded, opened, touched>>
      /\ \/ Exists("target")' /\ pc' = "to_published" /\ faults' = faults
         \/ Exists("target")' /\ pc' = "park" /\ faults = 0 /\ faults' = 1
         \/ UNCHANGED fs /\ pc' = notMoved /\ faults = 0 /\ faults' = 1
  BY <1>1, <1>2, Renames
<1>5. CASE UNCHANGED fs /\ pc' = notMoved /\ faults = 0 /\ faults' = 1
  <2>1. notMoved = "fail" /\ opened' = NoId
    BY <1>1, <1>2, <1>3, <1>4, <1>5, Parts DEF TypeOK, Holding
  <2> QED BY <1>4, <1>5, <2>1, SceneGivenUp
<1>6. CASE /\ Exists("target")'
           /\ \/ pc' = "to_published" /\ faults' = faults
              \/ pc' = "park" /\ faults = 0 /\ faults' = 1
  <2>1. FileOnDisk(journal.state)'
    BY <1>1, <1>4, <1>6 DEF FileOnDisk
  <2>2. /\ Stages("to_published") /\ Finds("to_published")'
        /\ Stages("park") /\ Finds("park")'
    BY <1>1, <1>6 DEF Stages, Finds
  <2>3. PICK q \in {"to_published", "park"} : pc' = q
    BY <1>6
  <2> QED BY <1>1, <1>3, <1>4, <1>6, <2>1, <2>2, <2>3, SceneMoved DEF RecoverySteps
<1> QED BY <1>4, <1>5, <1>6

\* MoveBack: the file is at its source again.
LEMMA SceneMovedBack ==
  ASSUME Calm, faults' <= 1, MoveBack
  PROVE  Scene'
<1>1. pc = "move_back" /\ ~Copying /\ Exists("target") /\ mode = "recovery" /\ faults # 0
  BY Parts DEF MoveBack, At, Claims, RenameSteps, Finds, Blameless, RecoverySteps
<1>2. AtomicMove("target", "source", "verify_back", "park")
  BY DEF MoveBack
<1>3. /\ UNCHANGED <<journal, staged, mode, loaded, opened, touched>>
      /\ Exists("source")' /\ pc' = "verify_back" /\ faults' = faults
  BY <1>1, <1>2, Renames
<1>4. Stages("verify_back") /\ Finds("verify_back")' /\ "verify_back" \in LastSteps
  BY <1>3 DEF Stages, Finds, LastSteps
<1> QED BY <1>1, <1>3, <1>4, SceneMoved

\* Withdraw, TurnBack and VerifyBack: a recovery finds the files as its preflight did.
LEMMA SceneTurned ==
  ASSUME Calm, faults' <= 1, Withdraw \/ TurnBack \/ VerifyBack
  PROVE  Scene'
<1>1. pc \in {"withdraw", "turn_back", "verify_back"}
  BY DEF Withdraw, TurnBack, VerifyBack, At
<1>2. mode = "recovery" /\ faults # 0
  BY <1>1, Parts DEF Blameless, RecoverySteps
<1>3. PICK q \in {"delete_target", "verify_back", "move_back", "to_failed"} :
        /\ UNCHANGED <<fs, journal, staged, mode, loaded, opened>> /\ pc' = q /\ faults' = faults
        /\ q = "delete_target" => Exists("target")
        /\ q = "verify_back" => Exists("source")
        /\ q = "move_back" => Exists("target")
        /\ pc \in LastSteps => q = "to_failed"
  <2>1. CASE Withdraw
    <3>1. /\ pc = "withdraw" /\ Copying /\ Exists("target") /\ Exists("source")
          /\ Check(SourceIntact /\ Matches("target", loaded), "delete_target", "idle")
      BY <2>1, Parts DEF Withdraw, At, Claims, CopySteps, Finds
    <3>2. SourceIntact /\ Matches("target", loaded)
      BY <3>1, Scenery DEF SourceIntact
    <3> QED BY <1>2, <3>1, <3>2, LooksOnce DEF LastSteps
  <2>2. CASE TurnBack
    <3>1. pc = "turn_back" /\ ~Copying
      BY <2>2, Parts DEF TurnBack, At, Claims, RenameSteps
    <3>2. /\ UNCHANGED <<fs, journal, staged, mode, loaded, opened, faults>>
          /\ pc' = CASE OnlyAt("source", "target") -> "verify_back"
                     [] OnlyAt("target", "source") -> "move_back"
                     [] OTHER -> "idle"
      BY <2>2 DEF TurnBack, Keep, Goto
    <3>3. \/ OnlyAt("source", "target") /\ ~OnlyAt("target", "source") /\ Exists("source")
          \/ OnlyAt("target", "source") /\ ~OnlyAt("source", "target") /\ Exists("target")
      BY <3>1, Scenery DEF OnlyAt, Matches
    <3> QED BY <3>1, <3>2, <3>3 DEF LastSteps
  <2>3. CASE VerifyBack
    <3>1. pc = "verify_back" /\ ~Copying /\ Exists("source")
      BY <2>3, Parts DEF VerifyBack, At, Claims, RenameSteps, Finds
    <3>2. Check(OnlyAt("source", "target"), "to_failed", "park") /\ OnlyAt("source", "target")
      BY <2>3, <3>1, Scenery DEF VerifyBack
    <3> QED BY <1>2, <3>2, LooksOnce
  <2> QED BY <2>1, <2>2, <2>3
<1>4. Stages(q) /\ Finds(q)'
  BY <1>3 DEF Stages, Finds, Exists
<1> QED BY <1>2, <1>3, <1>4, SceneKept DEF LastSteps

\* ResumeUnpublished: nothing is at the target; a copy is adopted or made anew.
LEMMA SceneResumedUnpublished ==
  ASSUME Calm, faults' <= 1, ResumeUnpublished
  PROVE  Scene'
<1>1. /\ pc = "resume" /\ Copying /\ ~Exists("target") /\ mode = "recovery" /\ faults # 0
      /\ Open /\ CopyOnDisk(journal.state) /\ Tied /\ staged = Absent
      /\ Exists("temporary") => Matches("temporary", NoId)
  <2>1. pc = "resume" /\ Copying /\ ~Exists("target") /\ pc \notin LastSteps
    BY DEF ResumeUnpublished, At, LastSteps
  <2>2. Open /\ journal.state \notin TerminalState
    BY <2>1, Parts DEF Life, Open, OpenState
  <2> QED BY <2>1, <2>2, Parts DEF Blameless, RecoverySteps, Claims, Finds
<1>2. UNCHANGED <<fs, journal, faults, mode, loaded, opened>>
  BY DEF ResumeUnpublished, Keep
<1>3. Open => journal.state \in {"prepared", "staging", "staged", "content_verified", "published",
                                 "source_deleted", "recovery_required"}
  BY DEF Open, OpenState, JournalState, TerminalState
<1>4. CASE Exists("temporary")
  <2>1. Matches("temporary", loaded)
    BY <1>1, <1>4, Scenery
  <2>2. journal.state \in {"staging", "staged", "content_verified"}
    BY <1>1, <1>3, <1>4 DEF CopyOnDisk
  <2>3. /\ staged' = fs["temporary"]
        /\ pc' = CASE journal.state \in {"staging", "recovery_required"} -> "to_staged"
                   [] journal.state = "staged" -> "to_verified"
                   [] journal.state = "content_verified" -> "publish"
                   [] OTHER -> "idle"
    BY <1>4, <2>1 DEF ResumeUnpublished, Goto
  <2>4. PICK q \in {"to_staged", "to_verified", "publish"} :
          /\ pc' = q
          /\ q = "to_staged" => journal.state = "staging"
          /\ q = "to_verified" => journal.state = "staged"
          /\ q = "publish" => journal.state = "content_verified"
    BY <2>2, <2>3
  <2>5. Stages(pc)'
    BY <1>1, <1>2, <2>4 DEF Stages, Copying
  <2>6. Finds(pc)'
    BY <1>1, <1>2, <1>4, <2>3, <2>4 DEF Finds, Copying, Matches, Exists
  <2>7. Blameless(pc)'
    BY <1>1, <1>2, <2>4 DEF Blameless, RecoverySteps
  <2>8. Tied'
    BY <1>1, <1>2, <1>4, <2>3 DEF Tied, Exists
  <2>9. Copying' /\ CopyOnDisk(journal.state)'
    BY <1>1, <1>2 DEF Copying, CopyOnDisk, Exists, Matches
  <2> QED BY <2>5, <2>6, <2>7, <2>8, <2>9 DEF Scene
<1>5. CASE ~Exists("temporary")
  <2>1. journal.state \in {"prepared", "staging"} /\ SourceIntact
    BY <1>1, <1>3, <1>5, Scenery DEF CopyOnDisk, Matches, SourceIntact
  <2>2. /\ UNCHANGED staged
        /\ pc' = IF SourceIntact /\ journal.state \in {"prepared", "recovery_required"}
                 THEN "to_staging"
                 ELSE IF SourceIntact /\ journal.state = "staging" THEN "stage" ELSE "idle"
    BY <1>5 DEF ResumeUnpublished, Goto
  <2>3. PICK q \in {"to_staging", "stage"} :
          /\ pc' = q
          /\ q = "to_staging" => journal.state = "prepared"
          /\ q = "stage" => journal.state = "staging"
    BY <2>1, <2>2
  <2>4. Stages(q) /\ Finds(q)'
    BY <1>2, <1>5, <2>3 DEF Stages, Finds, Exists
  <2> QED BY <1>1, <1>2, <2>2, <2>3, <2>4, SceneKept DEF LastSteps, RecoverySteps
<1> QED BY <1>4, <1>5

\* ResumePublished: the target is the copy the entry knows, and the entry catches up.
LEMMA SceneResumedPublished ==
  ASSUME Calm, faults' <= 1, ResumePublished
  PROVE  Scene'
<1>1. /\ pc = "resume" /\ Copying /\ Exists("target") /\ mode = "recovery" /\ faults # 0
      /\ journal.state \in {"content_verified", "published", "source_deleted", "recovery_required"}
  <2>1. pc = "resume" /\ Copying /\ Exists("target") /\ pc \notin LastSteps
    BY DEF ResumePublished, At, LastSteps
  <2>2. Open /\ journal.state \notin TerminalState
    BY <2>1, Parts DEF Life, Open, OpenState
  <2>3. CopyOnDisk(journal.state) /\ journal.state \in OpenState
    BY <2>1, <2>2, Parts DEF Open
  <2>4. journal.state \in {"content_verified", "published", "source_deleted", "recovery_required"}
    BY <2>1, <2>3 DEF OpenState, JournalState, TerminalState, CopyOnDisk
  <2> QED BY <2>1, <2>4, Parts DEF Blameless, RecoverySteps
<1>2. PICK q \in {"to_published", "verify_target"} :
        /\ q = IF journal.state \in {"published", "source_deleted"} THEN "verify_target" ELSE "to_published"
        /\ Check(Matches("target", loaded), q, "park")
  <2>1. Check(Matches("target", loaded),
              IF journal.state \in {"prepared", "staging"} /\ loaded = NoId THEN "idle"
              ELSE CASE journal.state = "staging" -> "to_staged"
                     [] journal.state \in {"prepared", "staged"} -> "to_verified"
                     [] journal.state \in {"published", "source_deleted"} -> "verify_target"
                     [] OTHER -> "to_published",
              "park")
    BY DEF ResumePublished
  <2>2. CASE journal.state \in {"published", "source_deleted"}
    <3>1. Check(Matches("target", loaded), "verify_target", "park")
      BY <2>1, <2>2
    <3> QED BY <2>2, <3>1
  <2>3. CASE journal.state \in {"content_verified", "recovery_required"}
    <3>1. Check(Matches("target", loaded), "to_published", "park")
      BY <2>1, <2>3
    <3> QED BY <2>3, <3>1
  <2> QED BY <1>1, <2>2, <2>3
<1>3. Matches("target", loaded)
  BY <1>1, Scenery
<1>4. UNCHANGED <<fs, journal, staged, mode, loaded, opened>> /\ pc' = q /\ faults' = faults
  BY <1>1, <1>2, <1>3, LooksOnce
<1>5. Stages(q) /\ Finds(q)'
  BY <1>1, <1>2, <1>4 DEF Stages, Finds, Exists
<1> QED BY <1>1, <1>4, <1>5, SceneKept DEF LastSteps, RecoverySteps

\* ResumeAtomic: the file is at one of the two places, and the entry says which.
LEMMA SceneResumedAtomic ==
  ASSUME Calm, faults' <= 1, ResumeAtomic
  PROVE  Scene'
<1>1. /\ pc = "resume" /\ ~Copying /\ mode = "recovery" /\ faults # 0 /\ staged = Absent
      /\ FileOnDisk(journal.state) /\ journal.state \in OpenState
  <2>1. pc = "resume" /\ ~Copying /\ pc \notin LastSteps
    BY DEF ResumeAtomic, At, LastSteps
  <2>2. Open /\ journal.state \notin TerminalState
    BY <2>1, Parts DEF Life, Open, OpenState
  <2> QED BY <2>1, <2>2, Parts DEF Blameless, RecoverySteps, Claims, Open
<1>2. UNCHANGED <<fs, journal, faults, mode, loaded, opened>>
  BY DEF ResumeAtomic, Keep
<1>3. \/ OnlyAt("source", "target") /\ ~OnlyAt("target", "source") /\ Exists("source")
      \/ OnlyAt("target", "source") /\ ~OnlyAt("source", "target") /\ Exists("target") /\ ~Exists("source")
  BY <1>1, Scenery DEF OnlyAt, Matches
<1>4. PICK q \in {"to_verified", "rename", "verify_moved", "to_published"} :
        /\ pc' = q
        /\ q \in {"to_verified", "rename"} => staged' = fs["source"] /\ Exists("source")
        /\ q = "to_verified" => journal.state = "prepared"
        /\ q = "rename" => journal.state = "content_verified"
        /\ q = "verify_moved" => journal.state \in {"published", "source_deleted"}
        /\ q = "to_published" => journal.state \in {"content_verified", "recovery_required"} /\ Exists("target")
  <2>1. CASE OnlyAt("source", "target")
    <3>1. /\ staged' = fs["source"] /\ Exists("source") /\ ~Exists("target")
          /\ pc' = IF journal.state = "prepared" THEN "to_verified" ELSE "rename"
      BY <1>3, <2>1 DEF ResumeAtomic, Goto, OnlyAt
    <3>2. journal.state \in {"prepared", "content_verified"}
      BY <1>1, <3>1 DEF FileOnDisk, OpenState, JournalState, TerminalState
    <3> QED BY <3>1, <3>2
  <2>2. CASE OnlyAt("target", "source")
    <3>1. /\ Exists("target") /\ ~Exists("source")
          /\ pc' = CASE journal.state = "prepared" -> "to_verified"
                     [] journal.state \in {"published", "source_deleted"} -> "verify_moved"
                     [] OTHER -> "to_published"
      BY <1>3, <2>2 DEF ResumeAtomic, Goto
    <3>2. journal.state \in {"content_verified", "published", "source_deleted", "recovery_required"}
      BY <1>1, <3>1 DEF FileOnDisk, OpenState, JournalState, TerminalState
    <3> QED BY <3>1, <3>2
  <2> QED BY <1>3, <2>1, <2>2
<1>5. Stages(pc)'
  BY <1>1, <1>2, <1>4 DEF Stages, Copying
<1>6. Finds(pc)'
  <2>1. ~Copying'
    BY <1>1, <1>2 DEF Copying
  <2>2. pc' = "to_verified" => staged' # Absent
    BY <1>4 DEF Exists
  <2> QED BY <1>1, <1>2, <1>4, <2>1, <2>2 DEF Finds, Exists
<1>7. Blameless(pc)'
  BY <1>1, <1>2, <1>4 DEF Blameless, RecoverySteps
<1>8. ~Copying' /\ FileOnDisk(journal.state)'
  BY <1>1, <1>2 DEF Copying, FileOnDisk, Exists
<1> QED BY <1>5, <1>6, <1>7, <1>8 DEF Scene

\* Recover: what the preflight of a recovery finds is there when it begins.
LEMMA SceneRecovering ==
  ASSUME Calm, NEW action \in RecoveryAction, Recover(action)
  PROVE  Scene'
<1>1. /\ pc = "idle" /\ Open /\ RecoveryPreflight(action) /\ mode' = "recovery"
      /\ loaded' = journal.staged /\ staged' = Absent /\ pc' = FirstStep[action]
      /\ UNCHANGED <<fs, journal, opened, faults, touched>>
  BY DEF Recover, At, Goto
<1>2. faults # 0
  BY <1>1, Parts DEF Blameless
<1>3. \/ pc' = "resume" /\ (Copying /\ ~Exists("target") /\ Exists("temporary") => Matches("temporary", NoId))
      \/ pc' = "discard" /\ Matches("temporary", NoId)
      \/ pc' = "withdraw" /\ Exists("source") /\ Exists("target")
      \/ pc' = "turn_back" /\ ~Copying
  <2>1. CASE Copying
    <3>1. CopyPreflight(action)
      BY <1>1, <2>1 DEF RecoveryPreflight
    <3>2. CASE action = "resume"
      <4>1. ~Exists("target") /\ Exists("temporary") => Matches("temporary", journal.staged)
        BY <3>1, <3>2 DEF CopyPreflight
      <4> QED BY <1>1, <3>2, <4>1 DEF FirstStep, Matches
    <3>3. CASE action = "discard_unpublished_temp"
      <4>1. Matches("temporary", journal.staged)
        BY <3>1, <3>3 DEF CopyPreflight
      <4> QED BY <1>1, <3>3, <4>1 DEF FirstStep, Matches
    <3>4. CASE action = "rollback_published"
      <4>1. SourceIntact /\ Matches("target", journal.staged)
        BY <3>1, <3>4 DEF CopyPreflight
      <4> QED BY <1>1, <2>1, <3>4, <4>1 DEF FirstStep, Matches, SourceIntact
    <3>5. action # "manual_intervention"
      BY <3>1 DEF CopyPreflight
    <3> QED BY <3>2, <3>3, <3>4, <3>5 DEF RecoveryAction
  <2>2. CASE ~Copying
    <3>1. action \in {"resume", "rollback_published"}
      BY <1>1, <2>2 DEF RecoveryPreflight, AtomicPreflight
    <3> QED BY <1>1, <2>2, <3>1 DEF FirstStep
  <2> QED BY <2>1, <2>2
<1>4. ~Copying => ~Exists("temporary")
  BY Scenery
<1>5. Blameless(pc)'
  BY <1>1, <1>2, <1>3 DEF Blameless
<1>6. Stages(pc)'
  BY <1>3 DEF Stages
<1>7. Finds(pc)'
  BY <1>1, <1>3, <1>4 DEF Finds, Exists, Matches
<1>8. Copying' => Tied'
  BY <1>1, Parts DEF Copying, Tied, Exists
<1>9. IF Copying' THEN CopyOnDisk(journal.state)' ELSE FileOnDisk(journal.state)'
  <2>1. pc \notin LastSteps /\ journal.state \notin TerminalState
    BY <1>1 DEF LastSteps, Open, OpenState
  <2>2. IF Copying THEN CopyOnDisk(journal.state) ELSE FileOnDisk(journal.state)
    BY <2>1, Parts
  <2> QED BY <1>1, <2>2 DEF Copying, CopyOnDisk, FileOnDisk, Exists, Matches
<1> QED BY <1>5, <1>6, <1>7, <1>8, <1>9 DEF Scene

\* Crash: it was the first failure, and what a run leaves behind fits its entry.
LEMMA SceneCrashed ==
  ASSUME Calm, faults' <= 1, Crash
  PROVE  Scene'
<1>1. /\ pc' = "idle" /\ staged' = Absent /\ loaded' = NoId /\ UNCHANGED <<fs, journal, mode, touched>>
      /\ faults = 0 /\ faults' = 1
  BY OneFault DEF Crash, Goto
<1>2. mode # "recovery" /\ pc \notin LastSteps
  BY <1>1, Parts DEF Blameless, LastSteps, RecoverySteps
<1>3. Blameless(pc)' /\ Stages(pc)' /\ Finds(pc)'
  BY <1>1, <1>2 DEF Blameless, Stages, Finds, RecoverySteps
<1>4. Copying' => Tied'
  BY <1>1, Parts DEF Copying, Tied, Exists
<1>5. journal'.state \notin TerminalState =>
        IF Copying' THEN CopyOnDisk(journal.state)' ELSE FileOnDisk(journal.state)'
  BY <1>1, <1>2, Parts DEF Copying, CopyOnDisk, FileOnDisk, Exists, Matches
<1> QED BY <1>3, <1>4, <1>5 DEF Scene

\* A file that has been scanned, before its run.
LEMMA SceneInitially == Init => Scene
<1> SUFFICES ASSUME Init PROVE Scene
  OBVIOUS
<1>1. /\ fs["source"] = Scanned /\ fs["temporary"] = Absent /\ fs["target"] = Absent
      /\ journal.state = "none" /\ journal.staged = NoId /\ pc = "idle" /\ mode \in {"apply", "rollback"}
      /\ loaded = NoId
  BY DEF Init, Path, Scanned
<1>2. Exists("source") /\ ~Exists("temporary") /\ ~Exists("target") /\ ~Open
  BY <1>1, Marks DEF Exists, Open, OpenState, JournalState
<1>3. Blameless(pc) /\ Stages(pc) /\ Finds(pc) /\ Tied
  BY <1>1, <1>2 DEF Blameless, Stages, Finds, Tied, RecoverySteps
<1>4. CopyOnDisk(journal.state) /\ FileOnDisk(journal.state)
  BY <1>1, <1>2 DEF CopyOnDisk, FileOnDisk
<1> QED BY <1>3, <1>4 DEF Scene

\* Failures are never taken back.
LEMMA FaultsCount ==
  ASSUME Looks \/ Files
  PROVE  Fault \/ faults' = faults
<1>1. CASE \/ Preflight \/ Prepare \/ CompareStaged \/ VerifyTarget \/ VerifySource \/ VerifyMoved
           \/ ResumeUnpublished \/ ResumePublished \/ ResumeAtomic \/ Withdraw \/ TurnBack \/ VerifyBack
           \/ (\E action \in RecoveryAction : Recover(action)) \/ Crash
  BY <1>1 DEF Preflight, Prepare, CompareStaged, VerifyTarget, VerifySource, VerifyMoved,
              ResumeUnpublished, ResumePublished, ResumeAtomic, Withdraw, TurnBack, VerifyBack,
              Recover, Crash, Check, NoFault
<1>2. CASE \/ RecordStaging \/ RecordStaged \/ RecordVerified \/ RecordPublished \/ RecordSourceDeleted
           \/ RecordCompleted \/ CloseFailed \/ Park \/ RecordFailed
  BY <1>2 DEF RecordStaging, RecordStaged, RecordVerified, RecordPublished, RecordSourceDeleted,
              RecordCompleted, CloseFailed, Park, RecordFailed, Record, NoFault
<1>3. CASE Files
  BY <1>3 DEF Files, StageCreate, StageFinish, DropStaged, Publish, Unstage, DeleteSource, Rename, Discard,
              DeleteTarget, MoveBack, Delete, Validate, Dispose, AtomicMove, NoFault
<1> QED BY <1>1, <1>2, <1>3 DEF Looks

\* The scene is set again after every step that leaves it quiet and faultless enough.
LEMMA SceneSet == RInv /\ [Next]_vars => RInv'
<1> SUFFICES ASSUME RInv, [Next]_vars PROVE RInv'
  OBVIOUS
<1>1. IInv'
  BY Inductive DEF RInv
<1> SUFFICES ASSUME touched' = {}, faults' <= 1 PROVE Scene'
  BY <1>1 DEF RInv
<1>2. faults \in Nat /\ faults' \in Nat
  BY <1>1, MoveAssumption DEF RInv, IInv, TypeOK
<1>3. CASE UNCHANGED vars
  BY <1>3 DEF RInv, Scene, vars, worker, Blameless, Stages, Finds, Tied, CopyOnDisk, FileOnDisk, Copying,
              Matches, Exists, Open
<1>4. CASE Interfere
  BY <1>4, Interfered DEF RInv
<1>5. CASE Looks \/ Files
  <2>1. touched = {}
    BY <1>5, Looked, Filed DEF RInv
  <2>2. faults <= faults'
    BY <1>2, <1>5, FaultsCount DEF Fault
  <2>3. Calm
    BY <1>2, <2>1, <2>2 DEF Calm, RInv
  <2> QED BY <1>5, <2>3, SceneBegun, SceneStaging, SceneStaged, SceneCompared, SceneVerified, ScenePublished,
             SceneTargetSeen, SceneSourceSeen, SceneFinished, SceneClosed, SceneParked,
             SceneResumedUnpublished, SceneResumedPublished, SceneResumedAtomic, SceneTurned,
             SceneRecovering, SceneCrashed, SceneCopying, SceneCopied, SceneDropped, ScenePublish,
             SceneUnstaged, SceneSourceDeleted, SceneRenamed, SceneDiscarded, SceneMovedBack
          DEF Looks, Files
<1> QED BY <1>3, <1>4, <1>5, StepKinds

\* After a single crash or failing call, on whatever call of apply_one or rollback_one it
\* falls, preflight_copy_recovery or preflight_atomic_recovery admits an action for what it
\* left on disk, unless the user touched a file or the copy was cut short.
THEOREM AlwaysRecoverable == Spec => []Recoverable
<1>1. Init => RInv
  BY InitIInv, SceneInitially DEF RInv
<1>2. RInv => Recoverable
  <2> SUFFICES ASSUME RInv, Open, At("idle"), touched = {}, faults <= 1,
                      fs["temporary"].content # "part"
               PROVE  \E action \in RecoveryAction : RecoveryPreflight(action)
    BY DEF Recoverable
  <2>1. Calm /\ journal.state \in OpenState /\ TypeOK
    BY DEF Calm, RInv, IInv, Open
  <2>2. IF Copying THEN CopyOnDisk(journal.state) ELSE FileOnDisk(journal.state)
    BY <2>1, Parts DEF At, LastSteps, OpenState
  <2>3. "resume" \in RecoveryAction
    BY DEF RecoveryAction
  <2>4. CASE ~Copying
    <3>1. OnlyAt("source", "target") \/ OnlyAt("target", "source")
      BY <2>1, <2>4, Scenery
    <3>2. AtomicPreflight("resume")
      BY <2>2, <2>4, <3>1 DEF AtomicPreflight, FileOnDisk
    <3> QED BY <2>3, <2>4, <3>2 DEF RecoveryPreflight
  <2>5. CASE Copying
    <3>1. CopyOnDisk(journal.state)
      BY <2>2, <2>5
    <3>2. CASE Exists("target")
      <4>1. journal.state \notin {"prepared", "staging"} /\ Matches("target", journal.staged)
        BY <2>1, <2>5, <3>1, <3>2, Scenery DEF CopyOnDisk
      <4>2. CopyPreflight("resume")
        BY <3>2, <4>1 DEF CopyPreflight
      <4> QED BY <2>3, <2>5, <4>2 DEF RecoveryPreflight
    <3>3. CASE ~Exists("target") /\ Exists("temporary")
      <4>1. Matches("temporary", NoId)
        <5>1. fs["temporary"].content # "other"
          BY <2>1, Parts DEF Untouched
        <5>2. fs["temporary"] \in File
          BY <2>1, <3>3, Typed DEF Exists
        <5> QED BY <3>3, <5>1, <5>2, Marks DEF Matches, Content
      <4>2. Matches("temporary", journal.staged)
        BY <2>1, <2>5, <4>1, Scenery
      <4>3. CopyPreflight("resume")
        BY <3>3, <4>2 DEF CopyPreflight
      <4> QED BY <2>3, <2>5, <4>3 DEF RecoveryPreflight
    <3>4. CASE ~Exists("target") /\ ~Exists("temporary")
      <4>1. journal.state \in {"prepared", "staging"}
        BY <2>1, <3>1, <3>4 DEF CopyOnDisk, Matches, OpenState, JournalState, TerminalState
      <4>2. SourceIntact
        BY <2>1, <3>4, Scenery DEF SourceIntact
      <4>3. CopyPreflight("resume")
        BY <3>4, <4>1, <4>2 DEF CopyPreflight
      <4> QED BY <2>3, <2>5, <4>3 DEF RecoveryPreflight
    <3> QED BY <3>2, <3>3, <3>4
  <2> QED BY <2>4, <2>5
<1> QED BY <1>1, <1>2, SceneSet, PTL DEF Spec
=============================================================================
