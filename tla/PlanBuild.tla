------------------------------ MODULE PlanBuild ------------------------------
(***************************************************************************)
(* Building a plan from a completed scan (PlanUseCase::execute) and        *)
(* revising a finished plan by hand (execute_bounded_plan_revision).  Both *)
(* work in pages on scratch tables: the items are staged, images find      *)
(* their place beside the music, equal targets get suffixes, what still    *)
(* shares a target is blocked, and the rows are published and the plan     *)
(* completed.  A failing step aborts the build; the process may die at any *)
(* point.  The last two passes read what they write page by page.          *)
(***************************************************************************)
EXTENDS Integers, Sequences, FiniteSets, SequencesExt

CONSTANTS
  Plan,       \* plan_runs, made in this order
  Scans,      \* the scans to plan: sequences of files in the order of their paths
  Manual,     \* targets a user may ask for; NoTarget is the path of the file itself
  MaxChanges, \* bound on the changes of one revision
  PageSizes,  \* PlanOptions::batch_size, and the 512 of a revision
  MaxSuffix,  \* a name with more suffixes is too long for the path policy
  MaxFaults   \* bound on failing calls and crashes

Path == [dir: Seq(Nat), name: Seq(Nat)]
NoTarget == [dir |-> <<>>, name |-> <<>>]

\* A scanned file, with what naming and the path policy make of its tags: a target,
\* or why there is none.
ScannedFile == [image: BOOLEAN, dir: Seq(Nat), disc: BOOLEAN, name: Seq(Nat) \ {<<>>},
                target: Path, why: {"none", "missing", "same", "invalid"}]

ASSUME PlanAssumption ==
  /\ Plan \subseteq Nat \ {0} /\ PageSizes \subseteq Nat \ {0} /\ MaxSuffix \in Nat
  /\ MaxChanges \in Nat /\ MaxFaults \in Nat
  /\ Manual \subseteq Path
  /\ \A files \in Scans :
       /\ files \in Seq(ScannedFile)
       /\ \A f \in DOMAIN files :
            ~files[f].image /\ files[f].why = "none" => files[f].target # NoTarget

VARIABLES
  scan,    \* scan_items, which no later step changes
  suffix,  \* the duplicate strategy: a suffix (sequence, template), or to skip
  page,    \* the page size
  plan,    \* plan_runs and plan_items
  build,   \* plan_builds, plan_item_staging and plan_target_allocations
  job,     \* the thread that executes the use case
  lost,    \* plans whose process died or could not write the abort
  faults

vars == <<scan, suffix, page, plan, build, job, lost, faults>>

File == 1..Len(scan)
Reasons == {"none", "pending", "missing", "same", "alone", "ambiguous", "conflict", "invalid"}
RunStatus == {"none", "running", "completed", "failed"}
NoPlan == [status |-> "none", parent |-> 0, items |-> <<>>, hash |-> <<>>, wanted |-> <<>>]
NoBuild == [status |-> "none", staged |-> <<>>, original |-> <<>>, taken |-> {}]
Idle == [pc |-> "idle", plan |-> 0, cursor |-> 0, changes |-> <<>>, unknown |-> FALSE,
         hashed |-> <<>>]

TypeOK ==
  /\ scan \in Scans /\ suffix \in BOOLEAN /\ page \in PageSizes
  /\ \A p \in Plan :
       /\ plan[p].status \in RunStatus /\ plan[p].parent \in Plan \cup {0}
       /\ Len(plan[p].items) <= Len(scan) /\ Len(build[p].staged) <= Len(scan)
       /\ Len(build[p].original) = Len(build[p].staged)
       /\ \A k \in DOMAIN plan[p].items : plan[p].items[k].why \in Reasons
       /\ (build[p].status = "building") = (plan[p].status = "running")
  /\ job.pc \in {"idle", "draft", "images", "names", "conflicts", "publish", "complete", "abort"}
  /\ (job.pc # "idle" => plan[job.plan].status = "running") /\ job.cursor \in 0..Len(scan)
  /\ lost \subseteq Plan /\ faults \in 0..MaxFaults

Init ==
  /\ scan \in Scans /\ suffix \in BOOLEAN /\ page \in PageSizes
  /\ plan = [p \in Plan |-> NoPlan]
  /\ build = [p \in Plan |-> NoBuild]
  /\ job = Idle /\ lost = {} /\ faults = 0

Fault == faults < MaxFaults /\ faults' = faults + 1
input == <<scan, suffix, page>>

----------------------------------------------------------------------------
(***************************************************************************)
(* Items.  A name is a number for the file's own name, followed by those   *)
(* of its suffixes; targets are compared whole.  An item moves its file    *)
(* iff it has no reason not to: it may carry a target all the same.        *)
(***************************************************************************)
Entry(move, target, why) == [move |-> move, target |-> target, why |-> why]
Moving(target) == Entry(TRUE, target, "none")
Blocked(target, why) == Entry(FALSE, target, why)

Valid(target) == Len(target.name) <= 1 + MaxSuffix
Checked(target) == IF Valid(target) THEN Moving(target) ELSE Blocked(target, "invalid")
Suffixed(target, n) == [target EXCEPT !.name = Append(@, n)]

\* make_plan_item; images wait for the music.
Draft(f) ==
  IF f.image THEN Blocked(NoTarget, "pending")
  ELSE Entry(f.why = "none", f.target, f.why)

\* The music below a directory is known there by the directory it goes to.
Anchored(items, dir) ==
  {f \in DOMAIN items : ~scan[f].image /\ items[f].target # NoTarget /\ IsPrefix(dir, scan[f].dir)}

\* Discs of one album stand for the album itself.
Destinations(anchors) ==
  LET dirs == {scan[f].target.dir : f \in anchors} IN
  IF Cardinality(dirs) > 1 /\ (\A f \in anchors : scan[f].disc)
       /\ Cardinality({Front(d) : d \in dirs}) = 1
  THEN {Front(d) : d \in dirs}
  ELSE dirs

\* The nearest directory above an image that has music decides.
Candidates(items, f) ==
  LET Above == {n \in 0..Len(scan[f].dir) : Anchored(items, SubSeq(scan[f].dir, 1, n)) # {}}
  IN IF Above = {} THEN {}
     ELSE Destinations(Anchored(items, SubSeq(scan[f].dir, 1,
                                              CHOOSE n \in Above : \A m \in Above : m <= n)))

ResolvedImage(items, f) ==
  LET to == Candidates(items, f) IN
  CASE to = {} -> Blocked(NoTarget, "alone")
    [] Cardinality(to) > 1 -> Blocked(NoTarget, "ambiguous")
    [] OTHER -> Checked([dir |-> CHOOSE d \in to : TRUE, name |-> scan[f].name])

\* staging_target_key
Key(item) == IF item.move \/ item.why = "conflict" THEN item.target ELSE NoTarget

----------------------------------------------------------------------------
(***************************************************************************)
(* Equal targets.  Items are taken in order; the first keeps its name, the *)
(* others get the first free suffix.                                       *)
(***************************************************************************)
\* original_target_rank, original_target_exists_after
Rank(b, f) == Cardinality({g \in 1..f : b.original[g] = b.staged[f].target})
WantedLater(b, f, target) == \E g \in (f + 1)..Len(b.staged) : b.original[g] = target

Free(b, f, target) == target \notin b.taken /\ ~WantedLater(b, f, target)

NextName(b, f) ==
  LET first == IF Rank(b, f) > 2 THEN Rank(b, f) ELSE 2
      Ok == {n \in first..(first + 2 * Len(b.staged)) : Free(b, f, Suffixed(b.staged[f].target, n))}
  IN Suffixed(b.staged[f].target, CHOOSE n \in Ok : \A m \in Ok : n <= m)

Named(b, f) ==
  LET item == b.staged[f]
      next == NextName(b, f)
  IN IF ~item.move THEN b
     ELSE IF Rank(b, f) = 1 /\ item.target \notin b.taken
          THEN [b EXCEPT !.taken = @ \cup {item.target}]
     ELSE IF ~suffix /\ ~scan[f].image THEN b
     ELSE [b EXCEPT !.staged[f] = Checked(next),
                    !.taken = IF Valid(next) THEN @ \cup {next} ELSE @]

\* The items of one page, one after the other.
Renamed(b, last, n) ==
  LET after[k \in 0..n] == IF k = 0 THEN b ELSE Named(after[k - 1], last + k)
  IN after[n]

\* Whoever shares the key of another item; what was blocked before keeps its key.
Shared(b, f) == Cardinality({g \in DOMAIN b.staged : Key(b.staged[g]) = b.staged[f].target}) > 1

\* Variant: an item blocked on an earlier page no longer counts.
Marked_Moving(b, fs) ==
  [b EXCEPT !.staged = [f \in DOMAIN @ |->
     IF f \in fs /\ @[f].move
        /\ Cardinality({g \in DOMAIN b.staged : b.staged[g].move /\ b.staged[g].target = @[f].target}) > 1
     THEN Blocked(@[f].target, "conflict") ELSE @[f]]]

\* mark_staged_target_conflicts, for the files of one page.
Marked(b, fs) ==
  [b EXCEPT !.staged = [f \in DOMAIN @ |->
     IF f \in fs /\ @[f].move /\ Shared(b, f) THEN Blocked(@[f].target, "conflict") ELSE @[f]]]

----------------------------------------------------------------------------
(***************************************************************************)
(* The passes.  Each step is one page: what it reads and the transaction   *)
(* that writes it, as only the builder works on the scratch of a build.    *)
(***************************************************************************)
P == job.plan
B == build[P]
PageAfter(last) == {f \in (job.cursor + 1)..last : f <= job.cursor + page}
Goto(pc) == job' = [job EXCEPT !.pc = pc, !.cursor = 0]
Advance(last) == job' = [job EXCEPT !.cursor = IF @ + page < last THEN @ + page ELSE last]

\* begin_plan, begin_plan_revision: an untouched plan whose rows and build are
\* inserted together.
Start(p, parent, pc, changes, unknown) ==
  /\ job.pc = "idle" /\ plan[p].status = "none" /\ \A q \in Plan : q < p => plan[q].status # "none"
  /\ plan' = [plan EXCEPT ![p] = [NoPlan EXCEPT !.status = "running", !.parent = parent]]
  /\ build' = [build EXCEPT ![p].status = "building"]
  /\ job' = [pc |-> pc, plan |-> p, cursor |-> 0, changes |-> changes, unknown |-> unknown,
             hashed |-> <<>>]
  /\ UNCHANGED <<input, lost, faults>>

BeginPlan == \E p \in Plan : Start(p, 0, "draft", <<>>, FALSE)

\* A revision starts from a finished plan whose rows still have the stored hash;
\* a change may name an item the parent does not have.
BeginRevision ==
  \E p \in Plan, parent \in Plan, unknown \in BOOLEAN, fs \in SUBSET File :
    /\ plan[parent].status = "completed" /\ plan[parent].hash = plan[parent].items
    /\ unknown \/ fs # {}
    /\ Cardinality(fs) <= MaxChanges
    /\ \E changes \in [fs -> Manual] : Start(p, parent, "draft", changes, unknown)

\* revise_staged_plan_item: a target nobody changes is validated again, and what a
\* conflict had blocked is tried again.
Revised(f) ==
  LET old == plan[plan[P].parent].items[f]
      to == job.changes[f]
  IN IF f \notin DOMAIN job.changes
     THEN IF ~Valid(old.target) THEN Blocked(NoTarget, "invalid")
          ELSE IF old.why = "conflict" THEN Moving(old.target) ELSE old
     ELSE IF to = NoTarget THEN Blocked(NoTarget, "same")
     ELSE IF Valid(to) THEN Moving(to)
     ELSE Blocked(NoTarget, "invalid")

\* Files whose items are still to be drafted, of the scan or of the parent plan.
Drafts == IF plan[P].parent = 0 THEN Len(scan) ELSE Len(plan[plan[P].parent].items)

\* stage_plan_batch keeps the key an item is staged with.
DraftPage ==
  LET new == [f \in PageAfter(Drafts) |-> IF plan[P].parent = 0 THEN Draft(scan[f]) ELSE Revised(f)]
  IN /\ job.pc = "draft" /\ PageAfter(Drafts) # {}
     /\ build' = [build EXCEPT
          ![P].staged = @ \o [k \in 1..Cardinality(DOMAIN new) |-> new[job.cursor + k]],
          ![P].original = @ \o [k \in 1..Cardinality(DOMAIN new) |-> Key(new[job.cursor + k])]]
     /\ Advance(Drafts)
     /\ UNCHANGED <<input, plan, lost, faults>>

\* A change that met no item is an error; a revision resolves no images.
Drafted ==
  /\ job.pc = "draft" /\ PageAfter(Drafts) = {}
  /\ Goto(IF job.unknown THEN "abort" ELSE IF plan[P].parent = 0 THEN "images" ELSE "names")
  /\ UNCHANGED <<input, plan, build, lost, faults>>

\* update_staged_plan_batch, with the key the resolved image is given.
ImagesPage ==
  LET here == {f \in PageAfter(Len(B.staged)) : scan[f].image} IN
  /\ job.pc = "images" /\ PageAfter(Len(B.staged)) # {}
  /\ build' = [build EXCEPT
       ![P].staged = [f \in DOMAIN @ |-> IF f \in here THEN ResolvedImage(B.staged, f) ELSE @[f]],
       ![P].original = [f \in DOMAIN @ |->
                          IF f \in here THEN Key(ResolvedImage(B.staged, f)) ELSE @[f]]]
  /\ Advance(Len(B.staged))
  /\ UNCHANGED <<input, plan, lost, faults>>

NamesPage ==
  /\ job.pc = "names" /\ PageAfter(Len(B.staged)) # {}
  /\ build' = [build EXCEPT ![P] = Renamed(B, job.cursor, Cardinality(PageAfter(Len(B.staged))))]
  /\ Advance(Len(B.staged))
  /\ UNCHANGED <<input, plan, lost, faults>>

ConflictsPage ==
  /\ job.pc = "conflicts" /\ PageAfter(Len(B.staged)) # {}
  /\ build' = [build EXCEPT ![P] = Marked(B, PageAfter(Len(B.staged)))]
  /\ Advance(Len(B.staged))
  /\ UNCHANGED <<input, plan, lost, faults>>

\* Variant: the plan is completed with the page that is published.
PublishPage_Completed ==
  LET rows == SubSeq(B.staged, job.cursor + 1, job.cursor + Cardinality(PageAfter(Len(B.staged)))) IN
  /\ job.pc = "publish" /\ PageAfter(Len(B.staged)) # {}
  /\ plan' = [plan EXCEPT ![P].items = @ \o rows, ![P].status = "completed",
                          ![P].hash = job.hashed \o rows]
  /\ job' = [job EXCEPT !.hashed = @ \o rows,
                        !.cursor = IF @ + page < Len(B.staged) THEN @ + page ELSE Len(B.staged)]
  /\ UNCHANGED <<input, build, lost, faults>>

\* publish_staged_plan_page; the hash is taken of the pages it returns.
PublishPage ==
  LET rows == SubSeq(B.staged, job.cursor + 1, job.cursor + Cardinality(PageAfter(Len(B.staged)))) IN
  /\ job.pc = "publish" /\ PageAfter(Len(B.staged)) # {}
  /\ plan' = [plan EXCEPT ![P].items = @ \o rows]
  /\ job' = [job EXCEPT !.hashed = @ \o rows,
                        !.cursor = IF @ + page < Len(B.staged) THEN @ + page ELSE Len(B.staged)]
  /\ UNCHANGED <<input, build, lost, faults>>

\* The end of a pass over the staged items.
PassEnds ==
  /\ job.pc \in {"images", "names", "conflicts", "publish"} /\ PageAfter(Len(B.staged)) = {}
  /\ Goto(CASE job.pc = "images" -> "names" [] job.pc = "names" -> "conflicts"
            [] job.pc = "conflicts" -> "publish" [] job.pc = "publish" -> "complete")
  /\ UNCHANGED <<input, plan, build, lost, faults>>

\* Variant: the build of an ended plan stays open.
Ended_Open(status, items) ==
  /\ plan' = [plan EXCEPT ![P].status = status, ![P].items = items,
                          ![P].hash = IF status = "completed" THEN job.hashed ELSE @,
                          ![P].wanted = IF status = "completed" THEN B.original ELSE @]
  /\ build' = [build EXCEPT ![P] = [NoBuild EXCEPT !.status = "building"]]

\* complete_plan_build, one transaction; "wanted" only remembers what was asked for.
Ended(status, items) ==
  /\ plan' = [plan EXCEPT ![P].status = status, ![P].items = items,
                          ![P].hash = IF status = "completed" THEN job.hashed ELSE @,
                          ![P].wanted = IF status = "completed" THEN B.original ELSE @]
  /\ build' = [build EXCEPT ![P] = [NoBuild EXCEPT !.status = status]]

Complete ==
  /\ job.pc = "complete" /\ Len(B.staged) = Len(plan[P].items)
  /\ Ended("completed", plan[P].items)
  /\ job' = Idle
  /\ UNCHANGED <<input, lost, faults>>

\* Any call to the store may fail, also the one that completes the plan.
Fail ==
  /\ job.pc \notin {"idle", "abort"} /\ Fault
  /\ Goto("abort")
  /\ UNCHANGED <<input, plan, build, lost>>

\* Variant: the rows published so far stay.
Abort_Rows ==
  /\ job.pc = "abort" /\ job' = Idle
  /\ \/ Ended("failed", plan[P].items) /\ UNCHANGED <<lost, faults>>
     \/ Fault /\ lost' = lost \cup {P} /\ UNCHANGED <<plan, build>>
  /\ UNCHANGED input

\* abort_plan_build, whose own error is ignored.
Abort ==
  /\ job.pc = "abort" /\ job' = Idle
  /\ \/ Ended("failed", <<>>) /\ UNCHANGED <<lost, faults>>
     \/ Fault /\ lost' = lost \cup {P} /\ UNCHANGED <<plan, build>>
  /\ UNCHANGED input

Crash ==
  /\ job.pc # "idle" /\ Fault
  /\ job' = Idle /\ lost' = lost \cup {P}
  /\ UNCHANGED <<input, plan, build>>

----------------------------------------------------------------------------
Work == DraftPage \/ Drafted \/ ImagesPage \/ NamesPage \/ ConflictsPage \/ PublishPage
          \/ PassEnds \/ Complete \/ Abort
Next == BeginPlan \/ BeginRevision \/ Work \/ Fail \/ Crash

Spec == Init /\ [][Next]_vars

\* The thread that builds runs on.
FairSpec == Spec /\ WF_vars(Work)

----------------------------------------------------------------------------
Names(p) == {plan[p].items[f].target : f \in {g \in DOMAIN plan[p].items : plan[p].items[g].move}}

\* However the items fall on pages, a finished plan resolves equal targets the
\* same way: no two files are moved to one place; the first item that asked for a
\* name keeps it, no suffix takes a name any item asked for, and an item gets a
\* suffix of its own name or is too long for one; with duplicates skipped, all
\* that share a name are blocked, and only they (resolve_staged_duplicate_targets,
\* mark_staged_target_conflicts).
NamesResolved ==
  \A p \in Plan : plan[p].status = "completed" =>
    LET items == plan[p].items
        wanted == plan[p].wanted
        Asked == {f \in DOMAIN items : wanted[f] # NoTarget}
    IN /\ \A f, g \in Asked :
            f # g /\ items[f].move /\ items[g].move => items[f].target # items[g].target
       /\ \A f \in Asked :
            LET first == \A g \in Asked : g < f => wanted[g] # wanted[f]
                stays == items[f].target = wanted[f]
            IN /\ first => stays
               /\ items[f].why = "conflict" <=>
                    stays /\ \E g \in Asked \ {f} : items[g].target = wanted[f]
               /\ stays \/ (\A g \in Asked : items[f].target # wanted[g])
               /\ ~stays => Front(items[f].target.name) = wanted[f].name
                            /\ items[f].move = Valid(items[f].target)
               /\ first \/ ~stays \/ ~(suffix \/ scan[f].image)

\* An applicable plan is whole and stays as it is, whatever happens to its build
\* or to a revision of it (ApplyStore::load_completed_plan, validate_plan_snapshot).
View ==
  [p \in Plan |->
     CASE plan[p].status = "none" -> [state |-> "absent"]
       [] plan[p].status = "running" -> [state |-> "open"]
       [] plan[p].status = "failed" -> [state |-> "failed"]
       [] plan[p].status = "completed" ->
            IF plan[p].hash = plan[p].items THEN [state |-> "applicable", items |-> plan[p].items]
            ELSE [state |-> "mismatch"]]
A == INSTANCE AbstractPlan WITH files <- Len(scan), view <- View
PlanAppearsAtOnce == A!Spec

\* A build ends with its plan completed, or failed and without rows, and leaves no
\* scratch behind, unless its process died or could not write the abort
\* (complete_plan_build, abort_plan_build).
BuildEnds ==
  \A p \in Plan : plan[p].status = "running" ~>
    \/ p \in lost
    \/ /\ build[p].staged = <<>> /\ build[p].taken = {}
       /\ plan[p].status = "completed" \/ (plan[p].status = "failed" /\ plan[p].items = <<>>)
=============================================================================
