---------------------------- MODULE PlanBuild_proofs ----------------------------
(***************************************************************************)
(* Proofs about PlanBuild, for any scans, page sizes, revisions, failures  *)
(* and crashes: the types, that equal targets are resolved the same way    *)
(* however the items fall on pages, and that a plan becomes applicable     *)
(* whole and in one step (AbstractPlan).  What each pass has done is said  *)
(* of the files up to its cursor.                                          *)
(***************************************************************************)
EXTENDS PlanBuild, SequenceTheorems, FiniteSetTheorems, WellFoundedInduction, TLAPS

Item == [move: BOOLEAN, target: Path, why: Reasons]
PlanRecord == [status: RunStatus, parent: Plan \cup {0}, items: Seq(Item), hash: Seq(Item),
               wanted: Seq(Path)]
BuildRecord == [status: {"none", "building", "completed", "failed"}, staged: Seq(Item),
                original: Seq(Path), taken: SUBSET Path]
Requests == UNION {[fs -> Manual] : fs \in SUBSET File}
Passes == {"images", "names", "conflicts", "publish"}
JobRecord == [pc: {"idle", "draft", "complete", "abort"} \cup Passes, plan: Plan \cup {0},
              cursor: 0..Len(scan), changes: Requests, unknown: BOOLEAN, hashed: Seq(Item)]

Typed ==
  /\ scan \in Scans /\ suffix \in BOOLEAN /\ page \in PageSizes
  /\ plan \in [Plan -> PlanRecord] /\ build \in [Plan -> BuildRecord]
  /\ job \in JobRecord /\ lost \subseteq Plan /\ faults \in 0..MaxFaults

\* What holds of every plan and its build, also of those a crash left behind.
Row(r, c) ==
  /\ Len(r.items) <= Len(scan) /\ Len(c.staged) <= Len(scan)
  /\ Len(c.original) = Len(c.staged)
  /\ (c.status = "building") <=> (r.status = "running")
  /\ r.status = "none" => r = NoPlan /\ c = NoBuild
Rows == \A p \in Plan : Row(plan[p], build[p])

\* Files that get a suffix when their target is taken.
Renamable == {f \in File : suffix \/ scan[f].image}

\* An item before equal targets are looked at: it asks for what it moves to.
Fresh(i, o) ==
  /\ o = Key(i) /\ i.why # "conflict"
  /\ i.move => i.why = "none" /\ i.target # NoTarget

First(orig, f) == \A g \in 1..(f - 1) : orig[g] # orig[f]
Renames(orig, f, R) == ~First(orig, f) /\ f \in R

\* An item that was given a suffix: a name nobody asked for.
Fits(i, orig, f) ==
  /\ i.target # NoTarget /\ Front(i.target.name) = orig[f].name
  /\ \A g \in DOMAIN orig : orig[g] # i.target
  /\ i = Checked(i.target)

\* The suffixes differ.
Apart(items, orig, k, R) ==
  \A f, g \in 1..k :
    (/\ f # g /\ orig[f] # NoTarget /\ orig[g] # NoTarget
     /\ Renames(orig, f, R) /\ Renames(orig, g, R)
     /\ items[f].move /\ items[g].move) => items[f].target # items[g].target

\* The pass over the names has come to file k.
NamesInv(items, orig, taken, k, R) ==
  /\ \A f \in DOMAIN items : (f > k \/ orig[f] = NoTarget) => Fresh(items[f], orig[f])
  /\ \A f \in 1..k : orig[f] # NoTarget =>
       /\ First(orig, f) => orig[f] \in taken
       /\ ~Renames(orig, f, R) => items[f] = Moving(orig[f])
       /\ Renames(orig, f, R) => Fits(items[f], orig, f) /\ (items[f].move => items[f].target \in taken)
  /\ \A t \in taken :
       \/ \E f \in 1..k : First(orig, f) /\ orig[f] = t
       \/ \A g \in DOMAIN orig : orig[g] # t
  /\ Apart(items, orig, k, R)
  /\ IsFiniteSet(taken) /\ Cardinality(taken) <= k

\* Another item has the target of this one.
Twin(items, f) == \E g \in DOMAIN items : g # f /\ Key(items[g]) = items[f].target

\* The pass over the conflicts has come to file k.
Settled(items, orig, k, R) ==
  /\ \A f \in DOMAIN items : orig[f] = NoTarget => Fresh(items[f], NoTarget)
  /\ \A f \in DOMAIN items : orig[f] # NoTarget =>
       /\ ~Renames(orig, f, R) => items[f] \in {Moving(orig[f]), Blocked(orig[f], "conflict")}
       /\ Renames(orig, f, R) => Fits(items[f], orig, f)
  /\ Apart(items, orig, Len(items), R)
  /\ \A f \in DOMAIN items : items[f].why = "conflict" => f <= k /\ Twin(items, f)
  /\ \A f \in DOMAIN items : f <= k /\ items[f].move => ~Twin(items, f)

\* A finished plan.
Done(r) ==
  /\ Len(r.items) = Len(scan) /\ Len(r.wanted) = Len(scan) /\ r.hash = r.items
  /\ Settled(r.items, r.wanted, Len(scan), Renamable)
Finished == \A p \in Plan : plan[p].status = "completed" => Done(plan[p])

\* What the passes have done to the plan that is being built.
Whole(b) == Len(b.staged) = Len(scan)
AllFresh(b) == \A f \in DOMAIN b.staged : Fresh(b.staged[f], b.original[f])
Building ==
  job.pc # "idle" =>
    /\ P \in Plan /\ plan[P].status = "running"
    /\ plan[P].parent # 0 => plan[P].parent \in Plan /\ plan[plan[P].parent].status = "completed"
    /\ job.pc \notin {"publish", "complete", "abort"} => plan[P].items = <<>> /\ job.hashed = <<>>
    /\ job.pc = "draft" => Len(B.staged) = job.cursor /\ AllFresh(B) /\ B.taken = {}
    /\ job.pc = "images" => Whole(B) /\ AllFresh(B) /\ B.taken = {}
    /\ job.pc = "names" => Whole(B) /\ NamesInv(B.staged, B.original, B.taken, job.cursor, Renamable)
    /\ job.pc = "conflicts" => Whole(B) /\ Settled(B.staged, B.original, job.cursor, Renamable)
    /\ job.pc \in {"publish", "complete"} =>
         /\ Whole(B) /\ Settled(B.staged, B.original, Len(scan), Renamable)
         /\ job.hashed = plan[P].items
    /\ job.pc = "publish" => plan[P].items = SubSeq(B.staged, 1, job.cursor)
    /\ job.pc = "complete" => plan[P].items = B.staged

IInv == Typed /\ Rows /\ Finished /\ Building

(***************************************************************************)
(* The names of one page, one file after the other.                        *)
(***************************************************************************)
\* A set of naturals that is not empty has a least element.
LEMMA Least ==
  ASSUME NEW S, S \subseteq Nat, S # {}
  PROVE  \E m \in S : \A k \in S : m <= k
<1>1. PICK x \in S : TRUE
  OBVIOUS
<1> DEFINE U == 0..x
           Below(y) == {z \in S : z <= y}
           All == {Below(y) : y \in S \cap U}
<1>2. IsWellFoundedOn(StrictSubsetOrdering(U), SUBSET U)
  <2>1. IsFiniteSet(U)
    BY <1>1, FS_Interval
  <2> QED BY <2>1, FS_StrictSubsetOrderingWellFounded, FS_FiniteSubsetsOfFinite
<1>3. x \in Nat /\ x \in U /\ U \subseteq Nat
  BY <1>1
<1>4. All \subseteq SUBSET U /\ All # {}
  <2>1. ASSUME NEW y \in S \cap U, NEW z \in Below(y) PROVE z \in U
    <3>1. z \in Nat /\ y \in Nat /\ z <= y /\ y <= x
      BY <1>3
    <3> QED BY <1>3, <3>1
  <2> QED BY <1>3, <2>1
<1>5. PICK A0 \in All : \A C \in All : <<C, A0>> \notin StrictSubsetOrdering(U)
  <2> HIDE DEF All, U
  <2> QED BY <1>2, <1>4, WFMin
<1>6. PICK m \in S \cap U : A0 = Below(m)
  OBVIOUS
<1>7. ASSUME NEW k \in S, ~(m <= k) PROVE FALSE
  <2>1. k \in Nat /\ m \in Nat /\ k < m /\ k \in S \cap U
    BY <1>3, <1>7
  <2>2. Below(k) \subseteq A0 /\ m \in A0 /\ m \notin Below(k)
    <3>1. \A z \in S : z \in Nat /\ (z <= k => z <= m)
      BY <2>1
    <3>2. m <= m /\ ~(m <= k)
      BY <2>1
    <3> QED BY <1>6, <2>1, <3>1, <3>2
  <2>3. Below(k) \in All /\ A0 \in All
    BY <2>1
  <2>4. <<Below(k), A0>> \in (SUBSET U) \X (SUBSET U)
    BY <1>4, <2>3
  <2>5. <<Below(k), A0>> \in StrictSubsetOrdering(U)
    BY <2>2, <2>4 DEF StrictSubsetOrdering
  <2> QED BY <1>5, <2>3, <2>5
<1> QED BY <1>6, <1>7

\* The states the recursion of Renamed goes through exist.
LEMMA StepsExist ==
  ASSUME NEW b, NEW last, NEW n \in Nat
  PROVE  \E g : g = [k \in 0..n |-> IF k = 0 THEN b ELSE Named(g[k - 1], last + k)]
<1> DEFINE Q(m) == \E g : g = [k \in 0..m |-> IF k = 0 THEN b ELSE Named(g[k - 1], last + k)]
           Bad == {m \in Nat : ~Q(m)}
<1>1. SUFFICES ASSUME Bad # {} PROVE FALSE
  OBVIOUS
<1>2. PICK m \in Bad : \A k \in Bad : m <= k
  BY <1>1, Least
<1>3. m \in Nat /\ ~Q(m)
  OBVIOUS
<1>4. Q(0)
  <2>1. [k \in 0..0 |-> b] = [k \in 0..0 |-> IF k = 0 THEN b ELSE Named([j \in 0..0 |-> b][k - 1], last + k)]
    OBVIOUS
  <2> QED BY <2>1
<1> HIDE DEF Q
<1>5. m # 0 /\ m - 1 \in Nat
  BY <1>3, <1>4
<1>6. Q(m - 1)
  BY <1>2, <1>5
<1> USE DEF Q
<1>7. PICK g : g = [k \in 0..(m - 1) |-> IF k = 0 THEN b ELSE Named(g[k - 1], last + k)]
  BY <1>6
<1> DEFINE h == [k \in 0..m |-> IF k = m THEN Named(g[m - 1], last + m) ELSE g[k]]
<1>8. \A k \in 0..m : h[k] = IF k = 0 THEN b ELSE Named(h[k - 1], last + k)
  <2> SUFFICES ASSUME NEW k \in 0..m PROVE h[k] = IF k = 0 THEN b ELSE Named(h[k - 1], last + k)
    OBVIOUS
  <2>1. CASE k = m
    <3>1. h[k - 1] = g[m - 1]
      BY <1>3, <1>5, <2>1
    <3> QED BY <1>5, <2>1, <3>1
  <2>2. CASE k # m
    <3>1. k \in 0..(m - 1) /\ h[k] = g[k]
      BY <1>3, <2>2
    <3>2. k # 0 => h[k - 1] = g[k - 1]
      BY <1>3, <2>2
    <3>3. g[k] = IF k = 0 THEN b ELSE Named(g[k - 1], last + k)
      BY <1>7, <3>1
    <3> QED BY <3>1, <3>2, <3>3
  <2> QED BY <2>1, <2>2
<1>9. h = [k \in 0..m |-> IF k = 0 THEN b ELSE Named(h[k - 1], last + k)]
  <2>1. h = [k \in 0..m |-> h[k]]
    OBVIOUS
  <2> HIDE DEF h
  <2> QED BY <1>8, <2>1
<1>10. Q(m)
  BY <1>9
<1> QED BY <1>3, <1>10

\* Renamed is where they lead.
LEMMA RenamedSteps ==
  ASSUME NEW b, NEW last, NEW n \in Nat
  PROVE  \E g : /\ g[0] = b
                /\ \A k \in 1..n : g[k] = Named(g[k - 1], last + k)
                /\ Renamed(b, last, n) = g[n]
<1> DEFINE g == CHOOSE f : f = [k \in 0..n |-> IF k = 0 THEN b ELSE Named(f[k - 1], last + k)]
<1>1. g = [k \in 0..n |-> IF k = 0 THEN b ELSE Named(g[k - 1], last + k)]
  BY StepsExist
<1>2. Renamed(b, last, n) = g[n]
  BY DEF Renamed
<1> HIDE DEF g
<1>3. g[0] = b /\ \A k \in 1..n : g[k] = Named(g[k - 1], last + k)
  BY <1>1
<1> QED BY <1>2, <1>3

(***************************************************************************)
(* Counting, targets and items.                                            *)
(***************************************************************************)
\* A set that holds x is {x} or has more than one element.
LEMMA Single ==
  ASSUME NEW S, IsFiniteSet(S), NEW x \in S
  PROVE  /\ Cardinality(S) \in Nat
         /\ Cardinality(S) = 1 <=> \A y \in S : y = x
         /\ Cardinality(S) > 1 <=> \E y \in S : y # x
<1>1. Cardinality(S) \in Nat
  BY FS_CardinalityType
<1>2. Cardinality(S) # 0
  BY FS_EmptySet
<1>3. Cardinality(S) = 1 <=> \E z : S = {z}
  BY FS_Singleton
<1>4. (\E z : S = {z}) <=> \A y \in S : y = x
  OBVIOUS
<1> QED BY <1>1, <1>2, <1>3, <1>4

\* m + 1 numbers follow one another from a to a + m.
LEMMA IntervalSize ==
  ASSUME NEW a \in Nat, NEW m \in Nat
  PROVE  IsFiniteSet(a..(a + m)) /\ Cardinality(a..(a + m)) = m + 1
<1>1. a + m \in Int /\ a \in Int /\ ~(a > a + m) /\ (a + m) - a + 1 = m + 1
  OBVIOUS
<1> DEFINE e == a + m
<1> HIDE DEF e
<1>2. IsFiniteSet(a..e) /\ Cardinality(a..e) = IF a > e THEN 0 ELSE e - a + 1
  BY <1>1, FS_Interval DEF e
<1> QED BY <1>1, <1>2 DEF e

\* What is appended to a sequence can be taken off it, and tells it apart.
LEMMA AppendFront ==
  ASSUME NEW s \in Seq(Nat), NEW n \in Nat
  PROVE  /\ Append(s, n) \in Seq(Nat) /\ Append(s, n) # <<>> /\ Append(s, n) # s
         /\ Front(Append(s, n)) = s
         /\ \A m \in Nat : Append(s, n) = Append(s, m) => n = m
<1> DEFINE t == Append(s, n)
<1>1. /\ t \in Seq(Nat) /\ t # <<>> /\ Len(t) = Len(s) + 1
      /\ \A i \in 1..Len(s) : t[i] = s[i]
      /\ t[Len(s) + 1] = n
  BY AppendProperties
<1>2. Len(s) \in Nat
  BY LenProperties
<1>3. t # s
  BY <1>1, <1>2
<1>4. Front(t) = SubSeq(t, 1, Len(s))
  BY <1>1, <1>2 DEF Front
<1>5. \A i \in 1..Len(s) : t[i] \in Nat
  BY <1>1, <1>2, ElementOfSeq
<1> DEFINE u == SubSeq(t, 1, Len(s))
<1>6. /\ u \in Seq(Nat) /\ Len(u) = Len(s)
      /\ \A i \in 1..Len(s) : u[i] = t[i]
  <2> HIDE DEF t
  <2>1. /\ u \in Seq(Nat)
        /\ Len(u) = IF 1 <= Len(s) THEN Len(s) - 1 + 1 ELSE 0
        /\ \A i \in 1..(Len(s) - 1 + 1) : u[i] = t[1 + i - 1]
    BY <1>2, <1>5, SubSeqProperties
  <2> QED BY <1>2, <2>1
<1> HIDE DEF u
<1>7. u = s
  BY <1>1, <1>6, SeqEqual
<1>8. ASSUME NEW m \in Nat, t = Append(s, m) PROVE n = m
  <2>1. Append(s, m)[Len(s) + 1] = m
    BY AppendProperties
  <2> QED BY <1>1, <1>8, <2>1
<1> QED BY <1>1, <1>3, <1>4, <1>7, <1>8 DEF u

\* A suffix makes another target, whose name it can be taken off.
LEMMA SuffixedTarget ==
  ASSUME NEW t \in Path, NEW n \in Nat
  PROVE  /\ Suffixed(t, n) \in Path /\ Suffixed(t, n) # NoTarget /\ Suffixed(t, n) # t
         /\ Front(Suffixed(t, n).name) = t.name
         /\ \A m \in Nat : Suffixed(t, n) = Suffixed(t, m) => n = m
<1>1. /\ t.dir \in Seq(Nat) /\ t.name \in Seq(Nat)
      /\ t = [dir |-> t.dir, name |-> t.name]
  BY DEF Path
<1>2. ASSUME NEW m PROVE Suffixed(t, m) = [dir |-> t.dir, name |-> Append(t.name, m)]
  <2> DEFINE r == [t EXCEPT !.name = Append(t.name, m)]
  <2>1. Suffixed(t, m) = r
    BY <1>1 DEF Suffixed
  <2>2. r = [dir |-> t.dir, name |-> Append(t.name, m)]
    <3> DEFINE d == t.dir
               e == t.name
               x == Append(t.name, m)
    <3>1. t = [dir |-> d, name |-> e]
      BY <1>1
    <3> HIDE DEF d, e, x
    <3>2. [[dir |-> d, name |-> e] EXCEPT !.name = x] = [dir |-> d, name |-> x]
      OBVIOUS
    <3> QED BY <3>1, <3>2 DEF d, e, x
  <2> QED BY <2>1, <2>2
<1>3. \A m : Suffixed(t, m).name = Append(t.name, m)
  BY <1>2
<1>4. Suffixed(t, n) \in Path
  <2>1. Append(t.name, n) \in Seq(Nat)
    BY <1>1, AppendFront
  <2>2. Suffixed(t, n) = [dir |-> t.dir, name |-> Append(t.name, n)]
    BY <1>2
  <2> QED BY <1>1, <2>1, <2>2 DEF Path
<1>5. Suffixed(t, n) # NoTarget
  BY <1>1, <1>3, AppendFront DEF NoTarget
<1>6. Suffixed(t, n) # t /\ Front(Suffixed(t, n).name) = t.name
  BY <1>1, <1>3, AppendFront
<1>7. \A m \in Nat : Suffixed(t, n) = Suffixed(t, m) => n = m
  <2> SUFFICES ASSUME NEW m \in Nat, Suffixed(t, n) = Suffixed(t, m) PROVE n = m
    OBVIOUS
  <2>1. Append(t.name, n) = Append(t.name, m)
    BY <1>3
  <2> QED BY <1>1, <2>1, AppendFront
<1> QED BY <1>4, <1>5, <1>6, <1>7

\* The path that stands for none is a path.
LEMMA NoTargetPath == NoTarget \in Path
BY EmptySeq DEF NoTarget, Path

\* The items the passes make.
LEMMA Items ==
  ASSUME NEW t \in Path
  PROVE  /\ Moving(t) \in Item /\ Moving(t).move = TRUE
         /\ Moving(t).target = t /\ Moving(t).why = "none"
         /\ \A why \in Reasons :
              /\ Blocked(t, why) \in Item /\ Blocked(t, why).move = FALSE
              /\ Blocked(t, why).target = t /\ Blocked(t, why).why = why
BY DEF Moving, Blocked, Entry, Item, Reasons

\* An item's parts, and its key.
LEMMA ItemFields ==
  ASSUME NEW i \in Item
  PROVE  /\ i.move \in BOOLEAN /\ i.target \in Path /\ i.why \in Reasons
         /\ (i.move /\ i.why = "none") => i = Moving(i.target)
         /\ Key(i) \in Path
BY NoTargetPath DEF Item, Moving, Entry, Key

(***************************************************************************)
(* One file of the pass over the names.                                    *)
(***************************************************************************)
\* original_target_rank is 1 for the first item that asked for a name.
LEMMA RankOne ==
  ASSUME NEW b, NEW f \in Nat \ {0}, b.staged[f].target = b.original[f]
  PROVE  /\ Rank(b, f) \in Nat
         /\ (Rank(b, f) = 1) <=> First(b.original, f)
<1> DEFINE S == {g \in 1..f : b.original[g] = b.staged[f].target}
<1>1. IsFiniteSet(S)
  <2>1. IsFiniteSet(1..f)
    BY FS_Interval
  <2> QED BY <2>1, FS_Subset
<1>2. f \in S
  OBVIOUS
<1>3. Cardinality(S) \in Nat /\ (Cardinality(S) = 1 <=> \A y \in S : y = f)
  <2> HIDE DEF S
  <2> QED BY <1>1, <1>2, Single
<1>4. (\A y \in S : y = f) <=> First(b.original, f)
  <2>1. \A g \in 1..f : g = f \/ g \in 1..(f - 1)
    OBVIOUS
  <2>2. \A g \in 1..(f - 1) : g \in 1..f /\ g # f
    OBVIOUS
  <2> QED BY <2>1, <2>2 DEF First
<1> QED BY <1>3, <1>4 DEF Rank

\* Some suffix is always free: there are more of them to try than names that are
\* taken or asked for.
LEMMA SuffixFound ==
  ASSUME NEW b \in BuildRecord, NEW f \in DOMAIN b.staged,
         Len(b.original) = Len(b.staged), b.staged[f].target = b.original[f],
         IsFiniteSet(b.taken), Cardinality(b.taken) <= Len(b.staged)
  PROVE  \E n \in Nat : /\ NextName(b, f) = Suffixed(b.original[f], n)
                        /\ Free(b, f, NextName(b, f))
<1> DEFINE t == b.staged[f].target
           len == Len(b.staged)
           first == IF Rank(b, f) > 2 THEN Rank(b, f) ELSE 2
           Ok == {n \in first..(first + 2 * len) : Free(b, f, Suffixed(t, n))}
<1>1. /\ b.staged \in Seq(Item) /\ b.original \in Seq(Path) /\ b.taken \subseteq Path
  BY DEF BuildRecord
<1>2. /\ len \in Nat /\ DOMAIN b.staged = 1..len /\ DOMAIN b.original = 1..len
      /\ f \in 1..len /\ b.original[f] \in Path
  BY <1>1, LenProperties, ElementOfSeq
<1>3. first \in Nat
  BY <1>2, RankOne
<1>4. t \in Path
  BY <1>2
<1>5. Ok # {}
  <2> SUFFICES ASSUME Ok = {} PROVE FALSE
    OBVIOUS
  <2> DEFINE Orig == {b.original[g] : g \in 1..len}
             T == b.taken \cup Orig
             D == first..(first + 2 * len)
             h == [n \in D |-> Suffixed(t, n)]
  <2>1. \A n \in D : ~Free(b, f, Suffixed(t, n))
    OBVIOUS
  <2>2. \A n \in D : Suffixed(t, n) \in T
    <3> SUFFICES ASSUME NEW n \in D, Suffixed(t, n) \notin b.taken
                 PROVE  Suffixed(t, n) \in Orig
      OBVIOUS
    <3>1. WantedLater(b, f, Suffixed(t, n))
      BY <2>1 DEF Free
    <3>2. PICK g \in (f + 1)..len : b.original[g] = Suffixed(t, n)
      BY <3>1 DEF WantedLater
    <3>3. g \in 1..len
      BY <1>2
    <3> QED BY <3>2, <3>3
  <2>3. IsFiniteSet(Orig) /\ Cardinality(Orig) <= len
    <3> DEFINE e == [g \in 1..len |-> b.original[g]]
    <3>1. e \in Surjection(1..len, Orig)
      BY DEF Surjection
    <3>2. IsFiniteSet(1..len) /\ Cardinality(1..len) = len
      BY <1>2, FS_Interval
    <3> HIDE DEF e, Orig
    <3> QED BY <3>1, <3>2, FS_Surjection
  <2>4. IsFiniteSet(T) /\ Cardinality(T) <= 2 * len
    <3> HIDE DEF Orig
    <3>1. IsFiniteSet(b.taken \cap Orig)
      BY <2>3, FS_Subset
    <3>2. /\ Cardinality(b.taken) \in Nat /\ Cardinality(Orig) \in Nat
          /\ Cardinality(b.taken \cap Orig) \in Nat
      BY <2>3, <3>1, FS_CardinalityType
    <3>3. /\ IsFiniteSet(T)
          /\ Cardinality(T) = Cardinality(b.taken) + Cardinality(Orig) - Cardinality(b.taken \cap Orig)
      BY <2>3, FS_Union
    <3> QED BY <1>2, <2>3, <3>2, <3>3
  <2>5. IsFiniteSet(D) /\ Cardinality(D) = 2 * len + 1
    <3>1. first \in Nat /\ 2 * len \in Nat
      BY <1>2, <1>3
    <3> HIDE DEF first, len
    <3> QED BY <3>1, IntervalSize
  <2>6. h \in [D -> T]
    BY <2>2
  <2>7. PICK x \in D, y \in D : x # y /\ h[x] = h[y]
    <3>1. Cardinality(T) < Cardinality(D)
      <4>1. Cardinality(T) \in Nat
        BY <2>4, FS_CardinalityType
      <4> QED BY <1>2, <2>4, <2>5, <4>1
    <3> HIDE DEF D, T, h
    <3> QED BY <2>4, <2>5, <2>6, <3>1, FS_PigeonHole
  <2>8. x \in Nat /\ y \in Nat /\ Suffixed(t, x) = Suffixed(t, y)
    BY <1>3, <2>7
  <2> QED BY <1>4, <2>7, <2>8, SuffixedTarget
<1>6. Ok \subseteq Nat
  BY <1>3
<1>7. PICK n \in Ok : \A m \in Ok : n <= m
  <2> HIDE DEF Ok
  <2> QED BY <1>5, <1>6, Least
<1> DEFINE c == CHOOSE k \in Ok : \A m \in Ok : k <= m
<1>8. c \in Ok
  <2> HIDE DEF Ok
  <2> QED BY <1>7
<1>9. NextName(b, f) = Suffixed(t, c)
  BY DEF NextName
<1>10. c \in Nat /\ Free(b, f, Suffixed(t, c))
  <2> HIDE DEF c
  <2> QED BY <1>6, <1>8
<1> HIDE DEF c
<1> QED BY <1>9, <1>10

\* Sets of at most one element.
LEMMA AtMostOne ==
  /\ IsFiniteSet({}) /\ Cardinality({}) <= 1
  /\ \A x : IsFiniteSet({x}) /\ Cardinality({x}) <= 1
<1>1. IsFiniteSet({}) /\ Cardinality({}) = 0
  BY FS_EmptySet
<1>2. \A x : IsFiniteSet({x}) /\ Cardinality({x}) = 1
  BY FS_Singleton
<1>3. 0 <= 1 /\ 1 <= 1
  OBVIOUS
<1> QED BY <1>1, <1>2, <1>3

\* The pass goes on by one file, whatever the file gets: the name it asked for
\* when nobody asked for it before, a name nobody asked for and nobody has, or what
\* it had.
LEMMA NamesGoOn ==
  ASSUME NEW items, NEW orig, NEW taken, NEW k \in Nat, NEW R, NEW len \in Nat,
         DOMAIN items = 1..len, DOMAIN orig = 1..len, k + 1 <= len,
         NamesInv(items, orig, taken, k, R),
         NEW now, NEW new, DOMAIN now = 1..len,
         \A g \in 1..len : g # k + 1 => now[g] = items[g],
         IsFiniteSet(new), Cardinality(new) <= 1,
         orig[k + 1] = NoTarget => Fresh(now[k + 1], NoTarget),
         orig[k + 1] # NoTarget =>
           /\ First(orig, k + 1) => orig[k + 1] \in new
           /\ ~Renames(orig, k + 1, R) => now[k + 1] = Moving(orig[k + 1])
           /\ Renames(orig, k + 1, R) =>
                /\ Fits(now[k + 1], orig, k + 1)
                /\ now[k + 1].move => now[k + 1].target \in new \ taken,
         \A t \in new : (First(orig, k + 1) /\ orig[k + 1] = t) \/ (\A g \in 1..len : orig[g] # t)
  PROVE  NamesInv(now, orig, taken \cup new, k + 1, R)
<1>0. /\ k + 1 \in 1..len /\ 1..k \subseteq 1..len
      /\ \A g \in 1..(k + 1) : g \in 1..k \/ g = k + 1
      /\ \A g \in 1..k : g # k + 1 /\ g \in 1..(k + 1)
      /\ \A g \in 1..len : g > k + 1 => g > k /\ g # k + 1
  OBVIOUS
<1>1. \A f \in DOMAIN now : (f > k + 1 \/ orig[f] = NoTarget) => Fresh(now[f], orig[f])
  <2> SUFFICES ASSUME NEW f \in 1..len, f > k + 1 \/ orig[f] = NoTarget
               PROVE  Fresh(now[f], orig[f])
    OBVIOUS
  <2>1. CASE f = k + 1
    <3>1. ~(f > k + 1)
      BY <2>1
    <3> QED BY <2>1, <3>1
  <2>2. CASE f # k + 1
    <3>1. f > k \/ orig[f] = NoTarget
      BY <1>0
    <3> QED BY <2>2, <3>1 DEF NamesInv
  <2> QED BY <2>1, <2>2
<1>2. ASSUME NEW f \in 1..(k + 1), orig[f] # NoTarget
      PROVE  /\ First(orig, f) => orig[f] \in taken \cup new
             /\ ~Renames(orig, f, R) => now[f] = Moving(orig[f])
             /\ Renames(orig, f, R) =>
                  Fits(now[f], orig, f) /\ (now[f].move => now[f].target \in taken \cup new)
  <2>1. CASE f = k + 1
    BY <1>2, <2>1
  <2>2. CASE f \in 1..k
    <3>1. now[f] = items[f]
      BY <1>0, <2>2
    <3> QED BY <1>2, <2>2, <3>1 DEF NamesInv
  <2> QED BY <1>0, <2>1, <2>2
<1>3. \A t \in taken \cup new :
        \/ \E f \in 1..(k + 1) : First(orig, f) /\ orig[f] = t
        \/ \A g \in DOMAIN orig : orig[g] # t
  BY <1>0 DEF NamesInv
<1>4. Apart(now, orig, k + 1, R)
  <2> SUFFICES ASSUME NEW f \in 1..(k + 1), NEW g \in 1..(k + 1), f # g,
                      orig[f] # NoTarget, orig[g] # NoTarget,
                      Renames(orig, f, R), Renames(orig, g, R), now[f].move, now[g].move
               PROVE  now[f].target # now[g].target
    BY DEF Apart
  <2>0. \A h \in 1..k : now[h] = items[h]
    BY <1>0
  <2>1. CASE f \in 1..k /\ g \in 1..k
    BY <2>0, <2>1 DEF NamesInv, Apart
  <2>2. CASE f = k + 1 /\ g \in 1..k
    <3>1. now[g].target \in taken
      BY <2>0, <2>2 DEF NamesInv
    <3>2. now[f].target \notin taken
      BY <2>2
    <3> QED BY <3>1, <3>2
  <2>3. CASE g = k + 1 /\ f \in 1..k
    <3>1. now[f].target \in taken
      BY <2>0, <2>3 DEF NamesInv
    <3>2. now[g].target \notin taken
      BY <2>3
    <3> QED BY <3>1, <3>2
  <2> QED BY <1>0, <2>1, <2>2, <2>3
<1>5. IsFiniteSet(taken \cup new) /\ Cardinality(taken \cup new) <= k + 1
  <2>1. IsFiniteSet(taken) /\ Cardinality(taken) <= k
    BY DEF NamesInv
  <2>2. IsFiniteSet(taken \cap new)
    BY <2>1, FS_Subset
  <2>3. Cardinality(taken) \in Nat /\ Cardinality(new) \in Nat /\ Cardinality(taken \cap new) \in Nat
    BY <2>1, <2>2, FS_CardinalityType
  <2>4. /\ IsFiniteSet(taken \cup new)
        /\ Cardinality(taken \cup new) = Cardinality(taken) + Cardinality(new) - Cardinality(taken \cap new)
    BY <2>1, FS_Union
  <2> QED BY <2>1, <2>3, <2>4
<1> QED BY <1>1, <1>2, <1>3, <1>4, <1>5 DEF NamesInv

\* The first to ask for a name.
LEMMA FirstExists ==
  ASSUME NEW orig, NEW g \in Nat \ {0}
  PROVE  \E f \in 1..g : orig[f] = orig[g] /\ First(orig, f)
<1> DEFINE S == {h \in 1..g : orig[h] = orig[g]}
<1>1. S \subseteq Nat /\ S # {}
  OBVIOUS
<1>2. PICK f \in S : \A h \in S : f <= h
  <2> HIDE DEF S
  <2> QED BY <1>1, Least
<1>3. First(orig, f)
  <2> SUFFICES ASSUME NEW h \in 1..(f - 1), orig[h] = orig[f] PROVE FALSE
    BY DEF First
  <2>1. h \in S /\ ~(f <= h)
    OBVIOUS
  <2> QED BY <1>2, <2>1
<1> QED BY <1>3

\* What a fresh item asks for.
LEMMA FreshItem ==
  ASSUME NEW i \in Item, NEW o, Fresh(i, o)
  PROVE  /\ i.move <=> o # NoTarget
         /\ i.move => i.target = o /\ i = Moving(o)
BY ItemFields DEF Fresh, Key

\* One file of the pass.
LEMMA NamedFile ==
  ASSUME suffix \in BOOLEAN, Len(scan) \in Nat,
         NEW b \in BuildRecord, Len(b.original) = Len(b.staged), Len(b.staged) = Len(scan),
         NEW k \in Nat, k + 1 <= Len(scan),
         NamesInv(b.staged, b.original, b.taken, k, Renamable)
  PROVE  /\ Named(b, k + 1) \in BuildRecord
         /\ Named(b, k + 1).original = b.original /\ Named(b, k + 1).status = b.status
         /\ Len(Named(b, k + 1).staged) = Len(b.staged)
         /\ NamesInv(Named(b, k + 1).staged, b.original, Named(b, k + 1).taken, k + 1, Renamable)
<1> DEFINE f == k + 1
           len == Len(scan)
           item == b.staged[f]
           t == b.original[f]
           next == NextName(b, f)
           c == Named(b, f)
<1>1. /\ b.staged \in Seq(Item) /\ b.original \in Seq(Path) /\ b.taken \subseteq Path
      /\ b.status \in {"none", "building", "completed", "failed"}
      /\ b = [status |-> b.status, staged |-> b.staged, original |-> b.original, taken |-> b.taken]
  BY DEF BuildRecord
<1>2. /\ DOMAIN b.staged = 1..len /\ DOMAIN b.original = 1..len /\ f \in 1..len
      /\ item \in Item /\ t \in Path /\ f \in Nat \ {0}
  BY <1>1, LenProperties, ElementOfSeq
<1>3. Fresh(item, t)
  <2>1. f > k
    OBVIOUS
  <2> QED BY <1>2, <2>1 DEF NamesInv
<1>4. /\ item.move <=> t # NoTarget
      /\ item.move => item.target = t /\ item = Moving(t)
  BY <1>2, <1>3, FreshItem
<1>5. f \in Renamable <=> (suffix \/ scan[f].image)
  BY <1>2 DEF Renamable, File
<1>6. ~item.move => c = b
  BY DEF Named
<1>7. CASE ~item.move
  <2>1. NamesInv(b.staged, b.original, b.taken \cup {}, k + 1, Renamable)
    <3>1. IsFiniteSet({}) /\ Cardinality({}) <= 1
      BY AtMostOne
    <3>2. t = NoTarget /\ Fresh(b.staged[k + 1], NoTarget)
      BY <1>3, <1>4, <1>7
    <3> HIDE DEF item, len
    <3> QED BY <1>2, <3>1, <3>2, NamesGoOn DEF len
  <2>2. b.taken \cup {} = b.taken
    OBVIOUS
  <2> QED BY <1>1, <1>6, <1>7, <2>1, <2>2
<1>8. item.move => (Rank(b, f) = 1 /\ item.target \notin b.taken <=> First(b.original, f))
  <2> SUFFICES ASSUME item.move
               PROVE  Rank(b, f) = 1 /\ item.target \notin b.taken <=> First(b.original, f)
    OBVIOUS
  <2>1. Rank(b, f) = 1 <=> First(b.original, f)
    BY <1>2, <1>4, RankOne
  <2>2. ASSUME First(b.original, f), t \in b.taken PROVE FALSE
    <3>1. CASE \E g \in 1..k : First(b.original, g) /\ b.original[g] = t
      <4>1. PICK g \in 1..k : b.original[g] = t
        BY <3>1
      <4>2. g \in 1..(f - 1)
        OBVIOUS
      <4> QED BY <2>2, <4>1, <4>2 DEF First
    <3>2. CASE \A g \in DOMAIN b.original : b.original[g] # t
      BY <1>2, <3>2
    <3> QED BY <2>2, <3>1, <3>2 DEF NamesInv
  <2> QED BY <1>4, <2>1, <2>2
<1>9. CASE item.move /\ First(b.original, f)
  <2>1. c = [b EXCEPT !.taken = b.taken \cup {t}]
    BY <1>4, <1>8, <1>9 DEF Named
  <2>2. /\ c.status = b.status /\ c.staged = b.staged /\ c.original = b.original
        /\ c.taken = b.taken \cup {t} /\ c \in BuildRecord
    BY <1>1, <1>2, <2>1 DEF BuildRecord
  <2>3. NamesInv(b.staged, b.original, b.taken \cup {t}, k + 1, Renamable)
    <3>1. IsFiniteSet({t}) /\ Cardinality({t}) <= 1
      BY AtMostOne
    <3>2. /\ ~Renames(b.original, k + 1, Renamable) /\ t # NoTarget
          /\ b.staged[k + 1] = Moving(b.original[k + 1])
      BY <1>4, <1>9 DEF Renames
    <3> HIDE DEF item, len
    <3> QED BY <1>2, <1>9, <3>1, <3>2, NamesGoOn DEF len
  <2> QED BY <2>2, <2>3
<1>10. CASE item.move /\ ~First(b.original, f) /\ f \notin Renamable
  <2>1. c = b
    BY <1>5, <1>8, <1>10 DEF Named
  <2>2. NamesInv(b.staged, b.original, b.taken \cup {}, k + 1, Renamable)
    <3>1. IsFiniteSet({}) /\ Cardinality({}) <= 1
      BY AtMostOne
    <3>2. /\ ~Renames(b.original, k + 1, Renamable) /\ t # NoTarget
          /\ b.staged[k + 1] = Moving(b.original[k + 1])
      BY <1>4, <1>10 DEF Renames
    <3> HIDE DEF item, len
    <3> QED BY <1>2, <1>10, <3>1, <3>2, NamesGoOn DEF len
  <2>3. b.taken \cup {} = b.taken
    OBVIOUS
  <2> QED BY <1>1, <2>1, <2>2, <2>3
<1>11. CASE item.move /\ ~First(b.original, f) /\ f \in Renamable
  <2>1. PICK n \in Nat : next = Suffixed(t, n) /\ Free(b, f, next)
    <3>1. /\ IsFiniteSet(b.taken) /\ Cardinality(b.taken) <= k
      BY DEF NamesInv
    <3>2. Cardinality(b.taken) <= Len(b.staged)
      <4>1. Cardinality(b.taken) \in Nat
        BY <3>1, FS_CardinalityType
      <4> QED BY <3>1, <4>1
    <3> QED BY <1>2, <1>4, <1>11, <3>1, <3>2, SuffixFound
  <2>2. next \in Path /\ next # NoTarget /\ next # t /\ Front(next.name) = t.name
    BY <1>2, <2>1, SuffixedTarget
  <2>3. next \notin b.taken /\ ~WantedLater(b, f, next)
    BY <2>1 DEF Free
  <2>4. \A g \in 1..len : b.original[g] # next
    <3> SUFFICES ASSUME NEW g \in 1..len, b.original[g] = next PROVE FALSE
      OBVIOUS
    <3>1. CASE g < f
      <4>1. PICK h \in 1..g : b.original[h] = b.original[g] /\ First(b.original, h)
        BY FirstExists
      <4>2. h \in 1..k
        BY <3>1
      <4>3. b.original[h] \in b.taken
        BY <2>2, <4>1, <4>2 DEF NamesInv
      <4> QED BY <2>3, <4>1, <4>3
    <3>2. CASE g > f
      <4>1. g \in (f + 1)..Len(b.staged)
        BY <3>2
      <4> QED BY <2>3, <4>1 DEF WantedLater
    <3>3. CASE g = f
      BY <2>2, <3>3
    <3> QED BY <3>1, <3>2, <3>3
  <2> DEFINE i == Checked(next)
             new == IF Valid(next) THEN {next} ELSE {}
             now == [b.staged EXCEPT ![f] = i]
  <2>5. /\ i \in Item /\ i.target = next /\ (i.move => new = {next})
        /\ Fits(i, b.original, f)
    <3>1. /\ Moving(next) \in Item /\ Moving(next).target = next
          /\ Blocked(next, "invalid") \in Item /\ Blocked(next, "invalid").target = next
          /\ Blocked(next, "invalid").move = FALSE
      BY <2>2, Items DEF Reasons
    <3>2. i \in Item /\ i.target = next
      BY <3>1 DEF Checked
    <3>3. i.move => new = {next}
      BY <3>1 DEF Checked
    <3>4. i = Checked(i.target)
      BY <3>2
    <3> HIDE DEF i, next
    <3> QED BY <1>2, <2>2, <2>4, <3>2, <3>3, <3>4 DEF Fits
  <2>6. c = [b EXCEPT !.staged = now, !.taken = b.taken \cup new]
    <3>1. ~(Rank(b, f) = 1 /\ item.target \notin b.taken)
      BY <1>8, <1>11
    <3>2. ~(~suffix /\ ~scan[f].image)
      BY <1>5, <1>11
    <3>3. c = [b EXCEPT !.staged[f] = i,
                        !.taken = IF Valid(next) THEN @ \cup {next} ELSE @]
      <4> HIDE DEF next
      <4> QED BY <1>1, <1>11, <3>1, <3>2 DEF Named, next
    <3>4. (IF Valid(next) THEN b.taken \cup {next} ELSE b.taken) = b.taken \cup new
      OBVIOUS
    <3> HIDE DEF i, new, next
    <3> QED BY <1>1, <3>3, <3>4
  <2>7. /\ now \in Seq(Item) /\ Len(now) = Len(b.staged) /\ DOMAIN now = 1..len
        /\ \A g \in 1..len : g # f => now[g] = b.staged[g]
        /\ now[f] = i
    <3> HIDE DEF i
    <3> QED BY <1>1, <1>2, <2>5, ExceptSeq
  <2>8. IsFiniteSet(new) /\ Cardinality(new) <= 1
    BY AtMostOne
  <2>9. NamesInv(now, b.original, b.taken \cup new, k + 1, Renamable)
    <3>1. Renames(b.original, k + 1, Renamable) /\ t # NoTarget
      BY <1>4, <1>11 DEF Renames
    <3>2. \A x \in new : x = next
      OBVIOUS
    <3>3. now[k + 1].move => now[k + 1].target \in new \ b.taken
      <4> HIDE DEF i, new, now, next
      <4> QED BY <2>3, <2>5, <2>7
    <3>4. /\ Fits(now[k + 1], b.original, k + 1)
          /\ \A g \in 1..len : g # k + 1 => now[g] = b.staged[g]
          /\ DOMAIN now = 1..len
      <4> HIDE DEF i, new, now, next
      <4> QED BY <2>5, <2>7
    <3>5. \A x \in new : \A g \in 1..len : b.original[g] # x
      <4> HIDE DEF new, next
      <4> QED BY <2>4, <3>2
    <3> HIDE DEF item, len, now, new, i
    <3> QED BY <1>2, <1>11, <2>8, <3>1, <3>3, <3>4, <3>5, NamesGoOn DEF len
  <2>10. /\ c.status = b.status /\ c.staged = now /\ c.original = b.original
         /\ c.taken = b.taken \cup new /\ c \in BuildRecord
    <3>1. new \subseteq Path
      BY <2>2
    <3> HIDE DEF now, new, c
    <3> QED BY <1>1, <2>6, <2>7, <3>1 DEF BuildRecord
  <2>11. /\ Len(c.staged) = Len(b.staged)
         /\ NamesInv(c.staged, b.original, c.taken, k + 1, Renamable)
    <3> HIDE DEF now, new, c
    <3> QED BY <2>7, <2>9, <2>10
  <2> QED BY <2>10, <2>11
<1> QED BY <1>7, <1>9, <1>10, <1>11

\* The files of one page.
LEMMA RenamedPage ==
  ASSUME suffix \in BOOLEAN, Len(scan) \in Nat,
         NEW b \in BuildRecord, Len(b.original) = Len(b.staged), Len(b.staged) = Len(scan),
         NEW last \in Nat, NEW n \in Nat, last + n <= Len(scan),
         NamesInv(b.staged, b.original, b.taken, last, Renamable)
  PROVE  /\ Renamed(b, last, n) \in BuildRecord
         /\ Renamed(b, last, n).original = b.original /\ Renamed(b, last, n).status = b.status
         /\ Len(Renamed(b, last, n).staged) = Len(b.staged)
         /\ NamesInv(Renamed(b, last, n).staged, b.original, Renamed(b, last, n).taken, last + n,
                     Renamable)
<1> DEFINE Good(c, m) ==
      /\ c \in BuildRecord /\ c.original = b.original /\ c.status = b.status
      /\ Len(c.staged) = Len(b.staged)
      /\ NamesInv(c.staged, b.original, c.taken, last + m, Renamable)
<1>0. \E g : /\ g[0] = b
             /\ \A k \in 1..n : g[k] = Named(g[k - 1], last + k)
             /\ Renamed(b, last, n) = g[n]
  <2>1. n \in Nat
    OBVIOUS
  <2> QED BY ONLY <2>1, RenamedSteps
<1>1. PICK g : /\ g[0] = b
               /\ \A k \in 1..n : g[k] = Named(g[k - 1], last + k)
               /\ Renamed(b, last, n) = g[n]
  BY <1>0
<1>2. Good(g[0], 0)
  <2>1. last + 0 = last
    OBVIOUS
  <2> QED BY <1>1, <2>1
<1>3. ASSUME NEW k \in 1..n, Good(g[k - 1], k - 1) PROVE Good(g[k], k)
  <2> DEFINE c == g[k - 1]
             j == last + (k - 1)
  <2>1. /\ g[k] = Named(c, j + 1) /\ j \in Nat /\ j + 1 = last + k /\ j + 1 <= Len(scan)
    BY <1>1
  <2>2. /\ c \in BuildRecord /\ c.original = b.original /\ c.status = b.status
        /\ Len(c.staged) = Len(b.staged)
        /\ NamesInv(c.staged, c.original, c.taken, j, Renamable)
    BY <1>3
  <2>3. Len(c.original) = Len(c.staged) /\ Len(c.staged) = Len(scan)
    BY <2>2
  <2> HIDE DEF c, j
  <2>4. /\ Named(c, j + 1) \in BuildRecord
        /\ Named(c, j + 1).original = c.original /\ Named(c, j + 1).status = c.status
        /\ Len(Named(c, j + 1).staged) = Len(c.staged)
        /\ NamesInv(Named(c, j + 1).staged, c.original, Named(c, j + 1).taken, j + 1, Renamable)
    BY <2>1, <2>2, <2>3, NamedFile
  <2> QED BY <2>1, <2>2, <2>4
<1>4. Good(g[n], n)
  <2> DEFINE Bad == {k \in 0..n : ~Good(g[k], k)}
  <2>1. SUFFICES ASSUME Bad # {} PROVE FALSE
    OBVIOUS
  <2>2. PICK m \in Bad : \A k \in Bad : m <= k
    <3>1. Bad \subseteq Nat
      OBVIOUS
    <3> HIDE DEF Bad
    <3> QED BY <2>1, <3>1, Least
  <2> HIDE DEF Good
  <2>3. m \in 0..n /\ ~Good(g[m], m)
    OBVIOUS
  <2>4. m \in 1..n /\ m - 1 \in 0..n /\ ~(m <= m - 1)
    <3>1. m # 0
      BY <1>2, <2>3
    <3> QED BY <2>3, <3>1
  <2>5. Good(g[m - 1], m - 1)
    BY <2>2, <2>4
  <2> QED BY <1>3, <2>3, <2>4, <2>5
<1> QED BY <1>1, <1>4

(***************************************************************************)
(* The pass over the conflicts.                                            *)
(***************************************************************************)
\* The keys of the items that are staged.
LEMMA Keys ==
  ASSUME NEW o \in Path
  PROVE  /\ Key(Moving(o)) = o /\ Key(Blocked(o, "conflict")) = o
         /\ Key(Blocked(o, "invalid")) = NoTarget
BY DEF Key, Moving, Blocked, Entry

\* After the names, nothing is marked as a conflict yet.
LEMMA NamesEnd ==
  ASSUME NEW items \in Seq(Item), NEW orig \in Seq(Path), Len(orig) = Len(items),
         NEW taken, NEW R, NamesInv(items, orig, taken, Len(items), R)
  PROVE  Settled(items, orig, 0, R)
<1>1. /\ DOMAIN items = 1..Len(items) /\ DOMAIN orig = 1..Len(items) /\ Len(items) \in Nat
      /\ \A f \in 1..Len(items) : items[f] \in Item /\ orig[f] \in Path
  BY LenProperties, ElementOfSeq
<1>2. \A f \in DOMAIN items : orig[f] = NoTarget => Fresh(items[f], NoTarget)
  BY DEF NamesInv
<1>3. ASSUME NEW f \in DOMAIN items, orig[f] # NoTarget
      PROVE  /\ ~Renames(orig, f, R) => items[f] = Moving(orig[f])
             /\ Renames(orig, f, R) => Fits(items[f], orig, f)
  BY <1>1, <1>3 DEF NamesInv
<1>4. Apart(items, orig, Len(items), R)
  BY DEF NamesInv
<1>5. ASSUME NEW f \in DOMAIN items PROVE items[f].why # "conflict"
  <2>1. CASE orig[f] = NoTarget
    BY <1>2, <2>1 DEF Fresh
  <2>2. CASE orig[f] # NoTarget /\ ~Renames(orig, f, R)
    <3>1. items[f] = Moving(orig[f])
      BY <1>3, <2>2
    <3> QED BY <3>1 DEF Moving, Entry
  <2>3. CASE orig[f] # NoTarget /\ Renames(orig, f, R)
    <3>1. Fits(items[f], orig, f) /\ items[f].target \in Path
      BY <1>1, <1>3, <2>3, ItemFields
    <3>2. items[f] \in {Moving(items[f].target), Blocked(items[f].target, "invalid")}
      BY <3>1 DEF Fits, Checked
    <3> QED BY <3>2 DEF Moving, Blocked, Entry
  <2> QED BY <2>1, <2>2, <2>3
<1>6. \A f \in DOMAIN items : ~(f <= 0)
  BY <1>1
<1> QED BY <1>2, <1>3, <1>4, <1>5, <1>6 DEF Settled

\* Who else has the target of an item that asked for one.
LEMMA TwinOf ==
  ASSUME NEW items \in Seq(Item), NEW orig \in Seq(Path), Len(orig) = Len(items),
         NEW k, NEW R, Settled(items, orig, k, R),
         NEW f \in DOMAIN items, NEW g \in DOMAIN items, f # g, orig[f] # NoTarget,
         Key(items[g]) = items[f].target,
         items[f].target # NoTarget
  PROVE  /\ orig[g] # NoTarget /\ Key(items[g]) = items[g].target
         /\ Renames(orig, f, R) => ~items[f].move
<1>1. /\ DOMAIN items = 1..Len(items) /\ DOMAIN orig = 1..Len(items) /\ Len(items) \in Nat
      /\ items[f] \in Item /\ items[g] \in Item /\ orig[f] \in Path /\ orig[g] \in Path
  BY LenProperties, ElementOfSeq
<1>2. orig[g] # NoTarget
  BY DEF Settled, Fresh
<1>3. CASE ~Renames(orig, g, R)
  <2>1. items[g] \in {Moving(orig[g]), Blocked(orig[g], "conflict")}
    BY <1>2, <1>3 DEF Settled
  <2>2. items[g].target = orig[g] /\ Key(items[g]) = orig[g]
    <3>1. Key(items[g]) = orig[g]
      BY <1>1, <2>1, Keys
    <3>2. items[g].target = orig[g]
      BY <2>1 DEF Moving, Blocked, Entry
    <3> QED BY <3>1, <3>2
  <2>3. Renames(orig, f, R) => items[f].target # orig[g]
    BY <1>1 DEF Settled, Fits
  <2> QED BY <1>2, <2>2, <2>3
<1>4. CASE Renames(orig, g, R)
  <2>1. Fits(items[g], orig, g) /\ items[g].target \in Path
    BY <1>1, <1>2, <1>4, ItemFields DEF Settled
  <2>2. items[g] = Moving(items[g].target)
    <3>1. items[g] # Blocked(items[g].target, "invalid")
      BY <2>1, Keys
    <3> QED BY <2>1, <3>1 DEF Fits, Checked
  <2>3. items[g].move /\ Key(items[g]) = items[g].target
    BY <2>1, <2>2, Keys, Items
  <2>4. ASSUME Renames(orig, f, R), items[f].move PROVE FALSE
    BY <1>1, <1>2, <1>4, <2>3, <2>4 DEF Settled, Apart
  <2> QED BY <1>2, <2>3, <2>4
<1> QED BY <1>3, <1>4

\* Shared counts what Twin asks for.
LEMMA SharedTwin ==
  ASSUME NEW b, NEW n \in Nat, DOMAIN b.staged = 1..n, NEW f \in 1..n, b.staged[f].move
  PROVE  Shared(b, f) <=> Twin(b.staged, f)
<1> DEFINE S == {g \in DOMAIN b.staged : Key(b.staged[g]) = b.staged[f].target}
<1>1. IsFiniteSet(S)
  <2>1. IsFiniteSet(1..n)
    BY FS_Interval
  <2> QED BY <2>1, FS_Subset
<1>2. f \in S
  BY DEF Key
<1>3. Cardinality(S) > 1 <=> \E y \in S : y # f
  <2> HIDE DEF S
  <2> QED BY <1>1, <1>2, Single
<1> QED BY <1>3 DEF Shared, Twin

\* One page of the pass: an item that is marked keeps its key, so whether another
\* has a twin does not depend on the pages.
LEMMA MarkedPage ==
  ASSUME NEW b \in BuildRecord, Len(b.original) = Len(b.staged), NEW R,
         NEW k \in Nat, NEW last \in Nat, k <= last, NEW fs,
         \A f \in DOMAIN b.staged : (f \in fs => f <= last) /\ (f <= last => f <= k \/ f \in fs),
         Settled(b.staged, b.original, k, R)
  PROVE  /\ Marked(b, fs) \in BuildRecord
         /\ Marked(b, fs).original = b.original /\ Marked(b, fs).status = b.status
         /\ Len(Marked(b, fs).staged) = Len(b.staged)
         /\ Settled(Marked(b, fs).staged, b.original, last, R)
<1> DEFINE items == b.staged
           orig == b.original
           now == [f \in DOMAIN items |->
                     IF f \in fs /\ items[f].move /\ Shared(b, f)
                     THEN Blocked(items[f].target, "conflict") ELSE items[f]]
<1>1. /\ items \in Seq(Item) /\ orig \in Seq(Path)
      /\ DOMAIN items = 1..Len(items) /\ DOMAIN orig = 1..Len(items) /\ Len(items) \in Nat
  BY LenProperties DEF BuildRecord
<1>2. \A f \in 1..Len(items) : items[f] \in Item /\ orig[f] \in Path
  BY <1>1, ElementOfSeq
<1>3. Marked(b, fs) = [b EXCEPT !.staged = now]
  BY DEF Marked, BuildRecord
<1>4. ASSUME NEW f \in 1..Len(items)
      PROVE  /\ now[f] \in Item /\ now[f].target = items[f].target /\ Key(now[f]) = Key(items[f])
             /\ \/ now[f] = items[f]
                \/ f \in fs /\ items[f].move /\ Twin(items, f) /\ ~now[f].move
                   /\ now[f] = Blocked(items[f].target, "conflict")
             /\ f \in fs /\ now[f].move => ~Twin(items, f)
  <2>1. items[f] \in Item /\ items[f].target \in Path /\ items[f].move \in BOOLEAN
    BY <1>2, ItemFields
  <2>2. items[f].move => (Shared(b, f) <=> Twin(items, f))
    BY <1>1, SharedTwin
  <2>3. CASE f \in fs /\ items[f].move /\ Shared(b, f)
    <3>1. now[f] = Blocked(items[f].target, "conflict")
      BY <1>1, <2>3
    <3>2. /\ now[f] \in Item /\ now[f].target = items[f].target /\ now[f].move = FALSE
          /\ Key(now[f]) = items[f].target
      <4> DEFINE t == items[f].target
                 i == now[f]
      <4>1. i = Blocked(t, "conflict") /\ t \in Path /\ "conflict" \in Reasons
        BY <2>1, <3>1 DEF Reasons
      <4> HIDE DEF i, t
      <4>2. i \in Item /\ i.target = t /\ i.move = FALSE
        BY <4>1, Items
      <4>3. Key(i) = t
        BY <4>1, Keys
      <4> QED BY <4>2, <4>3 DEF i, t
    <3>3. Key(items[f]) = items[f].target
      BY <2>3 DEF Key
    <3> QED BY <2>2, <2>3, <3>1, <3>2, <3>3
  <2>4. CASE ~(f \in fs /\ items[f].move /\ Shared(b, f))
    <3>1. now[f] = items[f]
      BY <1>1, <2>4
    <3> QED BY <2>1, <2>2, <2>4, <3>1
  <2> QED BY <2>3, <2>4
<1>5. now \in Seq(Item) /\ Len(now) = Len(items) /\ DOMAIN now = 1..Len(items)
  <2>1. DOMAIN now = 1..Len(items) /\ now \in [1..Len(items) -> Item]
    BY <1>1, <1>4
  <2> HIDE DEF now, items
  <2>2. now \in Seq(Item)
    BY <1>1, <2>1, SeqDef
  <2> QED BY <1>1, <2>1, <2>2, LenProperties
<1> HIDE DEF now
<1>6. \A f \in 1..Len(items) : Twin(now, f) <=> Twin(items, f)
  BY <1>1, <1>4, <1>5 DEF Twin
<1>7. Settled(now, orig, last, R)
  <2>1. ASSUME NEW f \in 1..Len(items), orig[f] = NoTarget PROVE Fresh(now[f], NoTarget)
    <3>1. Fresh(items[f], NoTarget)
      BY <1>1, <2>1 DEF Settled
    <3>2. ~items[f].move
      BY <3>1 DEF Fresh, Key
    <3> QED BY <1>4, <3>1, <3>2
  <2>2. ASSUME NEW f \in 1..Len(items), orig[f] # NoTarget
        PROVE  /\ ~Renames(orig, f, R) => now[f] \in {Moving(orig[f]), Blocked(orig[f], "conflict")}
               /\ Renames(orig, f, R) => Fits(now[f], orig, f)
    <3>1. CASE now[f] = items[f]
      BY <1>1, <2>2, <3>1 DEF Settled
    <3>2. CASE /\ f \in fs /\ items[f].move /\ Twin(items, f)
               /\ now[f] = Blocked(items[f].target, "conflict")
      <4>1. ASSUME ~Renames(orig, f, R) PROVE now[f] = Blocked(orig[f], "conflict")
        <5>1. items[f].target = orig[f]
          BY <1>1, <2>2, <4>1 DEF Settled, Moving, Blocked, Entry
        <5> QED BY <3>2, <5>1
      <4>2. ASSUME Renames(orig, f, R) PROVE FALSE
        <5>1. PICK g \in DOMAIN items : g # f /\ Key(items[g]) = items[f].target
          BY <3>2 DEF Twin
        <5>2. items[f].target # NoTarget
          BY <1>1, <2>2, <4>2 DEF Settled, Fits
        <5> HIDE DEF items, orig
        <5>3. ~items[f].move
          BY <1>1, <2>2, <4>2, <5>1, <5>2, TwinOf DEF items, orig
        <5> QED BY <3>2, <5>3
      <4> QED BY <4>1, <4>2
    <3> QED BY <1>4, <3>1, <3>2
  <2>3. Apart(now, orig, Len(now), R)
    <3> SUFFICES ASSUME NEW f \in 1..Len(items), NEW g \in 1..Len(items), f # g,
                        orig[f] # NoTarget, orig[g] # NoTarget,
                        Renames(orig, f, R), Renames(orig, g, R), now[f].move, now[g].move
                 PROVE  now[f].target # now[g].target
      BY <1>5 DEF Apart
    <3>1. now[f] = items[f] /\ now[g] = items[g]
      BY <1>4
    <3> QED BY <3>1 DEF Settled, Apart
  <2>4. ASSUME NEW f \in 1..Len(items), now[f].why = "conflict" PROVE f <= last /\ Twin(now, f)
    <3>1. CASE now[f] = items[f]
      <4>1. f <= k /\ Twin(items, f)
        BY <1>1, <2>4, <3>1 DEF Settled
      <4> QED BY <1>1, <1>6, <4>1
    <3>2. CASE f \in fs /\ Twin(items, f)
      BY <1>1, <1>6, <3>2
    <3> QED BY <1>4, <3>1, <3>2
  <2>5. ASSUME NEW f \in 1..Len(items), f <= last, now[f].move PROVE ~Twin(now, f)
    <3>1. now[f] = items[f]
      BY <1>4, <2>5
    <3>2. CASE f <= k
      <4>1. ~Twin(items, f)
        BY <1>1, <2>5, <3>1, <3>2 DEF Settled
      <4> QED BY <1>6, <4>1
    <3>3. CASE f \in fs
      <4>1. ~Twin(items, f)
        BY <1>4, <2>5, <3>3
      <4> QED BY <1>6, <4>1
    <3> QED BY <1>1, <2>5, <3>2, <3>3
  <2> QED BY <1>5, <2>1, <2>2, <2>3, <2>4, <2>5 DEF Settled
<1>8. /\ Marked(b, fs).staged = now /\ Marked(b, fs).original = orig
      /\ Marked(b, fs).status = b.status /\ Marked(b, fs).taken = b.taken
      /\ Marked(b, fs) \in BuildRecord
  BY <1>3, <1>5 DEF BuildRecord
<1> QED BY <1>5, <1>7, <1>8

\* What the last pass leaves is what NamesResolved says.
LEMMA SettledResolves ==
  ASSUME NEW items \in Seq(Item), NEW wanted \in Seq(Path), NEW n \in Nat, n = Len(scan),
         Len(items) = n, Len(wanted) = n, Settled(items, wanted, n, Renamable)
  PROVE  LET Asked == {f \in DOMAIN items : wanted[f] # NoTarget}
         IN /\ \A f, g \in Asked :
                 f # g /\ items[f].move /\ items[g].move => items[f].target # items[g].target
            /\ \A f \in Asked :
                 LET first == \A g \in Asked : g < f => wanted[g] # wanted[f]
                     stays == items[f].target = wanted[f]
                 IN /\ first => stays
                    /\ items[f].why = "conflict" <=>
                         stays /\ \E g \in Asked \ {f} : items[g].target = wanted[f]
                    /\ stays \/ (\A g \in Asked : items[f].target # wanted[g])
                    /\ ~stays => Front(items[f].target.name) = wanted[f].name
                                 /\ items[f].move = Valid(items[f].target)
                    /\ first \/ ~stays \/ ~(suffix \/ scan[f].image)
<1> DEFINE Asked == {f \in DOMAIN items : wanted[f] # NoTarget}
           R == Renamable
<1>1. /\ DOMAIN items = 1..n /\ DOMAIN wanted = 1..n
      /\ \A f \in 1..n : /\ items[f] \in Item /\ wanted[f] \in Path
                         /\ items[f].move \in BOOLEAN /\ items[f].target \in Path
  BY LenProperties, ElementOfSeq, ItemFields
<1>2. \A f \in 1..n : f \in R <=> (suffix \/ scan[f].image)
  BY DEF Renamable, File
<1>3. ASSUME NEW f \in Asked, NEW g \in Asked, f # g, items[f].move, items[g].move
      PROVE  items[f].target # items[g].target
  <2>1. Key(items[g]) = items[g].target
    BY <1>3 DEF Key
  <2>2. ~Twin(items, f)
    BY <1>1, <1>3 DEF Settled
  <2> QED BY <1>1, <1>3, <2>1, <2>2 DEF Twin
<1>4. ASSUME NEW f \in Asked
      PROVE  (\A g \in Asked : g < f => wanted[g] # wanted[f]) <=> First(wanted, f)
  <2>1. f \in 1..n /\ \A g \in 1..(f - 1) : g \in 1..n /\ g < f
    BY <1>1
  <2>2. \A g \in 1..n : g < f => g \in 1..(f - 1)
    BY <2>1
  <2> QED BY <1>1, <2>1, <2>2 DEF First
<1>5. ASSUME NEW f \in Asked, ~Renames(wanted, f, R)
      PROVE  /\ items[f].target = wanted[f] /\ Key(items[f]) = wanted[f]
             /\ items[f] = Moving(wanted[f]) \/ items[f].why = "conflict"
             /\ items[f].why # "conflict" => items[f].move
  <2>1. items[f] = Moving(wanted[f]) \/ items[f] = Blocked(wanted[f], "conflict")
    BY <1>5 DEF Settled
  <2>2. Key(items[f]) = wanted[f]
    BY <1>1, <2>1, Keys
  <2> QED BY <2>1, <2>2 DEF Moving, Blocked, Entry
<1>6. ASSUME NEW f \in Asked, Renames(wanted, f, R)
      PROVE  /\ \A g \in Asked : items[f].target # wanted[g]
             /\ Front(items[f].target.name) = wanted[f].name
             /\ items[f].move = Valid(items[f].target)
             /\ items[f].why # "conflict"
  <2>1. Fits(items[f], wanted, f)
    BY <1>6 DEF Settled
  <2>2. CASE Valid(items[f].target)
    BY <1>1, <2>1, <2>2 DEF Fits, Checked, Moving, Entry, Valid
  <2>3. CASE ~Valid(items[f].target)
    BY <1>1, <2>1, <2>3 DEF Fits, Checked, Blocked, Entry, Valid
  <2> QED BY <1>1, <2>1, <2>2, <2>3 DEF Fits
<1>7. ASSUME NEW f \in Asked
      PROVE  items[f].why = "conflict" <=>
               items[f].target = wanted[f] /\ \E g \in Asked \ {f} : items[g].target = wanted[f]
  <2>1. ASSUME items[f].why = "conflict"
        PROVE  items[f].target = wanted[f] /\ \E g \in Asked \ {f} : items[g].target = wanted[f]
    <3>1. ~Renames(wanted, f, R)
      BY <1>6, <2>1
    <3>2. items[f].target = wanted[f]
      BY <1>5, <3>1
    <3>3. PICK g \in DOMAIN items : g # f /\ Key(items[g]) = items[f].target
      BY <2>1 DEF Settled, Twin
    <3>4. wanted[g] # NoTarget /\ Key(items[g]) = items[g].target
      <4>1. f \in DOMAIN items /\ wanted[f] # NoTarget /\ items[f].target # NoTarget
        BY <3>2
      <4> HIDE DEF Asked
      <4> QED BY <3>3, <4>1, TwinOf
    <3> QED BY <3>2, <3>3, <3>4
  <2>2. ASSUME items[f].target = wanted[f], NEW g \in Asked \ {f}, items[g].target = wanted[f]
        PROVE  items[f].why = "conflict"
    <3>1. ~Renames(wanted, f, R)
      BY <1>6, <2>2
    <3>2. ~Renames(wanted, g, R)
      BY <1>6, <2>2
    <3>3. Key(items[g]) = wanted[f]
      BY <1>5, <2>2, <3>2
    <3>4. Twin(items, f)
      BY <2>2, <3>3 DEF Twin
    <3>5. ~items[f].move
      BY <1>1, <3>4 DEF Settled
    <3> QED BY <1>5, <3>1, <3>5
  <2> QED BY <2>1, <2>2
<1>8. ASSUME NEW f \in Asked
      PROVE  /\ First(wanted, f) => items[f].target = wanted[f]
             /\ items[f].target = wanted[f] \/ (\A g \in Asked : items[f].target # wanted[g])
             /\ items[f].target # wanted[f] =>
                  /\ Front(items[f].target.name) = wanted[f].name
                  /\ items[f].move = Valid(items[f].target)
             /\ First(wanted, f) \/ items[f].target # wanted[f] \/ ~(suffix \/ scan[f].image)
  <2>1. Renames(wanted, f, R) <=> (~First(wanted, f) /\ (suffix \/ scan[f].image))
    BY <1>1, <1>2 DEF Renames
  <2>2. CASE Renames(wanted, f, R)
    BY <1>6, <2>1, <2>2
  <2>3. CASE ~Renames(wanted, f, R)
    BY <1>5, <2>1, <2>3
  <2> QED BY <2>2, <2>3
<1>9. \A f \in Asked :
        LET first == \A g \in Asked : g < f => wanted[g] # wanted[f]
            stays == items[f].target = wanted[f]
        IN /\ first => stays
           /\ items[f].why = "conflict" <=>
                stays /\ \E g \in Asked \ {f} : items[g].target = wanted[f]
           /\ stays \/ (\A g \in Asked : items[f].target # wanted[g])
           /\ ~stays => Front(items[f].target.name) = wanted[f].name
                        /\ items[f].move = Valid(items[f].target)
           /\ first \/ ~stays \/ ~(suffix \/ scan[f].image)
  <2> HIDE DEF Asked
  <2> QED BY <1>4, <1>7, <1>8
<1> QED BY <1>3, <1>9

(***************************************************************************)
(* Pages and types.                                                        *)
(***************************************************************************)
\* A page is what follows the cursor.
LEMMA PageIs ==
  ASSUME page \in Nat \ {0}, NEW last \in Nat, job.cursor \in 0..last
  PROVE  LET m == IF job.cursor + page < last THEN job.cursor + page ELSE last
         IN /\ m \in 0..last /\ job.cursor <= m
            /\ PageAfter(last) = (job.cursor + 1)..m
            /\ Cardinality(PageAfter(last)) \in Nat
            /\ m = job.cursor + Cardinality(PageAfter(last))
            /\ PageAfter(last) = {} <=> job.cursor = last
            /\ PageAfter(last) # {} => job.cursor < m
<1> DEFINE m == IF job.cursor + page < last THEN job.cursor + page ELSE last
<1>1. m \in 0..last /\ job.cursor \in Nat /\ job.cursor <= m
  OBVIOUS
<1>2. PageAfter(last) = (job.cursor + 1)..m
  BY <1>1 DEF PageAfter
<1>3. job.cursor = last <=> job.cursor = m
  OBVIOUS
<1> HIDE DEF m
<1>4. m - job.cursor \in Nat /\ (job.cursor < m => job.cursor + 1 \in (job.cursor + 1)..m)
  BY <1>1
<1>5. CASE job.cursor = m
  <2>1. (job.cursor + 1)..m = {}
    BY <1>1, <1>5
  <2>2. Cardinality((job.cursor + 1)..m) = 0
    BY <2>1, FS_EmptySet
  <2>3. m = job.cursor + 0 /\ 0 \in Nat /\ ~(job.cursor < m)
    BY <1>1, <1>5
  <2> QED BY <1>1, <1>2, <1>3, <1>5, <2>1, <2>2, <2>3 DEF m
<1>6. CASE job.cursor < m
  <2>1. m - job.cursor - 1 \in Nat /\ job.cursor + 1 \in Nat
        /\ (job.cursor + 1) + (m - job.cursor - 1) = m
    BY <1>1, <1>6
  <2>2. Cardinality((job.cursor + 1)..m) = (m - job.cursor - 1) + 1
    BY <2>1, IntervalSize
  <2>3. (m - job.cursor - 1) + 1 \in Nat /\ m = job.cursor + ((m - job.cursor - 1) + 1)
    BY <1>1, <1>6
  <2>4. job.cursor + 1 \in (job.cursor + 1)..m /\ job.cursor # m
    BY <1>1, <1>6
  <2> QED BY <1>1, <1>2, <1>3, <1>6, <2>2, <2>3, <2>4 DEF m
<1> QED BY <1>1, <1>5, <1>6

\* What is known of the scan and the page size.
LEMMA ScanIs ==
  ASSUME Typed
  PROVE  /\ scan \in Seq(ScannedFile) /\ Len(scan) \in Nat
         /\ File = 1..Len(scan) /\ page \in Nat \ {0} /\ suffix \in BOOLEAN
         /\ \A f \in File :
              /\ scan[f] \in ScannedFile
              /\ ~scan[f].image /\ scan[f].why = "none" => scan[f].target # NoTarget
<1>1. scan \in Scans /\ page \in Nat \ {0} /\ suffix \in BOOLEAN
  BY PlanAssumption DEF Typed
<1>2. /\ scan \in Seq(ScannedFile)
      /\ \A f \in DOMAIN scan : ~scan[f].image /\ scan[f].why = "none" => scan[f].target # NoTarget
  BY <1>1, PlanAssumption
<1>3. Len(scan) \in Nat /\ DOMAIN scan = 1..Len(scan)
  BY <1>2, LenProperties
<1>4. \A f \in 1..Len(scan) : scan[f] \in ScannedFile
  BY <1>2, ElementOfSeq
<1> QED BY <1>1, <1>2, <1>3, <1>4 DEF File

\* The parts of the job's record.
LEMMA JobIs ==
  ASSUME Typed
  PROVE  /\ job.pc \in {"idle", "draft", "complete", "abort"} \cup Passes
         /\ job.plan \in Plan \cup {0} /\ job.cursor \in 0..Len(scan)
         /\ job.changes \in Requests /\ job.unknown \in BOOLEAN /\ job.hashed \in Seq(Item)
         /\ job = [pc |-> job.pc, plan |-> job.plan, cursor |-> job.cursor,
                   changes |-> job.changes, unknown |-> job.unknown, hashed |-> job.hashed]
BY DEF Typed, JobRecord

\* The parts of a plan and of its build.
LEMMA PlanIs ==
  ASSUME Typed, NEW p \in Plan
  PROVE  /\ plan[p] \in PlanRecord /\ build[p] \in BuildRecord
         /\ plan[p].status \in RunStatus /\ plan[p].parent \in Plan \cup {0}
         /\ plan[p].items \in Seq(Item) /\ plan[p].hash \in Seq(Item)
         /\ plan[p].wanted \in Seq(Path)
         /\ build[p].staged \in Seq(Item) /\ build[p].original \in Seq(Path)
         /\ build[p].taken \subseteq Path
         /\ build[p].status \in {"none", "building", "completed", "failed"}
         /\ Len(plan[p].items) \in Nat /\ Len(build[p].staged) \in Nat
<1>1. plan[p] \in PlanRecord /\ build[p] \in BuildRecord
  BY DEF Typed
<1>2. plan[p].items \in Seq(Item) /\ build[p].staged \in Seq(Item)
  BY <1>1 DEF PlanRecord, BuildRecord
<1>3. Len(plan[p].items) \in Nat /\ Len(build[p].staged) \in Nat
  BY <1>2, LenProperties
<1> QED BY <1>1, <1>2, <1>3 DEF PlanRecord, BuildRecord

\* Nothing a step does changes what is scanned.
LEMMA SameInput ==
  ASSUME UNCHANGED input
  PROVE  /\ scan' = scan /\ suffix' = suffix /\ page' = page
         /\ Len(scan)' = Len(scan) /\ File' = File /\ Renamable' = Renamable
         /\ JobRecord' = JobRecord
BY DEF input, File, Renamable, JobRecord, Requests

\* A step on one plan and its build keeps what is known of the plans when it keeps
\* it of that one.
LEMMA OnePlan ==
  ASSUME Typed, Rows, Finished, UNCHANGED input,
         NEW p \in Plan, NEW r, NEW c,
         plan' \in [Plan -> PlanRecord], build' \in [Plan -> BuildRecord],
         plan'[p] = r, build'[p] = c,
         \A q \in Plan \ {p} : plan'[q] = plan[q] /\ build'[q] = build[q],
         job' \in JobRecord, lost' \subseteq Plan, faults' \in 0..MaxFaults,
         Row(r, c), r.status = "completed" => Done(r)
  PROVE  Typed' /\ Rows' /\ Finished'
<1>2. Typed'
  BY SameInput DEF Typed
<1>3. Rows'
  <2> SUFFICES ASSUME NEW q \in Plan PROVE Row(plan[q], build[q])'
    BY DEF Rows
  <2>1. Row(plan'[q], build'[q])
    BY DEF Rows
  <2> QED BY <2>1, SameInput DEF Row
<1>4. Finished'
  <2> SUFFICES ASSUME NEW q \in Plan, plan'[q].status = "completed" PROVE Done(plan[q])'
    BY DEF Finished
  <2>1. Done(plan'[q])
    BY DEF Finished
  <2> QED BY <2>1, SameInput DEF Done
<1> QED BY <1>2, <1>3, <1>4

\* A step of the job alone.
LEMMA JobAlone ==
  ASSUME Typed, Rows, Finished, UNCHANGED <<input, plan, build>>,
         job' \in JobRecord, lost' \subseteq Plan, faults' \in 0..MaxFaults
  PROVE  Typed' /\ Rows' /\ Finished'
<1>1. UNCHANGED input /\ plan' = plan /\ build' = build
  OBVIOUS
<1>2. Typed'
  BY <1>1, SameInput DEF Typed
<1>3. Rows'
  BY <1>1, SameInput DEF Rows, Row
<1>4. Finished'
  BY <1>1, SameInput DEF Finished, Done
<1> QED BY <1>2, <1>3, <1>4

(***************************************************************************)
(* The items a pass stages.                                                *)
(***************************************************************************)
\* make_plan_item makes fresh items.
LEMMA DraftItem ==
  ASSUME Typed, NEW f \in File
  PROVE  Draft(scan[f]) \in Item /\ Fresh(Draft(scan[f]), Key(Draft(scan[f])))
<1> DEFINE s == scan[f]
<1>1. /\ s \in ScannedFile /\ (~s.image /\ s.why = "none" => s.target # NoTarget)
  BY ScanIs
<1>2. /\ s.image \in BOOLEAN /\ s.target \in Path
      /\ s.why \in {"none", "missing", "same", "invalid"}
  BY <1>1 DEF ScannedFile
<1> HIDE DEF s
<1>3. CASE s.image
  <2>1. Draft(s) = Blocked(NoTarget, "pending")
    BY <1>3 DEF Draft
  <2>2. Blocked(NoTarget, "pending") \in Item
    BY NoTargetPath, Items DEF Reasons
  <2> QED BY <2>1, <2>2 DEF s, Fresh, Blocked, Entry
<1>4. CASE ~s.image
  <2>1. Draft(s) = [move |-> (s.why = "none"), target |-> s.target, why |-> s.why]
    BY <1>4 DEF Draft, Entry
  <2>2. Draft(s) \in Item
    BY <1>2, <2>1 DEF Item, Reasons
  <2>3. Fresh(Draft(s), Key(Draft(s)))
    BY <1>1, <1>2, <1>4, <2>1 DEF Fresh
  <2> QED BY <2>2, <2>3 DEF s
<1> QED BY <1>2, <1>3, <1>4

\* What an item of a finished plan may be.
LEMMA SettledItem ==
  ASSUME NEW items \in Seq(Item), NEW orig \in Seq(Path), Len(orig) = Len(items),
         NEW k, NEW R, Settled(items, orig, k, R), NEW f \in DOMAIN items
  PROVE  /\ items[f] \in Item /\ items[f].target \in Path
         /\ items[f].why = "conflict" => items[f].target # NoTarget
         /\ items[f].why # "conflict" =>
              (items[f].move => items[f].why = "none" /\ items[f].target # NoTarget)
<1> DEFINE i == items[f]
           o == orig[f]
<1>1. i \in Item /\ o \in Path /\ i.target \in Path
  BY LenProperties, ElementOfSeq, ItemFields
<1>2. CASE o = NoTarget
  <2>1. Fresh(i, NoTarget)
    BY <1>2 DEF Settled
  <2> QED BY <1>1, <2>1 DEF Fresh
<1>3. CASE o # NoTarget /\ ~Renames(orig, f, R)
  <2>1. i \in {Moving(o), Blocked(o, "conflict")}
    BY <1>3 DEF Settled
  <2> HIDE DEF i, o
  <2> QED BY <1>1, <1>3, <2>1 DEF Moving, Blocked, Entry, i
<1>4. CASE o # NoTarget /\ Renames(orig, f, R)
  <2>1. Fits(i, orig, f)
    BY <1>4 DEF Settled
  <2>2. /\ i.target # NoTarget
        /\ i = Moving(i.target) \/ i = Blocked(i.target, "invalid")
    BY <2>1 DEF Fits, Checked
  <2>3. i.move => i.why = "none"
    <3> HIDE DEF i
    <3> QED BY <2>2 DEF Moving, Blocked, Entry
  <2> QED BY <1>1, <2>2, <2>3
<1> QED BY <1>2, <1>3, <1>4

\* revise_staged_plan_item makes fresh items of those of a finished plan.
LEMMA RevisedItem ==
  ASSUME Typed, Finished, P \in Plan, plan[P].parent \in Plan,
         plan[plan[P].parent].status = "completed", NEW f \in File
  PROVE  Revised(f) \in Item /\ Fresh(Revised(f), Key(Revised(f)))
<1> DEFINE old == plan[plan[P].parent].items[f]
           to == job.changes[f]
<1>1. /\ old \in Item /\ old.target \in Path
      /\ old.why = "conflict" => old.target # NoTarget
      /\ old.why # "conflict" => (old.move => old.why = "none" /\ old.target # NoTarget)
  <2> DEFINE r == plan[plan[P].parent]
  <2>1. Done(r) /\ r.items \in Seq(Item) /\ r.wanted \in Seq(Path)
    BY PlanIs DEF Finished
  <2> HIDE DEF r
  <2>2. DOMAIN r.items = 1..Len(scan) /\ f \in 1..Len(scan)
    BY <2>1, ScanIs, LenProperties DEF Done
  <2>3. Len(r.items) = Len(r.wanted) /\ Settled(r.items, r.wanted, Len(scan), Renamable)
    BY <2>1 DEF Done
  <2>4. /\ r.items[f] \in Item /\ r.items[f].target \in Path
        /\ r.items[f].why = "conflict" => r.items[f].target # NoTarget
        /\ r.items[f].why # "conflict" =>
             (r.items[f].move => r.items[f].why = "none" /\ r.items[f].target # NoTarget)
    BY <2>1, <2>2, <2>3, SettledItem
  <2> QED BY <2>4 DEF r
<1> HIDE DEF old
<1>2. CASE f \notin DOMAIN job.changes /\ Valid(old.target) /\ old.why = "conflict"
  <2>1. Revised(f) = Moving(old.target)
    BY <1>2 DEF Revised, old
  <2>2. Moving(old.target) \in Item
    BY <1>1, Items
  <2>3. Fresh(Moving(old.target), Key(Moving(old.target)))
    BY <1>1, <1>2 DEF Fresh, Moving, Entry
  <2> QED BY <2>1, <2>2, <2>3
<1>3. CASE f \notin DOMAIN job.changes /\ Valid(old.target) /\ old.why # "conflict"
  <2>1. Revised(f) = old
    BY <1>3 DEF Revised, old
  <2> QED BY <1>1, <1>3, <2>1 DEF Fresh
<1>4. CASE f \in DOMAIN job.changes \/ ~Valid(old.target)
  <2>1. f \in DOMAIN job.changes => to \in Path
    <3>1. PICK fs \in SUBSET File : job.changes \in [fs -> Manual]
      BY JobIs DEF Requests
    <3>2. f \in DOMAIN job.changes => to \in Manual
      BY <3>1
    <3> QED BY <3>2, PlanAssumption
  <2>2. \/ Revised(f) = Blocked(NoTarget, "same")
        \/ f \in DOMAIN job.changes /\ to # NoTarget /\ Revised(f) = Moving(to)
        \/ Revised(f) = Blocked(NoTarget, "invalid")
    BY <1>4 DEF Revised, old
  <2> HIDE DEF to
  <2>3. CASE f \in DOMAIN job.changes /\ to # NoTarget /\ Revised(f) = Moving(to)
    <3>1. Moving(to) \in Item
      BY <2>1, <2>3, Items
    <3>2. Fresh(Moving(to), Key(Moving(to)))
      BY <2>3 DEF Fresh, Moving, Entry
    <3> QED BY <2>3, <3>1, <3>2
  <2>4. ASSUME NEW why \in {"same", "invalid"}, Revised(f) = Blocked(NoTarget, why)
        PROVE  Revised(f) \in Item /\ Fresh(Revised(f), Key(Revised(f)))
    <3>1. Blocked(NoTarget, why) \in Item
      BY NoTargetPath, Items DEF Reasons
    <3>2. Fresh(Blocked(NoTarget, why), Key(Blocked(NoTarget, why)))
      BY DEF Fresh, Blocked, Entry
    <3> QED BY <2>4, <3>1, <3>2
  <2> QED BY <2>2, <2>3, <2>4
<1> QED BY <1>2, <1>3, <1>4

\* An image finds a place, or a reason why not.
LEMMA ResolvedItem ==
  ASSUME Typed, NEW items, DOMAIN items \subseteq File, NEW f \in File
  PROVE  /\ ResolvedImage(items, f) \in Item
         /\ Fresh(ResolvedImage(items, f), Key(ResolvedImage(items, f)))
<1> DEFINE to == Candidates(items, f)
           t == [dir |-> CHOOSE d \in to : TRUE, name |-> scan[f].name]
<1>1. /\ scan[f].name \in Seq(Nat) /\ scan[f].name # <<>>
      /\ \A g \in File : scan[g].target \in Path
  BY ScanIs DEF ScannedFile
<1>2. ASSUME NEW d \in Seq(Nat) PROVE Front(d) \in Seq(Nat)
  <2>1. Len(d) \in Nat /\ \A i \in 1..Len(d) : d[i] \in Nat
    BY LenProperties, ElementOfSeq
  <2>2. Len(d) - 1 \in Int /\ \A i \in 1..(Len(d) - 1) : d[i] \in Nat
    BY <2>1
  <2>3. SubSeq(d, 1, Len(d) - 1) \in Seq(Nat)
    BY <2>2, SubSeqProperties
  <2> QED BY <2>3 DEF Front
<1>3. ASSUME NEW anchors, anchors \subseteq File PROVE Destinations(anchors) \subseteq Seq(Nat)
  <2> DEFINE dirs == {scan[g].target.dir : g \in anchors}
  <2>1. dirs \subseteq Seq(Nat)
    BY <1>1, <1>3 DEF Path
  <2>2. {Front(d) : d \in dirs} \subseteq Seq(Nat)
    BY <1>2, <2>1
  <2>3. Destinations(anchors) = dirs \/ Destinations(anchors) = {Front(d) : d \in dirs}
    BY DEF Destinations
  <2> QED BY <2>1, <2>2, <2>3
<1>4. to \subseteq Seq(Nat)
  <2>1. \A dir : Anchored(items, dir) \subseteq File
    BY DEF Anchored
  <2>2. to = {} \/ \E dir : to = Destinations(Anchored(items, dir))
    BY DEF Candidates
  <2> HIDE DEF to
  <2> QED BY <1>3, <2>1, <2>2
<1>5. /\ to = {} => ResolvedImage(items, f) = Blocked(NoTarget, "alone")
      /\ to # {} => \/ ResolvedImage(items, f) = Blocked(NoTarget, "ambiguous")
                    \/ ResolvedImage(items, f) = Checked(t)
  <2>1. ~(Cardinality({}) > 1)
    BY AtMostOne, FS_EmptySet
  <2>2. CASE to = {}
    BY <2>1, <2>2 DEF ResolvedImage
  <2>3. CASE to # {} /\ Cardinality(to) > 1
    BY <2>3 DEF ResolvedImage
  <2>4. CASE to # {} /\ ~(Cardinality(to) > 1)
    BY <2>4 DEF ResolvedImage
  <2> QED BY <2>2, <2>3, <2>4
<1> HIDE DEF to
<1>6. CASE to # {} /\ ResolvedImage(items, f) = Checked(t)
  <2>1. (CHOOSE d \in to : TRUE) \in Seq(Nat)
    BY <1>4, <1>6
  <2>2. t \in Path /\ t # NoTarget
    BY <1>1, <2>1 DEF Path, NoTarget
  <2> HIDE DEF t
  <2>3. Moving(t) \in Item /\ Fresh(Moving(t), Key(Moving(t)))
    BY <2>2, Items DEF Fresh, Moving, Entry, Key
  <2>4. Blocked(t, "invalid") \in Item /\ Fresh(Blocked(t, "invalid"), Key(Blocked(t, "invalid")))
    BY <2>2, Items DEF Reasons, Fresh, Blocked, Entry, Key
  <2> QED BY <1>6, <2>3, <2>4 DEF Checked
<1>7. ASSUME NEW why \in {"alone", "ambiguous"}, ResolvedImage(items, f) = Blocked(NoTarget, why)
      PROVE  /\ ResolvedImage(items, f) \in Item
             /\ Fresh(ResolvedImage(items, f), Key(ResolvedImage(items, f)))
  <2>1. Blocked(NoTarget, why) \in Item
    BY NoTargetPath, Items DEF Reasons
  <2>2. Fresh(Blocked(NoTarget, why), Key(Blocked(NoTarget, why)))
    BY DEF Fresh, Blocked, Entry
  <2> QED BY <1>7, <2>1, <2>2
<1> QED BY <1>5, <1>6, <1>7

(***************************************************************************)
(* The steps.                                                              *)
(***************************************************************************)
\* A request for no changes.
LEMMA NoChanges == <<>> \in Requests
<1>1. <<>> \in [{} -> Manual]
  <2>1. <<>> \in Seq(Manual) /\ Len(<<>>) = 0 /\ DOMAIN <<>> = 1..0
    BY EmptySeq, LenProperties
  <2>2. 1..0 = {} /\ <<>> \in [1..Len(<<>>) -> Manual]
    BY <2>1, LenProperties
  <2> QED BY <2>1, <2>2
<1> QED BY <1>1 DEF Requests

\* The first state.
LEMMA Initially == Init => IInv
<1> SUFFICES ASSUME Init PROVE IInv
  OBVIOUS
<1>0. \A S : <<>> \in Seq(S)
  BY EmptySeq
<1>1. <<>> \in Requests
  BY NoChanges
<1>2. NoPlan \in PlanRecord /\ NoBuild \in BuildRecord
  BY <1>0 DEF NoPlan, NoBuild, PlanRecord, BuildRecord, RunStatus
<1>3. scan \in Scans /\ Len(scan) \in Nat
  <2>1. scan \in Seq(ScannedFile)
    BY PlanAssumption DEF Init
  <2> QED BY <2>1, LenProperties DEF Init
<1>4. Typed
  <2>1. Idle \in JobRecord
    BY <1>0, <1>1, <1>3 DEF Idle, JobRecord
  <2>2. 0 \in 0..MaxFaults
    BY PlanAssumption
  <2> QED BY <1>2, <2>1, <2>2 DEF Init, Typed
<1>5. Rows
  <2>1. Len(<<>>) = 0 /\ 0 <= Len(scan)
    BY <1>3, EmptySeq
  <2>2. Row(NoPlan, NoBuild)
    BY <2>1 DEF Row, NoPlan, NoBuild
  <2> QED BY <2>2 DEF Init, Rows
<1>6. Finished /\ Building
  BY DEF Init, Finished, Building, Idle, NoPlan
<1> QED BY <1>4, <1>5, <1>6 DEF IInv

\* A plan whose parent, if any, is finished is begun.
LEMMA Starts ==
  ASSUME IInv, NEW p \in Plan, NEW parent \in Plan \cup {0}, NEW changes \in Requests,
         NEW unknown \in BOOLEAN, Start(p, parent, "draft", changes, unknown),
         parent # 0 => plan[parent].status = "completed"
  PROVE  IInv'
<1> DEFINE r == [NoPlan EXCEPT !.status = "running", !.parent = parent]
           c == [build[p] EXCEPT !.status = "building"]
<1>1. /\ UNCHANGED <<input, lost, faults>> /\ plan[p].status = "none"
      /\ plan' = [plan EXCEPT ![p] = r]
      /\ build' = [build EXCEPT ![p].status = "building"]
      /\ job' = [pc |-> "draft", plan |-> p, cursor |-> 0, changes |-> changes,
                 unknown |-> unknown, hashed |-> <<>>]
  BY DEF Start
<1>2. Typed /\ Rows /\ Finished
  BY DEF IInv
<1>3. build[p] = NoBuild
  BY <1>1, <1>2 DEF Rows, Row
<1>4. c = [status |-> "building", staged |-> <<>>, original |-> <<>>, taken |-> {}]
  <2> DEFINE e == <<>>
             z == {}
  <2>1. build[p] = [status |-> "none", staged |-> e, original |-> e, taken |-> z]
    BY <1>3 DEF NoBuild
  <2> HIDE DEF e, z
  <2>2. c = [status |-> "building", staged |-> e, original |-> e, taken |-> z]
    BY <2>1
  <2> QED BY <2>2 DEF e, z
<1>5. r = [status |-> "running", parent |-> parent, items |-> <<>>, hash |-> <<>>, wanted |-> <<>>]
  <2> DEFINE e == <<>>
  <2>1. NoPlan = [status |-> "none", parent |-> 0, items |-> e, hash |-> e, wanted |-> e]
    BY DEF NoPlan
  <2> HIDE DEF e
  <2> DEFINE r1 == [NoPlan EXCEPT !.status = "running"]
  <2>2. r1 = [status |-> "running", parent |-> 0, items |-> e, hash |-> e, wanted |-> e]
    BY <2>1
  <2>3. r = [r1 EXCEPT !.parent = parent]
    OBVIOUS
  <2> HIDE DEF r1
  <2>4. r = [status |-> "running", parent |-> parent, items |-> e, hash |-> e, wanted |-> e]
    BY <2>2, <2>3
  <2> QED BY <2>4 DEF e
<1>6. \A S : <<>> \in Seq(S)
  BY EmptySeq
<1> HIDE DEF r, c
<1>7. r \in PlanRecord /\ c \in BuildRecord
  BY <1>4, <1>5, <1>6 DEF PlanRecord, BuildRecord, RunStatus
<1>8. Len(scan) \in Nat /\ Len(<<>>) = 0
  BY <1>2, ScanIs, EmptySeq
<1>9. job' \in JobRecord
  BY <1>1, <1>6, <1>8 DEF JobRecord
<1>10. Row(r, c) /\ r.status # "completed"
  BY <1>4, <1>5, <1>8 DEF Row
<1>11. build' = [build EXCEPT ![p] = c]
  BY <1>1 DEF c
<1>12. UNCHANGED input /\ lost' \subseteq Plan /\ faults' \in 0..MaxFaults
  BY <1>1, <1>2 DEF Typed
<1>13. /\ plan' \in [Plan -> PlanRecord] /\ build' \in [Plan -> BuildRecord]
       /\ plan'[p] = r /\ build'[p] = c
       /\ \A q \in Plan \ {p} : plan'[q] = plan[q] /\ build'[q] = build[q]
  BY <1>1, <1>2, <1>7, <1>11 DEF Typed
<1>15. Typed' /\ Rows' /\ Finished'
  BY <1>2, <1>9, <1>10, <1>12, <1>13, OnePlan
<1>14. Building'
  <2>1. P' = p /\ B' = c /\ job'.pc = "draft" /\ job'.cursor = 0 /\ job'.hashed = <<>>
    BY <1>1, <1>13 DEF P, B
  <2>2. parent # 0 => plan'[parent].status = "completed"
    BY <1>1, <1>13
  <2>3. Len(c.staged) = 0 /\ DOMAIN c.staged = {} /\ c.taken = {}
    BY <1>4, <1>8
  <2>4. AllFresh(c)
    BY <2>3 DEF AllFresh
  <2>5. (AllFresh(B))' /\ (Len(B.staged) = job.cursor)' /\ (B.taken = {})'
    <3> QED BY <2>1, <2>3, <2>4 DEF AllFresh
  <2> QED BY <1>5, <1>13, <2>1, <2>2, <2>5 DEF Building
<1> QED BY <1>14, <1>15 DEF IInv

\* begin_plan
LEMMA BeginsPlan == IInv /\ BeginPlan => IInv'
<1> SUFFICES ASSUME IInv, NEW p \in Plan, Start(p, 0, "draft", <<>>, FALSE) PROVE IInv'
  BY DEF BeginPlan
<1> QED BY NoChanges, Starts

\* begin_plan_revision
LEMMA BeginsRevision == IInv /\ BeginRevision => IInv'
<1> SUFFICES ASSUME IInv, BeginRevision PROVE IInv'
  OBVIOUS
<1>1. PICK p \in Plan, parent \in Plan, unknown \in BOOLEAN, fs \in SUBSET File :
        /\ plan[parent].status = "completed"
        /\ \E changes \in [fs -> Manual] : Start(p, parent, "draft", changes, unknown)
  BY DEF BeginRevision
<1>2. PICK changes \in [fs -> Manual] : Start(p, parent, "draft", changes, unknown)
  BY <1>1
<1>3. changes \in Requests
  BY DEF Requests
<1> QED BY <1>1, <1>2, <1>3, Starts

\* The plan that is being built.
LEMMA AtWork ==
  ASSUME IInv, job.pc # "idle"
  PROVE  /\ Typed /\ Rows /\ Finished
         /\ P \in Plan /\ plan[P].status = "running" /\ B = build[P] /\ B \in BuildRecord
         /\ build[P].status = "building" /\ Row(plan[P], build[P])
         /\ plan[P].parent # 0 => plan[P].parent \in Plan /\ plan[plan[P].parent].status = "completed"
         /\ job.pc \notin {"publish", "complete", "abort"} => plan[P].items = <<>> /\ job.hashed = <<>>
         /\ job.pc \in Passes \cup {"complete"} => Len(B.staged) = Len(scan)
BY PlanIs DEF IInv, Building, Rows, Row, B, Whole, Passes

\* A step that changes the build of the plan, and the cursor.
LEMMA BuildStep ==
  ASSUME IInv, job.pc # "idle", UNCHANGED <<input, plan, lost, faults>>,
         build' \in [Plan -> BuildRecord], \A q \in Plan \ {P} : build'[q] = build[q],
         build'[P].status = "building",
         Len(build'[P].staged) <= Len(scan), Len(build'[P].original) = Len(build'[P].staged),
         job' \in JobRecord
  PROVE  Typed' /\ Rows' /\ Finished'
<1>1. /\ Typed /\ Rows /\ Finished /\ P \in Plan /\ plan[P].status = "running"
      /\ Row(plan[P], build[P])
  BY AtWork
<1>2. plan' \in [Plan -> PlanRecord] /\ plan' = plan /\ UNCHANGED input
      /\ lost' \subseteq Plan /\ faults' \in 0..MaxFaults
  BY <1>1 DEF Typed
<1>3. Row(plan[P], build'[P])
  BY <1>1 DEF Row
<1> DEFINE p == P
           r == plan[p]
           c == build'[p]
<1>4. p \in Plan /\ r.status # "completed" /\ Row(r, c) /\ plan'[p] = r /\ build'[p] = c
      /\ \A q \in Plan \ {p} : plan'[q] = plan[q] /\ build'[q] = build[q]
  BY <1>1, <1>2, <1>3
<1> HIDE DEF p, r, c
<1> QED BY <1>1, <1>2, <1>4, OnePlan

\* stage_plan_batch
LEMMA Drafting == IInv /\ DraftPage => IInv'
<1> SUFFICES ASSUME IInv, DraftPage PROVE IInv'
  OBVIOUS
<1> DEFINE n == Len(scan)
           m == IF job.cursor + page < n THEN job.cursor + page ELSE n
           size == Cardinality(PageAfter(n))
           new == [f \in PageAfter(n) |-> IF plan[P].parent = 0 THEN Draft(scan[f]) ELSE Revised(f)]
           s == [k \in 1..size |-> new[job.cursor + k]]
           o == [k \in 1..size |-> Key(new[job.cursor + k])]
<1>1. /\ job.pc = "draft" /\ UNCHANGED <<input, plan, lost, faults>>
  BY DEF DraftPage
<1>2. /\ Typed /\ Rows /\ Finished /\ P \in Plan /\ plan[P].status = "running"
      /\ build[P].status = "building" /\ Row(plan[P], build[P]) /\ B = build[P]
      /\ plan[P].parent # 0 => plan[P].parent \in Plan /\ plan[plan[P].parent].status = "completed"
      /\ plan[P].items = <<>> /\ job.hashed = <<>>
  BY <1>1, AtWork
<1>3. Len(B.staged) = job.cursor /\ AllFresh(B) /\ B.taken = {}
  BY <1>1 DEF IInv, Building
<1>4. Drafts = n
  <2>1. plan[P].parent # 0 => Done(plan[plan[P].parent])
    BY <1>2 DEF Finished
  <2> QED BY <2>1 DEF Drafts, Done
<1>5. /\ build' = [build EXCEPT ![P].staged = @ \o s, ![P].original = @ \o o]
      /\ job' = [job EXCEPT !.cursor = m]
  <2>1. DOMAIN new = PageAfter(n)
    OBVIOUS
  <2> QED BY <1>4, <2>1 DEF DraftPage, Advance
<1>6. /\ n \in Nat /\ page \in Nat \ {0} /\ job.cursor \in 0..n /\ File = 1..n
  BY <1>2, ScanIs, JobIs
<1>7. /\ m \in 0..n /\ PageAfter(n) = (job.cursor + 1)..m /\ size \in Nat
      /\ m = job.cursor + size
  <2> HIDE DEF n
  <2> QED BY <1>6, PageIs
<1>8. ASSUME NEW f \in PageAfter(n)
      PROVE  new[f] \in Item /\ Fresh(new[f], Key(new[f])) /\ Key(new[f]) \in Path
  <2>1. f \in File
    BY <1>6, <1>7
  <2>2. CASE plan[P].parent = 0
    <3>1. new[f] = Draft(scan[f])
      BY <2>2
    <3> QED BY <1>2, <2>1, <3>1, DraftItem, ItemFields
  <2>3. CASE plan[P].parent # 0
    <3>1. new[f] = Revised(f)
      BY <2>3
    <3> QED BY <1>2, <2>1, <2>3, <3>1, RevisedItem, ItemFields
  <2> QED BY <2>2, <2>3
<1> HIDE DEF new
<1>9. \A k \in 1..size : job.cursor + k \in PageAfter(n)
  <2> HIDE DEF n, m, size
  <2> QED BY <1>6, <1>7 DEF n
<1>10. /\ s \in Seq(Item) /\ Len(s) = size /\ o \in Seq(Path) /\ Len(o) = size
       /\ \A k \in 1..size : Fresh(s[k], o[k])
  <2> HIDE DEF n, m, size
  <2>1. s \in [1..size -> Item] /\ o \in [1..size -> Path]
    BY <1>8, <1>9
  <2>2. s \in Seq(Item) /\ o \in Seq(Path)
    BY <1>7, <2>1, SeqDef
  <2>3. Len(s) = size /\ Len(o) = size
    <3> HIDE DEF s, o
    <3>1. /\ Len(s) \in Nat /\ Len(o) \in Nat
          /\ s \in [1..Len(s) -> Item] /\ o \in [1..Len(o) -> Path]
      BY <2>2, LenProperties
    <3>2. 1..Len(s) = 1..size /\ 1..Len(o) = 1..size
      BY <2>1, <3>1
    <3> QED BY <1>7, <2>1, <2>2, <3>1, <3>2, LenProperties
  <2> QED BY <1>8, <1>9, <2>2, <2>3
<1> DEFINE b == build[P]
           S == b.staged \o s
           O == b.original \o o
<1>11. b \in BuildRecord /\ b.staged \in Seq(Item) /\ b.original \in Seq(Path)
       /\ Len(b.staged) = job.cursor /\ Len(b.original) = job.cursor
  BY <1>2, <1>3, PlanIs DEF Row
<1> HIDE DEF s, o
<1>12. /\ S \in Seq(Item) /\ Len(S) = m /\ O \in Seq(Path) /\ Len(O) = m
       /\ \A f \in 1..m : Fresh(S[f], O[f])
  <2> HIDE DEF n, m, size, b
  <2>1. /\ S \in Seq(Item) /\ Len(S) = job.cursor + size
        /\ \A f \in 1..(job.cursor + size) :
              S[f] = IF f <= job.cursor THEN b.staged[f] ELSE s[f - job.cursor]
    BY <1>10, <1>11, ConcatProperties
  <2>2. /\ O \in Seq(Path) /\ Len(O) = job.cursor + size
        /\ \A f \in 1..(job.cursor + size) :
              O[f] = IF f <= job.cursor THEN b.original[f] ELSE o[f - job.cursor]
    <3> DEFINE w == b.original
    <3>1. o \in Seq(Path) /\ Len(o) = size /\ w \in Seq(Path) /\ Len(w) = job.cursor
      BY <1>10, <1>11
    <3> HIDE DEF w
    <3>2. /\ w \o o \in Seq(Path) /\ Len(w \o o) = Len(w) + Len(o)
          /\ \A f \in 1..(Len(w) + Len(o)) :
                (w \o o)[f] = IF f <= Len(w) THEN w[f] ELSE o[f - Len(w)]
      BY <3>1, ConcatProperties
    <3> QED BY <3>1, <3>2 DEF w
  <2>3. \A f \in 1..job.cursor : Fresh(b.staged[f], b.original[f])
    <3>1. DOMAIN b.staged = 1..job.cursor
      BY <1>11, LenProperties
    <3> QED BY <1>2, <1>3, <3>1 DEF AllFresh, b
  <2>4. ASSUME NEW f \in 1..(job.cursor + size) PROVE Fresh(S[f], O[f])
    <3>1. CASE f <= job.cursor
      <4>1. f \in 1..job.cursor
        BY <1>6, <3>1
      <4> QED BY <2>1, <2>2, <2>3, <3>1, <4>1
    <3>2. CASE ~(f <= job.cursor)
      <4>1. f - job.cursor \in 1..size
        BY <1>6, <1>7, <3>2
      <4> QED BY <1>10, <2>1, <2>2, <3>2, <4>1
    <3> QED BY <3>1, <3>2
  <2> QED BY <1>7, <2>1, <2>2, <2>4
<1> HIDE DEF S, O
<1>13. build' = [build EXCEPT ![P] = [build[P] EXCEPT !.staged = S, !.original = O]]
  BY <1>5 DEF S, O
<1>14. /\ build' \in [Plan -> BuildRecord] /\ \A q \in Plan \ {P} : build'[q] = build[q]
       /\ build'[P].status = "building" /\ build'[P].staged = S /\ build'[P].original = O
       /\ build'[P].taken = build[P].taken
  <2> DEFINE c == [build[P] EXCEPT !.staged = S, !.original = O]
  <2>1. /\ c.status = "building" /\ c.staged = S /\ c.original = O /\ c.taken = build[P].taken
        /\ c \in BuildRecord
    BY <1>2, <1>11, <1>12 DEF BuildRecord
  <2> HIDE DEF c
  <2>2. build' = [build EXCEPT ![P] = c]
    BY <1>13 DEF c
  <2> QED BY <1>2, <2>1, <2>2 DEF Typed
<1>15. /\ job' \in JobRecord /\ job'.pc = "draft" /\ job'.cursor = m /\ job'.hashed = <<>> /\ P' = P
  <2> HIDE DEF m, n
  <2> QED BY <1>1, <1>2, <1>5, <1>7 DEF Typed, JobRecord, P, n
<1>16. Typed' /\ Rows' /\ Finished'
  <2>1. Len(build'[P].staged) <= Len(scan) /\ Len(build'[P].original) = Len(build'[P].staged)
    <3> HIDE DEF m
    <3> QED BY <1>6, <1>7, <1>12, <1>14
  <2> QED BY <1>1, <1>14, <1>15, <2>1, BuildStep
<1>17. Building'
  <2>1. B' = build'[P] /\ plan' = plan
    BY <1>1, <1>15 DEF B
  <2>2. (AllFresh(B))' /\ (Len(B.staged) = job.cursor)' /\ (B.taken = {})'
    <3> HIDE DEF m
    <3>1. DOMAIN S = 1..m
      BY <1>12, LenProperties
    <3> QED BY <1>2, <1>3, <1>12, <1>14, <1>15, <2>1, <3>1 DEF AllFresh
  <2> QED BY <1>2, <1>15, <2>1, <2>2 DEF Building
<1> QED BY <1>16, <1>17 DEF IInv

\* Before the pass over the names has begun, every item is fresh.
LEMMA NamesBegin ==
  ASSUME NEW items \in Seq(Item), NEW orig \in Seq(Path), Len(orig) = Len(items), NEW R,
         \A f \in DOMAIN items : Fresh(items[f], orig[f])
  PROVE  NamesInv(items, orig, {}, 0, R)
<1>1. 1..0 = {}
  OBVIOUS
<1>2. IsFiniteSet({}) /\ Cardinality({}) <= 0
  BY FS_EmptySet
<1> QED BY <1>1, <1>2 DEF NamesInv, Apart

\* The end of the draft.
LEMMA DraftEnds == IInv /\ Drafted => IInv'
<1> SUFFICES ASSUME IInv, Drafted PROVE IInv'
  OBVIOUS
<1> DEFINE n == Len(scan)
<1>1. /\ job.pc = "draft" /\ PageAfter(Drafts) = {} /\ UNCHANGED <<input, plan, build, lost, faults>>
      /\ job' = [job EXCEPT !.pc = IF job.unknown THEN "abort"
                                   ELSE IF plan[P].parent = 0 THEN "images" ELSE "names",
                            !.cursor = 0]
  BY DEF Drafted, Goto
<1>2. /\ Typed /\ Rows /\ Finished /\ P \in Plan /\ plan[P].status = "running"
      /\ Row(plan[P], build[P]) /\ B = build[P]
      /\ plan[P].parent # 0 => plan[P].parent \in Plan /\ plan[plan[P].parent].status = "completed"
      /\ plan[P].items = <<>> /\ job.hashed = <<>>
  BY <1>1, AtWork
<1>3. Len(B.staged) = job.cursor /\ AllFresh(B) /\ B.taken = {}
  BY <1>1 DEF IInv, Building
<1>4. Drafts = n
  <2>1. plan[P].parent # 0 => Done(plan[plan[P].parent])
    BY <1>2 DEF Finished
  <2> QED BY <2>1 DEF Drafts, Done
<1>5. job.cursor = n
  <2>1. /\ n \in Nat /\ page \in Nat \ {0} /\ job.cursor \in 0..n
    BY <1>2, ScanIs, JobIs
  <2> HIDE DEF n
  <2> QED BY <1>1, <1>4, <2>1, PageIs
<1>6. /\ job' \in JobRecord /\ job'.pc \in {"abort", "images", "names"} /\ job'.cursor = 0
      /\ job'.hashed = <<>> /\ P' = P /\ B' = B
  <2>1. 0 \in 0..Len(scan)
    BY <1>2, ScanIs
  <2> QED BY <1>1, <1>2, <2>1 DEF Typed, JobRecord, Passes, P, B
<1>7. Typed' /\ Rows' /\ Finished'
  BY <1>1, <1>2, <1>6, JobAlone DEF Typed
<1>8. NamesInv(B.staged, B.original, B.taken, 0, Renamable)
  <2>1. B.staged \in Seq(Item) /\ B.original \in Seq(Path) /\ Len(B.original) = Len(B.staged)
    BY <1>2, PlanIs DEF Row
  <2>2. \A f \in DOMAIN B.staged : Fresh(B.staged[f], B.original[f])
    BY <1>3 DEF AllFresh
  <2> HIDE DEF B
  <2> QED BY <1>3, <2>1, <2>2, NamesBegin
<1>9. plan' = plan /\ Renamable' = Renamable /\ Len(scan)' = Len(scan)
  BY <1>1, SameInput
<1>10. Building'
  <2>1. Whole(B) /\ AllFresh(B) /\ Whole(B)' /\ (AllFresh(B))'
    BY <1>3, <1>5, <1>6, <1>9 DEF Whole, AllFresh
  <2>2. (NamesInv(B.staged, B.original, B.taken, job.cursor, Renamable))'
    BY <1>6, <1>8, <1>9
  <2> QED BY <1>2, <1>3, <1>6, <1>9, <2>1, <2>2 DEF Building
<1> QED BY <1>7, <1>10 DEF IInv

\* Where the cursor of a pass stands, and its page.
LEMMA PassIs ==
  ASSUME IInv, job.pc \in Passes
  PROVE  LET n == Len(scan)
             m == IF job.cursor + page < n THEN job.cursor + page ELSE n
         IN /\ n \in Nat /\ job.cursor \in 0..n /\ Len(B.staged) = n /\ Len(B.original) = n
            /\ B.staged \in Seq(Item) /\ B.original \in Seq(Path)
            /\ DOMAIN B.staged = 1..n /\ DOMAIN B.original = 1..n
            /\ m \in 0..n /\ job.cursor <= m
            /\ PageAfter(Len(B.staged)) = (job.cursor + 1)..m
            /\ Cardinality(PageAfter(Len(B.staged))) \in Nat
            /\ m = job.cursor + Cardinality(PageAfter(Len(B.staged)))
            /\ PageAfter(Len(B.staged)) = {} <=> job.cursor = n
            /\ PageAfter(Len(B.staged)) # {} => job.cursor < m
<1> DEFINE n == Len(scan)
<1>1. job.pc # "idle" /\ job.pc \in Passes \cup {"complete"}
  BY DEF Passes
<1>2. /\ Typed /\ P \in Plan /\ B = build[P] /\ Row(plan[P], build[P]) /\ Len(B.staged) = n
  BY <1>1, AtWork
<1>3. /\ n \in Nat /\ page \in Nat \ {0} /\ job.cursor \in 0..n
  BY <1>2, ScanIs, JobIs
<1>4. B.staged \in Seq(Item) /\ B.original \in Seq(Path) /\ Len(B.original) = n
  BY <1>2, PlanIs DEF Row
<1>5. DOMAIN B.staged = 1..n /\ DOMAIN B.original = 1..n
  <2> HIDE DEF B, n
  <2> QED BY <1>2, <1>4, LenProperties
<1> HIDE DEF n
<1>6. LET m == IF job.cursor + page < n THEN job.cursor + page ELSE n
      IN /\ m \in 0..n /\ job.cursor <= m
         /\ PageAfter(n) = (job.cursor + 1)..m
         /\ Cardinality(PageAfter(n)) \in Nat
         /\ m = job.cursor + Cardinality(PageAfter(n))
         /\ PageAfter(n) = {} <=> job.cursor = n
         /\ PageAfter(n) # {} => job.cursor < m
  BY <1>3, PageIs
<1> QED BY <1>2, <1>3, <1>4, <1>5, <1>6 DEF n

\* A pass goes on to the next page.
LEMMA PassGoesOn ==
  ASSUME IInv, job.pc \in Passes, UNCHANGED <<input, plan, lost, faults>>,
         Advance(Len(B.staged)),
         NEW c \in BuildRecord, build' = [build EXCEPT ![P] = c],
         c.status = B.status, Len(c.staged) = Len(scan), Len(c.original) = Len(scan)
  PROVE  /\ Typed' /\ Rows' /\ Finished'
         /\ job'.pc = job.pc /\ job'.hashed = job.hashed /\ P' = P /\ B' = c /\ plan' = plan
         /\ job'.cursor = job.cursor + Cardinality(PageAfter(Len(B.staged)))
<1> DEFINE n == Len(scan)
           m == IF job.cursor + page < n THEN job.cursor + page ELSE n
<1>1. job.pc # "idle" /\ Len(B.staged) = n /\ m \in 0..n /\ n \in Nat
      /\ m = job.cursor + Cardinality(PageAfter(Len(B.staged)))
  BY PassIs DEF Passes
<1>2. job' = [job EXCEPT !.cursor = m]
  BY <1>1 DEF Advance
<1> HIDE DEF m
<1>3. Typed /\ P \in Plan /\ build[P].status = "building" /\ B = build[P]
  BY <1>1, AtWork
<1>4. /\ job' \in JobRecord /\ job'.pc = job.pc /\ job'.hashed = job.hashed /\ P' = P
      /\ job'.cursor = m
  BY <1>1, <1>2, <1>3 DEF Typed, JobRecord, P
<1>5. /\ build' \in [Plan -> BuildRecord] /\ \A q \in Plan \ {P} : build'[q] = build[q]
      /\ build'[P] = c
  BY <1>3 DEF Typed
<1>6. B' = c
  BY <1>4, <1>5 DEF B
<1>7. Len(c.staged) <= Len(scan)
  BY <1>1
<1>8. Typed' /\ Rows' /\ Finished'
  BY <1>1, <1>3, <1>4, <1>5, <1>7, BuildStep
<1> QED BY <1>1, <1>4, <1>6, <1>8

\* update_staged_plan_batch
LEMMA ResolvesImages == IInv /\ ImagesPage => IInv'
<1> SUFFICES ASSUME IInv, ImagesPage PROVE IInv'
  OBVIOUS
<1> DEFINE here == {f \in PageAfter(Len(B.staged)) : scan[f].image}
           n == Len(scan)
           b == build[P]
           S == [f \in DOMAIN b.staged |-> IF f \in here THEN ResolvedImage(B.staged, f) ELSE b.staged[f]]
           O == [f \in DOMAIN b.original |->
                   IF f \in here THEN Key(ResolvedImage(B.staged, f)) ELSE b.original[f]]
           c == [b EXCEPT !.staged = S, !.original = O]
<1>1. /\ job.pc = "images" /\ job.pc \in Passes /\ job.pc # "idle"
      /\ UNCHANGED <<input, plan, lost, faults>> /\ UNCHANGED input
      /\ Advance(Len(B.staged))
      /\ build' = [build EXCEPT
           ![P].staged = [f \in DOMAIN @ |-> IF f \in here THEN ResolvedImage(B.staged, f) ELSE @[f]],
           ![P].original = [f \in DOMAIN @ |->
                              IF f \in here THEN Key(ResolvedImage(B.staged, f)) ELSE @[f]]]
  BY DEF ImagesPage, Passes
<1>2. /\ Typed /\ P \in Plan /\ plan[P].status = "running" /\ B = b /\ b \in BuildRecord
      /\ plan[P].parent # 0 => plan[P].parent \in Plan /\ plan[plan[P].parent].status = "completed"
      /\ plan[P].items = <<>> /\ job.hashed = <<>>
  BY <1>1, AtWork
<1>3. /\ n \in Nat /\ b.staged \in Seq(Item) /\ b.original \in Seq(Path)
      /\ DOMAIN b.staged = 1..n /\ DOMAIN b.original = 1..n /\ File = 1..n
      /\ AllFresh(B) /\ B.taken = {}
  BY <1>1, <1>2, PassIs, ScanIs DEF IInv, Building
<1>4. ASSUME NEW f \in 1..n PROVE S[f] \in Item /\ Fresh(S[f], O[f]) /\ O[f] \in Path
  <2>1. CASE f \in here
    <3>1. S[f] = ResolvedImage(b.staged, f) /\ O[f] = Key(ResolvedImage(b.staged, f))
      BY <1>2, <1>3, <2>1
    <3> HIDE DEF S, O
    <3> QED BY <1>2, <1>3, <3>1, ResolvedItem, ItemFields
  <2>2. CASE f \notin here
    <3>1. S[f] = b.staged[f] /\ O[f] = b.original[f]
      BY <1>3, <2>2
    <3>2. Fresh(b.staged[f], b.original[f])
      BY <1>2, <1>3 DEF AllFresh
    <3>3. b.staged[f] \in Item /\ b.original[f] \in Path
      <4> HIDE DEF b, n
      <4>1. Len(b.staged) = n /\ Len(b.original) = n
        BY <1>3, LenProperties
      <4> QED BY <1>3, <4>1, ElementOfSeq
    <3> HIDE DEF S, O
    <3> QED BY <3>1, <3>2, <3>3
  <2> QED BY <2>1, <2>2
<1>5. S \in Seq(Item) /\ O \in Seq(Path) /\ Len(S) = n /\ Len(O) = n /\ DOMAIN S = 1..n
  <2>1. /\ S \in [1..n -> Item] /\ O \in [1..n -> Path] /\ DOMAIN S = 1..n /\ DOMAIN O = 1..n
    BY <1>3, <1>4
  <2> HIDE DEF S, O, n
  <2>2. S \in Seq(Item) /\ O \in Seq(Path)
    BY <1>3, <2>1, SeqDef
  <2> QED BY <1>3, <2>1, <2>2, LenProperties
<1> HIDE DEF S, O
<1>6. /\ c \in BuildRecord /\ c.status = B.status /\ c.staged = S /\ c.original = O
      /\ c.taken = B.taken
  <2> HIDE DEF b
  <2> QED BY <1>2, <1>5 DEF BuildRecord
<1>7. build' = [build EXCEPT ![P] = c]
  BY <1>1 DEF S, O
<1> HIDE DEF c
<1>8. /\ Typed' /\ Rows' /\ Finished'
      /\ job'.pc = job.pc /\ job'.hashed = job.hashed /\ P' = P /\ B' = c /\ plan' = plan
  BY <1>1, <1>5, <1>6, <1>7, PassGoesOn
<1>9. Building'
  <2>1. Whole(c) /\ AllFresh(c) /\ c.taken = {}
    BY <1>3, <1>4, <1>5, <1>6 DEF Whole, AllFresh
  <2>2. Whole(B)' /\ AllFresh(B)' /\ (B.taken = {})'
    BY <1>1, <1>8, <2>1, SameInput DEF Whole, AllFresh
  <2> QED BY <1>1, <1>2, <1>8, <2>2 DEF Building
<1> QED BY <1>8, <1>9 DEF IInv

\* resolve_staged_duplicate_targets
LEMMA ResolvesNames == IInv /\ NamesPage => IInv'
<1> SUFFICES ASSUME IInv, NamesPage PROVE IInv'
  OBVIOUS
<1> DEFINE n == Len(scan)
           size == Cardinality(PageAfter(Len(B.staged)))
           c == Renamed(B, job.cursor, size)
<1>1. /\ job.pc = "names" /\ job.pc \in Passes /\ job.pc # "idle"
      /\ UNCHANGED <<input, plan, lost, faults>> /\ UNCHANGED input
      /\ Advance(Len(B.staged)) /\ build' = [build EXCEPT ![P] = c]
  BY DEF NamesPage, Passes
<1>2. /\ Typed /\ P \in Plan /\ plan[P].status = "running" /\ B = build[P] /\ B \in BuildRecord
      /\ plan[P].parent # 0 => plan[P].parent \in Plan /\ plan[plan[P].parent].status = "completed"
      /\ plan[P].items = <<>> /\ job.hashed = <<>>
  BY <1>1, AtWork
<1>3. /\ n \in Nat /\ job.cursor \in Nat /\ size \in Nat /\ job.cursor + size <= n
      /\ Len(B.staged) = n /\ Len(B.original) = n /\ suffix \in BOOLEAN
  <2>1. suffix \in BOOLEAN
    BY <1>2, ScanIs
  <2> QED BY <1>1, <2>1, PassIs
<1>4. NamesInv(B.staged, B.original, B.taken, job.cursor, Renamable)
  BY <1>1 DEF IInv, Building
<1>5. /\ c \in BuildRecord /\ c.original = B.original /\ c.status = B.status
      /\ Len(c.staged) = Len(B.staged)
      /\ NamesInv(c.staged, B.original, c.taken, job.cursor + size, Renamable)
  <2> DEFINE b == B
             k == job.cursor
  <2>1. /\ b \in BuildRecord /\ Len(b.original) = Len(b.staged) /\ Len(b.staged) = Len(scan)
        /\ k \in Nat /\ size \in Nat /\ k + size <= Len(scan)
        /\ NamesInv(b.staged, b.original, b.taken, k, Renamable)
    BY <1>2, <1>3, <1>4
  <2> HIDE DEF b, k, size
  <2>2. /\ Renamed(b, k, size) \in BuildRecord
        /\ Renamed(b, k, size).original = b.original /\ Renamed(b, k, size).status = b.status
        /\ Len(Renamed(b, k, size).staged) = Len(b.staged)
        /\ NamesInv(Renamed(b, k, size).staged, b.original, Renamed(b, k, size).taken, k + size,
                    Renamable)
    BY <1>3, <2>1, RenamedPage
  <2> QED BY <2>2 DEF b, k
<1> HIDE DEF c
<1>6. /\ Typed' /\ Rows' /\ Finished'
      /\ job'.pc = job.pc /\ job'.hashed = job.hashed /\ P' = P /\ B' = c /\ plan' = plan
      /\ job'.cursor = job.cursor + size
  <2>1. Len(c.staged) = Len(scan) /\ Len(c.original) = Len(scan)
    BY <1>3, <1>5
  <2> QED BY <1>1, <1>5, <2>1, PassGoesOn
<1>7. Building'
  <2>1. Whole(B)'
    BY <1>1, <1>3, <1>5, <1>6, SameInput DEF Whole
  <2>2. (NamesInv(B.staged, B.original, B.taken, job.cursor, Renamable))'
    BY <1>1, <1>5, <1>6, SameInput
  <2> QED BY <1>1, <1>2, <1>6, <2>1, <2>2 DEF Building
<1> QED BY <1>6, <1>7 DEF IInv

\* mark_staged_target_conflicts
LEMMA MarksConflicts == IInv /\ ConflictsPage => IInv'
<1> SUFFICES ASSUME IInv, ConflictsPage PROVE IInv'
  OBVIOUS
<1> DEFINE n == Len(scan)
           fs == PageAfter(Len(B.staged))
           m == job.cursor + Cardinality(fs)
           c == Marked(B, fs)
<1>1. /\ job.pc = "conflicts" /\ job.pc \in Passes /\ job.pc # "idle"
      /\ UNCHANGED <<input, plan, lost, faults>> /\ UNCHANGED input
      /\ Advance(Len(B.staged)) /\ build' = [build EXCEPT ![P] = c]
  BY DEF ConflictsPage, Passes
<1>2. /\ Typed /\ P \in Plan /\ plan[P].status = "running" /\ B = build[P] /\ B \in BuildRecord
      /\ plan[P].parent # 0 => plan[P].parent \in Plan /\ plan[plan[P].parent].status = "completed"
      /\ plan[P].items = <<>> /\ job.hashed = <<>>
  BY <1>1, AtWork
<1>3. /\ n \in Nat /\ job.cursor \in Nat /\ m \in Nat /\ job.cursor <= m
      /\ Len(B.staged) = n /\ Len(B.original) = n /\ DOMAIN B.staged = 1..n
      /\ fs = (job.cursor + 1)..m
  BY <1>1, PassIs
<1>4. Settled(B.staged, B.original, job.cursor, Renamable)
  BY <1>1 DEF IInv, Building
<1>5. \A f \in DOMAIN B.staged : (f \in fs => f <= m) /\ (f <= m => f <= job.cursor \/ f \in fs)
  <2> HIDE DEF fs, m, n, B
  <2> QED BY <1>3
<1>6. /\ c \in BuildRecord /\ c.original = B.original /\ c.status = B.status
      /\ Len(c.staged) = Len(B.staged) /\ Settled(c.staged, B.original, m, Renamable)
  <2> DEFINE b == B
             k == job.cursor
  <2>1. /\ b \in BuildRecord /\ Len(b.original) = Len(b.staged) /\ k \in Nat /\ m \in Nat /\ k <= m
        /\ \A f \in DOMAIN b.staged : (f \in fs => f <= m) /\ (f <= m => f <= k \/ f \in fs)
        /\ Settled(b.staged, b.original, k, Renamable)
    BY <1>2, <1>3, <1>4, <1>5
  <2> HIDE DEF b, k, fs, m
  <2>2. /\ Marked(b, fs) \in BuildRecord
        /\ Marked(b, fs).original = b.original /\ Marked(b, fs).status = b.status
        /\ Len(Marked(b, fs).staged) = Len(b.staged)
        /\ Settled(Marked(b, fs).staged, b.original, m, Renamable)
    BY <2>1, MarkedPage
  <2> QED BY <2>2 DEF b
<1> HIDE DEF c
<1>7. /\ Typed' /\ Rows' /\ Finished'
      /\ job'.pc = job.pc /\ job'.hashed = job.hashed /\ P' = P /\ B' = c /\ plan' = plan
      /\ job'.cursor = m
  <2>1. Len(c.staged) = Len(scan) /\ Len(c.original) = Len(scan)
    BY <1>3, <1>6
  <2> QED BY <1>1, <1>6, <2>1, PassGoesOn
<1>8. Building'
  <2>1. Whole(B)'
    BY <1>1, <1>3, <1>6, <1>7, SameInput DEF Whole
  <2>2. (Settled(B.staged, B.original, job.cursor, Renamable))'
    BY <1>1, <1>6, <1>7, SameInput
  <2> QED BY <1>1, <1>2, <1>7, <2>1, <2>2 DEF Building
<1> QED BY <1>7, <1>8 DEF IInv

\* What is read page by page is read whole.
LEMMA Joined ==
  ASSUME NEW S, NEW s \in Seq(S), NEW a \in Nat, NEW m \in Nat, a <= m, m <= Len(s)
  PROVE  /\ SubSeq(s, 1, a) \o SubSeq(s, a + 1, m) = SubSeq(s, 1, m)
         /\ SubSeq(s, a + 1, m) \in Seq(S) /\ SubSeq(s, 1, m) \in Seq(S)
         /\ Len(SubSeq(s, 1, m)) = m
<1> DEFINE u == SubSeq(s, 1, a)
           v == SubSeq(s, a + 1, m)
           w == SubSeq(s, 1, m)
<1>1. Len(s) \in Nat /\ \A i \in 1..Len(s) : s[i] \in S
  BY LenProperties, ElementOfSeq
<1>2. /\ u \in Seq(S) /\ Len(u) = a
      /\ \A i \in 1..a : u[i] = s[i]
  <2>1. \A i \in 1..a : s[i] \in S
    BY <1>1
  <2>2. /\ u \in Seq(S) /\ Len(u) = IF 1 <= a THEN a - 1 + 1 ELSE 0
        /\ \A i \in 1..(a - 1 + 1) : u[i] = s[1 + i - 1]
    BY <2>1, SubSeqProperties
  <2> HIDE DEF u
  <2> QED BY <2>2
<1>3. /\ w \in Seq(S) /\ Len(w) = m
      /\ \A i \in 1..m : w[i] = s[i]
  <2>1. \A i \in 1..m : s[i] \in S
    BY <1>1
  <2>2. /\ w \in Seq(S) /\ Len(w) = IF 1 <= m THEN m - 1 + 1 ELSE 0
        /\ \A i \in 1..(m - 1 + 1) : w[i] = s[1 + i - 1]
    BY <2>1, SubSeqProperties
  <2> HIDE DEF w
  <2> QED BY <2>2
<1>4. /\ v \in Seq(S) /\ Len(v) = m - a
      /\ \A i \in 1..(m - a) : v[i] = s[a + i]
  <2>1. \A i \in (a + 1)..m : s[i] \in S
    BY <1>1
  <2>2. /\ v \in Seq(S) /\ Len(v) = IF a + 1 <= m THEN m - (a + 1) + 1 ELSE 0
        /\ \A i \in 1..(m - (a + 1) + 1) : v[i] = s[(a + 1) + i - 1]
    BY <2>1, SubSeqProperties
  <2> HIDE DEF v
  <2> QED BY <2>2
<1> HIDE DEF u, v, w
<1>5. /\ u \o v \in Seq(S) /\ Len(u \o v) = a + (m - a)
      /\ \A i \in 1..(a + (m - a)) : (u \o v)[i] = IF i <= a THEN u[i] ELSE v[i - a]
  BY <1>2, <1>4, ConcatProperties
<1>6. ASSUME NEW i \in 1..m PROVE (u \o v)[i] = w[i]
  <2>1. CASE i <= a
    <3>1. i \in 1..a /\ i \in 1..(a + (m - a))
      BY <2>1
    <3> QED BY <1>2, <1>3, <1>5, <2>1, <3>1
  <2>2. CASE ~(i <= a)
    <3>1. i - a \in 1..(m - a) /\ i \in 1..(a + (m - a)) /\ a + (i - a) = i
      BY <2>2
    <3> QED BY <1>3, <1>4, <1>5, <2>2, <3>1
  <2> QED BY <2>1, <2>2
<1>7. u \o v = w
  <2>1. a + (m - a) = m
    OBVIOUS
  <2> QED BY <1>3, <1>5, <1>6, <2>1, SeqEqual
<1> QED BY <1>3, <1>4, <1>7 DEF u, v, w

\* publish_staged_plan_page
LEMMA Publishes == IInv /\ PublishPage => IInv'
<1> SUFFICES ASSUME IInv, PublishPage PROVE IInv'
  OBVIOUS
<1> DEFINE n == Len(scan)
           size == Cardinality(PageAfter(Len(B.staged)))
           m == job.cursor + size
           rows == SubSeq(B.staged, job.cursor + 1, m)
           r == [plan[P] EXCEPT !.items = plan[P].items \o rows]
<1>1. /\ job.pc = "publish" /\ job.pc \in Passes /\ job.pc # "idle"
      /\ UNCHANGED <<input, build, lost, faults>> /\ UNCHANGED input
      /\ plan' = [plan EXCEPT ![P].items = @ \o rows]
      /\ job' = [job EXCEPT !.hashed = @ \o rows,
                   !.cursor = IF @ + page < Len(B.staged) THEN @ + page ELSE Len(B.staged)]
  BY DEF PublishPage, Passes
<1>2. /\ Typed /\ Rows /\ Finished /\ P \in Plan /\ plan[P].status = "running" /\ B = build[P]
      /\ Row(plan[P], build[P])
      /\ plan[P].parent # 0 => plan[P].parent \in Plan /\ plan[plan[P].parent].status = "completed"
  BY <1>1, AtWork
<1>3. /\ n \in Nat /\ job.cursor \in Nat /\ m \in 0..n /\ job.cursor <= m
      /\ Len(B.staged) = n /\ B.staged \in Seq(Item)
      /\ m = IF job.cursor + page < n THEN job.cursor + page ELSE n
  BY <1>1, PassIs
<1>4. /\ Whole(B) /\ Settled(B.staged, B.original, Len(scan), Renamable)
      /\ job.hashed = plan[P].items /\ plan[P].items = SubSeq(B.staged, 1, job.cursor)
  BY <1>1 DEF IInv, Building
<1>5. /\ plan[P].items \o rows = SubSeq(B.staged, 1, m)
      /\ SubSeq(B.staged, 1, m) \in Seq(Item) /\ Len(SubSeq(B.staged, 1, m)) = m
  <2> DEFINE s == B.staged
             a == job.cursor
             e == m
  <2>1. s \in Seq(Item) /\ a \in Nat /\ e \in Nat /\ a <= e /\ e <= Len(s)
    <3> HIDE DEF m, n
    <3> QED BY <1>3
  <2> HIDE DEF s, a, e
  <2>2. /\ SubSeq(s, 1, a) \o SubSeq(s, a + 1, e) = SubSeq(s, 1, e)
        /\ SubSeq(s, 1, e) \in Seq(Item) /\ Len(SubSeq(s, 1, e)) = e
    BY <2>1, Joined
  <2> QED BY <1>4, <2>2 DEF s, a, e
<1>6. job' = [job EXCEPT !.hashed = plan[P].items \o rows, !.cursor = m]
  BY <1>1, <1>3, <1>4
<1> DEFINE s == plan[P].items \o rows
<1>7. s \in Seq(Item) /\ s = SubSeq(B.staged, 1, m) /\ Len(s) = m
  BY <1>5
<1> HIDE DEF s, rows, m
<1>8. /\ job' \in JobRecord /\ job'.pc = "publish" /\ job'.cursor = m /\ job'.hashed = s /\ P' = P
  BY <1>1, <1>2, <1>3, <1>6, <1>7 DEF s, Typed, JobRecord, P
<1>9. /\ r \in PlanRecord /\ r.status = "running" /\ r.items = s /\ r.parent = plan[P].parent
  BY <1>2, <1>7, PlanIs DEF s, PlanRecord
<1>10. plan' = [plan EXCEPT ![P] = r]
  BY <1>1
<1> HIDE DEF r
<1>11. /\ plan' \in [Plan -> PlanRecord] /\ plan'[P] = r
       /\ \A q \in Plan \ {P} : plan'[q] = plan[q]
  BY <1>2, <1>9, <1>10 DEF Typed
<1>12. /\ build' \in [Plan -> BuildRecord] /\ build' = build /\ B' = B
       /\ lost' \subseteq Plan /\ faults' \in 0..MaxFaults
  BY <1>1, <1>2, <1>8 DEF Typed, B
<1>13. Row(r, build[P]) /\ r.status # "completed"
  <2>1. Len(s) <= Len(scan)
    BY <1>3, <1>7
  <2> QED BY <1>2, <1>9, <2>1 DEF Row
<1>14. Typed' /\ Rows' /\ Finished'
  <2> DEFINE p == P
             c == build[p]
  <2>1. p \in Plan /\ plan'[p] = r /\ build'[p] = c /\ Row(r, c)
        /\ \A q \in Plan \ {p} : plan'[q] = plan[q] /\ build'[q] = build[q]
    BY <1>2, <1>11, <1>12, <1>13
  <2> HIDE DEF p, c
  <2> QED BY <1>1, <1>2, <1>8, <1>11, <1>12, <1>13, <2>1, OnePlan
<1>15. Building'
  <2>1. Whole(B)' /\ (Settled(B.staged, B.original, Len(scan), Renamable))'
    BY <1>1, <1>4, <1>12, SameInput DEF Whole
  <2>2. r.parent # 0 => r.parent \in Plan /\ plan'[r.parent].status = "completed"
    BY <1>2, <1>9, <1>11
  <2>3. (plan[P].items = SubSeq(B.staged, 1, job.cursor))' /\ (job.hashed = plan[P].items)'
    BY <1>7, <1>8, <1>9, <1>11, <1>12
  <2> QED BY <1>2, <1>8, <1>9, <1>11, <2>1, <2>2, <2>3 DEF Building
<1> QED BY <1>14, <1>15 DEF IInv

\* The next pass begins.
LEMMA Passing == IInv /\ PassEnds => IInv'
<1> SUFFICES ASSUME IInv, PassEnds PROVE IInv'
  OBVIOUS
<1> DEFINE next == CASE job.pc = "images" -> "names" [] job.pc = "names" -> "conflicts"
                     [] job.pc = "conflicts" -> "publish" [] job.pc = "publish" -> "complete"
           n == Len(scan)
<1>1. /\ job.pc \in Passes /\ job.pc # "idle" /\ PageAfter(Len(B.staged)) = {}
      /\ UNCHANGED <<input, plan, build, lost, faults>> /\ UNCHANGED input
      /\ job' = [job EXCEPT !.pc = next, !.cursor = 0]
  BY DEF PassEnds, Passes, Goto
<1>2. /\ Typed /\ Rows /\ Finished /\ P \in Plan /\ plan[P].status = "running" /\ B = build[P]
      /\ plan[P].parent # 0 => plan[P].parent \in Plan /\ plan[plan[P].parent].status = "completed"
      /\ job.pc # "publish" => plan[P].items = <<>> /\ job.hashed = <<>>
  BY <1>1, AtWork DEF Passes
<1>3. /\ n \in Nat /\ job.cursor = n /\ Len(B.staged) = n /\ Len(B.original) = n
      /\ B.staged \in Seq(Item) /\ B.original \in Seq(Path)
  BY <1>1, PassIs
<1>4. /\ job.pc = "images" => next = "names"
      /\ job.pc = "names" => next = "conflicts"
      /\ job.pc = "conflicts" => next = "publish"
      /\ job.pc = "publish" => next = "complete"
  <2>1. CASE job.pc = "images"
    BY <2>1
  <2>2. CASE job.pc = "names"
    BY <2>2
  <2>3. CASE job.pc = "conflicts"
    BY <2>3
  <2>4. CASE job.pc = "publish"
    BY <2>4
  <2> QED BY <1>1, <2>1, <2>2, <2>3, <2>4 DEF Passes
<1>5. next \in {"names", "conflicts", "publish", "complete"}
  <2> HIDE DEF next
  <2> QED BY <1>1, <1>4 DEF Passes
<1> HIDE DEF next
<1>6. /\ job' \in JobRecord /\ job'.pc = next /\ job'.cursor = 0 /\ job'.hashed = job.hashed
      /\ P' = P /\ B' = B /\ plan' = plan
  <2>1. 0 \in 0..Len(scan)
    BY <1>3
  <2> QED BY <1>1, <1>2, <1>5, <2>1 DEF Typed, JobRecord, Passes, P, B
<1>7. Typed' /\ Rows' /\ Finished'
  BY <1>1, <1>2, <1>6, JobAlone DEF Typed
<1>8. Whole(B)' /\ Renamable' = Renamable /\ Len(scan)' = Len(scan)
  BY <1>1, <1>3, <1>6, SameInput DEF Whole
<1>9. CASE job.pc = "images"
  <2>1. AllFresh(B) /\ B.taken = {}
    BY <1>9 DEF IInv, Building
  <2>2. NamesInv(B.staged, B.original, B.taken, 0, Renamable)
    <3>1. \A f \in DOMAIN B.staged : Fresh(B.staged[f], B.original[f])
      BY <2>1 DEF AllFresh
    <3> HIDE DEF B
    <3> QED BY <1>3, <2>1, <3>1, NamesBegin
  <2>3. (NamesInv(B.staged, B.original, B.taken, job.cursor, Renamable))'
    BY <1>6, <1>8, <2>2
  <2>4. job'.pc = "names"
    BY <1>4, <1>6, <1>9
  <2>5. Building'
    BY <1>2, <1>6, <1>8, <1>9, <2>3, <2>4 DEF Building
  <2> QED BY <1>7, <2>5 DEF IInv
<1>10. CASE job.pc = "names"
  <2>1. NamesInv(B.staged, B.original, B.taken, Len(B.staged), Renamable)
    BY <1>3, <1>10 DEF IInv, Building
  <2>2. Settled(B.staged, B.original, 0, Renamable)
    <3> HIDE DEF B
    <3> QED BY <1>3, <2>1, NamesEnd
  <2>3. (Settled(B.staged, B.original, job.cursor, Renamable))'
    BY <1>6, <1>8, <2>2
  <2>4. job'.pc = "conflicts"
    BY <1>4, <1>6, <1>10
  <2>5. Building'
    BY <1>2, <1>6, <1>8, <1>10, <2>3, <2>4 DEF Building
  <2> QED BY <1>7, <2>5 DEF IInv
<1>11. CASE job.pc = "conflicts"
  <2>1. Settled(B.staged, B.original, Len(scan), Renamable)
    BY <1>3, <1>11 DEF IInv, Building
  <2>2. (Settled(B.staged, B.original, Len(scan), Renamable))'
    BY <1>6, <1>8, <2>1
  <2>3. job'.pc = "publish"
    BY <1>4, <1>6, <1>11
  <2>4. plan[P].items = <<>> /\ job.hashed = <<>>
    BY <1>2, <1>11
  <2>5. SubSeq(B.staged, 1, 0) = <<>>
    BY SubSeqEmpty
  <2>6. (plan[P].items = SubSeq(B.staged, 1, job.cursor))' /\ (job.hashed = plan[P].items)'
    BY <1>6, <2>4, <2>5
  <2>7. Building'
    BY <1>2, <1>6, <1>8, <2>2, <2>3, <2>6 DEF Building
  <2> QED BY <1>7, <2>7 DEF IInv
<1>12. CASE job.pc = "publish"
  <2>1. /\ Settled(B.staged, B.original, Len(scan), Renamable)
        /\ job.hashed = plan[P].items /\ plan[P].items = SubSeq(B.staged, 1, job.cursor)
    BY <1>12 DEF IInv, Building
  <2>2. (Settled(B.staged, B.original, Len(scan), Renamable))'
    BY <1>6, <1>8, <2>1
  <2>3. job'.pc = "complete"
    BY <1>4, <1>6, <1>12
  <2>4. plan[P].items = B.staged
    <3>1. SubSeq(B.staged, 1, Len(B.staged)) = B.staged
      <4> DEFINE s == B.staged
      <4>1. s \in Seq(Item)
        BY <1>3
      <4> HIDE DEF s
      <4>2. Len(s) \in Nat /\ \A i \in 1..Len(s) : s[i] \in Item
        BY <4>1, LenProperties, ElementOfSeq
      <4> DEFINE len == Len(s)
                 u == SubSeq(s, 1, len)
      <4>3. /\ u \in Seq(Item) /\ Len(u) = IF 1 <= len THEN len - 1 + 1 ELSE 0
            /\ \A i \in 1..(len - 1 + 1) : u[i] = s[1 + i - 1]
        BY <4>2, SubSeqProperties
      <4> HIDE DEF u, len
      <4>4. Len(u) = len /\ \A i \in 1..len : u[i] = s[i]
        BY <4>2, <4>3 DEF len
      <4>5. u = s
        BY <4>1, <4>3, <4>4, SeqEqual DEF len
      <4> QED BY <4>5 DEF u, len, s
    <3> QED BY <1>3, <2>1, <3>1
  <2>5. (plan[P].items = B.staged)' /\ (job.hashed = plan[P].items)'
    BY <1>6, <2>1, <2>4
  <2>6. Building'
    BY <1>2, <1>6, <1>8, <2>2, <2>3, <2>5 DEF Building
  <2> QED BY <1>7, <2>6 DEF IInv
<1> QED BY <1>1, <1>9, <1>10, <1>11, <1>12 DEF Passes

\* complete_plan_build makes the rows it ends with, and no scratch.
LEMMA EndedIs ==
  ASSUME Typed, P \in Plan, NEW status \in {"completed", "failed"}, NEW items \in Seq(Item),
         Ended(status, items)
  PROVE  /\ plan' \in [Plan -> PlanRecord] /\ build' \in [Plan -> BuildRecord]
         /\ \A q \in Plan \ {P} : plan'[q] = plan[q] /\ build'[q] = build[q]
         /\ plan'[P].status = status /\ plan'[P].items = items
         /\ plan'[P].parent = plan[P].parent
         /\ status = "completed" => plan'[P].hash = job.hashed /\ plan'[P].wanted = B.original
         /\ build'[P].status = status /\ build'[P].staged = <<>> /\ build'[P].original = <<>>
<1> DEFINE hash == IF status = "completed" THEN job.hashed ELSE plan[P].hash
           wanted == IF status = "completed" THEN B.original ELSE plan[P].wanted
           r == [plan[P] EXCEPT !.status = status, !.items = items, !.hash = hash, !.wanted = wanted]
           c == [NoBuild EXCEPT !.status = status]
<1>1. plan' = [plan EXCEPT ![P] = r] /\ build' = [build EXCEPT ![P] = c]
  BY DEF Ended
<1>2. hash \in Seq(Item) /\ wanted \in Seq(Path)
  BY JobIs, PlanIs DEF B
<1> HIDE DEF hash, wanted
<1>3. /\ r \in PlanRecord /\ r.status = status /\ r.items = items /\ r.hash = hash
      /\ r.wanted = wanted /\ r.parent = plan[P].parent
  BY <1>2, PlanIs DEF PlanRecord, RunStatus
<1>4. /\ c \in BuildRecord /\ c.status = status /\ c.staged = <<>> /\ c.original = <<>>
  <2> DEFINE e == <<>>
             z == {}
  <2>1. NoBuild = [status |-> "none", staged |-> e, original |-> e, taken |-> z]
    BY DEF NoBuild
  <2>2. e \in Seq(Item) /\ e \in Seq(Path) /\ z \subseteq Path
    BY EmptySeq
  <2> HIDE DEF e, z
  <2>3. c = [status |-> status, staged |-> e, original |-> e, taken |-> z]
    BY <2>1
  <2>4. c \in BuildRecord /\ c.status = status /\ c.staged = e /\ c.original = e
    <3> HIDE DEF c
    <3> QED BY <2>2, <2>3 DEF BuildRecord
  <2> QED BY <2>4 DEF e
<1> HIDE DEF r, c
<1>5. /\ plan' \in [Plan -> PlanRecord] /\ build' \in [Plan -> BuildRecord]
      /\ plan'[P] = r /\ build'[P] = c
      /\ \A q \in Plan \ {P} : plan'[q] = plan[q] /\ build'[q] = build[q]
  BY <1>1, <1>3, <1>4 DEF Typed
<1> QED BY <1>3, <1>4, <1>5 DEF hash, wanted

\* No job is left.
LEMMA NoJob ==
  ASSUME Typed
  PROVE  Idle \in JobRecord
<1>1. <<>> \in Requests
  BY NoChanges
<1>2. <<>> \in Seq(Item) /\ 0 \in 0..Len(scan)
  BY ScanIs, EmptySeq
<1> QED BY <1>1, <1>2 DEF Idle, JobRecord

\* A build that ends.
LEMMA Ends ==
  ASSUME IInv, job.pc # "idle", NEW status \in {"completed", "failed"}, NEW items \in Seq(Item),
         Ended(status, items), job' = Idle, UNCHANGED <<input, lost, faults>>,
         Len(items) <= Len(scan),
         status = "completed" =>
           /\ Len(items) = Len(scan) /\ Len(B.original) = Len(scan) /\ job.hashed = items
           /\ Settled(items, B.original, Len(scan), Renamable)
  PROVE  IInv'
<1>1. Typed /\ Rows /\ Finished /\ P \in Plan
  BY AtWork
<1>2. /\ plan' \in [Plan -> PlanRecord] /\ build' \in [Plan -> BuildRecord]
      /\ \A q \in Plan \ {P} : plan'[q] = plan[q] /\ build'[q] = build[q]
      /\ plan'[P].status = status /\ plan'[P].items = items
      /\ status = "completed" => plan'[P].hash = job.hashed /\ plan'[P].wanted = B.original
      /\ build'[P].status = status /\ build'[P].staged = <<>> /\ build'[P].original = <<>>
  BY <1>1, EndedIs
<1>3. job' \in JobRecord
  BY <1>1, NoJob
<1>4. /\ Row(plan'[P], build'[P])
      /\ plan'[P].status = "completed" => Done(plan'[P])
  <2>1. Len(<<>>) = 0 /\ 0 <= Len(scan)
    BY <1>1, ScanIs, EmptySeq
  <2> QED BY <1>2, <2>1 DEF Row, Done
<1>5. UNCHANGED input /\ lost' \subseteq Plan /\ faults' \in 0..MaxFaults
  BY <1>1 DEF Typed
<1>6. Typed' /\ Rows' /\ Finished'
  <2> DEFINE p == P
             r == plan'[p]
             c == build'[p]
  <2>1. /\ p \in Plan /\ plan'[p] = r /\ build'[p] = c /\ Row(r, c)
        /\ r.status = "completed" => Done(r)
        /\ \A q \in Plan \ {p} : plan'[q] = plan[q] /\ build'[q] = build[q]
    BY <1>1, <1>2, <1>4
  <2> HIDE DEF p, r, c
  <2> QED BY <1>1, <1>2, <1>3, <1>5, <2>1, OnePlan
<1>7. Building'
  BY DEF Building, Idle
<1> QED BY <1>6, <1>7 DEF IInv

\* complete_plan_build
LEMMA Completes == IInv /\ Complete => IInv'
<1> SUFFICES ASSUME IInv, Complete PROVE IInv'
  OBVIOUS
<1>1. /\ job.pc = "complete" /\ Ended("completed", plan[P].items) /\ job' = Idle
      /\ UNCHANGED <<input, lost, faults>>
  BY DEF Complete
<1>2. /\ Typed /\ P \in Plan /\ B = build[P] /\ Row(plan[P], build[P]) /\ Len(B.staged) = Len(scan)
  BY <1>1, AtWork
<1>3. /\ Settled(B.staged, B.original, Len(scan), Renamable)
      /\ job.hashed = plan[P].items /\ plan[P].items = B.staged
  BY <1>1 DEF IInv, Building
<1> DEFINE items == plan[P].items
<1>4. /\ items \in Seq(Item) /\ Len(items) = Len(scan) /\ Len(items) <= Len(scan)
      /\ Len(B.original) = Len(scan) /\ job.hashed = items
      /\ Settled(items, B.original, Len(scan), Renamable)
      /\ Ended("completed", items)
  BY <1>1, <1>2, <1>3, PlanIs, ScanIs DEF Row
<1> HIDE DEF items
<1> QED BY <1>1, <1>4, Ends

\* A failing call.
LEMMA Fails == IInv /\ Fail => IInv'
<1> SUFFICES ASSUME IInv, Fail PROVE IInv'
  OBVIOUS
<1>1. /\ job.pc # "idle" /\ faults < MaxFaults /\ faults' = faults + 1
      /\ job' = [job EXCEPT !.pc = "abort", !.cursor = 0]
      /\ UNCHANGED <<input, plan, build>> /\ lost' = lost
  BY DEF Fail, Fault, Goto
<1>2. /\ Typed /\ Rows /\ Finished /\ P \in Plan /\ plan[P].status = "running"
      /\ plan[P].parent # 0 => plan[P].parent \in Plan /\ plan[plan[P].parent].status = "completed"
  BY <1>1, AtWork
<1>3. faults' \in 0..MaxFaults /\ lost' \subseteq Plan
  BY <1>1, <1>2, PlanAssumption DEF Typed
<1>4. job' \in JobRecord /\ job'.pc = "abort" /\ P' = P /\ plan' = plan
  <2>1. 0 \in 0..Len(scan)
    BY <1>2, ScanIs
  <2> QED BY <1>1, <1>2, <2>1 DEF Typed, JobRecord, P
<1>5. Typed' /\ Rows' /\ Finished'
  BY <1>1, <1>2, <1>3, <1>4, JobAlone
<1>6. Building'
  BY <1>2, <1>4 DEF Building
<1> QED BY <1>5, <1>6 DEF IInv

\* A process that ends and leaves its build as it is.
LEMMA LeavesBuild ==
  ASSUME IInv, job.pc # "idle", Fault, job' = Idle, lost' = lost \cup {P},
         UNCHANGED <<input, plan, build>>
  PROVE  IInv'
<1>1. /\ Typed /\ Rows /\ Finished /\ P \in Plan
  BY AtWork
<1>2. faults' \in 0..MaxFaults /\ lost' \subseteq Plan
  BY <1>1, PlanAssumption DEF Typed, Fault
<1>3. job' \in JobRecord
  BY <1>1, NoJob
<1>4. Typed' /\ Rows' /\ Finished'
  BY <1>1, <1>2, <1>3, JobAlone
<1>5. Building'
  BY DEF Building, Idle
<1> QED BY <1>4, <1>5 DEF IInv

\* abort_plan_build
LEMMA Aborts == IInv /\ Abort => IInv'
<1> SUFFICES ASSUME IInv, Abort PROVE IInv'
  OBVIOUS
<1>1. job.pc = "abort" /\ job' = Idle /\ UNCHANGED input
  BY DEF Abort
<1>2. CASE Ended("failed", <<>>) /\ UNCHANGED <<lost, faults>>
  <2> DEFINE items == <<>>
  <2>1. items \in Seq(Item) /\ Len(items) <= Len(scan)
    <3>1. Typed
      BY DEF IInv
    <3> QED BY <3>1, ScanIs, EmptySeq
  <2>2. Ended("failed", items)
    BY <1>2
  <2> HIDE DEF items
  <2>3. UNCHANGED <<input, lost, faults>>
    BY <1>1, <1>2
  <2> QED BY <1>1, <2>1, <2>2, <2>3, Ends
<1>3. CASE Fault /\ lost' = lost \cup {P} /\ UNCHANGED <<plan, build>>
  <2>1. UNCHANGED <<input, plan, build>>
    BY <1>1, <1>3
  <2> QED BY <1>1, <1>3, <2>1, LeavesBuild
<1> QED BY <1>2, <1>3 DEF Abort

\* The process dies.
LEMMA Crashes == IInv /\ Crash => IInv'
BY LeavesBuild DEF Crash

\* No step breaks the invariant.
LEMMA Inductive == IInv /\ [Next]_vars => IInv'
<1> SUFFICES ASSUME IInv, [Next]_vars PROVE IInv'
  OBVIOUS
<1>1. CASE BeginPlan
  BY <1>1, BeginsPlan
<1>2. CASE BeginRevision
  BY <1>2, BeginsRevision
<1>3. CASE DraftPage
  BY <1>3, Drafting
<1>4. CASE Drafted
  BY <1>4, DraftEnds
<1>5. CASE ImagesPage
  BY <1>5, ResolvesImages
<1>6. CASE NamesPage
  BY <1>6, ResolvesNames
<1>7. CASE ConflictsPage
  BY <1>7, MarksConflicts
<1>8. CASE PublishPage
  BY <1>8, Publishes
<1>9. CASE PassEnds
  BY <1>9, Passing
<1>10. CASE Complete
  BY <1>10, Completes
<1>11. CASE Abort
  BY <1>11, Aborts
<1>12. CASE Fail
  BY <1>12, Fails
<1>13. CASE Crash
  BY <1>13, Crashes
<1>14. CASE UNCHANGED vars
  <2>1. UNCHANGED <<input, plan, build>> /\ job' = job /\ lost' = lost /\ faults' = faults
        /\ UNCHANGED input
    BY <1>14 DEF vars, input
  <2>2. Typed' /\ Rows' /\ Finished'
    BY <2>1, JobAlone DEF IInv, Typed
  <2>3. Building'
    BY <2>1, SameInput DEF IInv, Building, P, B, Whole, AllFresh
  <2> QED BY <2>2, <2>3 DEF IInv
<1> QED BY <1>1, <1>2, <1>3, <1>4, <1>5, <1>6, <1>7, <1>8, <1>9, <1>10, <1>11, <1>12, <1>13, <1>14
        DEF Next, Work

(***************************************************************************)
(* What is proved.                                                         *)
(***************************************************************************)
\* The invariant holds of every behaviour.
LEMMA Invariant == Spec => []IInv
<1>1. Init => IInv
  BY Initially
<1>2. IInv /\ [Next]_vars => IInv'
  BY Inductive
<1> QED BY <1>1, <1>2, PTL DEF Spec

\* The rows, the scratch and the job always have their types, and a scratch is open
\* exactly as long as its plan is running.
THEOREM TypeCorrect == Spec => []TypeOK
<1>1. IInv => TypeOK
  <2> SUFFICES ASSUME IInv PROVE TypeOK
    OBVIOUS
  <2>1. Typed /\ Rows
    BY DEF IInv
  <2>2. ASSUME NEW p \in Plan
        PROVE  /\ plan[p].status \in RunStatus /\ plan[p].parent \in Plan \cup {0}
               /\ Len(plan[p].items) <= Len(scan) /\ Len(build[p].staged) <= Len(scan)
               /\ Len(build[p].original) = Len(build[p].staged)
               /\ \A k \in DOMAIN plan[p].items : plan[p].items[k].why \in Reasons
               /\ (build[p].status = "building") = (plan[p].status = "running")
    <3>1. Row(plan[p], build[p])
      BY <2>1 DEF Rows
    <3>2. ASSUME NEW k \in DOMAIN plan[p].items PROVE plan[p].items[k].why \in Reasons
      <4> DEFINE s == plan[p].items
      <4>1. s \in Seq(Item) /\ k \in DOMAIN s
        BY <2>1, PlanIs
      <4> HIDE DEF s
      <4>2. s[k] \in Item
        BY <4>1, LenProperties, ElementOfSeq
      <4> QED BY <4>2, ItemFields DEF s
    <3> QED BY <2>1, <3>1, <3>2, PlanIs DEF Row
  <2>3. job.pc \in {"idle", "draft", "images", "names", "conflicts", "publish", "complete", "abort"}
        /\ job.cursor \in 0..Len(scan)
    BY <2>1, JobIs DEF Passes
  <2>4. job.pc # "idle" => plan[job.plan].status = "running"
    BY AtWork DEF P
  <2> QED BY <2>1, <2>2, <2>3, <2>4 DEF TypeOK, Typed
<1> QED BY <1>1, Invariant, PTL

\* However the items fall on pages, equal targets are resolved the same way.
THEOREM Resolved == Spec => []NamesResolved
<1>1. IInv => NamesResolved
  <2> SUFFICES ASSUME IInv, NEW p \in Plan, plan[p].status = "completed"
               PROVE  LET items == plan[p].items
                          wanted == plan[p].wanted
                          Asked == {f \in DOMAIN items : wanted[f] # NoTarget}
                      IN /\ \A f, g \in Asked :
                              f # g /\ items[f].move /\ items[g].move =>
                                items[f].target # items[g].target
                         /\ \A f \in Asked :
                              LET first == \A g \in Asked : g < f => wanted[g] # wanted[f]
                                  stays == items[f].target = wanted[f]
                              IN /\ first => stays
                                 /\ items[f].why = "conflict" <=>
                                      stays /\ \E g \in Asked \ {f} : items[g].target = wanted[f]
                                 /\ stays \/ (\A g \in Asked : items[f].target # wanted[g])
                                 /\ ~stays => Front(items[f].target.name) = wanted[f].name
                                              /\ items[f].move = Valid(items[f].target)
                                 /\ first \/ ~stays \/ ~(suffix \/ scan[f].image)
    BY DEF NamesResolved
  <2> DEFINE items == plan[p].items
             wanted == plan[p].wanted
             n == Len(scan)
  <2>1. /\ items \in Seq(Item) /\ wanted \in Seq(Path) /\ n \in Nat /\ n = Len(scan)
        /\ Len(items) = n /\ Len(wanted) = n /\ Settled(items, wanted, n, Renamable)
    BY PlanIs, ScanIs DEF IInv, Finished, Done
  <2> HIDE DEF items, wanted, n
  <2>2. LET Asked == {f \in DOMAIN items : wanted[f] # NoTarget}
        IN /\ \A f, g \in Asked :
                f # g /\ items[f].move /\ items[g].move => items[f].target # items[g].target
           /\ \A f \in Asked :
                LET first == \A g \in Asked : g < f => wanted[g] # wanted[f]
                    stays == items[f].target = wanted[f]
                IN /\ first => stays
                   /\ items[f].why = "conflict" <=>
                        stays /\ \E g \in Asked \ {f} : items[g].target = wanted[f]
                   /\ stays \/ (\A g \in Asked : items[f].target # wanted[g])
                   /\ ~stays => Front(items[f].target.name) = wanted[f].name
                                /\ items[f].move = Valid(items[f].target)
                   /\ first \/ ~stays \/ ~(suffix \/ scan[f].image)
    BY <2>1, SettledResolves
  <2> QED BY <2>2 DEF items, wanted
<1> QED BY <1>1, Invariant, PTL

\* What is shown of a plan.
Shown(r) ==
  CASE r.status = "none" -> [state |-> "absent"]
    [] r.status = "running" -> [state |-> "open"]
    [] r.status = "failed" -> [state |-> "failed"]
    [] r.status = "completed" -> [state |-> "applicable", items |-> r.items]

\* One arm of it applies.
LEMMA ShownIs ==
  ASSUME NEW r
  PROVE  /\ r.status = "none" => Shown(r) = [state |-> "absent"]
         /\ r.status = "running" => Shown(r) = [state |-> "open"]
         /\ r.status = "failed" => Shown(r) = [state |-> "failed"]
         /\ r.status = "completed" => Shown(r) = [state |-> "applicable", items |-> r.items]
<1>1. CASE r.status = "none"
  BY <1>1 DEF Shown
<1>2. CASE r.status = "running"
  BY <1>2 DEF Shown
<1>3. CASE r.status = "failed"
  BY <1>3 DEF Shown
<1>4. CASE r.status = "completed"
  BY <1>4 DEF Shown
<1> QED BY <1>1, <1>2, <1>3, <1>4

\* A finished plan has the hash of its rows, so that the view depends on status and
\* rows alone.
LEMMA ViewIs == IInv => View = [p \in Plan |-> Shown(plan[p])]
<1> SUFFICES ASSUME IInv, NEW p \in Plan PROVE View[p] = Shown(plan[p])
  BY DEF View
<1>1. plan[p].status \in RunStatus /\ (plan[p].status = "completed" => plan[p].hash = plan[p].items)
  BY PlanIs DEF IInv, Finished, Done
<1>2. CASE plan[p].status = "none"
  BY <1>2, ShownIs DEF View
<1>3. CASE plan[p].status = "running"
  BY <1>3, ShownIs DEF View
<1>4. CASE plan[p].status = "failed"
  BY <1>4, ShownIs DEF View
<1>5. CASE plan[p].status = "completed"
  BY <1>1, <1>5, ShownIs DEF View
<1> QED BY <1>1, <1>2, <1>3, <1>4, <1>5 DEF RunStatus

\* The same of the state after a step.
LEMMA ViewNextIs == IInv' => View' = [p \in Plan |-> Shown(plan'[p])]
<1> SUFFICES ASSUME IInv' PROVE View' = [p \in Plan |-> Shown(plan'[p])]
  OBVIOUS
<1>0. ASSUME NEW p \in Plan
      PROVE  /\ plan'[p].status \in RunStatus
             /\ plan'[p].status = "completed" => plan'[p].hash = plan'[p].items
  <2>1. plan' \in [Plan -> PlanRecord]
    BY DEF IInv, Typed
  <2>2. plan'[p].status \in RunStatus
    BY <2>1 DEF PlanRecord
  <2> QED BY <2>2 DEF IInv, Finished, Done
<1> SUFFICES ASSUME NEW p \in Plan PROVE View'[p] = Shown(plan'[p])
  BY DEF View
<1>1. plan'[p].status \in RunStatus /\ (plan'[p].status = "completed" => plan'[p].hash = plan'[p].items)
  BY <1>0
<1>2. CASE plan'[p].status = "none"
  BY <1>2, ShownIs DEF View
<1>3. CASE plan'[p].status = "running"
  BY <1>3, ShownIs DEF View
<1>4. CASE plan'[p].status = "failed"
  BY <1>4, ShownIs DEF View
<1>5. CASE plan'[p].status = "completed"
  BY <1>1, <1>5, ShownIs DEF View
<1> QED BY <1>1, <1>2, <1>3, <1>4, <1>5 DEF RunStatus

\* A step that leaves what is shown of every plan but one leaves the view of them.
LEMMA ViewStep ==
  ASSUME IInv, IInv', NEW p \in Plan, \A q \in Plan \ {p} : plan'[q] = plan[q]
  PROVE  /\ View' = [View EXCEPT ![p] = Shown(plan'[p])]
         /\ View[p] = Shown(plan[p]) /\ View'[p] = Shown(plan'[p])
         /\ Shown(plan'[p]) = Shown(plan[p]) => View' = View
<1> DEFINE v == View
           w == View'
<1>1. /\ v = [q \in Plan |-> Shown(plan[q])] /\ w = [q \in Plan |-> Shown(plan'[q])]
  BY ViewIs, ViewNextIs
<1> HIDE DEF v, w
<1>2. w = [v EXCEPT ![p] = Shown(plan'[p])]
  BY <1>1
<1>3. Shown(plan'[p]) = Shown(plan[p]) => w = v
  BY <1>1
<1>4. v[p] = Shown(plan[p]) /\ w[p] = Shown(plan'[p])
  BY <1>1
<1> QED BY <1>2, <1>3, <1>4 DEF v, w

\* A plan is begun.
LEMMA StartOpens ==
  ASSUME IInv, IInv', NEW p \in Plan, NEW parent, NEW changes, NEW unknown,
         Start(p, parent, "draft", changes, unknown)
  PROVE  A!Next
<1>1. /\ UNCHANGED input /\ plan[p].status = "none" /\ plan'[p].status = "running"
      /\ \A q \in Plan \ {p} : plan'[q] = plan[q]
  <2>1. plan \in [Plan -> PlanRecord]
    BY DEF IInv, Typed
  <2> DEFINE r == [NoPlan EXCEPT !.status = "running", !.parent = parent]
  <2>2. r.status = "running"
    BY DEF NoPlan
  <2>3. plan' = [plan EXCEPT ![p] = r] /\ UNCHANGED input /\ plan[p].status = "none"
    BY DEF Start
  <2> HIDE DEF r
  <2> QED BY <2>1, <2>2, <2>3
<1>2. /\ View[p] = [state |-> "absent"]
      /\ View' = [View EXCEPT ![p] = [state |-> "open"]]
  BY <1>1, ViewStep, ShownIs
<1>3. A!Open(p)
  BY <1>2 DEF A!Open
<1> QED BY <1>1, <1>3, SameInput DEF A!Next

\* A build that ends.
LEMMA EndShows ==
  ASSUME IInv, IInv', job.pc # "idle", UNCHANGED input,
         NEW status \in {"completed", "failed"}, NEW items \in Seq(Item), Ended(status, items)
  PROVE  A!Next
<1> DEFINE p == P
<1>1. /\ Typed /\ p \in Plan /\ plan[p].status = "running"
  BY AtWork
<1>2. /\ \A q \in Plan \ {p} : plan'[q] = plan[q]
      /\ plan'[p].status = status
  BY <1>1, EndedIs
<1> HIDE DEF p
<1>3. /\ View[p] = [state |-> "open"] /\ View'[p] = Shown(plan'[p])
      /\ View' = [View EXCEPT ![p] = Shown(plan'[p])]
  BY <1>1, <1>2, ViewStep, ShownIs
<1>4. CASE status = "failed"
  <2>0. Shown(plan'[p]) = [state |-> "failed"]
    BY <1>2, <1>4, ShownIs
  <2>1. A!Drop(p)
    BY <1>3, <2>0 DEF A!Drop
  <2> QED BY <1>1, <2>1, SameInput DEF A!Next
<1>5. CASE status = "completed"
  <2> DEFINE rows == plan'[p].items
             wanted == plan'[p].wanted
             n == Len(scan)
  <2>1. Shown(plan'[p]) = [state |-> "applicable", items |-> rows]
    BY <1>2, <1>5, ShownIs
  <2>2. /\ rows \in Seq(Item) /\ Len(rows) = n
        /\ Settled(rows, wanted, n, Renamable)
    <3>1. Done(plan'[p])
      BY <1>1, <1>2, <1>5, SameInput DEF IInv, Finished, Done
    <3>2. plan' \in [Plan -> PlanRecord]
      BY DEF IInv, Typed
    <3> QED BY <1>1, <3>1, <3>2 DEF Done, PlanRecord
  <2>3. DOMAIN rows = 1..n /\ n \in Nat
    <3>1. n \in Nat
      BY <1>1, ScanIs
    <3> HIDE DEF rows, n
    <3> QED BY <2>2, <3>1, LenProperties
  <2> HIDE DEF rows, wanted, n
  <2>4. ASSUME NEW f \in DOMAIN rows, NEW g \in DOMAIN rows, f # g, rows[f].move, rows[g].move
        PROVE  rows[f].target # rows[g].target
    <3>1. Key(rows[g]) = rows[g].target
      BY <2>4 DEF Key
    <3>2. ~Twin(rows, f)
      BY <2>2, <2>3, <2>4 DEF Settled
    <3> QED BY <2>4, <3>1, <3>2 DEF Twin
  <2>5. A!Whole(rows)
    BY <2>2, <2>4 DEF A!Whole, n
  <2>6. View'[p].state = "applicable" /\ View'[p].items = rows
    BY <1>3, <2>1
  <2>7. A!Whole(View'[p].items)
    BY <2>5, <2>6
  <2>8. A!Appear(p)
    BY <1>3, <2>6, <2>7 DEF A!Appear
  <2> QED BY <1>1, <2>8, SameInput DEF A!Next
<1> QED BY <1>4, <1>5

\* A finished plan appears whole and at once, and stays as it is: every step of the
\* build begins a plan, drops it, makes it appear, or shows nothing.
THEOREM PlansAppear == Spec => PlanAppearsAtOnce
<1>1. Init => A!Init
  <2> SUFFICES ASSUME Init PROVE A!Init
    OBVIOUS
  <2>1. View = [p \in Plan |-> Shown(plan[p])]
    BY Initially, ViewIs
  <2>2. \A p \in Plan : plan[p].status = "none"
    BY DEF Init, NoPlan
  <2>3. \A p \in Plan : Shown(plan[p]) = [state |-> "absent"]
    BY <2>2, ShownIs
  <2> QED BY <2>1, <2>3 DEF A!Init
<1>2. IInv /\ IInv' /\ [Next]_vars => [A!Next]_<<Len(scan), View>>
  <2> SUFFICES ASSUME IInv, IInv', [Next]_vars
               PROVE  A!Next \/ (Len(scan)' = Len(scan) /\ View' = View)
    OBVIOUS
  <2>1. ASSUME UNCHANGED input, plan' = plan
        PROVE  Len(scan)' = Len(scan) /\ View' = View
    <3>1. View' = View
      BY <2>1, ViewIs, ViewNextIs
    <3> QED BY <2>1, <3>1, SameInput
  <2>2. CASE BeginPlan
    <3>1. PICK p \in Plan : Start(p, 0, "draft", <<>>, FALSE)
      BY <2>2 DEF BeginPlan
    <3> QED BY <3>1, StartOpens
  <2>3. CASE BeginRevision
    <3>1. \E p \in Plan, parent \in Plan, unknown \in BOOLEAN, fs \in SUBSET File :
            \E changes \in [fs -> Manual] : Start(p, parent, "draft", changes, unknown)
      BY <2>3 DEF BeginRevision
    <3> QED BY <3>1, StartOpens
  <2>4. CASE DraftPage \/ Drafted \/ ImagesPage \/ NamesPage \/ ConflictsPage \/ PassEnds
               \/ Fail \/ Crash \/ UNCHANGED vars
    <3>1. UNCHANGED input /\ plan' = plan
      BY <2>4 DEF DraftPage, Drafted, ImagesPage, NamesPage, ConflictsPage, PassEnds, Fail, Crash,
                  vars, input
    <3> QED BY <2>1, <3>1
  <2>5. CASE PublishPage
    <3> DEFINE p == P
               rows == SubSeq(B.staged, job.cursor + 1,
                              job.cursor + Cardinality(PageAfter(Len(B.staged))))
    <3>1. job.pc = "publish" /\ UNCHANGED input /\ plan' = [plan EXCEPT ![p].items = @ \o rows]
      BY <2>5 DEF PublishPage
    <3>2. p \in Plan /\ plan[p].status = "running" /\ plan \in [Plan -> PlanRecord]
      BY <3>1, AtWork DEF Typed
    <3>3. /\ \A q \in Plan \ {p} : plan'[q] = plan[q]
          /\ plan'[p].status = "running"
      <4> DEFINE r == [plan[p] EXCEPT !.items = plan[p].items \o rows]
      <4>1. plan[p] \in PlanRecord
        BY <3>2
      <4>2. r.status = "running" /\ plan' = [plan EXCEPT ![p] = r]
        BY <3>1, <3>2, <4>1 DEF PlanRecord
      <4> HIDE DEF r, p
      <4> QED BY <3>2, <4>2
    <3> HIDE DEF p
    <3>4. View' = View
      BY <3>2, <3>3, ViewStep, ShownIs
    <3> QED BY <3>1, <3>4, SameInput
  <2>6. CASE Complete
    <3>1. /\ job.pc # "idle" /\ UNCHANGED input /\ Ended("completed", plan[P].items)
      BY <2>6 DEF Complete
    <3>2. plan[P].items \in Seq(Item)
      BY <3>1, AtWork, PlanIs
    <3> DEFINE items == plan[P].items
    <3>3. items \in Seq(Item) /\ Ended("completed", items)
      BY <3>1, <3>2
    <3> HIDE DEF items
    <3> QED BY <3>1, <3>3, EndShows
  <2>7. CASE Abort
    <3>1. /\ job.pc # "idle" /\ UNCHANGED input
          /\ Ended("failed", <<>>) \/ UNCHANGED <<plan, build>>
      BY <2>7 DEF Abort
    <3>2. CASE Ended("failed", <<>>)
      <4> DEFINE items == <<>>
      <4>1. items \in Seq(Item) /\ Ended("failed", items)
        BY <3>2, EmptySeq
      <4> HIDE DEF items
      <4> QED BY <3>1, <4>1, EndShows
    <3>3. CASE UNCHANGED <<plan, build>>
      BY <2>1, <3>1, <3>3
    <3> QED BY <3>1, <3>2, <3>3
  <2> QED BY <2>2, <2>3, <2>4, <2>5, <2>6, <2>7 DEF Next, Work
<1> QED BY <1>1, <1>2, Invariant, PTL DEF Spec, PlanAppearsAtOnce, A!Spec
=============================================================================
