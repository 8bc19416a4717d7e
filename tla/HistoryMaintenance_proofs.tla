---------------------- MODULE HistoryMaintenance_proofs ----------------------
(***************************************************************************)
(* Proofs about HistoryMaintenance, for any plan, any number of runs,      *)
(* crashes, failing writes and changes of the user.                        *)
(*                                                                         *)
(* Shape says what the rows of one run and its thread have to do with each *)
(* other; Alone that one mutating run at a time is at work or waits for    *)
(* recovery; Fates, what follows for a file: it is moved by one apply run  *)
(* at most and taken back by one rollback run at most, so that a file at   *)
(* the target is one nobody has taken back.  Whatever can be archived is   *)
(* Quiet, and stays so, as every other write is refused.                   *)
(***************************************************************************)
EXTENDS HistoryMaintenance, FiniteSetTheorems, SequenceTheorems, WellFoundedInduction, TLAPS

Live(r) == worker[r].pc # "gone"
\* A run that moves files is at work or has left an entry open.
Engaged(r) == runs[r].kind # "verify" /\ (Live(r) \/ runs[r].open # {})
\* What such a run may still move.
Pending(r) == {i \in Item : i \in runs[r].open \/ (Live(r) /\ i \in runs[r].todo)}
Applied(i) == \E r \in Applies : i \in runs[r].moved
RolledBack(i) == \E e \in Rollbacks : i \in runs[e].moved

Archive == [content: Seq(Record), whole: BOOLEAN]

Thread == [pc: {"gone", "items", "moving", "log"}, item: Item \cup {None}]

Typed ==
  /\ runs \in Seq(Record) /\ files \in Seq(Archive)
  /\ \A r \in 1..MaxRuns : r \notin DOMAIN runs => ~Live(r)

\* The rows of one run and the thread that works on it.
Shape(r) ==
  LET run == runs[r] IN
  /\ Live(r) => run.status = "running"
  /\ worker[r].pc = "moving" => worker[r].item \in run.open
  /\ worker[r].pc = "log" => worker[r].item \in run.moved
  /\ Live(r) => run.open \cap run.todo = {}
  /\ run.open \cup run.moved # {} => run.journaled
  /\ run.status = "recovery_required" => run.open # {}
  /\ run.kind = "verify" =>
       worker[r].pc \in {"gone", "items"} /\ run.open = {} /\ run.moved = {} /\ run.logged = {}
  /\ run.logged \subseteq run.moved
  /\ \A i \in run.moved \ run.logged :
       \/ worker[r].pc = "log" /\ worker[r].item = i
       \/ ~Live(r) /\ run.status = "running"

\* One mutating run at a time; none yet while the lease has only been taken.
Alone ==
  /\ \A r, s \in DOMAIN runs : Engaged(r) /\ Engaged(s) => r = s
  /\ lease \in {"taken", "checked"} =>
       /\ \A r \in DOMAIN runs : ~Engaged(r)
       /\ starting.kind \in {"apply", "rollback"}
       /\ starting.kind = "rollback" => starting.subject \in Applies

Fates ==
  /\ \A r \in Applies, i \in Item : i \in Pending(r) => ~Applied(i)
  /\ \A e \in Rollbacks :
       /\ runs[e].subject \in Applies
       /\ runs[e].moved \cup Pending(e) \subseteq runs[runs[e].subject].moved
  /\ \A e \in Rollbacks : \A i \in runs[e].open : ~RolledBack(i)
  /\ \A d, e \in Rollbacks : runs[d].moved \cap runs[e].moved # {} => d = e

Places ==
  \A i \in Item : place[i] = "target" => ~RolledBack(i) /\ (Applied(i) \/ purged)

Quiet ==
  /\ lease = "free"
  /\ \A r \in DOMAIN runs :
       /\ runs[r].status # "running" /\ ~Live(r)
       /\ runs[r].open = {} /\ runs[r].logged = runs[r].moved

Kept ==
  /\ purged => Archived /\ runs = <<>>
  /\ tx = "published" => Len(files) > 0 /\ files[Len(files)].content = runs /\ Quiet
  /\ Archived /\ ~purged => Quiet /\ Holds(manifest)
  /\ tx = "published" \/ Archived => \A i \in Item : place[i] # "target"

IInv ==
  /\ TypeOK /\ Typed
  /\ \A r \in DOMAIN runs : Shape(r)
  /\ Alone
  /\ Fates
  /\ Places
  /\ Kept

----------------------------------------------------------------------------
\* A plan has a first and a last among any of its items.
LEMMA Extremes ==
  ASSUME NEW S \in SUBSET Item, S # {}
  PROVE  /\ \E i \in S : \A k \in S : i <= k
         /\ \E i \in S : \A k \in S : k <= i
<1>1. /\ IsWellFoundedOn(StrictSubsetOrdering(Item), SUBSET Item)
      /\ S \subseteq Nat
  <2>1. IsFiniteSet(Item) /\ S \subseteq Nat
    BY HistoryAssumption
  <2> QED BY <2>1, FS_StrictSubsetOrderingWellFounded, FS_FiniteSubsetsOfFinite
<1>2. \E i \in S : \A k \in S : k <= i
  <2> DEFINE Above(x) == {y \in S : x <= y}
             All == {Above(x) : x \in S}
  <2>1. All \subseteq SUBSET Item /\ All # {}
    OBVIOUS
  <2>2. PICK A \in All : \A B \in All : <<B, A>> \notin StrictSubsetOrdering(Item)
    <3> HIDE DEF All
    <3> QED BY <1>1, <2>1, WFMin
  <2>3. PICK i \in S : A = Above(i)
    OBVIOUS
  <2>4. ASSUME NEW k \in S, ~(k <= i) PROVE FALSE
    <3>1. Above(k) \subseteq A /\ i \in A /\ i \notin Above(k)
      <4>1. i \in Nat /\ k \in Nat /\ \A y \in S : y \in Nat
        BY <1>1
      <4>2. i <= i /\ \A y \in S : k <= y /\ ~(k <= i) => i <= y
        BY <4>1
      <4> QED BY <2>3, <2>4, <4>2
    <3>2. Above(k) \in All /\ A \in All
      OBVIOUS
    <3>3. <<Above(k), A>> \in (SUBSET Item) \X (SUBSET Item)
      BY <2>1, <3>2
    <3>4. <<Above(k), A>> \in StrictSubsetOrdering(Item)
      BY <3>1, <3>3 DEF StrictSubsetOrdering
    <3> QED BY <2>2, <3>2, <3>4
  <2> QED BY <2>4
<1>3. \E i \in S : \A k \in S : i <= k
  <2> DEFINE Below(x) == {y \in S : y <= x}
             All == {Below(x) : x \in S}
  <2>1. All \subseteq SUBSET Item /\ All # {}
    OBVIOUS
  <2>2. PICK A \in All : \A B \in All : <<B, A>> \notin StrictSubsetOrdering(Item)
    <3> HIDE DEF All
    <3> QED BY <1>1, <2>1, WFMin
  <2>3. PICK i \in S : A = Below(i)
    OBVIOUS
  <2>4. ASSUME NEW k \in S, ~(i <= k) PROVE FALSE
    <3>1. Below(k) \subseteq A /\ i \in A /\ i \notin Below(k)
      <4>1. i \in Nat /\ k \in Nat /\ \A y \in S : y \in Nat
        BY <1>1
      <4>2. i <= i /\ \A y \in S : y <= k /\ ~(i <= k) => y <= i
        BY <4>1
      <4> QED BY <2>3, <2>4, <4>2
    <3>2. Below(k) \in All /\ A \in All
      OBVIOUS
    <3>3. <<Below(k), A>> \in (SUBSET Item) \X (SUBSET Item)
      BY <2>1, <3>2
    <3>4. <<Below(k), A>> \in StrictSubsetOrdering(Item)
      BY <3>1, <3>3 DEF StrictSubsetOrdering
    <3> QED BY <2>2, <3>2, <3>4
  <2> QED BY <2>4
<1> QED BY <1>2, <1>3

\* The fields of a run's rows.
LEMMA Fields ==
  /\ None \notin Item
  /\ \A run \in Record :
       /\ run.kind \in Kinds /\ run.subject \in 0..MaxRuns /\ run.status \in Status
       /\ run.todo \subseteq Item /\ run.open \subseteq Item /\ run.journaled \in BOOLEAN
       /\ run.moved \subseteq Item /\ run.logged \subseteq Item /\ run.failed \subseteq Item
BY HistoryAssumption DEF Record, None

\* The next item is one of those to do.
LEMMA ChosenItem ==
  ASSUME NEW run \in Record, run.todo # {}
  PROVE  Chosen(run) \in run.todo /\ Chosen(run) \in Item
<1>1. run.todo \in SUBSET Item
  BY Fields
<1>2. \E i \in run.todo : \A k \in run.todo : IF run.kind = "rollback" THEN k <= i ELSE i <= k
  BY <1>1, Extremes
<1> QED BY <1>1, <1>2 DEF Chosen

\* The runs are numbered, and each has a thread.
LEMMA Numbered ==
  ASSUME TypeOK, Typed
  PROVE  /\ Len(runs) \in 0..MaxRuns /\ DOMAIN runs = 1..Len(runs)
         /\ runs \in [DOMAIN runs -> Record] /\ worker \in [1..MaxRuns -> Thread]
         /\ DOMAIN runs \subseteq 1..MaxRuns
         /\ \A r \in DOMAIN runs : runs[r] \in Record /\ worker[r] \in Thread
         /\ Applies \subseteq DOMAIN runs /\ Rollbacks \subseteq DOMAIN runs
<1>1. Len(runs) \in Nat /\ DOMAIN runs = 1..Len(runs) /\ runs \in [1..Len(runs) -> Record]
  BY DEF Typed
<1>2. Len(runs) <= MaxRuns /\ MaxRuns \in Nat /\ worker \in [1..MaxRuns -> Thread]
  BY HistoryAssumption DEF TypeOK, Thread
<1>3. DOMAIN runs \subseteq 1..MaxRuns
  BY <1>1, <1>2
<1>4. \A r \in DOMAIN runs : runs[r] \in Record /\ worker[r] \in Thread
  BY <1>1, <1>2, <1>3
<1> QED BY <1>1, <1>2, <1>3, <1>4 DEF Applies, Rollbacks

\* A workflow without runs has nothing archived and nothing moved.
LEMMA InitIInv == Init => IInv
<1> SUFFICES ASSUME Init PROVE IInv
  OBVIOUS
<1>1. /\ runs = <<>> /\ files = <<>> /\ DOMAIN runs = {} /\ Len(runs) = 0 /\ Len(files) = 0
      /\ DOMAIN files = {}
  BY DEF Init
<1>2. Typed
  BY <1>1 DEF Typed, Init, Live, Gone
<1>3. TypeOK
  <2>1. worker \in [1..MaxRuns -> Thread] /\ starting \in [kind: Kinds, subject: 0..MaxRuns]
    BY HistoryAssumption DEF Init, Gone, NoStart, Kinds, Thread
  <2>2. place \in [Item -> {"source", "target", "away"}]
    BY DEF Init
  <2>3. Len(runs) <= MaxRuns /\ 0 \in 0..MaxFaults /\ 0 \in 0..MaxTouched /\ 0 \in 0..Len(files)
    BY <1>1, HistoryAssumption
  <2> QED BY <1>1, <2>1, <2>2, <2>3 DEF Init, TypeOK, Thread
<1>4. Alone /\ Fates
  BY <1>1 DEF Alone, Fates, Init, Applies, Rollbacks
<1>5. Places /\ Kept
  BY <1>1 DEF Places, Kept, Init, Archived
<1> QED BY <1>1, <1>2, <1>3, <1>4, <1>5 DEF IInv

----------------------------------------------------------------------------
(***************************************************************************)
(* Steps of one run.                                                       *)
(***************************************************************************)
\* The rows of one run change.
LEMMA OneRun ==
  ASSUME TypeOK, Typed, NEW r \in DOMAIN runs, NEW run \in Record, NEW w \in Thread,
         runs' = [runs EXCEPT ![r] = run], worker' = [worker EXCEPT ![r] = w],
         run.kind = runs[r].kind
  PROVE  /\ runs' \in Seq(Record) /\ Len(runs') = Len(runs) /\ DOMAIN runs' = DOMAIN runs
         /\ runs'[r] = run /\ worker'[r] = w /\ worker' \in [1..MaxRuns -> Thread]
         /\ \A s \in DOMAIN runs : s # r => runs'[s] = runs[s] /\ worker'[s] = worker[s]
         /\ \A s \in 1..MaxRuns : s \notin DOMAIN runs' => ~Live(s)'
         /\ Applies' = Applies /\ Rollbacks' = Rollbacks
<1>1. /\ runs \in Seq(Record) /\ r \in 1..Len(runs) /\ DOMAIN runs = 1..Len(runs) /\ Len(runs) \in Nat
      /\ worker \in [1..MaxRuns -> Thread] /\ DOMAIN runs \subseteq 1..MaxRuns
  BY Numbered DEF Typed
<1>2. /\ runs' \in Seq(Record) /\ Len(runs') = Len(runs)
      /\ \A s \in 1..Len(runs) : runs'[s] = IF s = r THEN run ELSE runs[s]
  BY <1>1, ExceptSeq
<1>3. DOMAIN runs' = DOMAIN runs
  BY <1>1, <1>2, LenProperties
<1>4. /\ worker'[r] = w /\ worker' \in [1..MaxRuns -> Thread]
      /\ \A s \in 1..MaxRuns : s # r => worker'[s] = worker[s]
  BY <1>1
<1>5. \A s \in 1..MaxRuns : s \notin DOMAIN runs' => ~Live(s)'
  BY <1>3, <1>4 DEF Typed, Live
<1>6. \A s \in DOMAIN runs : runs'[s].kind = runs[s].kind
  BY <1>1, <1>2
<1>7. Applies' = Applies /\ Rollbacks' = Rollbacks
  BY <1>3, <1>6 DEF Applies, Rollbacks
<1> QED BY <1>1, <1>2, <1>3, <1>4, <1>5, <1>7

\* No file is moved, and no run has more to move than before.
LEMMA FatesKept ==
  ASSUME Fates, DOMAIN runs' = DOMAIN runs,
         \A s \in DOMAIN runs :
           /\ runs'[s].kind = runs[s].kind /\ runs'[s].subject = runs[s].subject
           /\ runs'[s].moved = runs[s].moved /\ Pending(s)' \subseteq Pending(s),
         \A e \in Rollbacks : \A i \in runs'[e].open : i \in runs[e].open \/ ~RolledBack(i)
  PROVE  /\ Fates'
         /\ \A i : (Applied(i)' <=> Applied(i)) /\ (RolledBack(i)' <=> RolledBack(i))
<1>1. Applies' = Applies /\ Rollbacks' = Rollbacks
  BY DEF Applies, Rollbacks
<1>2. Applies \subseteq DOMAIN runs /\ Rollbacks \subseteq DOMAIN runs
  BY DEF Applies, Rollbacks
<1>3. \A i : (Applied(i)' <=> Applied(i)) /\ (RolledBack(i)' <=> RolledBack(i))
  BY <1>1, <1>2 DEF Applied, RolledBack
<1>4. \A r \in Applies', i \in Item : i \in Pending(r)' => ~Applied(i)'
  BY <1>1, <1>2, <1>3 DEF Fates
<1>5. \A e \in Rollbacks' :
        /\ runs'[e].subject \in Applies'
        /\ runs'[e].moved \cup Pending(e)' \subseteq runs'[runs'[e].subject].moved
  BY <1>1, <1>2 DEF Fates
<1>8. \A e \in Rollbacks' : \A i \in runs'[e].open : ~RolledBack(i)'
  BY <1>1, <1>3 DEF Fates
<1>9. \A d, e \in Rollbacks' : runs'[d].moved \cap runs'[e].moved # {} => d = e
  BY <1>1, <1>2 DEF Fates
<1> QED BY <1>3, <1>4, <1>5, <1>8, <1>9 DEF Fates

\* A run that goes on, fails or ends without moving a file.
LEMMA OneRunStep ==
  ASSUME IInv, NEW r \in DOMAIN runs, NEW run \in Record, NEW w \in Thread,
         runs' = [runs EXCEPT ![r] = run], worker' = [worker EXCEPT ![r] = w],
         run.kind = runs[r].kind, run.subject = runs[r].subject, run.moved = runs[r].moved,
         Live(r) \/ (runs[r].open # {} /\ w.pc = "gone" /\ run.open = {}), Shape(r)',
         w.pc # "gone" => run.todo \subseteq runs[r].todo,
         \A i \in run.open \ runs[r].open :
           i \in runs[r].todo /\ (run.kind = "rollback" => place[i] = "target"),
         \/ run.kind = "verify" /\ lease' = lease
         \/ run.kind # "verify" /\ lease' \in {"free", "run", "stale"} /\ (lease' = "run" <=> w.pc # "gone"),
         UNCHANGED <<starting, place, store, touched>>, faults' \in 0..MaxFaults, confirmed' \subseteq Item,
         Kept'
  PROVE  IInv'
<1>1. TypeOK /\ Typed /\ Alone /\ Fates /\ Places /\ \A s \in DOMAIN runs : Shape(s)
  BY DEF IInv
<1>2. /\ runs' \in Seq(Record) /\ Len(runs') = Len(runs) /\ DOMAIN runs' = DOMAIN runs
      /\ runs'[r] = run /\ worker'[r] = w /\ worker' \in [1..MaxRuns -> Thread]
      /\ \A s \in DOMAIN runs : s # r => runs'[s] = runs[s] /\ worker'[s] = worker[s]
      /\ \A s \in 1..MaxRuns : s \notin DOMAIN runs' => ~Live(s)'
      /\ Applies' = Applies /\ Rollbacks' = Rollbacks
  BY <1>1, OneRun
<1>3. \A s \in DOMAIN runs : runs'[s] \in Record /\ runs[s] \in Record
  BY <1>1, <1>2, Numbered
<1>4. \A s \in DOMAIN runs : s # r => /\ Live(s)' <=> Live(s)
                                      /\ Shape(s)' <=> Shape(s)
                                      /\ Engaged(s)' <=> Engaged(s)
                                      /\ Pending(s)' = Pending(s)
  BY <1>2 DEF Live, Shape, Engaged, Pending
<1>5. \A s \in DOMAIN runs : Shape(s)'
  BY <1>1, <1>4
<1>6. Engaged(r)' => Engaged(r)
  BY <1>2 DEF Engaged
<1>7. Pending(r)' \subseteq Pending(r)
  BY <1>2, Fields DEF Pending, Live
<1>8. Typed'
  BY <1>1, <1>2 DEF Typed, store
<1>9. Alone'
  <2>1. \A s \in DOMAIN runs : Engaged(s)' => Engaged(s)
    BY <1>4, <1>6
  <2>2. \A d, e \in DOMAIN runs' : Engaged(d)' /\ Engaged(e)' => d = e
    BY <1>1, <1>2, <2>1 DEF Alone
  <2>3. lease' \in {"taken", "checked"} => lease' = lease
    OBVIOUS
  <2> QED BY <1>1, <1>2, <2>1, <2>2, <2>3 DEF Alone
<1>10. lease' = "run" <=> \E s \in DOMAIN runs' : worker'[s].pc # "gone" /\ runs'[s].kind # "verify"
  <2>1. lease = "run" <=> \E s \in DOMAIN runs : worker[s].pc # "gone" /\ runs[s].kind # "verify"
    BY <1>1 DEF TypeOK
  <2>2. CASE run.kind = "verify"
    <3>1. lease' = lease /\ runs[r].kind = "verify" /\ runs'[r].kind = "verify"
      BY <1>2, <2>2
    <3>2. \A s \in DOMAIN runs : /\ runs'[s].kind = runs[s].kind
                                /\ s # r => worker'[s] = worker[s]
      BY <1>2, <3>1
    <3> QED BY <1>2, <2>1, <3>1, <3>2
  <2>3. CASE run.kind # "verify"
    <3>1. \A s \in DOMAIN runs : s # r => ~(worker[s].pc # "gone" /\ runs[s].kind # "verify")
      BY <1>1, <2>3 DEF Alone, Engaged, Live
    <3> QED BY <1>2, <2>3, <3>1
  <2> QED BY <2>2, <2>3
<1>11. TypeOK'
  BY <1>1, <1>2, <1>3, <1>10 DEF TypeOK, Thread, store
<1>12. /\ Fates'
       /\ \A i : (Applied(i)' <=> Applied(i)) /\ (RolledBack(i)' <=> RolledBack(i))
  <2>1. \A s \in DOMAIN runs :
          /\ runs'[s].kind = runs[s].kind /\ runs'[s].subject = runs[s].subject
          /\ runs'[s].moved = runs[s].moved /\ Pending(s)' \subseteq Pending(s)
    BY <1>2, <1>4, <1>7
  <2>2. \A e \in Rollbacks : \A i \in runs'[e].open : i \in runs[e].open \/ ~RolledBack(i)
    <3>1. \A e \in Rollbacks : e \in DOMAIN runs /\ runs[e].kind = "rollback"
      BY DEF Rollbacks
    <3>2. \A i \in Item : place[i] = "target" => ~RolledBack(i)
      BY <1>1 DEF Places
    <3>3. runs[r].todo \subseteq Item
      BY <1>3, Fields
    <3> QED BY <1>2, <3>1, <3>2, <3>3
  <2> QED BY <1>1, <1>2, <2>1, <2>2, FatesKept
<1>13. Places'
  BY <1>1, <1>12 DEF Places, store
<1> QED BY <1>2, <1>5, <1>8, <1>9, <1>11, <1>12, <1>13 DEF IInv

\* What is archived is left alone by whoever needs a thread, an open entry or
\* the lease, and by whoever looks for the archive.
LEMMA Unarchived ==
  ASSUME IInv, Writable,
         \/ Mutable \/ lease # "free"
         \/ \E r \in DOMAIN runs : Live(r) \/ runs[r].open # {}
  PROVE  tx = "none" /\ ~purged /\ ~Archived /\ (UNCHANGED store => Kept')
<1>1. tx = "none" /\ ~purged
  BY DEF Writable
<1>2. ~Archived
  BY <1>1 DEF IInv, Kept, Quiet, Mutable
<1>3. UNCHANGED store => Kept'
  BY <1>1, <1>2 DEF Kept, Archived, store
<1> QED BY <1>1, <1>2, <1>3

\* The lease of a run that moves files is its own.
LEMMA Leased ==
  ASSUME IInv, NEW r \in DOMAIN runs, Live(r), runs[r].kind # "verify"
  PROVE  lease = "run"
BY DEF IInv, TypeOK, Live

\* The next item is prepared or passed over.
LEMMA NextItemStep ==
  ASSUME IInv, NEW r \in DOMAIN runs, NextItem(r)
  PROVE  IInv'
<1>1. /\ Writable /\ worker[r].pc = "items" /\ runs[r].kind # "verify" /\ runs[r].todo # {}
      /\ UNCHANGED <<lease, starting, place, store, confirmed, faults, touched>>
  BY DEF NextItem
<1>2. /\ runs[r] \in Record /\ worker[r] \in Thread /\ TypeOK /\ Typed /\ Shape(r)
      /\ worker \in [1..MaxRuns -> Thread] /\ runs \in [DOMAIN runs -> Record] /\ r \in 1..MaxRuns
  BY Numbered DEF IInv
<1>3. Live(r) /\ lease = "run" /\ Kept'
  <2>1. Live(r)
    BY <1>1 DEF Live
  <2> QED BY <1>1, <2>1, Unarchived, Leased
<1>4. PICK i \in Item : i = Chosen(runs[r]) /\ i \in runs[r].todo
  BY <1>1, <1>2, ChosenItem
<1>5. faults' \in 0..MaxFaults /\ confirmed' \subseteq Item
  BY <1>1, <1>2 DEF TypeOK
<1>6. CASE /\ place[i] = IF runs[r].kind = "apply" THEN "source" ELSE "target"
           /\ runs' = [runs EXCEPT ![r].open = @ \cup {i}, ![r].journaled = TRUE, ![r].todo = @ \ {i}]
           /\ worker' = [worker EXCEPT ![r] = [pc |-> "moving", item |-> i]]
  <2>1. PICK run \in Record : run = [runs[r] EXCEPT !.open = @ \cup {i}, !.journaled = TRUE, !.todo = @ \ {i}]
    BY <1>2 DEF Record
  <2>2. /\ run.kind = runs[r].kind /\ run.subject = runs[r].subject /\ run.status = runs[r].status
        /\ run.todo = runs[r].todo \ {i} /\ run.open = runs[r].open \cup {i} /\ run.moved = runs[r].moved
        /\ run.logged = runs[r].logged /\ run.journaled
    BY <1>2, <2>1 DEF Record
  <2>3. runs' = [runs EXCEPT ![r] = run]
    BY <1>2, <1>6, <2>1
  <2>4. PICK w \in Thread : w = [pc |-> "moving", item |-> i]
    BY DEF Thread
  <2>5. w.pc = "moving" /\ w.item = i /\ worker' = [worker EXCEPT ![r] = w]
    BY <1>6, <2>4
  <2>6. runs'[r] = run /\ worker'[r] = w
    BY <1>2, <2>3, <2>5
  <2>7. Shape(r)'
    BY <1>1, <1>2, <1>3, <2>2, <2>5, <2>6, Fields DEF Shape, Live
  <2>8. \A k \in run.open \ runs[r].open :
          k \in runs[r].todo /\ (run.kind = "rollback" => place[k] = "target")
    BY <1>4, <1>6, <2>2
  <2> QED BY <1>1, <1>3, <1>4, <1>5, <2>2, <2>3, <2>5, <2>7, <2>8, OneRunStep
<1>7. CASE /\ runs' = [runs EXCEPT ![r].todo = @ \ {i},
                         ![r].failed = IF runs[r].kind = "rollback" /\ Restored(r, i) /\ place[i] = "source"
                                       THEN @ ELSE @ \cup {i}]
           /\ UNCHANGED worker
  <2>1. PICK failed \in SUBSET Item :
          failed = IF runs[r].kind = "rollback" /\ Restored(r, i) /\ place[i] = "source"
                   THEN runs[r].failed ELSE runs[r].failed \cup {i}
    BY <1>2, Fields
  <2>2. PICK run \in Record : run = [runs[r] EXCEPT !.todo = @ \ {i}, !.failed = failed]
    BY <1>2 DEF Record
  <2>3. /\ run.kind = runs[r].kind /\ run.subject = runs[r].subject /\ run.status = runs[r].status
        /\ run.todo = runs[r].todo \ {i} /\ run.open = runs[r].open /\ run.moved = runs[r].moved
        /\ run.logged = runs[r].logged /\ run.journaled = runs[r].journaled
    BY <1>2, <2>2 DEF Record
  <2>4. runs' = [runs EXCEPT ![r] = run]
    BY <1>2, <1>7, <2>1, <2>2
  <2>5. worker' = [worker EXCEPT ![r] = worker[r]]
    BY <1>2, <1>7
  <2>6. runs'[r] = run /\ worker'[r] = worker[r]
    BY <1>2, <2>4, <2>5
  <2>7. Shape(r)'
    BY <1>1, <1>2, <1>3, <2>3, <2>6 DEF Shape, Live
  <2> QED BY <1>1, <1>2, <1>3, <1>4, <1>5, <2>3, <2>4, <2>5, <2>7, OneRunStep DEF Live
<1> QED BY <1>4, <1>6, <1>7 DEF NextItem

\* A run that ends, with the summaries of what it moved.
LEMMA FinishedRun ==
  ASSUME NEW run \in Record, NEW proposed \in Status
  PROVE  LET done == Finished(run, proposed) IN
         /\ done \in Record /\ done.kind = run.kind /\ done.subject = run.subject
         /\ done.todo = run.todo /\ done.open = run.open /\ done.journaled = run.journaled
         /\ done.moved = run.moved /\ done.logged = run.moved
         /\ done.status \in {proposed, "completed", "partial"}
         /\ proposed # "failed" /\ HasOutcome(run) => done.status \in {"completed", "partial"}
<1>1. PICK half \in Record : half = Summarised(run)
  BY DEF Record, Summarised
<1>2. PICK status \in Status :
        status = IF proposed # "failed" /\ HasOutcome(run) THEN Outcome(run) ELSE proposed
  BY DEF Outcome, Status
<1>3. Finished(run, proposed) = [half EXCEPT !.status = status]
  BY <1>1, <1>2 DEF Finished
<1>4. /\ half.kind = run.kind /\ half.subject = run.subject /\ half.todo = run.todo
      /\ half.open = run.open /\ half.journaled = run.journaled
      /\ half.moved = run.moved /\ half.logged = run.moved
  BY <1>1 DEF Summarised, Record
<1>5. status \in {proposed, "completed", "partial"}
      /\ (proposed # "failed" /\ HasOutcome(run) => status \in {"completed", "partial"})
  BY <1>2 DEF Outcome
<1>6. PICK done \in Record : done = [half EXCEPT !.status = status]
  BY DEF Record
<1>7. /\ done.kind = half.kind /\ done.subject = half.subject /\ done.todo = half.todo
      /\ done.open = half.open /\ done.journaled = half.journaled
      /\ done.moved = half.moved /\ done.logged = half.logged /\ done.status = status
  BY <1>6 DEF Record
<1> QED BY <1>3, <1>4, <1>5, <1>6, <1>7

\* A run that moves files ends with the release of its lease.
LEMMA EndStep ==
  ASSUME IInv, Writable, NEW r \in DOMAIN runs, Live(r), runs[r].kind # "verify",
         NEW run \in Record, NEW proposed \in Status, End(r, Finished(run, proposed)),
         run.kind = runs[r].kind, run.subject = runs[r].subject, run.todo = runs[r].todo,
         run.open = runs[r].open, run.moved = runs[r].moved, run.journaled = runs[r].journaled,
         proposed = "recovery_required" => runs[r].open \cup runs[r].moved # {},
         UNCHANGED <<starting, place, store, confirmed, touched>>, faults' \in 0..MaxFaults
  PROVE  IInv'
<1>1. /\ runs[r] \in Record /\ TypeOK /\ Typed /\ Shape(r) /\ confirmed' \subseteq Item
      /\ worker \in [1..MaxRuns -> Thread] /\ runs \in [DOMAIN runs -> Record] /\ r \in 1..MaxRuns
  BY Numbered DEF IInv, TypeOK
<1>2. Kept' /\ lease = "run"
  BY Unarchived, Leased
<1>3. PICK done \in Record :
        /\ done = Finished(run, proposed) /\ done.kind = run.kind /\ done.subject = run.subject
        /\ done.todo = run.todo /\ done.open = run.open /\ done.journaled = run.journaled
        /\ done.moved = run.moved /\ done.logged = run.moved
        /\ done.status \in {proposed, "completed", "partial"}
        /\ proposed # "failed" /\ HasOutcome(run) => done.status \in {"completed", "partial"}
  BY FinishedRun
<1>4. PICK w \in Thread : w = Gone
  BY DEF Thread, Gone
<1>5. /\ runs' = [runs EXCEPT ![r] = done] /\ worker' = [worker EXCEPT ![r] = w]
      /\ w.pc = "gone" /\ lease' = "free"
  BY <1>3, <1>4 DEF End, Gone
<1>6. runs'[r] = done /\ worker'[r] = w
  BY <1>1, <1>5
<1>7. done.status = "recovery_required" => done.open # {}
  <2> SUFFICES ASSUME done.status = "recovery_required", run.open = {} PROVE FALSE
    BY <1>3
  <2>1. proposed = "recovery_required" /\ ~HasOutcome(run)
    BY <1>3
  <2>2. run.journaled
    BY <1>1, <2>1 DEF Shape
  <2> QED BY <2>1, <2>2 DEF HasOutcome
<1>8. Shape(r)'
  BY <1>1, <1>3, <1>5, <1>6, <1>7 DEF Shape, Live
<1> QED BY <1>1, <1>2, <1>3, <1>5, <1>8, OneRunStep

\* A move fails.
LEMMA MoveFailsStep ==
  ASSUME IInv, NEW r \in DOMAIN runs, MoveFails(r)
  PROVE  IInv'
<1>1. /\ Writable /\ worker[r].pc = "moving" /\ Fault
      /\ UNCHANGED <<starting, place, store, confirmed, touched>>
  BY DEF MoveFails
<1>2. /\ runs[r] \in Record /\ worker[r] \in Thread /\ TypeOK /\ Typed /\ Shape(r)
      /\ worker \in [1..MaxRuns -> Thread] /\ runs \in [DOMAIN runs -> Record] /\ r \in 1..MaxRuns
  BY Numbered DEF IInv
<1>3. Live(r) /\ runs[r].kind # "verify" /\ lease = "run" /\ Kept'
  <2>1. Live(r) /\ runs[r].kind # "verify"
    BY <1>1, <1>2 DEF Live, Shape
  <2> QED BY <1>1, <2>1, Unarchived, Leased
<1>4. faults' \in 0..MaxFaults /\ confirmed' \subseteq Item
  BY <1>1, <1>2, HistoryAssumption DEF TypeOK, Fault
<1>5. PICK i \in Item : i = worker[r].item /\ i \in runs[r].open
  BY <1>1, <1>2, Fields DEF Shape
<1>6. PICK failing \in Record : failing = [runs[r] EXCEPT !.failed = @ \cup {i}]
  BY <1>2 DEF Record
<1>7. /\ failing.kind = runs[r].kind /\ failing.subject = runs[r].subject
      /\ failing.todo = runs[r].todo /\ failing.open = runs[r].open /\ failing.status = runs[r].status
      /\ failing.moved = runs[r].moved /\ failing.logged = runs[r].logged
      /\ failing.journaled = runs[r].journaled
  BY <1>2, <1>6 DEF Record
<1>8. CASE End(r, Finished(failing, "recovery_required"))
  <2>1. "recovery_required" \in Status /\ runs[r].open \cup runs[r].moved # {}
    BY <1>5 DEF Status
  <2> QED BY <1>1, <1>3, <1>4, <1>7, <1>8, <2>1, EndStep
<1>9. ASSUME NEW open \in {runs[r].open, runs[r].open \ {i}},
             runs' = [runs EXCEPT ![r] = [failing EXCEPT !.open = open]],
             worker' = [worker EXCEPT ![r] = [pc |-> "items", item |-> None]], UNCHANGED lease
      PROVE  IInv'
  <2>1. PICK run \in Record : run = [failing EXCEPT !.open = open]
    BY <1>2, <1>9, Fields DEF Record
  <2>2. PICK w \in Thread : w = [pc |-> "items", item |-> None]
    BY DEF Thread
  <2>3. /\ run.kind = runs[r].kind /\ run.subject = runs[r].subject /\ run.moved = runs[r].moved
        /\ run.logged = runs[r].logged /\ run.todo = runs[r].todo /\ run.journaled = runs[r].journaled
        /\ run.open = open /\ run.status = runs[r].status
    BY <1>7, <2>1 DEF Record
  <2>4. runs' = [runs EXCEPT ![r] = run] /\ worker' = [worker EXCEPT ![r] = w] /\ w.pc = "items"
    BY <1>9, <2>1, <2>2
  <2>5. runs'[r] = run /\ worker'[r] = w
    BY <1>2, <2>4
  <2>6. Shape(r)'
    BY <1>1, <1>2, <1>3, <1>9, <2>3, <2>4, <2>5 DEF Shape, Live
  <2>7. run.open \subseteq runs[r].open
    BY <1>9, <2>3
  <2> QED BY <1>1, <1>3, <1>4, <1>9, <2>3, <2>4, <2>6, <2>7, OneRunStep
<1> QED BY <1>5, <1>6, <1>8, <1>9 DEF MoveFails

\* The summary of an item is written, or cannot be.
LEMMA LogItemStep ==
  ASSUME IInv, NEW r \in DOMAIN runs, LogItem(r)
  PROVE  IInv'
<1>1. /\ Writable /\ worker[r].pc = "log"
      /\ UNCHANGED <<starting, place, store, confirmed, touched>>
      /\ UNCHANGED faults \/ Fault
  BY DEF LogItem
<1>2. /\ runs[r] \in Record /\ worker[r] \in Thread /\ TypeOK /\ Typed /\ Shape(r)
      /\ worker \in [1..MaxRuns -> Thread] /\ runs \in [DOMAIN runs -> Record] /\ r \in 1..MaxRuns
  BY Numbered DEF IInv
<1>3. Live(r) /\ runs[r].kind # "verify" /\ lease = "run" /\ Kept'
  <2>1. Live(r) /\ runs[r].kind # "verify"
    BY <1>1, <1>2 DEF Live, Shape
  <2> QED BY <1>1, <2>1, Unarchived, Leased
<1>4. faults' \in 0..MaxFaults /\ confirmed' \subseteq Item
  BY <1>1, <1>2, HistoryAssumption DEF TypeOK, Fault
<1>5. worker[r].item \in runs[r].moved /\ worker[r].item \in Item
  BY <1>1, <1>2, Fields DEF Shape
<1>6. CASE End(r, Finished(runs[r], "recovery_required"))
  <2>1. "recovery_required" \in Status /\ runs[r].open \cup runs[r].moved # {}
    BY <1>5 DEF Status
  <2> QED BY <1>1, <1>2, <1>3, <1>4, <1>6, <2>1, EndStep
<1>7. CASE /\ runs' = [runs EXCEPT ![r].logged = @ \cup {worker[r].item}]
           /\ worker' = [worker EXCEPT ![r] = [pc |-> "items", item |-> None]]
           /\ UNCHANGED lease
  <2>1. PICK run \in Record : run = [runs[r] EXCEPT !.logged = @ \cup {worker[r].item}]
    BY <1>2, <1>5 DEF Record
  <2>2. PICK w \in Thread : w = [pc |-> "items", item |-> None]
    BY DEF Thread
  <2>3. /\ run.kind = runs[r].kind /\ run.subject = runs[r].subject /\ run.moved = runs[r].moved
        /\ run.todo = runs[r].todo /\ run.open = runs[r].open /\ run.journaled = runs[r].journaled
        /\ run.logged = runs[r].logged \cup {worker[r].item} /\ run.status = runs[r].status
    BY <1>2, <2>1 DEF Record
  <2>4. runs' = [runs EXCEPT ![r] = run] /\ worker' = [worker EXCEPT ![r] = w] /\ w.pc = "items"
    BY <1>2, <1>7, <2>1, <2>2
  <2>5. runs'[r] = run /\ worker'[r] = w
    BY <1>2, <2>4
  <2>6. Shape(r)'
    BY <1>1, <1>2, <1>3, <1>5, <2>3, <2>4, <2>5 DEF Shape, Live
  <2> QED BY <1>1, <1>3, <1>4, <1>7, <2>3, <2>4, <2>6, OneRunStep
<1> QED BY <1>6, <1>7 DEF LogItem

\* A run that moves files has come to its end, or cannot go on.
LEMMA FinishRunStep ==
  ASSUME IInv, NEW r \in DOMAIN runs, FinishRun(r)
  PROVE  IInv'
<1>1. /\ Writable /\ worker[r].pc = "items" /\ runs[r].kind # "verify" /\ runs[r] \in Record
      /\ UNCHANGED <<starting, place, store, confirmed, touched>>
      /\ UNCHANGED faults \/ Fault
  BY Numbered DEF FinishRun, IInv
<1>2. Live(r) /\ faults' \in 0..MaxFaults
  BY <1>1, HistoryAssumption DEF Live, IInv, TypeOK, Fault
<1>3. PICK proposed \in Status \ {"recovery_required"} : End(r, Finished(runs[r], proposed))
  BY DEF FinishRun, Proposed, Status
<1> QED BY <1>1, <1>2, <1>3, EndStep

\* A verification ends.
LEMMA FinishVerifyStep ==
  ASSUME IInv, NEW r \in DOMAIN runs, FinishVerify(r)
  PROVE  IInv'
<1>1. /\ Writable /\ worker[r].pc = "items" /\ worker' = [worker EXCEPT ![r] = Gone]
      /\ UNCHANGED <<lease, starting, place, store, confirmed, faults, touched>>
      /\ runs[r].kind = "verify"
  BY DEF FinishVerify
<1>2. /\ runs[r] \in Record /\ worker[r] \in Thread /\ TypeOK /\ Typed /\ Shape(r)
      /\ worker \in [1..MaxRuns -> Thread] /\ runs \in [DOMAIN runs -> Record] /\ r \in 1..MaxRuns
  BY Numbered DEF IInv
<1>3. Live(r) /\ Kept'
  <2>1. Live(r)
    BY <1>1 DEF Live
  <2> QED BY <1>1, <2>1, Unarchived
<1>4. faults' \in 0..MaxFaults /\ confirmed' \subseteq Item
  BY <1>1, <1>2 DEF TypeOK
<1>5. PICK status \in Status \ {"recovery_required"} : runs' = [runs EXCEPT ![r].status = status]
  BY DEF FinishVerify, Status
<1>6. PICK run \in Record : run = [runs[r] EXCEPT !.status = status]
  BY <1>2 DEF Record
<1>7. PICK w \in Thread : w = Gone
  BY DEF Thread, Gone
<1>8. /\ run.kind = runs[r].kind /\ run.subject = runs[r].subject /\ run.moved = runs[r].moved
      /\ run.logged = runs[r].logged /\ run.todo = runs[r].todo /\ run.journaled = runs[r].journaled
      /\ run.open = runs[r].open /\ run.status = status
  BY <1>2, <1>6 DEF Record
<1>9. runs' = [runs EXCEPT ![r] = run] /\ worker' = [worker EXCEPT ![r] = w] /\ w.pc = "gone"
  BY <1>1, <1>2, <1>5, <1>6, <1>7 DEF Gone
<1>10. runs'[r] = run /\ worker'[r] = w
  BY <1>2, <1>9
<1>11. Shape(r)'
  BY <1>1, <1>2, <1>3, <1>8, <1>9, <1>10 DEF Shape, Live
<1> QED BY <1>1, <1>3, <1>4, <1>8, <1>9, <1>11, OneRunStep

\* A file is looked for, or what was found cannot be saved.
LEMMA VerifyItemStep ==
  ASSUME IInv, NEW r \in DOMAIN runs, VerifyItem(r)
  PROVE  IInv'
<1>1. /\ Writable /\ worker[r].pc = "items" /\ runs[r].kind = "verify" /\ runs[r].todo # {}
      /\ UNCHANGED <<lease, starting, place, store, touched>>
  BY DEF VerifyItem
<1>2. /\ runs[r] \in Record /\ worker[r] \in Thread /\ TypeOK /\ Typed /\ Shape(r)
      /\ worker \in [1..MaxRuns -> Thread] /\ runs \in [DOMAIN runs -> Record] /\ r \in 1..MaxRuns
  BY Numbered DEF IInv
<1>3. Live(r) /\ Kept'
  <2>1. Live(r)
    BY <1>1 DEF Live
  <2> QED BY <1>1, <2>1, Unarchived
<1>4. PICK i \in Item : i = Chosen(runs[r]) /\ i \in runs[r].todo
  BY <1>1, <1>2, ChosenItem
<1>5. CASE Fault /\ worker' = [worker EXCEPT ![r] = Gone] /\ UNCHANGED <<runs, confirmed>>
  <2>1. PICK w \in Thread : w = Gone
    BY DEF Thread, Gone
  <2>2. /\ worker' = [worker EXCEPT ![r] = w] /\ w.pc = "gone" /\ runs' = [runs EXCEPT ![r] = runs[r]]
        /\ runs'[r] = runs[r] /\ worker'[r] = w
    BY <1>2, <1>5, <2>1 DEF Gone
  <2>3. faults' \in 0..MaxFaults /\ confirmed' \subseteq Item
    BY <1>2, <1>5, HistoryAssumption DEF TypeOK, Fault
  <2>4. Shape(r)'
    BY <1>1, <1>2, <2>2 DEF Shape, Live
  <2> QED BY <1>1, <1>2, <1>3, <2>2, <2>3, <2>4, OneRunStep
<1>6. ASSUME NEW found \in BOOLEAN,
             runs' = [runs EXCEPT ![r].todo = @ \ {i}, ![r].failed = IF found THEN @ ELSE @ \cup {i}],
             confirmed' = confirmed \cup {i} \/ confirmed' = confirmed, UNCHANGED <<worker, faults>>
      PROVE  IInv'
  <2>1. PICK failed \in SUBSET Item : failed = IF found THEN runs[r].failed ELSE runs[r].failed \cup {i}
    BY <1>2, Fields
  <2>2. PICK run \in Record : run = [runs[r] EXCEPT !.todo = @ \ {i}, !.failed = failed]
    BY <1>2 DEF Record
  <2>3. /\ run.kind = runs[r].kind /\ run.subject = runs[r].subject /\ run.status = runs[r].status
        /\ run.todo = runs[r].todo \ {i} /\ run.open = runs[r].open /\ run.moved = runs[r].moved
        /\ run.logged = runs[r].logged /\ run.journaled = runs[r].journaled
    BY <1>2, <2>2 DEF Record
  <2>4. runs' = [runs EXCEPT ![r] = run]
    BY <1>2, <1>6, <2>1, <2>2
  <2>5. worker' = [worker EXCEPT ![r] = worker[r]]
    BY <1>2, <1>6
  <2>6. runs'[r] = run /\ worker'[r] = worker[r]
    BY <1>2, <2>4, <2>5
  <2>7. Shape(r)'
    BY <1>1, <1>2, <1>3, <2>3, <2>6 DEF Shape, Live
  <2>8. faults' \in 0..MaxFaults /\ confirmed' \subseteq Item
    BY <1>2, <1>6 DEF TypeOK
  <2> QED BY <1>1, <1>2, <1>3, <2>3, <2>4, <2>5, <2>7, <2>8, OneRunStep
<1>7. \/ Fault /\ worker' = [worker EXCEPT ![r] = Gone] /\ UNCHANGED <<runs, confirmed>>
      \/ \E found \in BOOLEAN :
           /\ runs' = [runs EXCEPT ![r].todo = @ \ {i}, ![r].failed = IF found THEN @ ELSE @ \cup {i}]
           /\ confirmed' = confirmed \cup {i} \/ confirmed' = confirmed
           /\ UNCHANGED <<worker, faults>>
  BY <1>4 DEF VerifyItem
<1> QED BY <1>5, <1>6, <1>7

\* A process ends between two steps.
LEMMA CrashStep ==
  ASSUME IInv, Crash
  PROVE  IInv'
<1>1. /\ UNCHANGED <<runs, place, store, confirmed, touched>>
      /\ TypeOK /\ Typed /\ Alone /\ Fates /\ Places /\ Kept
  BY DEF Crash, IInv
<1>2. faults' \in 0..MaxFaults
  BY <1>1, HistoryAssumption DEF Crash, Fault, TypeOK
<1>3. CASE /\ lease \in {"taken", "checked"} /\ lease' = "stale" /\ starting' = NoStart
           /\ UNCHANGED worker
  <2>1. UNCHANGED <<runs, worker, place, tx, files, manifest, purged, confirmed, touched>>
    BY <1>1, <1>3 DEF store
  <2>2. NoStart \in [kind: Kinds, subject: 0..MaxRuns]
    BY HistoryAssumption DEF NoStart, Kinds
  <2>3. TypeOK'
    BY <1>1, <1>2, <1>3, <2>1, <2>2 DEF TypeOK
  <2>4. Typed' /\ Alone'
    BY <1>1, <1>3, <2>1 DEF Typed, Alone, Live, Engaged
  <2>5. \A r \in DOMAIN runs' : Shape(r)'
    BY <2>1 DEF IInv, Shape, Live
  <2>6. Fates' /\ Places'
    BY <1>1, <2>1 DEF Fates, Places, Applied, RolledBack, Pending, Live, Applies, Rollbacks
  <2>7. Kept'
    BY <1>1, <1>3, <2>1 DEF Kept, Quiet, Archived
  <2> QED BY <2>3, <2>4, <2>5, <2>6, <2>7 DEF IInv
<1>4. ASSUME NEW r \in DOMAIN runs,
             worker[r].pc # "gone", worker' = [worker EXCEPT ![r] = Gone],
             lease' = IF runs[r].kind = "verify" THEN lease ELSE "stale", UNCHANGED starting
      PROVE  IInv'
  <2>1. /\ runs[r] \in Record /\ worker[r] \in Thread /\ Shape(r)
        /\ worker \in [1..MaxRuns -> Thread] /\ runs \in [DOMAIN runs -> Record] /\ r \in 1..MaxRuns
    BY <1>1, Numbered DEF IInv
  <2>2. PICK w \in Thread : w = Gone
    BY DEF Thread, Gone
  <2>3. /\ worker' = [worker EXCEPT ![r] = w] /\ w.pc = "gone" /\ runs' = [runs EXCEPT ![r] = runs[r]]
        /\ runs'[r] = runs[r] /\ worker'[r] = w
    BY <1>1, <1>4, <2>1, <2>2 DEF Gone
  <2>4. Live(r)
    BY <1>4 DEF Live
  <2>5. Shape(r)'
    BY <2>1, <2>3, <2>4 DEF Shape, Live
  <2>6. ~purged
    <3>1. DOMAIN runs = 1..Len(runs)
      BY <1>1, Numbered
    <3>2. runs # <<>>
      BY <3>1
    <3> QED BY <1>1, <3>2 DEF Kept
  <2>7. Kept'
    BY <1>1, <2>4, <2>6 DEF Kept, Quiet, Archived, store
  <2>8. confirmed' \subseteq Item
    BY <1>1 DEF TypeOK
  <2> QED BY <1>1, <1>2, <1>4, <2>1, <2>3, <2>4, <2>5, <2>7, <2>8, OneRunStep
<1> QED BY <1>3, <1>4 DEF Crash

\* A run whose summaries are complete and which is settled if it can be.
LEMMA ReconciledRun ==
  ASSUME NEW run \in Record
  PROVE  LET done == Reconciled(run)
             half == Summarised(run)
         IN /\ done \in Record /\ done.kind = run.kind /\ done.subject = run.subject
            /\ done.todo = run.todo /\ done.open = run.open /\ done.journaled = run.journaled
            /\ done.moved = run.moved /\ done.logged = run.moved
            /\ \/ done.status = run.status /\ (run.status \in {"running", "recovery_required"} => ~HasOutcome(run))
               \/ done.status \in {"completed", "partial"} /\ run.status \in {"running", "recovery_required"}
            /\ half \in Record /\ half.kind = run.kind /\ half.subject = run.subject
            /\ half.todo = run.todo /\ half.open = run.open /\ half.journaled = run.journaled
            /\ half.moved = run.moved /\ half.logged = run.moved /\ half.status = run.status
<1>1. PICK half \in Record : half = Summarised(run)
  BY DEF Record, Summarised
<1>2. /\ half.kind = run.kind /\ half.subject = run.subject /\ half.todo = run.todo
      /\ half.open = run.open /\ half.journaled = run.journaled /\ half.status = run.status
      /\ half.moved = run.moved /\ half.logged = run.moved
  BY <1>1 DEF Summarised, Record
<1>3. PICK status \in {"completed", "partial"} : status = Outcome(run)
  BY DEF Outcome
<1>4. PICK done \in Record : done = [half EXCEPT !.status = status]
  BY <1>3 DEF Record, Status
<1>5. /\ done.kind = half.kind /\ done.subject = half.subject /\ done.todo = half.todo
      /\ done.open = half.open /\ done.journaled = half.journaled
      /\ done.moved = half.moved /\ done.logged = half.logged /\ done.status = status
  BY <1>4 DEF Record
<1>6. Reconciled(run) = IF run.status \in {"running", "recovery_required"} /\ HasOutcome(run)
                        THEN done ELSE half
  BY <1>1, <1>3, <1>4 DEF Reconciled
<1>7. CASE run.status \in {"running", "recovery_required"} /\ HasOutcome(run)
  BY <1>1, <1>2, <1>3, <1>5, <1>6, <1>7
<1>8. CASE ~(run.status \in {"running", "recovery_required"} /\ HasOutcome(run))
  BY <1>1, <1>2, <1>6, <1>8
<1> QED BY <1>7, <1>8

\* What the next opening of the database makes of a run.
LEMMA SettledRun ==
  ASSUME TypeOK, Typed, NEW r \in DOMAIN runs, Shape(r)
  PROVE  LET run == Settled(r) IN
         /\ run \in Record /\ run.kind = runs[r].kind /\ run.subject = runs[r].subject
         /\ run.todo = runs[r].todo /\ run.open = runs[r].open /\ run.journaled = runs[r].journaled
         /\ run.moved = runs[r].moved /\ run.logged = runs[r].moved
         /\ Live(r) => run.status = runs[r].status
         /\ run.status = "recovery_required" => run.open # {}
         /\ run.status = "running" => runs[r].status = "running"
<1>1. runs[r] \in Record
  BY Numbered
<1>2. CASE runs[r].kind = "verify"
  BY <1>1, <1>2 DEF Settled, Shape
<1>3. CASE runs[r].kind # "verify" /\ Live(r)
  <2>1. Settled(r) = Summarised(runs[r])
    BY <1>3 DEF Settled, Live
  <2> QED BY <1>1, <2>1, ReconciledRun DEF Shape
<1>4. CASE runs[r].kind # "verify" /\ ~Live(r) /\ runs[r].status = "running" /\ runs[r].open # {}
  <2>1. PICK half \in Record : half = Summarised(runs[r])
    BY <1>1, ReconciledRun
  <2>2. PICK run \in Record : run = [half EXCEPT !.status = "recovery_required"]
    BY DEF Record, Status
  <2>3. /\ run.kind = half.kind /\ run.subject = half.subject /\ run.todo = half.todo
        /\ run.open = half.open /\ run.journaled = half.journaled
        /\ run.moved = half.moved /\ run.logged = half.logged /\ run.status = "recovery_required"
    BY <2>2 DEF Record
  <2>4. Settled(r) = run
    BY <1>4, <2>1, <2>2 DEF Settled, Live
  <2>5. /\ half.kind = runs[r].kind /\ half.subject = runs[r].subject /\ half.todo = runs[r].todo
        /\ half.open = runs[r].open /\ half.journaled = runs[r].journaled
        /\ half.moved = runs[r].moved /\ half.logged = runs[r].moved
    BY <1>1, <2>1, ReconciledRun
  <2> QED BY <1>4, <2>3, <2>4, <2>5
<1>5. CASE runs[r].kind # "verify" /\ ~Live(r) /\ ~(runs[r].status = "running" /\ runs[r].open # {})
  <2>1. PICK run \in Record : run = Reconciled(runs[r])
    BY <1>1, ReconciledRun
  <2>2. Settled(r) = run
    BY <1>5, <2>1 DEF Settled, Live
  <2>3. /\ run.kind = runs[r].kind /\ run.subject = runs[r].subject
        /\ run.todo = runs[r].todo /\ run.open = runs[r].open /\ run.journaled = runs[r].journaled
        /\ run.moved = runs[r].moved /\ run.logged = runs[r].moved
        /\ run.status = runs[r].status \/ run.status \in {"completed", "partial"}
    BY <1>1, <2>1, ReconciledRun
  <2>4. run.status = "recovery_required" => run.open # {}
    BY <2>3 DEF Shape
  <2> QED BY <1>5, <2>2, <2>3, <2>4
<1> QED BY <1>2, <1>3, <1>4, <1>5

\* A run that has ended, with its entries closed and summarised, is left alone.
LEMMA SettledKept ==
  ASSUME TypeOK, Typed, NEW r \in DOMAIN runs, Shape(r), ~Live(r), runs[r].status # "running",
         runs[r].open = {}, runs[r].logged = runs[r].moved
  PROVE  Settled(r) = runs[r]
<1>1. runs[r] \in Record
  BY Numbered
<1>2. Summarised(runs[r]) = runs[r]
  BY <1>1 DEF Summarised, Record
<1>3. runs[r].status \notin {"running", "recovery_required"}
  BY DEF Shape
<1> QED BY <1>2, <1>3 DEF Settled, Reconciled, Live

\* The database is opened again: summaries are completed, runs are settled.
LEMMA ReopenStep ==
  ASSUME IInv, Reopen
  PROVE  IInv'
<1>1. /\ TypeOK /\ Typed /\ Alone /\ Fates /\ Places /\ Kept /\ Writable
      /\ UNCHANGED <<worker, starting, place, store, confirmed, faults, touched>>
      /\ runs' = [r \in DOMAIN runs |-> Settled(r)]
      /\ lease' = IF lease = "stale" THEN "free" ELSE lease
  BY DEF IInv, Reopen
<1>2. /\ DOMAIN runs = 1..Len(runs) /\ Len(runs) \in Nat /\ Len(runs) <= MaxRuns
      /\ Applies \subseteq DOMAIN runs /\ Rollbacks \subseteq DOMAIN runs
  BY <1>1, Numbered DEF TypeOK, Typed
<1>3. /\ DOMAIN runs' = DOMAIN runs
      /\ \A r \in DOMAIN runs : runs'[r] = Settled(r)
  BY <1>1
<1>4. \A r \in DOMAIN runs : Shape(r) /\ runs'[r] \in Record
  BY <1>1, <1>3, SettledRun DEF IInv
<1>5. runs' \in Seq(Record) /\ Len(runs') = Len(runs)
  <2>1. runs' \in [1..Len(runs) -> Record]
    BY <1>1, <1>2, <1>3, <1>4
  <2> QED BY <1>2, <2>1
<1>6. \A r \in DOMAIN runs :
        /\ runs'[r].kind = runs[r].kind /\ runs'[r].subject = runs[r].subject
        /\ runs'[r].moved = runs[r].moved /\ runs'[r].logged = runs[r].moved
        /\ runs'[r].todo = runs[r].todo /\ runs'[r].open = runs[r].open
        /\ runs'[r].journaled = runs[r].journaled
        /\ Live(r) => runs'[r].status = runs[r].status
        /\ runs'[r].status = "recovery_required" => runs'[r].open # {}
        /\ runs'[r].status = "running" => runs[r].status = "running"
  BY <1>1, <1>3, <1>4, SettledRun
<1>7. \A r : /\ Live(r)' <=> Live(r)
             /\ r \in DOMAIN runs => (Engaged(r)' <=> Engaged(r)) /\ Pending(r)' = Pending(r)
  BY <1>1, <1>6 DEF Live, Engaged, Pending
<1>8. \A r \in DOMAIN runs' : Shape(r)'
  <2> SUFFICES ASSUME NEW r \in DOMAIN runs PROVE Shape(r)'
    BY <1>3
  <2>1. Shape(r)
    BY DEF IInv
  <2> QED BY <1>1, <1>6, <1>7, <2>1 DEF Shape
<1>9. Applies' = Applies /\ Rollbacks' = Rollbacks
  BY <1>3, <1>6 DEF Applies, Rollbacks
<1>10. Alone'
  BY <1>1, <1>3, <1>7, <1>9 DEF Alone
<1>11. /\ Fates'
       /\ \A i : (Applied(i)' <=> Applied(i)) /\ (RolledBack(i)' <=> RolledBack(i))
  BY <1>1, <1>2, <1>3, <1>6, <1>7, FatesKept
<1>12. Places'
  BY <1>1, <1>11 DEF Places, store
<1>13. lease' = "run" <=> \E s \in DOMAIN runs' : worker'[s].pc # "gone" /\ runs'[s].kind # "verify"
  <2>1. lease' = "run" <=> lease = "run"
    BY <1>1
  <2>2. lease = "run" <=> \E s \in DOMAIN runs : worker[s].pc # "gone" /\ runs[s].kind # "verify"
    BY <1>1 DEF TypeOK
  <2>3. worker' = worker /\ \A s \in DOMAIN runs : runs'[s].kind = runs[s].kind
    BY <1>1, <1>6
  <2> QED BY <1>3, <2>1, <2>2, <2>3
<1>14. TypeOK'
  BY <1>1, <1>2, <1>4, <1>3, <1>5, <1>13 DEF TypeOK, store
<1>15. Typed'
  BY <1>1, <1>3, <1>5, <1>7 DEF Typed, store
<1>16. Kept'
  <2>1. tx = "none" /\ ~purged /\ UNCHANGED <<tx, files, manifest, purged>>
    BY <1>1 DEF Writable, store
  <2>2. ASSUME Archived PROVE Quiet' /\ Holds(manifest)'
    <3>1. Quiet /\ Holds(manifest)
      BY <1>1, <2>1, <2>2 DEF Kept
    <3>2. Quiet'
      BY <1>1, <1>3, <1>6, <1>7, <3>1 DEF Quiet
    <3>3. \A r \in DOMAIN runs : runs'[r] = runs[r]
      BY <1>1, <1>3, <1>4, <3>1, SettledKept DEF Quiet
    <3>4. runs' = runs
      BY <1>1, <1>3, <3>3, Numbered
    <3>5. Holds(manifest)'
      BY <2>1, <3>1, <3>4 DEF Holds
    <3> QED BY <3>2, <3>5
  <2> QED BY <1>1, <2>1, <2>2 DEF Kept, Archived
<1> QED BY <1>8, <1>10, <1>11, <1>12, <1>14, <1>15, <1>16 DEF IInv

----------------------------------------------------------------------------
(***************************************************************************)
(* Runs begin.                                                             *)
(***************************************************************************)
\* The lease is taken and looked at once more.
LEMMA LeaseSteps ==
  ASSUME IInv, AcquireLease \/ CheckLease
  PROVE  IInv'
<1>1. /\ TypeOK /\ Typed /\ Alone /\ Fates /\ Places /\ Kept /\ Writable
      /\ UNCHANGED <<runs, worker, place, store, confirmed, faults, touched>>
  BY DEF IInv, AcquireLease, CheckLease
<1>2. Kept' /\ UNCHANGED <<tx, files, manifest, purged>>
  <2>1. Mutable \/ lease # "free"
    BY DEF AcquireLease, CheckLease
  <2> QED BY <1>1, <2>1, Unarchived DEF store
<1>3. /\ lease' \in {"taken", "checked", "free"} /\ lease # "run"
      /\ starting' \in [kind: Kinds, subject: 0..MaxRuns]
      /\ lease' \in {"taken", "checked"} =>
           /\ \A r \in DOMAIN runs : ~Engaged(r)
           /\ starting'.kind \in {"apply", "rollback"}
           /\ starting'.kind = "rollback" => starting'.subject \in Applies
  <2>1. CASE AcquireLease
    <3>1. PICK kind \in {"apply", "rollback"}, subject \in Applies \cup {0} :
            /\ (kind = "apply") <=> (subject = 0)
            /\ starting' = [kind |-> kind, subject |-> subject]
      BY <2>1 DEF AcquireLease
    <3>2. lease' = "taken" /\ lease = "free" /\ \A r \in DOMAIN runs : runs[r].open = {}
      BY <2>1 DEF AcquireLease
    <3>3. \A r \in DOMAIN runs : ~Engaged(r)
      BY <1>1, <3>2 DEF TypeOK, Engaged, Live
    <3>4. subject \in 0..MaxRuns
      BY <1>1, Numbered, HistoryAssumption
    <3>5. starting' \in [kind: Kinds, subject: 0..MaxRuns]
      BY <3>1, <3>4 DEF Kinds
    <3>6. starting'.kind = "rollback" => starting'.subject \in Applies
      BY <3>1
    <3> QED BY <3>1, <3>2, <3>3, <3>5, <3>6
  <2>2. CASE CheckLease
    <3>1. lease = "taken" /\ lease' \in {"checked", "free"} /\ starting' = starting
      BY <2>2 DEF CheckLease
    <3> QED BY <1>1, <3>1 DEF Alone, TypeOK
  <2> QED BY <2>1, <2>2
<1>4. TypeOK' /\ Typed'
  BY <1>1, <1>2, <1>3 DEF TypeOK, Typed, Live
<1>5. Alone'
  BY <1>1, <1>3 DEF Alone, Engaged, Live, Applies
<1>6. \A r \in DOMAIN runs' : Shape(r)'
  BY <1>1 DEF IInv, Shape, Live
<1>7. Fates' /\ Places'
  BY <1>1, <1>2 DEF Fates, Places, Applied, RolledBack, Pending, Live, Applies, Rollbacks
<1> QED BY <1>2, <1>4, <1>5, <1>6, <1>7 DEF IInv

\* A run begins with nothing moved, and with items that nobody else may move.
LEMMA BegunStep ==
  ASSUME IInv, Writable, Mutable, NEW kind \in Kinds, NEW subject \in 0..MaxRuns, Begin(kind, subject),
         kind = "rollback" => subject \in Applies,
         kind = "verify" => subject \in DOMAIN runs,
         \/ kind = "verify" /\ lease' = lease /\ starting' = starting
         \/ /\ kind # "verify" /\ lease' = "run" /\ starting' \in [kind: Kinds, subject: 0..MaxRuns]
            /\ \A s \in DOMAIN runs : ~Engaged(s),
         UNCHANGED <<place, store, confirmed, faults, touched>>
  PROVE  IInv'
<1>1. /\ TypeOK /\ Typed /\ Alone /\ Fates /\ Places /\ Kept /\ \A s \in DOMAIN runs : Shape(s)
      /\ UNCHANGED <<tx, files, manifest, purged>> /\ Kept'
  BY Unarchived DEF IInv, store
<1>2. /\ Len(runs) \in Nat /\ DOMAIN runs = 1..Len(runs) /\ Len(runs) <= MaxRuns
      /\ worker \in [1..MaxRuns -> Thread] /\ DOMAIN runs \subseteq 1..MaxRuns
      /\ \A r \in DOMAIN runs : runs[r] \in Record
      /\ runs \in Seq(Record)
      /\ Applies \subseteq DOMAIN runs /\ Rollbacks \subseteq DOMAIN runs
  BY <1>1, Numbered DEF TypeOK, Typed
<1>3. Todo(kind, subject) \in SUBSET Item
  <2>1. CASE kind = "apply"
    BY <2>1 DEF Todo
  <2>2. CASE kind # "apply"
    <3>1. subject \in DOMAIN runs /\ kind \in {"rollback", "verify"}
      BY <1>2, <2>2 DEF Kinds
    <3> QED BY <1>2, <3>1, Fields DEF Todo, Successes
  <2> QED BY <2>1, <2>2
<1>4. PICK todo \in SUBSET Item : todo = Todo(kind, subject)
  BY <1>3
<1>5. PICK new \in Record : new = NewRun(kind, subject, todo)
  BY DEF NewRun, Record, Status
<1>6. /\ new.kind = kind /\ new.subject = subject /\ new.status = "running" /\ new.todo = todo
      /\ new.open = {} /\ new.moved = {} /\ new.logged = {}
  BY <1>5 DEF NewRun
<1>0. PICK n \in Nat : n = Len(runs) + 1
  BY <1>2
<1>7. /\ n \in 1..MaxRuns /\ runs' = Append(runs, new)
      /\ worker' = [worker EXCEPT ![n].pc = "items"]
  <2>1. n <= MaxRuns /\ 1 <= n /\ MaxRuns \in Nat
    BY <1>2, <1>0, HistoryAssumption DEF Begin
  <2> QED BY <1>4, <1>5, <1>0, <2>1 DEF Begin
<1>8. /\ runs' \in Seq(Record) /\ Len(runs') = n /\ DOMAIN runs' = DOMAIN runs \cup {n}
      /\ n \notin DOMAIN runs /\ runs'[n] = new
      /\ \A s \in DOMAIN runs : runs'[s] = runs[s]
  BY <1>2, <1>7, <1>0
<1>9. /\ worker' \in [1..MaxRuns -> Thread] /\ worker'[n].pc = "items"
      /\ \A s \in 1..MaxRuns : s # n => worker'[s] = worker[s]
  <2>1. worker[n] \in Thread
    BY <1>2, <1>7
  <2>2. PICK w \in Thread : w = [worker[n] EXCEPT !.pc = "items"]
    BY <2>1 DEF Thread
  <2>3. worker' = [worker EXCEPT ![n] = w]
    BY <1>2, <1>7, <2>2
  <2>4. w.pc = "items"
    BY <2>1, <2>2 DEF Thread
  <2> QED BY <1>2, <1>7, <2>3, <2>4
<1>10. \A s \in DOMAIN runs : /\ runs'[s] = runs[s] /\ worker'[s] = worker[s]
                              /\ Live(s)' <=> Live(s)
                              /\ Shape(s)' <=> Shape(s)
                              /\ Engaged(s)' <=> Engaged(s)
                              /\ Pending(s)' = Pending(s)
  <2>1. \A s \in DOMAIN runs : runs'[s] = runs[s] /\ worker'[s] = worker[s]
    BY <1>2, <1>8, <1>9
  <2> QED BY <2>1 DEF Live, Shape, Engaged, Pending
<1>11. Shape(n)'
  BY <1>6, <1>8, <1>9, Fields DEF Shape, Live
<1>12. Typed'
  BY <1>1, <1>7, <1>8, <1>9 DEF Typed, Live
<1>13. lease' = "run" <=> \E s \in DOMAIN runs' : worker'[s].pc # "gone" /\ runs'[s].kind # "verify"
  <2>1. lease = "run" <=> \E s \in DOMAIN runs : worker[s].pc # "gone" /\ runs[s].kind # "verify"
    BY <1>1 DEF TypeOK
  <2> QED BY <1>6, <1>8, <1>9, <1>10, <2>1
<1>14. TypeOK'
  <2>1. Len(runs') <= MaxRuns /\ \A r \in DOMAIN runs' : runs'[r] \in Record
    BY <1>2, <1>7, <1>8
  <2> QED BY <1>1, <1>9, <1>13, <2>1 DEF TypeOK, Thread
<1>15. /\ Applies' = Applies \cup (IF kind = "apply" THEN {n} ELSE {})
       /\ Rollbacks' = Rollbacks \cup (IF kind = "rollback" THEN {n} ELSE {})
       /\ n \notin Applies /\ n \notin Rollbacks
  BY <1>2, <1>6, <1>8 DEF Applies, Rollbacks
<1>16. Alone'
  <2>1. kind = "verify" => ~Engaged(n)'
    BY <1>6, <1>8 DEF Engaged
  <2>2. \A r, s \in DOMAIN runs' : Engaged(r)' /\ Engaged(s)' => r = s
    BY <1>1, <1>8, <1>10, <2>1 DEF Alone
  <2>3. lease' \in {"taken", "checked"} => kind = "verify" /\ lease' = lease /\ starting' = starting
    OBVIOUS
  <2>4. lease' \in {"taken", "checked"} => \A s \in DOMAIN runs' : ~Engaged(s)'
    BY <1>1, <1>8, <1>10, <2>1, <2>3 DEF Alone
  <2> QED BY <1>1, <1>15, <2>2, <2>3, <2>4 DEF Alone
<1>17. \A i : (Applied(i)' <=> Applied(i)) /\ (RolledBack(i)' <=> RolledBack(i))
  <2>1. runs'[n].moved = {}
    BY <1>6, <1>8
  <2> QED BY <1>2, <1>8, <1>15, <2>1 DEF Applied, RolledBack
<1>18. Fates'
  <2>1. \A r \in Applies', i \in Item : i \in Pending(r)' => ~Applied(i)'
    <3>1. \A r \in Applies, i \in Item : i \in Pending(r)' => ~Applied(i)'
      BY <1>1, <1>2, <1>10, <1>17 DEF Fates
    <3>2. ASSUME kind = "apply", NEW i \in Item, i \in Pending(n)' PROVE ~Applied(i)'
      <4>1. todo = Item \ UNION {runs[r].moved : r \in Applies}
        BY <1>4, <3>2 DEF Todo
      <4>2. i \in todo
        BY <1>6, <1>8, <3>2, Fields DEF Pending
      <4> QED BY <1>17, <4>1, <4>2 DEF Applied
    <3> QED BY <1>15, <3>1, <3>2
  <2>2. \A e \in Rollbacks' :
          /\ runs'[e].subject \in Applies'
          /\ runs'[e].moved \cup Pending(e)' \subseteq runs'[runs'[e].subject].moved
    <3>1. \A e \in Rollbacks :
            /\ runs'[e].subject \in Applies'
            /\ runs'[e].moved \cup Pending(e)' \subseteq runs'[runs'[e].subject].moved
      BY <1>1, <1>2, <1>10, <1>15 DEF Fates
    <3>2. ASSUME kind = "rollback"
          PROVE  runs'[n].subject \in Applies'
                 /\ runs'[n].moved \cup Pending(n)' \subseteq runs'[runs'[n].subject].moved
      <4>1. todo = runs[subject].logged /\ runs[subject].logged \subseteq runs[subject].moved
        BY <1>1, <1>2, <1>4, <3>2 DEF Todo, Shape
      <4>2. Pending(n)' \subseteq todo
        BY <1>6, <1>8, Fields DEF Pending
      <4> QED BY <1>2, <1>6, <1>8, <1>15, <3>2, <4>1, <4>2
    <3> QED BY <1>15, <3>1, <3>2
  <2>4. \A e \in Rollbacks' : \A i \in runs'[e].open : ~RolledBack(i)'
    BY <1>1, <1>2, <1>6, <1>8, <1>15, <1>17 DEF Fates
  <2>5. \A d, e \in Rollbacks' : runs'[d].moved \cap runs'[e].moved # {} => d = e
    BY <1>1, <1>2, <1>6, <1>8, <1>15 DEF Fates
  <2> QED BY <2>1, <2>2, <2>4, <2>5 DEF Fates
<1>19. Places'
  <2>1. UNCHANGED <<place, purged>>
    BY <1>1
  <2> QED BY <1>1, <1>17, <2>1 DEF Places
<1> QED BY <1>1, <1>8, <1>10, <1>11, <1>12, <1>14, <1>16, <1>18, <1>19 DEF IInv

\* A run of either kind begins.
LEMMA BeginSteps ==
  ASSUME IInv, BeginRun \/ BeginVerify
  PROVE  IInv'
<1>1. TypeOK /\ Typed /\ Alone
  BY DEF IInv
<1>2. CASE BeginRun
  <2>1. Writable /\ lease = "checked" /\ Mutable
    BY <1>2, Unarchived DEF BeginRun, Mutable
  <2>2. /\ Begin(starting.kind, starting.subject) /\ lease' = "run" /\ starting' = NoStart
        /\ UNCHANGED <<place, store, confirmed, faults, touched>>
    BY <1>2, <2>1 DEF BeginRun
  <2>3. /\ starting.kind \in Kinds /\ starting.kind # "verify" /\ starting.subject \in 0..MaxRuns
        /\ starting.kind = "rollback" => starting.subject \in Applies
        /\ \A s \in DOMAIN runs : ~Engaged(s)
    BY <1>1, <2>1 DEF TypeOK, Alone
  <2>4. NoStart \in [kind: Kinds, subject: 0..MaxRuns]
    BY HistoryAssumption DEF NoStart, Kinds
  <2> QED BY <2>1, <2>2, <2>3, <2>4, BegunStep
<1>3. CASE BeginVerify
  <2>1. PICK r \in Applies \cup Rollbacks : Begin("verify", r)
    BY <1>3 DEF BeginVerify
  <2>2. r \in DOMAIN runs /\ r \in 0..MaxRuns
    BY <1>1, Numbered
  <2> QED BY <1>3, <2>1, <2>2, BegunStep DEF BeginVerify, Kinds
<1> QED BY <1>2, <1>3
----------------------------------------------------------------------------
(***************************************************************************)
(* Files are moved.                                                        *)
(***************************************************************************)
\* A file is moved and its entry completed, by the thread of the run or by
\* recovery.  No other run has anything to move.
LEMMA MovedStep ==
  ASSUME IInv, Writable, NEW r \in DOMAIN runs, NEW run \in Record, NEW w \in Thread, NEW i \in Item,
         runs' = [runs EXCEPT ![r] = run], worker' = [worker EXCEPT ![r] = w],
         i \in runs[r].open, run.open = runs[r].open \ {i}, run.kind = runs[r].kind, run.subject = runs[r].subject,
         run.moved = runs[r].moved \cup {i}, run.todo = runs[r].todo,
         (w.pc # "gone") <=> Live(r), Shape(r)',
         place' = [place EXCEPT ![i] = MoveTo(r)], confirmed' \subseteq Item,
         UNCHANGED <<lease, starting, store, faults, touched>>
  PROVE  IInv'
<1>1. TypeOK /\ Typed /\ Alone /\ Fates /\ Places /\ \A s \in DOMAIN runs : Shape(s)
  BY DEF IInv
<1>2. /\ runs' \in Seq(Record) /\ Len(runs') = Len(runs) /\ DOMAIN runs' = DOMAIN runs
      /\ runs'[r] = run /\ worker'[r] = w /\ worker' \in [1..MaxRuns -> Thread]
      /\ \A s \in DOMAIN runs : s # r => runs'[s] = runs[s] /\ worker'[s] = worker[s]
      /\ \A s \in 1..MaxRuns : s \notin DOMAIN runs' => ~Live(s)'
      /\ Applies' = Applies /\ Rollbacks' = Rollbacks
  BY <1>1, OneRun
<1>3. /\ \A s \in DOMAIN runs : runs'[s] \in Record /\ runs[s] \in Record
      /\ Applies \subseteq DOMAIN runs /\ Rollbacks \subseteq DOMAIN runs
  BY <1>1, <1>2, Numbered
<1>4. Kept' /\ ~purged /\ UNCHANGED <<tx, files, manifest, purged>>
  BY <1>3, Unarchived DEF store
<1>5. /\ runs[r].kind # "verify" /\ (r \in Applies \/ r \in Rollbacks)
      /\ r \notin Applies \/ r \notin Rollbacks
  <2>1. runs[r].kind # "verify"
    BY <1>1, <1>3 DEF Shape
  <2>2. runs[r].kind \in Kinds
    BY <1>3, Fields
  <2> QED BY <2>1, <2>2 DEF Applies, Rollbacks, Kinds
<1>6. Engaged(r) /\ lease \notin {"taken", "checked"} /\ \A s \in DOMAIN runs : s # r => ~Engaged(s)
  <2>1. Engaged(r)
    BY <1>3, <1>5 DEF Engaged
  <2> QED BY <1>1, <2>1 DEF Alone
<1>7. \A s \in DOMAIN runs : s # r => /\ Live(s)' <=> Live(s)
                                      /\ Shape(s)' <=> Shape(s)
                                      /\ Engaged(s)' <=> Engaged(s)
                                      /\ Pending(s)' = Pending(s)
  BY <1>2 DEF Live, Shape, Engaged, Pending
<1>8. \A s \in DOMAIN runs' : Shape(s)'
  BY <1>1, <1>2, <1>7
<1>9. Typed'
  BY <1>1, <1>2, <1>4 DEF Typed
<1>10. Alone'
  BY <1>2, <1>6, <1>7 DEF Alone
<1>11. lease' = "run" <=> \E s \in DOMAIN runs' : worker'[s].pc # "gone" /\ runs'[s].kind # "verify"
  <2>1. lease' = "run" <=> \E s \in DOMAIN runs : worker[s].pc # "gone" /\ runs[s].kind # "verify"
    BY <1>1 DEF TypeOK
  <2>2. \A s \in DOMAIN runs : /\ worker'[s].pc # "gone" <=> worker[s].pc # "gone"
                               /\ runs'[s].kind = runs[s].kind
    BY <1>2 DEF Live
  <2> QED BY <1>2, <2>1, <2>2
<1>12. place' \in [Item -> {"source", "target", "away"}]
  <2>1. place \in [Item -> {"source", "target", "away"}] /\ MoveTo(r) \in {"source", "target", "away"}
    BY <1>1 DEF TypeOK, MoveTo
  <2> QED BY <2>1
<1>13. TypeOK'
  BY <1>1, <1>2, <1>3, <1>4, <1>11, <1>12 DEF TypeOK, Thread
<1>14. /\ i \in Pending(r) /\ Pending(r)' \subseteq Pending(r) \ {i}
       /\ \A s \in DOMAIN runs : s # r /\ runs[s].kind # "verify" =>
            Pending(s)' = {} /\ runs'[s].open = {}
  <2>1. i \in Pending(r)
    BY DEF Pending
  <2>2. Live(r)' <=> Live(r)
    BY <1>2 DEF Live
  <2>3. Live(r) => i \notin runs[r].todo
    BY <1>1 DEF Shape
  <2>4. Pending(r)' \subseteq Pending(r) \ {i}
    BY <1>2, <1>3, <2>2, <2>3 DEF Pending
  <2>5. ASSUME NEW s \in DOMAIN runs, s # r, runs[s].kind # "verify"
        PROVE  Pending(s)' = {} /\ runs'[s].open = {}
    <3>1. ~Live(s) /\ runs[s].open = {}
      BY <1>6, <2>5 DEF Engaged
    <3>2. Pending(s) = {}
      BY <1>3, <3>1 DEF Pending
    <3> QED BY <1>2, <1>7, <2>5, <3>1, <3>2
  <2> QED BY <2>1, <2>4, <2>5
<1>15. \A k : /\ Applied(k)' <=> Applied(k) \/ (r \in Applies /\ k = i)
              /\ RolledBack(k)' <=> RolledBack(k) \/ (r \in Rollbacks /\ k = i)
  BY <1>2, <1>3 DEF Applied, RolledBack
<1>16. \A s \in Applies \cup Rollbacks : runs[s].kind # "verify" /\ s \in DOMAIN runs
  BY DEF Applies, Rollbacks
<1>17. Fates'
  <2>1. \A s \in Applies', k \in Item : k \in Pending(s)' => ~Applied(k)'
    <3> SUFFICES ASSUME NEW s \in Applies, NEW k \in Item, k \in Pending(s)' PROVE ~Applied(k)'
      BY <1>2
    <3>1. s = r
      BY <1>14, <1>16
    <3>2. k \in Pending(r) /\ k # i
      BY <1>14, <3>1
    <3>3. ~Applied(k)
      BY <1>1, <3>1, <3>2 DEF Fates
    <3> QED BY <1>15, <3>2, <3>3
  <2>2. ASSUME NEW e \in Rollbacks'
        PROVE  /\ runs'[e].subject \in Applies'
               /\ runs'[e].moved \cup Pending(e)' \subseteq runs'[runs'[e].subject].moved
    <3>1. /\ e \in Rollbacks /\ e \in DOMAIN runs /\ runs[e].subject \in Applies
          /\ runs[e].moved \cup Pending(e) \subseteq runs[runs[e].subject].moved
      BY <1>1, <1>2, <1>3 DEF Fates
    <3>2. runs'[e].subject = runs[e].subject
      BY <1>2, <3>1
    <3>3. runs[runs[e].subject].moved \subseteq runs'[runs[e].subject].moved
      BY <1>2, <1>3, <3>1
    <3>4. runs'[e].moved \cup Pending(e)' \subseteq runs[e].moved \cup Pending(e)
      <4>1. CASE e = r
        BY <1>2, <1>14, <4>1
      <4>2. CASE e # r
        BY <1>2, <1>7, <3>1, <4>2
      <4> QED BY <4>1, <4>2
    <3> QED BY <1>2, <3>1, <3>2, <3>3, <3>4
  <2>3. ASSUME NEW e \in Rollbacks', NEW k \in runs'[e].open PROVE ~RolledBack(k)'
    <3>1. e \in Rollbacks /\ e = r
      BY <1>2, <1>14, <1>16, <2>3
    <3>2. k \in runs[r].open /\ k # i
      BY <1>2, <2>3, <3>1
    <3>3. ~RolledBack(k)
      BY <1>1, <3>1, <3>2 DEF Fates
    <3> QED BY <1>15, <3>2, <3>3
  <2>4. ASSUME NEW d \in Rollbacks', NEW e \in Rollbacks', NEW k \in runs'[d].moved \cap runs'[e].moved,
               d # e
        PROVE  FALSE
    <3>1. d \in Rollbacks /\ e \in Rollbacks /\ d \in DOMAIN runs /\ e \in DOMAIN runs
      BY <1>2, <1>3
    <3>2. runs[d].moved \cap runs[e].moved = {}
      BY <1>1, <2>4, <3>1 DEF Fates
    <3>3. r \in Rollbacks => ~RolledBack(i)
      BY <1>1, <1>3 DEF Fates
    <3>4. \/ d = r /\ k = i /\ k \in runs[e].moved
          \/ e = r /\ k = i /\ k \in runs[d].moved
      BY <1>2, <2>4, <3>1, <3>2
    <3> QED BY <3>1, <3>3, <3>4 DEF RolledBack
  <2> QED BY <2>1, <2>2, <2>3, <2>4 DEF Fates
<1>18. Places'
  <2> SUFFICES ASSUME NEW k \in Item, place'[k] = "target"
               PROVE  ~RolledBack(k)' /\ Applied(k)'
    BY DEF Places
  <2>1. place \in [Item -> {"source", "target", "away"}]
    BY <1>1 DEF TypeOK
  <2>2. CASE k # i
    <3>1. place[k] = "target"
      BY <2>1, <2>2
    <3>2. ~RolledBack(k) /\ Applied(k)
      BY <1>1, <1>4, <3>1 DEF Places
    <3> QED BY <1>15, <2>2, <3>2
  <2>3. CASE k = i
    <3>1. MoveTo(r) = "target"
      BY <2>1, <2>3
    <3>2. r \in Applies /\ r \notin Rollbacks
      BY <1>5, <3>1 DEF MoveTo, Applies
    <3>3. ~Applied(i)
      BY <1>1, <1>14, <3>2 DEF Fates
    <3>4. ~RolledBack(i)
      <4>1. \A e \in Rollbacks : runs[e].subject \in Applies /\ runs[e].moved \subseteq runs[runs[e].subject].moved
        BY <1>1 DEF Fates
      <4> QED BY <3>3, <4>1 DEF Applied, RolledBack
    <3> QED BY <1>15, <2>3, <3>2, <3>4
  <2> QED BY <2>2, <2>3
<1> QED BY <1>4, <1>8, <1>9, <1>10, <1>13, <1>17, <1>18 DEF IInv

\* The thread has moved its file.
LEMMA CompleteStep ==
  ASSUME IInv, NEW r \in DOMAIN runs, Complete(r)
  PROVE  IInv'
<1>1. /\ Writable /\ worker[r].pc = "moving"
      /\ UNCHANGED <<lease, starting, store, faults, touched>>
      /\ place' = [place EXCEPT ![worker[r].item] = MoveTo(r)]
      /\ confirmed' = confirmed \ {worker[r].item}
  BY DEF Complete
<1>2. /\ runs[r] \in Record /\ worker[r] \in Thread /\ TypeOK /\ Typed /\ Shape(r)
      /\ worker \in [1..MaxRuns -> Thread] /\ runs \in [DOMAIN runs -> Record] /\ r \in 1..MaxRuns
  BY Numbered DEF IInv
<1>3. PICK i \in Item : i \in runs[r].open /\ i = worker[r].item
  BY <1>1, <1>2, Fields DEF Shape
<1>4. PICK run \in Record : run = [runs[r] EXCEPT !.open = @ \ {i}, !.moved = @ \cup {i}]
  BY <1>2 DEF Record
<1>5. PICK w \in Thread : w = [worker[r] EXCEPT !.pc = "log"]
  BY <1>2 DEF Thread
<1>6. /\ run.kind = runs[r].kind /\ run.subject = runs[r].subject /\ run.moved = runs[r].moved \cup {i}
      /\ run.logged = runs[r].logged /\ run.todo = runs[r].todo /\ run.journaled = runs[r].journaled
      /\ run.open = runs[r].open \ {i} /\ run.status = runs[r].status
  BY <1>2, <1>4 DEF Record
<1>7. w.pc = "log" /\ w.item = i
  BY <1>2, <1>3, <1>5 DEF Thread
<1>8. runs' = [runs EXCEPT ![r] = run] /\ worker' = [worker EXCEPT ![r] = w]
  BY <1>2, <1>3, <1>4, <1>5 DEF Complete
<1>9. runs'[r] = run /\ worker'[r] = w
  BY <1>2, <1>8
<1>10. Live(r) /\ runs[r].kind # "verify"
  BY <1>1, <1>2 DEF Live, Shape
<1>11. Shape(r)'
  BY <1>1, <1>2, <1>6, <1>7, <1>9, <1>10, Fields DEF Shape, Live
<1>12. confirmed' \subseteq Item
  BY <1>1, <1>2 DEF TypeOK
<1> QED BY <1>1, <1>3, <1>6, <1>7, <1>8, <1>10, <1>11, <1>12, MovedStep

\* Recovery takes the move of the only open entry to its end, or back.
LEMMA RecoverStep ==
  ASSUME IInv, NEW r \in DOMAIN runs, Recover(r)
  PROVE  IInv'
<1>1. /\ Writable /\ lease = "free"
      /\ UNCHANGED <<worker, lease, starting, store, faults, touched>>
  BY DEF Recover
<1>2. /\ runs[r] \in Record /\ worker[r] \in Thread /\ TypeOK /\ Typed /\ Shape(r)
      /\ worker \in [1..MaxRuns -> Thread] /\ runs \in [DOMAIN runs -> Record] /\ r \in 1..MaxRuns
  BY Numbered DEF IInv
<1>3. PICK i \in Item, done \in BOOLEAN :
        /\ runs[r].open = {i}
        /\ runs' = [runs EXCEPT ![r] =
             Reconciled(IF done THEN [runs[r] EXCEPT !.open = {}, !.moved = @ \cup {i}]
                        ELSE [runs[r] EXCEPT !.open = {}, !.failed = @ \cup {i}])]
        /\ place' = IF done THEN [place EXCEPT ![i] = MoveTo(r)] ELSE place
        /\ confirmed' = IF done THEN confirmed \ {i} ELSE confirmed
  BY <1>2, Fields DEF Recover
<1>4. runs[r].kind # "verify" /\ ~Live(r) /\ Kept'
  <2>1. runs[r].kind # "verify"
    BY <1>2, <1>3 DEF Shape
  <2>2. ~Live(r)
    BY <1>1, <2>1, Leased
  <2> QED BY <1>1, <1>3, <2>1, <2>2, Unarchived
<1>5. worker' = [worker EXCEPT ![r] = worker[r]] /\ worker[r].pc = "gone"
  BY <1>1, <1>2, <1>4 DEF Live
<1>6. PICK closed \in Record :
        closed = IF done THEN [runs[r] EXCEPT !.open = {}, !.moved = @ \cup {i}]
                 ELSE [runs[r] EXCEPT !.open = {}, !.failed = @ \cup {i}]
  BY <1>2 DEF Record
<1>7. /\ closed.kind = runs[r].kind /\ closed.subject = runs[r].subject
      /\ closed.todo = runs[r].todo /\ closed.open = {} /\ closed.status = runs[r].status
      /\ closed.moved = IF done THEN runs[r].moved \cup {i} ELSE runs[r].moved
      /\ closed.journaled = runs[r].journaled
  BY <1>2, <1>6 DEF Record
<1>8. PICK run \in Record :
        /\ run = Reconciled(closed)
        /\ run.kind = closed.kind /\ run.subject = closed.subject /\ run.todo = closed.todo
        /\ run.open = closed.open /\ run.moved = closed.moved /\ run.logged = closed.moved
        /\ run.journaled = closed.journaled
        /\ \/ run.status = closed.status
              /\ (closed.status \in {"running", "recovery_required"} => ~HasOutcome(closed))
           \/ run.status \in {"completed", "partial"}
  BY ReconciledRun
<1>9. run.status # "recovery_required"
  <2>1. runs[r].journaled
    BY <1>2, <1>3 DEF Shape
  <2>2. HasOutcome(closed)
    BY <1>7, <2>1 DEF HasOutcome
  <2> QED BY <1>8, <2>2
<1>10. runs' = [runs EXCEPT ![r] = run]
  BY <1>3, <1>6, <1>8
<1>11. runs'[r] = run /\ worker'[r] = worker[r]
  BY <1>2, <1>5, <1>10
<1>12. Shape(r)'
  <2>1. runs[r].journaled
    BY <1>2, <1>3 DEF Shape
  <2> QED BY <1>4, <1>5, <1>7, <1>8, <1>9, <1>11, <2>1 DEF Shape, Live
<1>13. faults' \in 0..MaxFaults /\ confirmed' \subseteq Item
  BY <1>1, <1>2, <1>3 DEF TypeOK
<1>14. worker[r] \in Thread /\ worker' = [worker EXCEPT ![r] = worker[r]]
  BY <1>2, <1>5
<1>15. CASE done
  <2>1. /\ i \in runs[r].open /\ run.open = runs[r].open \ {i} /\ run.kind = runs[r].kind
        /\ run.subject = runs[r].subject /\ run.moved = runs[r].moved \cup {i}
        /\ run.todo = runs[r].todo /\ ((worker[r].pc # "gone") <=> Live(r))
        /\ place' = [place EXCEPT ![i] = MoveTo(r)]
    BY <1>3, <1>4, <1>5, <1>7, <1>8, <1>15
  <2> QED BY <1>1, <1>10, <1>12, <1>13, <1>14, <2>1, MovedStep
<1>16. CASE ~done
  <2>1. /\ run.open = {} /\ runs[r].open # {} /\ worker[r].pc = "gone" /\ run.kind = runs[r].kind
        /\ run.subject = runs[r].subject /\ run.moved = runs[r].moved
        /\ run.kind # "verify" /\ lease' = "free"
    BY <1>1, <1>3, <1>4, <1>5, <1>7, <1>8, <1>16
  <2>2. UNCHANGED <<starting, place, store, touched>> /\ Kept'
    BY <1>1, <1>3, <1>4, <1>16
  <2> QED BY <1>10, <1>12, <1>13, <1>14, <2>1, <2>2, OneRunStep
<1> QED BY <1>15, <1>16

----------------------------------------------------------------------------
(***************************************************************************)
(* Archive and purge.                                                      *)
(***************************************************************************)
\* What is known of a workflow that nothing keeps from being archived.
LEMMA Unblocked ==
  ASSUME BlockReasons = {}
  PROVE  /\ \A r \in DOMAIN runs : runs[r].status # "running" /\ runs[r].open = {}
         /\ \A r \in Applies : \A i \in runs[r].moved :
              i \in runs[r].logged /\ \E e \in Rollbacks : RolledBackBy(e, r, i)
         /\ lease = "free"
<1>1. "running_attempt" \notin BlockReasons /\ "recovery_required" \notin BlockReasons
      /\ "unrolled_mutation" \notin BlockReasons /\ "active_mutation_lease" \notin BlockReasons
  OBVIOUS
<1>2. \A r \in DOMAIN runs : runs[r].status # "running"
  BY <1>1 DEF BlockReasons
<1>3. \A r \in DOMAIN runs : runs[r].open = {}
  BY <1>1 DEF BlockReasons
<1>4. \A r \in Applies : \A i \in runs[r].moved :
        i \in runs[r].logged /\ \E e \in Rollbacks : RolledBackBy(e, r, i)
  BY <1>1 DEF BlockReasons
<1>5. lease = "free"
  BY <1>1 DEF BlockReasons
<1> QED BY <1>2, <1>3, <1>4, <1>5

\* It is quiet: what has been moved is back, by a rollback that has its summary.
LEMMA UnblockedQuiet ==
  ASSUME IInv, BlockReasons = {}, ~purged
  PROVE  Quiet /\ \A i \in Item : place[i] # "target"
<1>1. /\ Fates /\ Places /\ \A r \in DOMAIN runs : Shape(r)
      /\ \A r \in DOMAIN runs : runs[r] \in Record
      /\ Applies \subseteq DOMAIN runs /\ Rollbacks \subseteq DOMAIN runs
  BY Numbered DEF IInv
<1>2. /\ \A r \in DOMAIN runs : runs[r].status # "running" /\ runs[r].open = {}
      /\ \A r \in Applies : \A i \in runs[r].moved :
           i \in runs[r].logged /\ \E e \in Rollbacks : RolledBackBy(e, r, i)
      /\ lease = "free"
  BY Unblocked
<1>3. \A r \in DOMAIN runs : ~Live(r)
  BY <1>1, <1>2 DEF Shape
<1>5. \A r \in DOMAIN runs : runs[r].logged = runs[r].moved
  <2> SUFFICES ASSUME NEW r \in DOMAIN runs PROVE runs[r].logged = runs[r].moved
    OBVIOUS
  <2>1. runs[r].logged \subseteq runs[r].moved /\ runs[r].moved \ runs[r].logged = {}
    BY <1>1, <1>2, <1>3 DEF Shape, Live
  <2> QED BY <2>1
<1>6. \A i \in Item : place[i] # "target"
  <2> SUFFICES ASSUME NEW i \in Item, place[i] = "target" PROVE FALSE
    OBVIOUS
  <2>1. ~RolledBack(i) /\ Applied(i)
    BY <1>1 DEF Places
  <2> QED BY <1>2, <2>1 DEF Applied, RolledBack, RolledBackBy
<1> QED BY <1>2, <1>3, <1>5, <1>6 DEF Quiet

\* Nothing happens to the rows of the runs, and no file comes to the target.
LEMMA RowsKept ==
  ASSUME IInv, UNCHANGED <<rows, purged>>, \A i \in Item : place'[i] = "target" => place[i] = "target"
  PROVE  /\ \A r \in DOMAIN runs' : Shape(r)'
         /\ Alone' /\ Fates' /\ Places'
         /\ Quiet' <=> Quiet
         /\ \A r \in 1..MaxRuns : r \notin DOMAIN runs' => ~Live(r)'
         /\ UNCHANGED <<runs, worker, lease, starting, purged>>
<1>1. UNCHANGED <<runs, worker, lease, starting, purged>>
  BY DEF rows
<1>2. \A r : Live(r)' <=> Live(r)
  BY <1>1 DEF Live
<1>3. \A r \in DOMAIN runs' : Shape(r)'
  BY <1>1 DEF IInv, Shape, Live
<1>4. Alone'
  BY <1>1 DEF IInv, Alone, Engaged, Live, Applies
<1>5. Applies' = Applies /\ Rollbacks' = Rollbacks
  BY <1>1 DEF Applies, Rollbacks
<1>6. \A i : (Applied(i)' <=> Applied(i)) /\ (RolledBack(i)' <=> RolledBack(i))
  BY <1>1, <1>5 DEF Applied, RolledBack
<1>7. \A r : Pending(r)' = Pending(r)
  BY <1>1 DEF Pending, Live
<1>8. Fates'
  <2>1. Fates
    BY DEF IInv
  <2> QED BY <1>1, <1>5, <1>7, <2>1 DEF Fates, Applied, RolledBack
<1>9. Places'
  <2>1. Places
    BY DEF IInv
  <2> QED BY <1>1, <1>6, <2>1 DEF Places
<1>10. Quiet' <=> Quiet
  BY <1>1 DEF Quiet, Live
<1> QED BY <1>1, <1>2, <1>3, <1>4, <1>8, <1>9, <1>10 DEF IInv, Typed

\* The workflow is written to a file, which is read back.
LEMMA ArchivePublishStep ==
  ASSUME IInv, ArchivePublish
  PROVE  IInv'
<1>1. /\ TypeOK /\ Typed /\ tx = "none" /\ ~purged /\ ~Archived /\ BlockReasons = {}
      /\ UNCHANGED <<rows, place, manifest, purged, confirmed, faults, touched>>
      /\ files' = Append(files, Exported) /\ tx' = "published"
  BY DEF IInv, ArchivePublish, Writable
<1>2. Quiet /\ \A i \in Item : place[i] # "target"
  BY <1>1, UnblockedQuiet
<1>3. /\ \A r \in DOMAIN runs' : Shape(r)'
      /\ Alone' /\ Fates' /\ Places' /\ Quiet'
      /\ \A r \in 1..MaxRuns : r \notin DOMAIN runs' => ~Live(r)'
      /\ UNCHANGED <<runs, worker, lease, starting, purged>>
  BY <1>1, <1>2, RowsKept
<1>4. Exported \in Archive /\ Exported.content = runs
  BY <1>1 DEF Exported, Archive, Typed
<1>5. PICK archive \in Archive : archive = Exported
  BY <1>4
<1>6. /\ files' \in Seq(Archive) /\ Len(files') = Len(files) + 1 /\ Len(files) \in Nat
      /\ files'[Len(files')] = archive
  BY <1>1, <1>5 DEF Typed
<1>7. \A f \in DOMAIN files' : files'[f].whole \in BOOLEAN
  <2>1. \A f \in DOMAIN files' : files'[f] \in Archive
    BY <1>6
  <2> QED BY <2>1 DEF Archive
<1>8. TypeOK'
  <2>1. manifest' \in 0..Len(files')
    BY <1>1, <1>6 DEF TypeOK
  <2> QED BY <1>1, <1>3, <1>7, <2>1 DEF TypeOK
<1>9. Typed'
  BY <1>1, <1>3, <1>6 DEF Typed
<1>10. Kept'
  <2>1. ~purged' /\ ~Archived'
    BY <1>1 DEF Archived
  <2>2. Len(files') > 0 /\ files'[Len(files')].content = runs'
    BY <1>3, <1>4, <1>5, <1>6
  <2> QED BY <1>1, <1>2, <1>3, <2>1, <2>2 DEF Kept
<1> QED BY <1>3, <1>8, <1>9, <1>10 DEF IInv

\* The archive is entered in the database, or the transaction is lost.
LEMMA ArchiveEndSteps ==
  ASSUME IInv, ArchiveCommit \/ ArchiveLost
  PROVE  IInv'
<1>1. /\ TypeOK /\ Typed /\ Kept /\ tx = "published" /\ tx' = "none"
      /\ UNCHANGED <<rows, place, files, purged, confirmed, touched>>
      /\ manifest' \in {manifest, Len(files)} /\ faults' \in 0..MaxFaults
  BY HistoryAssumption DEF IInv, ArchiveCommit, ArchiveLost, Fault, TypeOK
<1>2. /\ \A r \in DOMAIN runs' : Shape(r)'
      /\ Alone' /\ Fates' /\ Places' /\ (Quiet' <=> Quiet)
      /\ \A r \in 1..MaxRuns : r \notin DOMAIN runs' => ~Live(r)'
      /\ UNCHANGED <<runs, worker, lease, starting, purged>>
  BY <1>1, RowsKept
<1>3. Len(files) \in Nat /\ Len(files) > 0 /\ files[Len(files)].content = runs /\ Quiet
      /\ \A i \in Item : place[i] # "target"
  BY <1>1 DEF Kept, Typed
<1>4. TypeOK'
  <2>1. manifest' \in 0..Len(files)
    BY <1>1, <1>3 DEF TypeOK
  <2> QED BY <1>1, <1>2, <2>1 DEF TypeOK
<1>5. Typed'
  BY <1>1, <1>2 DEF Typed
<1>6. Kept'
  <2>1. CASE manifest' = manifest
    BY <1>1, <1>2, <1>3, <2>1 DEF Kept, Archived, Holds
  <2>2. CASE manifest' = Len(files)
    <3>1. Archived'
      BY <1>3, <2>2 DEF Archived
    <3>2. Holds(manifest)'
      BY <1>1, <1>2, <1>3, <2>2 DEF Holds
    <3> QED BY <1>1, <1>2, <1>3, <3>1, <3>2 DEF Kept
  <2> QED BY <1>1, <2>1, <2>2
<1> QED BY <1>2, <1>4, <1>5, <1>6 DEF IInv

\* The workflow is deleted.
LEMMA PurgeStep ==
  ASSUME IInv, Purge
  PROVE  IInv'
<1>1. /\ TypeOK /\ Typed /\ Kept /\ tx = "none" /\ ~purged /\ Archived /\ BlockReasons = {}
      /\ purged' = TRUE /\ runs' = <<>>
      /\ UNCHANGED <<worker, lease, starting, place, tx, files, manifest, confirmed, faults, touched>>
  BY DEF IInv, Purge, Writable, Readable
<1>2. Quiet /\ \A i \in Item : place[i] # "target"
  BY <1>1, UnblockedQuiet
<1>3. DOMAIN runs' = {} /\ Len(runs') = 0 /\ runs' \in Seq(Record)
  BY <1>1
<1>4. Applies' = {} /\ Rollbacks' = {}
  BY <1>3 DEF Applies, Rollbacks
<1>5. TypeOK'
  BY <1>1, <1>2, <1>3, HistoryAssumption DEF TypeOK, Quiet
<1>6. Typed'
  BY <1>1, <1>2, <1>3 DEF Typed, Quiet, Live
<1>7. Alone'
  <2>1. lease' = "free"
    BY <1>1, <1>2 DEF Quiet
  <2> QED BY <1>3, <2>1 DEF Alone
<1>8. Fates' /\ Places'
  BY <1>1, <1>4 DEF Fates, Places, RolledBack
<1>9. Kept'
  BY <1>1, <1>2 DEF Kept, Archived
<1> QED BY <1>3, <1>5, <1>6, <1>7, <1>8, <1>9 DEF IInv

\* The user moves a file away, or damages an archive.
LEMMA UserStep ==
  ASSUME IInv, User
  PROVE  IInv'
<1>1. /\ TypeOK /\ Typed /\ Kept
      /\ UNCHANGED <<rows, tx, manifest, purged, confirmed, faults>> /\ touched' \in 0..MaxTouched
  BY HistoryAssumption DEF IInv, User, TypeOK
<1>2. /\ place' \in [Item -> {"source", "target", "away"}]
      /\ \A i \in Item : place'[i] = "target" => place[i] = "target"
  BY <1>1 DEF User, TypeOK
<1>3. /\ files' \in Seq(Archive) /\ Len(files') = Len(files)
      /\ \A f \in 1..Len(files) : files'[f].content = files[f].content
  <2>1. files \in Seq(Archive) /\ DOMAIN files = 1..Len(files)
    BY <1>1 DEF Typed
  <2>2. ASSUME NEW f \in DOMAIN files, files' = [files EXCEPT ![f].whole = FALSE]
        PROVE  /\ files' \in Seq(Archive) /\ Len(files') = Len(files)
               /\ \A k \in 1..Len(files) : files'[k].content = files[k].content
    <3>1. files[f] \in Archive
      BY <2>1
    <3>2. PICK archive \in Archive : archive = [files[f] EXCEPT !.whole = FALSE]
      BY <3>1 DEF Archive
    <3>3. files' = [files EXCEPT ![f] = archive] /\ archive.content = files[f].content
      BY <2>1, <2>2, <3>1, <3>2 DEF Archive
    <3>4. /\ files' \in Seq(Archive) /\ Len(files') = Len(files)
          /\ \A k \in 1..Len(files) : files'[k] = IF k = f THEN archive ELSE files[k]
      BY <2>1, <3>3, ExceptSeq
    <3> QED BY <3>3, <3>4
  <2>3. CASE UNCHANGED files
    BY <2>1, <2>3
  <2> QED BY <2>2, <2>3 DEF User
<1>4. /\ \A r \in DOMAIN runs' : Shape(r)'
      /\ Alone' /\ Fates' /\ Places' /\ (Quiet' <=> Quiet)
      /\ \A r \in 1..MaxRuns : r \notin DOMAIN runs' => ~Live(r)'
      /\ UNCHANGED <<runs, worker, lease, starting, purged>>
  BY <1>1, <1>2, RowsKept
<1>5. \A f \in DOMAIN files' : files'[f].whole \in BOOLEAN
  <2>1. \A f \in DOMAIN files' : files'[f] \in Archive
    BY <1>3
  <2> QED BY <2>1 DEF Archive
<1>6. TypeOK'
  BY <1>1, <1>2, <1>3, <1>4, <1>5 DEF TypeOK
<1>7. Typed'
  BY <1>1, <1>3, <1>4 DEF Typed
<1>8. Kept'
  <2>1. Len(files) \in Nat /\ manifest \in 0..Len(files)
    BY <1>1 DEF TypeOK, Typed
  <2>2. tx' = "published" => Len(files') > 0 /\ files'[Len(files')].content = runs' /\ Quiet'
    BY <1>1, <1>3, <1>4, <2>1 DEF Kept
  <2>3. Archived' /\ ~purged' => Quiet' /\ Holds(manifest)'
    <3>1. Archived /\ ~purged => Quiet /\ Holds(manifest) /\ manifest \in 1..Len(files)
      BY <1>1, <2>1 DEF Kept, Archived
    <3> QED BY <1>1, <1>3, <1>4, <3>1 DEF Holds, Archived
  <2> QED BY <1>1, <1>2, <1>4, <2>2, <2>3 DEF Kept, Archived
<1> QED BY <1>4, <1>6, <1>7, <1>8 DEF IInv

----------------------------------------------------------------------------
\* No step leads out of the invariant.
LEMMA Inductive == IInv /\ [Next]_vars => IInv'
<1> SUFFICES ASSUME IInv, [Next]_vars PROVE IInv'
  OBVIOUS
<1>1. CASE AcquireLease \/ CheckLease
  BY <1>1, LeaseSteps
<1>2. CASE BeginRun \/ BeginVerify
  BY <1>2, BeginSteps
<1>3. ASSUME NEW r \in DOMAIN runs,
             \/ NextItem(r) \/ Complete(r) \/ MoveFails(r) \/ LogItem(r) \/ FinishRun(r)
             \/ VerifyItem(r) \/ FinishVerify(r) \/ Recover(r)
      PROVE  IInv'
  BY <1>3, NextItemStep, CompleteStep, MoveFailsStep, LogItemStep, FinishRunStep, VerifyItemStep,
     FinishVerifyStep, RecoverStep
<1>4. CASE Crash
  BY <1>4, CrashStep
<1>5. CASE Reopen
  BY <1>5, ReopenStep
<1>6. CASE ArchivePublish
  BY <1>6, ArchivePublishStep
<1>7. CASE ArchiveCommit \/ ArchiveLost
  BY <1>7, ArchiveEndSteps
<1>8. CASE Purge
  BY <1>8, PurgeStep
<1>9. CASE User
  BY <1>9, UserStep
<1>10. CASE UNCHANGED vars
  <2>1. UNCHANGED <<rows, purged>> /\ UNCHANGED <<place, tx, files, manifest, confirmed, faults, touched>>
    BY <1>10 DEF vars, store
  <2>2. /\ \A r \in DOMAIN runs' : Shape(r)'
        /\ Alone' /\ Fates' /\ Places' /\ (Quiet' <=> Quiet)
        /\ \A r \in 1..MaxRuns : r \notin DOMAIN runs' => ~Live(r)'
        /\ UNCHANGED <<runs, worker, lease, starting, purged>>
    BY <2>1, RowsKept
  <2>3. TypeOK' /\ Typed'
    BY <2>1, <2>2 DEF IInv, TypeOK, Typed
  <2>4. Kept'
    BY <2>1, <2>2 DEF IInv, Kept, Archived, Holds
  <2> QED BY <2>2, <2>3, <2>4 DEF IInv
<1> QED BY <1>1, <1>2, <1>3, <1>4, <1>5, <1>6, <1>7, <1>8, <1>9, <1>10 DEF Next

\* Every reachable state satisfies the inductive invariant.
THEOREM Invariance == Spec => []IInv
<1>1. Init => IInv
  BY InitIInv
<1>2. IInv /\ [Next]_vars => IInv'
  BY Inductive
<1> QED BY <1>1, <1>2, PTL DEF Spec

\* The rows of the runs, the lease and the manifest have their types; the lease
\* row belongs to a run exactly as long as a mutating run has a thread.
THEOREM TypeCorrect == Spec => []TypeOK
<1>1. IInv => TypeOK
  BY DEF IInv
<1> QED BY <1>1, Invariance, PTL

\* As long as an archived workflow is in the database, its archive says what the
\* database says: nothing was under way when it was written, nothing has been
\* begun or summarised since (archive_history, ensure_*_mutable,
\* reconcile_abandoned_journals).
THEOREM Current == Spec => []ArchiveCurrent
<1>1. IInv => ArchiveCurrent
  BY DEF IInv, Kept, ArchiveCurrent
<1> QED BY <1>1, Invariance, PTL

\* No workflow with a file that was moved and not moved back is archived, and so
\* none is purged (archive_block_reasons, delete_history).
THEOREM Unrolled == Spec => []UnrolledKept
<1>1. IInv => UnrolledKept
  BY DEF IInv, Kept, UnrolledKept
<1> QED BY <1>1, Invariance, PTL

\* A workflow is deleted only while a readable archive holds every run of it
\* (delete_history, verify_completed_archive).
THEOREM PurgeArchived == Spec => PurgeHasArchive
<1>1. IInv /\ [Next]_vars => [purged' /\ ~purged => files[manifest].whole /\ Holds(manifest)]_vars
  <2> SUFFICES ASSUME IInv, [Next]_vars, purged', ~purged
               PROVE  files[manifest].whole /\ Holds(manifest)
    OBVIOUS
  <2>1. CASE Purge
    BY <2>1 DEF Purge, Readable, IInv, Kept
  <2>2. CASE UNCHANGED purged
    BY <2>2
  <2>3. Purge \/ UNCHANGED purged
    <3>1. CASE \/ AcquireLease \/ CheckLease \/ BeginRun \/ BeginVerify
      BY <3>1 DEF AcquireLease, CheckLease, BeginRun, BeginVerify, store
    <3>2. ASSUME NEW r \in DOMAIN runs,
                 \/ NextItem(r) \/ Complete(r) \/ MoveFails(r) \/ LogItem(r) \/ FinishRun(r)
                 \/ VerifyItem(r) \/ FinishVerify(r) \/ Recover(r)
          PROVE  UNCHANGED purged
      BY <3>2 DEF NextItem, Complete, MoveFails, LogItem, FinishRun, VerifyItem, FinishVerify, Recover, store
    <3>3. CASE Crash \/ Reopen
      BY <3>3 DEF Crash, Reopen, store
    <3>4. CASE ArchivePublish \/ ArchiveCommit \/ ArchiveLost \/ User
      BY <3>4 DEF ArchivePublish, ArchiveCommit, ArchiveLost, User
    <3>5. CASE UNCHANGED vars
      BY <3>5 DEF vars, store
    <3> QED BY <3>1, <3>2, <3>3, <3>4, <3>5 DEF Next
  <2> QED BY <2>1, <2>2, <2>3
<1>2. Spec => [][purged' /\ ~purged => files[manifest].whole /\ Holds(manifest)]_vars
  BY <1>1, Invariance, PTL DEF Spec
<1> QED BY <1>2 DEF PurgeHasArchive

=============================================================================
