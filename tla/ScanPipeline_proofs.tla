-------------------------- MODULE ScanPipeline_proofs --------------------------
(***************************************************************************)
(* Proofs about ScanPipeline, for any number of files, workers, edits and  *)
(* faults and any capacity and batch size: the types, that the cache never *)
(* files tags under a content they were not read from, and that a          *)
(* completed scan saved every file once or warned about it.  A file is in  *)
(* one place of the pipeline at a time; as long as nothing was cancelled   *)
(* or panicked it is in some place.                                        *)
(***************************************************************************)
EXTENDS ScanPipeline, SequenceTheorems, FiniteSetTheorems, TLAPS

\* A worker as TypeOK types it.
WorkerRecord == [pc: {"recv", "taken", "read", "validate", "send", "done", "panicked"},
                 file: 0..Files, fp: Version, meta: Version \cup {None},
                 out: Seq(Result), then: {"recv", "read"}]

\* A worker that holds a file.
Busy(r) == r.pc \in {"taken", "read", "validate", "send"}
Held(wk, f) == \E w \in Worker : Busy(wk[w]) /\ wk[w].file = f

\* What a channel, a batch or the table holds of a file: a record of it, or a
\* record or warning.
InPaths(s, f) == \E k \in DOMAIN s : s[k] = f
FoundIn(s, f) == \E k \in DOMAIN s : s[k].file = f /\ s[k].fp # None
SomeIn(s, f) == \E k \in DOMAIN s : s[k].file = f
Once(s) == \A j, k \in DOMAIN s :
             (s[j].fp # None /\ s[k].fp # None /\ s[j].file = s[k].file) => j = k
Truthful(s) == \A k \in DOMAIN s : s[k].meta # None => s[k].meta = s[k].fp

\* A record of the file is on its way to the table, or in it.
Got(f) == FoundIn(results, f) \/ FoundIn(writer.batch, f) \/ FoundIn(saved, f)

\* What a worker that holds a file knows of it: the fingerprint was taken before
\* the tags were read.
Shape(r, now) ==
  /\ Busy(r) => r.file \in File
  /\ r.pc = "read" => r.fp <= now[r.file]
  /\ r.pc = "validate" => r.meta \in Version /\ r.fp <= r.meta /\ r.meta <= now[r.file]
  /\ r.pc = "send" =>
       /\ r.out # <<>> /\ Truthful(r.out)
       /\ \A k \in DOMAIN r.out :
            r.out[k].file = r.file /\ (r.out[k].fp # None => k = Len(r.out))
       /\ r.then = "read" =>
            r.fp <= now[r.file] /\ \A k \in DOMAIN r.out : r.out[k].fp = None

Shapes == \A w \in Worker : Shape(worker[w], content)

TruthInv ==
  /\ Truthful(results) /\ Truthful(writer.batch) /\ CacheTruthful

\* A file is in one place, and only if the walker is past it.
PathsInv ==
  /\ \A j, k \in DOMAIN paths : paths[j] = paths[k] => j = k
  /\ \A f \in File : InPaths(paths, f) => f < walker.file /\ ~Held(worker, f) /\ ~Got(f)

HeldInv ==
  /\ \A f \in File : Held(worker, f) => f < walker.file /\ ~Got(f)
  /\ \A v, w \in Worker :
       (Busy(worker[v]) /\ Busy(worker[w]) /\ worker[v].file = worker[w].file) => v = w

GotInv ==
  /\ \A f \in File : Got(f) => f < walker.file
  /\ Once(results) /\ Once(writer.batch) /\ Once(saved)
  /\ \A f \in File : /\ ~(FoundIn(results, f) /\ FoundIn(writer.batch, f))
                     /\ ~(FoundIn(results, f) /\ FoundIn(saved, f))
                     /\ ~(FoundIn(writer.batch, f) /\ FoundIn(saved, f))

\* Nothing made the pipeline drop a file.
Intact == ~cancelled /\ writer.pc # "returned" /\ \A w \in Worker : worker[w].pc # "panicked"

Settled(f) == SomeIn(saved, f) \/ f \in warned

Coverage ==
  Intact => \A f \in File :
    \/ f >= walker.file \/ InPaths(paths, f) \/ Held(worker, f)
    \/ SomeIn(results, f) \/ SomeIn(writer.batch, f) \/ Settled(f)

\* What each thread that has got so far implies of those before it.
WalkerPhase ==
  /\ walker.pc = "send" => walker.file <= Files
  /\ (walker.pc = "done" /\ ~cancelled /\ writer.pc # "returned") => walker.file > Files
WorkerPhase ==
  \A w \in Worker : (worker[w].pc = "done" /\ ~cancelled) => paths = <<>> /\ WalkerEnded
WriterPhase ==
  /\ writer.pc \in {"join", "last"} => results = <<>> /\ AllEnded
  /\ writer.pc = "last" =>
       walker.pc = "done" /\ \A w \in Worker : worker[w].pc # "panicked"
  /\ writer.pc \in {"consume", "flush", "join", "last"} => writer.status = "running"
  /\ writer.status = "completed" => \A f \in File : Settled(f)
  /\ status # "running" => writer.pc = "returned"
  /\ status = "completed" => writer.status = "completed"

IInv == /\ TypeOK /\ Shapes /\ TruthInv
        /\ PathsInv /\ HeldInv /\ GotInv
        /\ Coverage /\ WalkerPhase /\ WorkerPhase /\ WriterPhase

(***************************************************************************)
(* What appending to, taking from and joining sequences of records does to *)
(* the files found in them.                                                *)
(***************************************************************************)
\* An element is found by its index.
LEMMA Indices ==
  ASSUME NEW S, NEW s \in Seq(S)
  PROVE  /\ Len(s) \in Nat /\ DOMAIN s = 1..Len(s)
         /\ \A k \in 1..Len(s) : s[k] \in S
BY LenProperties, ElementOfSeq

\* An empty sequence holds nothing.
LEMMA Empty ==
  /\ \A f : ~InPaths(<<>>, f) /\ ~SomeIn(<<>>, f) /\ ~FoundIn(<<>>, f)
  /\ Once(<<>>) /\ Truthful(<<>>)
<1>1. DOMAIN <<>> = {}
  OBVIOUS
<1> QED BY <1>1 DEF InPaths, SomeIn, FoundIn, Once, Truthful

\* Appending a record adds what it says of its file.
LEMMA Appended ==
  ASSUME NEW S, NEW s \in Seq(S), NEW r \in S
  PROVE  /\ \A f : SomeIn(Append(s, r), f) <=> (SomeIn(s, f) \/ r.file = f)
         /\ \A f : FoundIn(Append(s, r), f) <=>
                     (FoundIn(s, f) \/ (r.file = f /\ r.fp # None))
         /\ (Once(s) /\ (r.fp = None \/ ~FoundIn(s, r.file))) => Once(Append(s, r))
         /\ (Truthful(s) /\ (r.meta # None => r.meta = r.fp)) => Truthful(Append(s, r))
<1> DEFINE t == Append(s, r)
           n == Len(s)
<1>1. /\ t \in Seq(S) /\ Len(t) = n + 1
      /\ \A i \in 1..n : t[i] = s[i]
      /\ t[n + 1] = r
  BY AppendProperties
<1>2. n \in Nat /\ DOMAIN s = 1..n
  BY Indices
<1>3. DOMAIN t = 1..(n + 1)
  BY <1>1, Indices
<1> HIDE DEF t, n
<1>4. \A f : SomeIn(t, f) <=> (SomeIn(s, f) \/ r.file = f)
  BY <1>1, <1>2, <1>3 DEF SomeIn
<1>5. \A f : FoundIn(t, f) <=> (FoundIn(s, f) \/ (r.file = f /\ r.fp # None))
  BY <1>1, <1>2, <1>3 DEF FoundIn
<1>6. (Once(s) /\ (r.fp = None \/ ~FoundIn(s, r.file))) => Once(t)
  BY <1>1, <1>2, <1>3 DEF FoundIn, Once
<1>7. (Truthful(s) /\ (r.meta # None => r.meta = r.fp)) => Truthful(t)
  BY <1>1, <1>2, <1>3 DEF Truthful
<1> QED BY <1>4, <1>5, <1>6, <1>7 DEF t

\* Taking the head leaves the rest.
LEMMA Taken ==
  ASSUME NEW S, NEW s \in Seq(S), s # <<>>
  PROVE  /\ \A f : SomeIn(s, f) <=> (SomeIn(Tail(s), f) \/ Head(s).file = f)
         /\ \A f : FoundIn(s, f) <=>
                     (FoundIn(Tail(s), f) \/ (Head(s).file = f /\ Head(s).fp # None))
         /\ Once(s) => /\ Once(Tail(s))
                       /\ Head(s).fp # None => ~FoundIn(Tail(s), Head(s).file)
         /\ Truthful(s) => /\ Truthful(Tail(s))
                           /\ Head(s).meta # None => Head(s).meta = Head(s).fp
<1> DEFINE t == Tail(s)
           h == Head(s)
           n == Len(s)
<1>1. /\ t \in Seq(S) /\ Len(t) = n - 1
      /\ \A i \in 1..(n - 1) : t[i] = s[i + 1]
  BY HeadTailProperties
<1>2. n \in Nat \ {0} /\ DOMAIN s = 1..n
  BY Indices, EmptySeq
<1>3. DOMAIN t = 1..(n - 1)
  BY <1>1, Indices
<1>4. h = s[1]
  OBVIOUS
<1> HIDE DEF t, n, h
<1>5. \A i \in 1..n : i = 1 \/ (i - 1 \in DOMAIN t /\ t[i - 1] = s[i])
  BY <1>1, <1>2, <1>3
<1>6. 1 \in DOMAIN s /\ \A i \in DOMAIN t : i + 1 \in DOMAIN s /\ t[i] = s[i + 1]
  BY <1>1, <1>2, <1>3
<1>7. \A f : SomeIn(s, f) <=> (SomeIn(t, f) \/ h.file = f)
  BY <1>2, <1>4, <1>5, <1>6 DEF SomeIn
<1>8. \A f : FoundIn(s, f) <=> (FoundIn(t, f) \/ (h.file = f /\ h.fp # None))
  BY <1>2, <1>4, <1>5, <1>6 DEF FoundIn
<1>9. ASSUME Once(s) PROVE Once(t) /\ (h.fp # None => ~FoundIn(t, h.file))
  BY <1>2, <1>3, <1>4, <1>6, <1>9 DEF Once, FoundIn
<1>10. ASSUME Truthful(s) PROVE Truthful(t) /\ (h.meta # None => h.meta = h.fp)
  BY <1>4, <1>6, <1>10 DEF Truthful
<1> QED BY <1>7, <1>8, <1>9, <1>10 DEF t, h

\* What is left of a sequence of several elements is not empty.
LEMMA LongTail ==
  ASSUME NEW S, NEW s \in Seq(S), Len(s) > 1
  PROVE  DOMAIN Tail(s) = 1..(Len(s) - 1) /\ Tail(s) # <<>>
<1>1. s # <<>> /\ Len(s) \in Nat
  BY Indices, EmptySeq
<1>2. Tail(s) \in Seq(S) /\ Len(Tail(s)) = Len(s) - 1
  BY <1>1, HeadTailProperties
<1>3. DOMAIN Tail(s) = 1..Len(Tail(s))
  BY <1>2, Indices
<1>4. Len(Tail(s)) # 0
  BY <1>1, <1>2
<1>5. Tail(s) # <<>>
  BY <1>4, EmptySeq
<1> QED BY <1>2, <1>3, <1>5

\* Joining two sequences joins what they hold.
LEMMA Joined ==
  ASSUME NEW S, NEW s \in Seq(S), NEW t \in Seq(S)
  PROVE  /\ \A f : SomeIn(s \o t, f) <=> (SomeIn(s, f) \/ SomeIn(t, f))
         /\ \A f : FoundIn(s \o t, f) <=> (FoundIn(s, f) \/ FoundIn(t, f))
         /\ (/\ Once(s) /\ Once(t)
             /\ \A j \in DOMAIN s : s[j].fp # None => ~FoundIn(t, s[j].file)) => Once(s \o t)
<1> DEFINE u == s \o t
           m == Len(s)
           n == Len(t)
<1>1. u \in Seq(S) /\ Len(u) = m + n /\ \A i \in 1..(m + n) : u[i] = IF i <= m THEN s[i] ELSE t[i - m]
  BY ConcatProperties
<1>2. m \in Nat /\ n \in Nat /\ DOMAIN s = 1..m /\ DOMAIN t = 1..n
  BY Indices
<1>3. DOMAIN u = 1..(m + n)
  BY <1>1, Indices
<1> HIDE DEF u, m, n
<1>4. \A i \in DOMAIN u : \/ i \in DOMAIN s /\ u[i] = s[i]
                          \/ i > m /\ i - m \in DOMAIN t /\ u[i] = t[i - m]
  BY <1>1, <1>2, <1>3
<1>5. /\ \A i \in DOMAIN s : i \in DOMAIN u /\ u[i] = s[i]
      /\ \A i \in DOMAIN t : i + m \in DOMAIN u /\ u[i + m] = t[i]
  BY <1>1, <1>2, <1>3
<1>6. \A f : SomeIn(u, f) <=> (SomeIn(s, f) \/ SomeIn(t, f))
  BY <1>4, <1>5 DEF SomeIn
<1>7. \A f : FoundIn(u, f) <=> (FoundIn(s, f) \/ FoundIn(t, f))
  BY <1>4, <1>5 DEF FoundIn
<1>8. ASSUME Once(s), Once(t), \A j \in DOMAIN s : s[j].fp # None => ~FoundIn(t, s[j].file)
      PROVE  Once(u)
  <2> SUFFICES ASSUME NEW i \in DOMAIN u, NEW j \in DOMAIN u, i <= j,
                      u[i].fp # None, u[j].fp # None, u[i].file = u[j].file
               PROVE  i = j
    BY <1>2, <1>3 DEF Once
  <2>1. CASE j \in DOMAIN s /\ u[j] = s[j]
    <3>1. i \in DOMAIN s /\ u[i] = s[i]
      BY <2>1, <1>2, <1>3, <1>4
    <3> QED BY <2>1, <3>1, <1>8 DEF Once
  <2>2. CASE j > m /\ j - m \in DOMAIN t /\ u[j] = t[j - m]
    <3>1. CASE i \in DOMAIN s /\ u[i] = s[i]
      BY <2>2, <3>1, <1>8 DEF FoundIn
    <3>2. CASE i > m /\ i - m \in DOMAIN t /\ u[i] = t[i - m]
      <4>1. i - m = j - m
        BY <2>2, <3>2, <1>8 DEF Once
      <4> QED BY <4>1, <1>2, <1>3
    <3> QED BY <3>1, <3>2, <1>4
  <2> QED BY <2>1, <2>2, <1>4
<1> QED BY <1>6, <1>7, <1>8 DEF u

\* The channel of paths, which holds bare files.
LEMMA PathAppended ==
  ASSUME NEW S, NEW s \in Seq(S), NEW r \in S
  PROVE  /\ \A f : InPaths(Append(s, r), f) <=> (InPaths(s, f) \/ r = f)
         /\ (~InPaths(s, r) /\ \A j, k \in DOMAIN s : s[j] = s[k] => j = k) =>
              \A j, k \in DOMAIN Append(s, r) : Append(s, r)[j] = Append(s, r)[k] => j = k
<1> DEFINE t == Append(s, r)
           n == Len(s)
<1>1. /\ t \in Seq(S) /\ Len(t) = n + 1
      /\ \A i \in 1..n : t[i] = s[i]
      /\ t[n + 1] = r
  BY AppendProperties
<1>2. n \in Nat /\ DOMAIN s = 1..n
  BY Indices
<1>3. DOMAIN t = 1..(n + 1)
  BY <1>1, Indices
<1> HIDE DEF t, n
<1>4. \A f : InPaths(t, f) <=> (InPaths(s, f) \/ r = f)
  BY <1>1, <1>2, <1>3 DEF InPaths
<1>5. (~InPaths(s, r) /\ \A j, k \in DOMAIN s : s[j] = s[k] => j = k) =>
        \A j, k \in DOMAIN t : t[j] = t[k] => j = k
  BY <1>1, <1>2, <1>3 DEF InPaths
<1> QED BY <1>4, <1>5 DEF t

\* A file taken from the channel of paths is not in it any more.
LEMMA PathTaken ==
  ASSUME NEW S, NEW s \in Seq(S), s # <<>>,
         \A j, k \in DOMAIN s : s[j] = s[k] => j = k
  PROVE  /\ \A f : InPaths(s, f) <=> (InPaths(Tail(s), f) \/ Head(s) = f)
         /\ ~InPaths(Tail(s), Head(s))
         /\ \A j, k \in DOMAIN Tail(s) : Tail(s)[j] = Tail(s)[k] => j = k
<1> DEFINE t == Tail(s)
           h == Head(s)
           n == Len(s)
<1>1. /\ t \in Seq(S) /\ Len(t) = n - 1
      /\ \A i \in 1..(n - 1) : t[i] = s[i + 1]
  BY HeadTailProperties
<1>2. n \in Nat \ {0} /\ DOMAIN s = 1..n
  BY Indices, EmptySeq
<1>3. DOMAIN t = 1..(n - 1)
  BY <1>1, Indices
<1>4. h = s[1]
  OBVIOUS
<1> HIDE DEF t, n, h
<1>5. \A i \in 1..n : i = 1 \/ (i - 1 \in DOMAIN t /\ t[i - 1] = s[i])
  BY <1>1, <1>2, <1>3
<1>6. 1 \in DOMAIN s /\ \A i \in DOMAIN t : i + 1 \in DOMAIN s /\ t[i] = s[i + 1]
  BY <1>1, <1>2, <1>3
<1>7. \A f : InPaths(s, f) <=> (InPaths(t, f) \/ h = f)
  BY <1>2, <1>4, <1>5, <1>6 DEF InPaths
<1>8. ~InPaths(t, h)
  BY <1>2, <1>3, <1>4, <1>6 DEF InPaths
<1>9. \A j, k \in DOMAIN t : t[j] = t[k] => j = k
  BY <1>2, <1>3, <1>6
<1> QED BY <1>7, <1>8, <1>9 DEF t, h

(***************************************************************************)
(* The records the threads pass on.                                        *)
(***************************************************************************)
\* A warning and a record say what they are made of.
LEMMA Records ==
  ASSUME NEW f \in File
  PROVE  /\ Warning(f) \in Result
         /\ Warning(f).file = f /\ Warning(f).fp = None /\ Warning(f).meta = None
         /\ \A fp \in Version, meta \in Version \cup {None} :
              /\ Rec(f, fp, meta) \in Found /\ Rec(f, fp, meta) \in Result
              /\ Rec(f, fp, meta).file = f /\ Rec(f, fp, meta).fp = fp
              /\ Rec(f, fp, meta).meta = meta
BY DEF Warning, Rec, Result, Found

\* None is no version and no file.
LEMMA Numbers ==
  /\ None \notin Version /\ None \notin File /\ None \in Int
  /\ Version \subseteq Nat /\ File \subseteq Nat /\ Files \in Nat
BY ScanAssumption DEF None, Version, File

\* What a worker sends is a record of a file.
LEMMA ResultFields ==
  ASSUME NEW r \in Result
  PROVE  /\ r.file \in File
         /\ r.fp \in Version \cup {None} /\ r.meta \in Version \cup {None}
         /\ r.fp # None => r \in Found
         /\ r.fp = None => r.meta = None
<1>1. CASE r \in Found
  BY <1>1, Numbers DEF Found
<1>2. CASE r \in {Warning(f) : f \in File}
  BY <1>2, Records
<1> QED BY <1>1, <1>2 DEF Result

\* The faults stay within their bound.
LEMMA FaultTyped ==
  ASSUME faults \in 0..MaxFaults, Fault \/ NoFault
  PROVE  faults' \in 0..MaxFaults
BY ScanAssumption DEF Fault, NoFault

(***************************************************************************)
(* The initial state.                                                      *)
(***************************************************************************)
\* The scan starts in the invariant.
LEMMA InitIInv == Init => IInv
<1> SUFFICES ASSUME Init PROVE IInv
  OBVIOUS
<1>1. TypeOK
  <2>1. content \in [File -> Version] /\ faults \in 0..MaxFaults
    BY ScanAssumption DEF Init, Version
  <2>2. walker \in [pc: {"next", "send", "done", "failed", "panicked"}, file: 1..(Files + 1)]
    BY ScanAssumption DEF Init
  <2>3. paths \in Seq(File) /\ Len(paths) <= Capacity
    BY ScanAssumption, EmptySeq DEF Init
  <2>4. results \in Seq(Result) /\ Len(results) <= Capacity
    BY ScanAssumption, EmptySeq DEF Init
  <2>5. Resting \in WorkerRecord
    BY ScanAssumption, EmptySeq DEF Resting, WorkerRecord, Version
  <2>6. worker \in [Worker -> WorkerRecord]
    BY <2>5 DEF Init
  <2>7. /\ writer \in [pc: {"consume", "flush", "join", "last", "finish", "returned"},
                       batch: Seq(Found), status: {"running"} \cup Finishing]
        /\ Len(writer.batch) <= Batch
        /\ writer.pc = "consume" => Len(writer.batch) < Batch
    BY ScanAssumption, EmptySeq DEF Init, Finishing
  <2>8. cache \subseteq Cached
    BY ScanAssumption DEF Init, Cached, Rec, Version
  <2>9. /\ cancelled \in BOOLEAN /\ status \in {"running"} \cup Finishing
        /\ saved \in Seq(Found) /\ warned \subseteq File
    BY EmptySeq DEF Init
  <2> QED BY <2>1, <2>2, <2>3, <2>4, <2>6, <2>7, <2>8, <2>9 DEF TypeOK, WorkerRecord
<1>2. \A w \in Worker : worker[w].pc = "recv"
  BY DEF Init, Resting
<1>3. Shapes
  BY <1>2 DEF Shapes, Shape, Busy
<1>4. TruthInv
  BY Empty DEF Init, TruthInv, CacheTruthful, Rec
<1>5. \A f \in File : ~Got(f) /\ ~Held(worker, f) /\ ~InPaths(paths, f)
  BY <1>2, Empty DEF Init, Got, Held, Busy
<1>6. PathsInv /\ HeldInv /\ GotInv
  BY <1>2, <1>5, Empty DEF Init, PathsInv, HeldInv, GotInv, Busy
<1>7. Coverage
  BY Numbers DEF Init, Coverage, File
<1>8. WalkerPhase /\ WorkerPhase /\ WriterPhase
  BY <1>2 DEF Init, WalkerPhase, WorkerPhase, WriterPhase
<1> QED BY <1>1, <1>3, <1>4, <1>6, <1>7, <1>8 DEF IInv

(***************************************************************************)
(* The walker.                                                             *)
(***************************************************************************)
\* The walker decides on the next file.
LEMMA EnumerateNextStep == IInv /\ EnumerateNext => IInv'
<1> SUFFICES ASSUME IInv, EnumerateNext PROVE IInv'
  OBVIOUS
<1>1. UNCHANGED <<content, cancelled, paths, worker, results, writer, status, saved, warned, cache>>
  BY DEF EnumerateNext, db
<1>2. PICK pc \in {"done", "send", "failed", "panicked"} :
        /\ walker' = [walker EXCEPT !.pc = pc]
        /\ pc = "send" => walker.file <= Files
        /\ pc = "done" => walker.file > Files \/ cancelled
        /\ Fault \/ NoFault
  BY ScanAssumption DEF EnumerateNext, Walk, IInv, TypeOK
<1>3. walker.pc = "next"
  BY DEF EnumerateNext
<1>4. /\ walker' \in [pc: {"next", "send", "done", "failed", "panicked"}, file: 1..(Files + 1)]
      /\ walker'.pc = pc /\ walker'.file = walker.file
  BY <1>2 DEF IInv, TypeOK
<1>5. faults' \in 0..MaxFaults
  BY <1>2, FaultTyped DEF IInv, TypeOK
<1>6. TypeOK'
  BY <1>1, <1>4, <1>5 DEF IInv, TypeOK
<1>7. Shapes' /\ TruthInv'
  BY <1>1 DEF IInv, Shapes, TruthInv, CacheTruthful
<1>8. \A f : Got(f)' <=> Got(f)
  BY <1>1 DEF Got
<1>9. PathsInv' /\ HeldInv' /\ GotInv'
  BY <1>1, <1>4, <1>8 DEF IInv, PathsInv, HeldInv, GotInv
<1>10. Coverage'
  BY <1>1, <1>4 DEF IInv, Coverage, Intact, Settled
<1>11. WalkerPhase' /\ WorkerPhase' /\ WriterPhase'
  BY <1>1, <1>2, <1>3, <1>4
  DEF IInv, WalkerPhase, WorkerPhase, WriterPhase, WalkerEnded, AllEnded, Ended, Settled
<1> QED BY <1>6, <1>7, <1>9, <1>10, <1>11 DEF IInv

\* The file put into the channel is a new one.
LEMMA EnumerateSendStep == IInv /\ EnumerateSend => IInv'
<1> SUFFICES ASSUME IInv, EnumerateSend PROVE IInv'
  OBVIOUS
<1>1. /\ UNCHANGED <<content, cancelled, worker, results, writer, status, saved, warned, cache, faults>>
      /\ walker.pc = "send" /\ walker.file <= Files
  BY DEF EnumerateSend, db, IInv, WalkerPhase
<1>2. Shapes' /\ TruthInv'
  BY <1>1 DEF IInv, Shapes, TruthInv, CacheTruthful
<1>3. \A f : Got(f)' <=> Got(f)
  BY <1>1 DEF Got
<1>4. CASE /\ PathsOpen /\ Len(paths) < Capacity
           /\ paths' = Append(paths, walker.file)
           /\ walker' = [pc |-> "next", file |-> walker.file + 1]
  <2> DEFINE new == walker.file
  <2>1. new \in File /\ new \in Nat
    BY <1>1, ScanAssumption DEF IInv, TypeOK, File
  <2>2. /\ walker' \in [pc: {"next", "send", "done", "failed", "panicked"}, file: 1..(Files + 1)]
        /\ walker'.pc = "next" /\ walker'.file = new + 1
    BY <1>4, <2>1, ScanAssumption DEF File
  <2>3. paths' \in Seq(File) /\ Len(paths)' <= Capacity
    BY <1>4, <2>1, AppendProperties, Indices, ScanAssumption DEF IInv, TypeOK
  <2>4. TypeOK'
    BY <1>1, <2>2, <2>3 DEF IInv, TypeOK
  <2>5. ~InPaths(paths, new) /\ ~Held(worker, new) /\ ~Got(new)
    BY <2>1 DEF IInv, PathsInv, HeldInv, GotInv
  <2>6. /\ \A f : InPaths(paths, f)' <=> (InPaths(paths, f) \/ new = f)
        /\ \A j, k \in DOMAIN paths' : paths'[j] = paths'[k] => j = k
    BY <1>4, <2>1, <2>5, PathAppended DEF IInv, TypeOK, PathsInv
  <2>7. \A f \in File : f < new => f < new + 1
    BY <2>1, Numbers
  <2> HIDE DEF new
  <2>8. PathsInv'
    BY <1>1, <1>3, <2>1, <2>2, <2>5, <2>6, <2>7 DEF IInv, PathsInv, new
  <2>9. HeldInv' /\ GotInv'
    BY <1>1, <1>3, <2>1, <2>2, <2>7 DEF IInv, HeldInv, GotInv, new
  <2>10. Coverage'
    <3> SUFFICES ASSUME Intact', NEW f \in File
                 PROVE  \/ f >= walker'.file \/ InPaths(paths', f) \/ Held(worker', f)
                        \/ SomeIn(results', f) \/ SomeIn(writer'.batch, f) \/ Settled(f)'
      BY DEF Coverage
    <3>1. Intact
      BY <1>1 DEF Intact
    <3>2. f >= new => f = new \/ f >= new + 1
      BY <2>1, Numbers
    <3> QED BY <1>1, <2>2, <2>6, <3>1, <3>2 DEF IInv, Coverage, Settled, new
  <2>11. WalkerPhase' /\ WriterPhase'
    BY <1>1, <2>2 DEF IInv, WalkerPhase, WriterPhase, AllEnded, Ended, Settled
  <2>12. WorkerPhase'
    BY <1>1, <2>2 DEF IInv, WorkerPhase, WalkerEnded
  <2> QED BY <1>2, <2>4, <2>8, <2>9, <2>10, <2>11, <2>12 DEF IInv
<1>5. CASE ~PathsOpen /\ Walk("done") /\ UNCHANGED paths
  <2>1. writer.pc = "returned"
    BY <1>5 DEF PathsOpen
  <2>2. /\ walker' \in [pc: {"next", "send", "done", "failed", "panicked"}, file: 1..(Files + 1)]
        /\ walker'.pc = "done" /\ walker'.file = walker.file
    BY <1>5 DEF IInv, TypeOK, Walk
  <2>3. TypeOK'
    BY <1>1, <1>5, <2>2 DEF IInv, TypeOK
  <2>4. PathsInv' /\ HeldInv' /\ GotInv'
    BY <1>1, <1>3, <1>5, <2>2 DEF IInv, PathsInv, HeldInv, GotInv
  <2>5. Coverage' /\ WalkerPhase'
    BY <1>1, <2>1, <2>2 DEF Coverage, Intact, WalkerPhase
  <2>6. WorkerPhase'
    BY <1>1, <1>5, <2>2 DEF IInv, WorkerPhase, WalkerEnded
  <2>7. WriterPhase'
    BY <1>1, <2>1, <2>2 DEF IInv, WriterPhase, AllEnded, Ended, Settled
  <2> QED BY <1>2, <2>3, <2>4, <2>5, <2>6, <2>7 DEF IInv
<1> QED BY <1>4, <1>5 DEF EnumerateSend

(***************************************************************************)
(* A worker.                                                               *)
(***************************************************************************)
\* A worker is a record of its type.
LEMMA WorkerTyped ==
  ASSUME IInv, NEW w \in Worker
  PROVE  worker[w] \in WorkerRecord /\ worker \in [Worker -> WorkerRecord]
BY DEF IInv, TypeOK, WorkerRecord

\* A worker that goes on with its file, drops it because the scan was cancelled, or
\* panics keeps the invariant.
LEMMA AdvanceStep ==
  ASSUME IInv, NEW w \in Worker, NEW r \in WorkerRecord,
         Busy(worker[w]), worker' = [worker EXCEPT ![w] = r],
         Shape(r, content), Busy(r) => r.file = worker[w].file,
         Busy(r) \/ r.pc = "panicked" \/ (r.pc = "done" /\ cancelled),
         UNCHANGED <<content, cancelled, walker, writer, db, paths, results>>,
         Fault \/ NoFault
  PROVE  IInv'
<1>1. UNCHANGED <<content, cancelled, walker, writer, status, saved, warned, cache, paths, results>>
  BY DEF db
<1>2. /\ worker'[w] = r /\ \A v \in Worker \ {w} : worker'[v] = worker[v]
      /\ \A f : Held(worker', f) <=>
                  \/ Busy(r) /\ r.file = f
                  \/ \E v \in Worker \ {w} : Busy(worker[v]) /\ worker[v].file = f
  <2>1. worker \in [Worker -> WorkerRecord]
    BY WorkerTyped
  <2>2. worker'[w] = r /\ \A v \in Worker \ {w} : worker'[v] = worker[v]
    BY <2>1
  <2>3. \A f : Held(worker', f) <=>
                 \/ Busy(r) /\ r.file = f
                 \/ \E v \in Worker \ {w} : Busy(worker[v]) /\ worker[v].file = f
    BY <2>2 DEF Held
  <2> QED BY <2>2, <2>3
<1>3. worker' \in [Worker -> WorkerRecord]
  BY WorkerTyped
<1>4. faults' \in 0..MaxFaults
  BY FaultTyped DEF IInv, TypeOK
<1>5. TypeOK'
  BY <1>1, <1>3, <1>4 DEF IInv, TypeOK, WorkerRecord
<1>6. Shapes'
  BY <1>1, <1>2 DEF IInv, Shapes
<1>7. TruthInv'
  BY <1>1 DEF IInv, TruthInv, CacheTruthful
<1>8. \A f : Got(f)' <=> Got(f)
  BY <1>1 DEF Got
<1>9. \A f : Held(worker', f) => Held(worker, f)
  BY <1>2 DEF Held
<1>10. PathsInv' /\ GotInv'
  BY <1>1, <1>8, <1>9 DEF IInv, PathsInv, GotInv
<1>11. HeldInv'
  <2>1. \A f \in File : Held(worker', f) => f < walker'.file /\ ~Got(f)'
    BY <1>1, <1>8, <1>9 DEF IInv, HeldInv
  <2>2. ASSUME NEW v \in Worker, NEW u \in Worker, Busy(worker'[v]), Busy(worker'[u]),
               worker'[v].file = worker'[u].file
        PROVE  v = u
    <3>1. /\ Busy(worker[v]) /\ worker[v].file = worker'[v].file
          /\ Busy(worker[u]) /\ worker[u].file = worker'[u].file
      BY <1>2, <2>2
    <3> QED BY <2>2, <3>1 DEF IInv, HeldInv
  <2> QED BY <2>1, <2>2 DEF HeldInv
<1>12. Coverage'
  <2> SUFFICES ASSUME Intact', NEW f \in File
               PROVE  \/ f >= walker'.file \/ InPaths(paths', f) \/ Held(worker', f)
                      \/ SomeIn(results', f) \/ SomeIn(writer'.batch, f) \/ Settled(f)'
    BY DEF Coverage
  <2>1. r.pc # "panicked" /\ ~cancelled /\ \A v \in Worker : worker'[v].pc # "panicked"
    BY <1>1, <1>2 DEF Intact
  <2>2. Busy(r) /\ worker[w].pc # "panicked"
    BY <2>1 DEF Busy
  <2>3. Intact
    BY <1>1, <1>2, <2>1, <2>2 DEF Intact
  <2>4. Held(worker, f) => Held(worker', f)
    BY <1>2, <2>2 DEF Held
  <2> QED BY <1>1, <2>3, <2>4 DEF IInv, Coverage, Settled
<1>13. WalkerPhase'
  BY <1>1 DEF IInv, WalkerPhase
<1>14. ~Ended(w)
  BY DEF Busy, Ended
<1>15. WorkerPhase'
  BY <1>1, <1>2 DEF IInv, WorkerPhase, WalkerEnded, Busy
<1>16. WriterPhase'
  BY <1>1, <1>2, <1>14 DEF IInv, WriterPhase, AllEnded, Settled
<1> QED BY <1>5, <1>6, <1>7, <1>10, <1>11, <1>12, <1>13, <1>15, <1>16 DEF IInv

\* What a stopped worker and a worker that sends look like.
LEMMA StopRecord ==
  ASSUME NEW pc \in {"done", "panicked"}
  PROVE  /\ [Resting EXCEPT !.pc = pc] \in WorkerRecord
         /\ [Resting EXCEPT !.pc = pc].pc = pc
         /\ ~Busy([Resting EXCEPT !.pc = pc])
<1> DEFINE r == [Resting EXCEPT !.pc = pc]
<1>1. r = [pc |-> pc, file |-> 0, fp |-> 0, meta |-> None, out |-> <<>>, then |-> "recv"]
  BY DEF Resting
<1>2. 0 \in 0..Files /\ 0 \in Version /\ <<>> \in Seq(Result)
  BY ScanAssumption, EmptySeq DEF Version
<1>3. r.pc = pc /\ ~Busy(r)
  BY <1>1 DEF Busy
<1>4. r \in WorkerRecord
  BY <1>1, <1>2 DEF WorkerRecord
<1> QED BY <1>3, <1>4

\* A worker that stops drops its file: it panicked, or the scan was cancelled.
LEMMA Stopped ==
  ASSUME IInv, NEW w \in Worker, NEW pc \in {"done", "panicked"},
         Busy(worker[w]), Stop(w, pc), pc = "done" => cancelled,
         UNCHANGED <<content, cancelled, walker, writer, db, paths, results>>,
         Fault \/ NoFault
  PROVE  IInv'
<1> DEFINE r == [Resting EXCEPT !.pc = pc]
<1>1. r \in WorkerRecord /\ r.pc = pc /\ ~Busy(r)
  BY StopRecord
<1>2. worker' = [worker EXCEPT ![w] = r]
  BY DEF Stop
<1> HIDE DEF r
<1>3. Shape(r, content)
  BY <1>1 DEF Shape, Busy
<1>4. Busy(r) \/ r.pc = "panicked" \/ (r.pc = "done" /\ cancelled)
  BY <1>1
<1> QED BY <1>1, <1>2, <1>3, <1>4, AdvanceStep

\* A worker goes to send what it has found out: a warning, a record, or both.
LEMMA Sends ==
  ASSUME IInv, NEW w \in Worker, Busy(worker[w]),
         NEW fp \in Version, NEW out \in Seq(Result), NEW then \in {"recv", "read"},
         Send(w, fp, out, then), out # <<>>, Truthful(out),
         \A k \in DOMAIN out : /\ out[k].file = worker[w].file
                               /\ out[k].fp # None => k = Len(out),
         then = "read" => /\ fp <= content[worker[w].file]
                          /\ \A k \in DOMAIN out : out[k].fp = None,
         UNCHANGED <<content, cancelled, walker, writer, db, paths, results>>,
         Fault \/ NoFault
  PROVE  IInv'
<1>1. worker[w] \in WorkerRecord /\ worker[w].file \in File
  BY WorkerTyped DEF IInv, Shapes, Shape
<1>2. PICK r \in WorkerRecord :
        r = [worker[w] EXCEPT !.pc = "send", !.fp = fp, !.out = out, !.then = then]
  BY <1>1 DEF WorkerRecord
<1>3. /\ r.pc = "send" /\ r.file = worker[w].file /\ r.fp = fp /\ r.out = out /\ r.then = then
  BY <1>1, <1>2 DEF WorkerRecord
<1>4. worker' = [worker EXCEPT ![w] = r]
  BY <1>2, WorkerTyped DEF Send
<1>5. Busy(r)
  BY <1>3 DEF Busy
<1>6. Shape(r, content)
  BY <1>1, <1>3 DEF Shape
<1> QED BY <1>3, <1>4, <1>5, <1>6, AdvanceStep

\* A single warning or record, or a warning and then a record, is fit to send.
LEMMA OneSent ==
  ASSUME NEW r \in Result, r.meta # None => r.meta = r.fp
  PROVE  /\ <<r>> \in Seq(Result) /\ <<r>> # <<>> /\ Truthful(<<r>>)
         /\ DOMAIN <<r>> = {1} /\ Len(<<r>>) = 1 /\ <<r>>[1] = r
<1>1. <<r>> \in Seq(Result) /\ <<r>> # <<>> /\ Len(<<r>>) = 1 /\ <<r>>[1] = r
  OBVIOUS
<1>2. DOMAIN <<r>> = {1}
  OBVIOUS
<1> QED BY <1>1, <1>2 DEF Truthful

\* So is a warning and a record without tags.
LEMMA TwoSent ==
  ASSUME NEW q \in Result, NEW r \in Result, q.meta = None, r.meta = None
  PROVE  /\ <<q, r>> \in Seq(Result) /\ <<q, r>> # <<>> /\ Truthful(<<q, r>>)
         /\ DOMAIN <<q, r>> = {1, 2} /\ Len(<<q, r>>) = 2
         /\ <<q, r>>[1] = q /\ <<q, r>>[2] = r
<1>1. <<q, r>> \in Seq(Result) /\ <<q, r>> # <<>> /\ Len(<<q, r>>) = 2
  OBVIOUS
<1>2. DOMAIN <<q, r>> = {1, 2} /\ <<q, r>>[1] = q /\ <<q, r>>[2] = r
  OBVIOUS
<1> QED BY <1>1, <1>2 DEF Truthful

\* A worker goes to send a single warning or record.
LEMMA SendsOne ==
  ASSUME IInv, NEW w \in Worker, Busy(worker[w]), NEW fp \in Version,
         NEW r \in Result, r.file = worker[w].file, r.meta # None => r.meta = r.fp,
         NEW then \in {"recv", "read"}, Send(w, fp, <<r>>, then),
         then = "read" => fp <= content[worker[w].file] /\ r.fp = None,
         UNCHANGED <<content, cancelled, walker, writer, db, paths, results>>,
         Fault \/ NoFault
  PROVE  IInv'
<1> DEFINE out == <<r>>
<1>1. /\ out \in Seq(Result) /\ out # <<>> /\ Truthful(out)
      /\ DOMAIN out = {1} /\ Len(out) = 1 /\ out[1] = r
  BY OneSent
<1>2. Send(w, fp, out, then)
  OBVIOUS
<1> HIDE DEF out
<1>3. \A k \in DOMAIN out : out[k].file = worker[w].file /\ (out[k].fp # None => k = Len(out))
  BY <1>1
<1>4. then = "read" => fp <= content[worker[w].file] /\ \A k \in DOMAIN out : out[k].fp = None
  BY <1>1
<1> QED BY <1>1, <1>2, <1>3, <1>4, Sends

\* A cached record is sent on as it is, a fingerprint taken for what is read next.
LEMMA FingerprintStep ==
  ASSUME IInv, NEW w \in Worker, Fingerprint(w)
  PROVE  IInv'
<1> DEFINE f == worker[w].file
<1>1. Busy(worker[w]) /\ UNCHANGED <<content, cancelled, walker, writer, db, paths, results>>
  BY DEF Fingerprint, KeepOthers, Busy
<1>2. f \in File /\ content[f] \in Version /\ 0 \in Version
  BY <1>1, ScanAssumption DEF IInv, Shapes, Shape, TypeOK, Version
<1>3. /\ Warning(f) \in Result /\ Warning(f).file = f
      /\ Warning(f).fp = None /\ Warning(f).meta = None
      /\ Rec(f, content[f], None) \in Result /\ Rec(f, content[f], None).file = f
      /\ Rec(f, content[f], None).meta = None
  BY <1>2, Records
<1>4. content[f] <= content[f]
  BY <1>2, Numbers
<1>5. CASE cancelled /\ Stop(w, "done") /\ NoFault
  BY <1>1, <1>5, Stopped
<1>6. CASE Panic(w)
  BY <1>1, <1>6, Stopped DEF Panic
<1>7. CASE NoFault /\ Send(w, 0, <<Warning(f)>>, "recv")
  BY <1>1, <1>2, <1>3, <1>7, SendsOne
<1>8. CASE NoFault /\ Send(w, 0, <<Rec(f, content[f], None)>>, "recv")
  BY <1>1, <1>2, <1>3, <1>8, SendsOne
<1>9. CASE NoFault /\ Send(w, content[f], <<Warning(f)>>, "read")
  BY <1>1, <1>2, <1>3, <1>4, <1>9, SendsOne
<1>10. ASSUME NoFault, NEW c \in {c \in cache : c.file = f /\ c.fp = content[f]},
              Send(w, 0, <<c>>, "recv")
       PROVE  IInv'
  <2>1. c \in Cached /\ c.file = f /\ c.meta = c.fp
    BY DEF IInv, TypeOK, TruthInv, CacheTruthful
  <2>2. c \in Result
    BY <2>1 DEF Result, Found, Cached
  <2> QED BY <1>1, <1>2, <1>10, <2>1, <2>2, SendsOne
<1>11. CASE NoFault /\ worker' = [worker EXCEPT ![w].pc = "read", ![w].fp = content[f]]
  <2>1. worker[w] \in WorkerRecord
    BY WorkerTyped
  <2>2. PICK r \in WorkerRecord : r = [worker[w] EXCEPT !.pc = "read", !.fp = content[f]]
    BY <1>2, <2>1 DEF WorkerRecord
  <2>3. r.pc = "read" /\ r.file = f /\ r.fp = content[f]
    BY <2>1, <2>2 DEF WorkerRecord
  <2>4. worker' = [worker EXCEPT ![w] = r]
    BY <1>11, <2>2, WorkerTyped
  <2>5. Busy(r)
    BY <2>3 DEF Busy
  <2>6. Shape(r, content)
    BY <1>2, <1>4, <2>3 DEF Shape
  <2>7. r.file = worker[w].file
    BY <2>3
  <2> HIDE DEF f
  <2> QED BY <1>1, <1>11, <2>4, <2>5, <2>6, <2>7, AdvanceStep
<1> QED BY <1>5, <1>6, <1>7, <1>8, <1>9, <1>10, <1>11 DEF Fingerprint

\* The tags read are not older than the fingerprint.
LEMMA ReadMetadataStep ==
  ASSUME IInv, NEW w \in Worker, ReadMetadata(w)
  PROVE  IInv'
<1> DEFINE f == worker[w].file
           fp == worker[w].fp
<1>1. /\ Busy(worker[w]) /\ worker[w].pc = "read"
      /\ UNCHANGED <<content, cancelled, walker, writer, db, paths, results>>
  BY DEF ReadMetadata, KeepOthers, Busy
<1>2. worker[w] \in WorkerRecord
  BY WorkerTyped
<1>3. f \in File /\ content[f] \in Version /\ 0 \in Version /\ fp \in Version /\ fp <= content[f]
  <2>1. f \in File /\ fp <= content[f]
    BY <1>1 DEF IInv, Shapes, Shape
  <2>2. content[f] \in Version /\ fp \in Version
    BY <1>2, <2>1 DEF IInv, TypeOK, WorkerRecord
  <2> QED BY <2>1, <2>2, ScanAssumption DEF Version
<1>4. /\ Warning(f) \in Result /\ Warning(f).file = f
      /\ Warning(f).fp = None /\ Warning(f).meta = None
      /\ Rec(f, fp, None) \in Result /\ Rec(f, fp, None).file = f
      /\ Rec(f, fp, None).meta = None
  BY <1>3, Records
<1>5. CASE Panic(w)
  BY <1>1, <1>5, Stopped DEF Panic
<1>6. CASE NoFault /\ Send(w, 0, <<Warning(f), Rec(f, fp, None)>>, "recv")
  <2> DEFINE out == <<Warning(f), Rec(f, fp, None)>>
  <2>1. /\ out \in Seq(Result) /\ out # <<>> /\ Truthful(out)
        /\ DOMAIN out = {1, 2} /\ Len(out) = 2
        /\ out[1] = Warning(f) /\ out[2] = Rec(f, fp, None)
    BY <1>4, TwoSent
  <2>2. Send(w, 0, out, "recv")
    BY <1>6
  <2> HIDE DEF out
  <2>3. \A k \in DOMAIN out : out[k].file = worker[w].file /\ (out[k].fp # None => k = Len(out))
    BY <1>4, <2>1
  <2> QED BY <1>1, <1>3, <1>6, <2>1, <2>2, <2>3, Sends
<1>7. CASE NoFault /\ worker' = [worker EXCEPT ![w].pc = "validate", ![w].meta = content[f]]
  <2>1. PICK r \in WorkerRecord : r = [worker[w] EXCEPT !.pc = "validate", !.meta = content[f]]
    BY <1>2, <1>3 DEF WorkerRecord
  <2>2. r.pc = "validate" /\ r.file = f /\ r.fp = fp /\ r.meta = content[f]
    BY <1>2, <2>1 DEF WorkerRecord
  <2>3. worker' = [worker EXCEPT ![w] = r]
    BY <1>7, <2>1, WorkerTyped
  <2>4. Busy(r)
    BY <2>2 DEF Busy
  <2>5. content[f] <= content[f]
    BY <1>3 DEF Version
  <2>6. Shape(r, content)
    BY <1>3, <2>2, <2>5 DEF Shape
  <2>7. r.file = worker[w].file
    BY <2>2
  <2> HIDE DEF f, fp
  <2> QED BY <1>1, <1>7, <2>3, <2>4, <2>6, <2>7, AdvanceStep
<1> QED BY <1>5, <1>6, <1>7 DEF ReadMetadata

\* Tags read between two equal fingerprints are the tags of that content.
LEMMA ValidateStep ==
  ASSUME IInv, NEW w \in Worker, Validate(w)
  PROVE  IInv'
<1> DEFINE f == worker[w].file
           fp == worker[w].fp
           meta == worker[w].meta
<1>1. /\ Busy(worker[w]) /\ worker[w].pc = "validate" /\ NoFault
      /\ UNCHANGED <<content, cancelled, walker, writer, db, paths, results>>
  BY DEF Validate, KeepOthers, Busy, NoFault
<1>2. worker[w] \in WorkerRecord
  BY WorkerTyped
<1>3. /\ f \in File /\ content[f] \in Version /\ 0 \in Version /\ fp \in Version
      /\ meta \in Version /\ fp <= meta /\ meta <= content[f]
  <2>1. f \in File /\ meta \in Version /\ fp <= meta /\ meta <= content[f]
    BY <1>1 DEF IInv, Shapes, Shape
  <2>2. content[f] \in Version /\ fp \in Version
    BY <1>2, <2>1 DEF IInv, TypeOK, WorkerRecord
  <2> QED BY <2>1, <2>2, ScanAssumption DEF Version
<1>4. /\ Warning(f) \in Result /\ Warning(f).file = f
      /\ Warning(f).fp = None /\ Warning(f).meta = None
      /\ Rec(f, fp, meta) \in Result /\ Rec(f, fp, meta).file = f
      /\ Rec(f, fp, meta).meta = meta /\ Rec(f, fp, meta).fp = fp
  BY <1>3, Records
<1>5. CASE content[f] = fp /\ Send(w, 0, <<Rec(f, fp, meta)>>, "recv")
  <2>1. meta = fp
    BY <1>3, <1>5 DEF Version
  <2> QED BY <1>1, <1>3, <1>4, <1>5, <2>1, SendsOne
<1>6. CASE Send(w, 0, <<Warning(f)>>, "recv")
  BY <1>1, <1>3, <1>4, <1>6, SendsOne
<1> QED BY <1>5, <1>6 DEF Validate

\* A file taken from the channel goes to the worker that took it.
LEMMA ReceiveStep ==
  ASSUME IInv, NEW w \in Worker, Receive(w)
  PROVE  IInv'
<1>1. /\ UNCHANGED <<content, cancelled, walker, writer, status, saved, warned, cache, results, faults>>
      /\ worker[w].pc = "recv"
  BY DEF Receive, KeepOthers, db
<1>2. /\ worker[w] \in WorkerRecord /\ worker \in [Worker -> WorkerRecord] /\ ~Busy(worker[w])
      /\ paths \in Seq(File) /\ Len(paths) <= Capacity
  BY <1>1, WorkerTyped DEF Busy, IInv, TypeOK
<1>3. \A f : Got(f)' <=> Got(f)
  BY <1>1 DEF Got
<1>4. TruthInv' /\ WalkerPhase'
  BY <1>1 DEF IInv, TruthInv, CacheTruthful, WalkerPhase
<1>5. CASE /\ paths # <<>>
           /\ worker' = [worker EXCEPT ![w].pc = "taken", ![w].file = Head(paths)]
           /\ paths' = Tail(paths)
  <2> DEFINE h == Head(paths)
  <2>1. h \in File /\ paths' \in Seq(File) /\ Len(paths') = Len(paths) - 1
    BY <1>2, <1>5, HeadTailProperties
  <2>2. /\ \A f : InPaths(paths, f) <=> (InPaths(paths', f) \/ h = f)
        /\ ~InPaths(paths', h)
        /\ \A j, k \in DOMAIN paths' : paths'[j] = paths'[k] => j = k
    BY <1>2, <1>5, PathTaken DEF IInv, PathsInv
  <2>3. PICK r \in WorkerRecord : r = [worker[w] EXCEPT !.pc = "taken", !.file = h]
    <3>1. h \in 0..Files
      BY <2>1, ScanAssumption DEF File
    <3> QED BY <1>2, <3>1 DEF WorkerRecord
  <2>4. r.pc = "taken" /\ r.file = h
    BY <1>2, <2>3 DEF WorkerRecord
  <2>5. worker' = [worker EXCEPT ![w] = r]
    BY <1>2, <1>5, <2>3
  <2> HIDE DEF h
  <2>6. /\ worker' \in [Worker -> WorkerRecord]
        /\ worker'[w] = r /\ \A v \in Worker \ {w} : worker'[v] = worker[v]
    BY <1>2, <2>5
  <2>7. Busy(r) /\ Shape(r, content)
    BY <2>1, <2>4 DEF Busy, Shape
  <2>8. \A f : Held(worker', f) <=> (f = h \/ Held(worker, f))
    BY <1>2, <2>4, <2>6, <2>7 DEF Held
  <2>9. ~Held(worker, h) /\ h < walker.file /\ ~Got(h)
    BY <2>1, <2>2 DEF IInv, PathsInv
  <2>10. TypeOK'
    <3>1. Len(paths') <= Capacity
      BY <1>2, <2>1, Indices, ScanAssumption
    <3> QED BY <1>1, <2>1, <2>6, <3>1 DEF IInv, TypeOK, WorkerRecord
  <2>11. Shapes'
    BY <1>1, <2>6, <2>7 DEF IInv, Shapes
  <2>12. PathsInv' /\ GotInv'
    BY <1>1, <1>3, <2>1, <2>2, <2>8 DEF IInv, PathsInv, GotInv
  <2>13. HeldInv'
    <3>1. \A f \in File : Held(worker', f) => f < walker'.file /\ ~Got(f)'
      BY <1>1, <1>3, <2>8, <2>9 DEF IInv, HeldInv
    <3>2. ASSUME NEW v \in Worker, NEW u \in Worker, Busy(worker'[v]), Busy(worker'[u]),
                 worker'[v].file = worker'[u].file
          PROVE  v = u
      <4>1. \A x \in Worker : Busy(worker[x]) => worker[x].file # h
        BY <2>9 DEF Held
      <4> QED BY <2>4, <2>6, <3>2, <4>1 DEF IInv, HeldInv
    <3> QED BY <3>1, <3>2 DEF HeldInv
  <2>14. Coverage'
    <3>1. Intact' => Intact
      BY <1>1, <2>6 DEF Intact
    <3> QED BY <1>1, <2>2, <2>8, <3>1 DEF IInv, Coverage, Settled
  <2>15. WorkerPhase'
    <3>1. \A v \in Worker : ~(worker[v].pc = "done" /\ ~cancelled)
      BY <1>5 DEF IInv, WorkerPhase
    <3> QED BY <1>1, <2>4, <2>6, <3>1 DEF WorkerPhase
  <2>16. WriterPhase'
    <3>1. ~AllEnded
      BY <1>1 DEF AllEnded, Ended
    <3> QED BY <1>1, <2>6, <3>1 DEF IInv, WriterPhase, Settled
  <2> QED BY <1>4, <2>10, <2>11, <2>12, <2>13, <2>14, <2>15, <2>16 DEF IInv
<1>6. CASE PathsClosed /\ Stop(w, "done") /\ UNCHANGED paths
  <2> DEFINE r == [Resting EXCEPT !.pc = "done"]
  <2>1. r \in WorkerRecord /\ r.pc = "done" /\ ~Busy(r)
    BY StopRecord
  <2>2. worker' = [worker EXCEPT ![w] = r]
    BY <1>6 DEF Stop
  <2> HIDE DEF r
  <2>3. /\ worker' \in [Worker -> WorkerRecord]
        /\ worker'[w] = r /\ \A v \in Worker \ {w} : worker'[v] = worker[v]
    BY <1>2, <2>1, <2>2
  <2>4. \A f : Held(worker', f) <=> Held(worker, f)
    BY <1>2, <2>1, <2>3 DEF Held
  <2>5. TypeOK'
    BY <1>1, <1>6, <2>3 DEF IInv, TypeOK, WorkerRecord
  <2>6. Shapes'
    BY <1>1, <2>1, <2>3 DEF IInv, Shapes, Shape, Busy
  <2>7. PathsInv' /\ GotInv'
    BY <1>1, <1>3, <1>6, <2>4 DEF IInv, PathsInv, GotInv
  <2>8. HeldInv'
    <3>1. \A f \in File : Held(worker', f) => f < walker'.file /\ ~Got(f)'
      BY <1>1, <1>3, <2>4 DEF IInv, HeldInv
    <3>2. ASSUME NEW v \in Worker, NEW u \in Worker, Busy(worker'[v]), Busy(worker'[u]),
                 worker'[v].file = worker'[u].file
          PROVE  v = u
      BY <2>1, <2>3, <3>2 DEF IInv, HeldInv
    <3> QED BY <3>1, <3>2 DEF HeldInv
  <2>9. Coverage'
    <3>1. Intact' => Intact
      BY <1>1, <2>1, <2>3 DEF Intact
    <3> QED BY <1>1, <1>6, <2>4, <3>1 DEF IInv, Coverage, Settled
  <2>10. WorkerPhase'
    BY <1>1, <1>6, <2>3 DEF IInv, WorkerPhase, PathsClosed, WalkerEnded
  <2>11. WriterPhase'
    <3>1. ~AllEnded
      BY <1>1 DEF AllEnded, Ended
    <3> QED BY <1>1, <2>3, <3>1 DEF IInv, WriterPhase, Settled
  <2> QED BY <1>4, <2>5, <2>6, <2>7, <2>8, <2>9, <2>10, <2>11 DEF IInv
<1> QED BY <1>5, <1>6 DEF Receive

\* The worker after one of its results has been sent: it holds its file as long as
\* the record of it is still to be sent.
LEMMA SentRecord ==
  ASSUME IInv, NEW w \in Worker, worker[w].pc = "send"
  PROVE  \E r \in WorkerRecord :
           /\ r = IF Len(worker[w].out) > 1 THEN [worker[w] EXCEPT !.out = Tail(worker[w].out)]
                  ELSE IF worker[w].then = "recv" THEN Resting
                  ELSE [worker[w] EXCEPT !.pc = worker[w].then, !.out = <<>>, !.then = "recv"]
           /\ Shape(r, content) /\ r.pc \in {"recv", "send", "read"}
           /\ Busy(r) => r.file = worker[w].file /\ Head(worker[w].out).fp = None
<1> DEFINE out == worker[w].out
           then == worker[w].then
           f == worker[w].file
<1>1. worker[w] \in WorkerRecord /\ Busy(worker[w]) /\ Shape(worker[w], content)
  BY WorkerTyped DEF Busy, IInv, Shapes
<1>2. /\ out \in Seq(Result) /\ then \in {"recv", "read"} /\ f \in File
      /\ out # <<>> /\ Truthful(out)
      /\ \A k \in DOMAIN out : out[k].file = f /\ (out[k].fp # None => k = Len(out))
      /\ then = "read" =>
           worker[w].fp <= content[f] /\ \A k \in DOMAIN out : out[k].fp = None
  BY <1>1 DEF Shape, WorkerRecord
<1>3. Len(out) \in Nat \ {0} /\ DOMAIN out = 1..Len(out) /\ Head(out) = out[1] /\ 1 \in DOMAIN out
  BY <1>2, Indices, EmptySeq
<1>4. CASE Len(out) > 1
  <2>1. /\ Tail(out) \in Seq(Result) /\ Len(Tail(out)) = Len(out) - 1 /\ Truthful(Tail(out))
        /\ \A k \in 1..(Len(out) - 1) : Tail(out)[k] = out[k + 1]
    BY <1>2, HeadTailProperties, Taken
  <2>2. DOMAIN Tail(out) = 1..(Len(out) - 1) /\ Tail(out) # <<>>
    BY <1>2, <1>4, LongTail
  <2>3. PICK r \in WorkerRecord : r = [worker[w] EXCEPT !.out = Tail(out)]
    BY <1>1, <2>1 DEF WorkerRecord
  <2>4. /\ r.pc = "send" /\ r.file = f /\ r.fp = worker[w].fp
        /\ r.out = Tail(out) /\ r.then = then
    BY <1>1, <2>3 DEF WorkerRecord
  <2>5. \A k \in DOMAIN Tail(out) : k + 1 \in DOMAIN out /\ Tail(out)[k] = out[k + 1]
    BY <1>3, <2>1, <2>2
  <2>6. /\ \A k \in DOMAIN Tail(out) : /\ Tail(out)[k].file = f
                                       /\ Tail(out)[k].fp # None => k + 1 = Len(out)
        /\ then = "read" => \A k \in DOMAIN Tail(out) : Tail(out)[k].fp = None
    BY <1>2, <2>5
  <2>7. \A k \in DOMAIN Tail(out) : Tail(out)[k].fp # None => k = Len(Tail(out))
    BY <1>3, <2>1, <2>2, <2>6
  <2>8. Shape(r, content)
    BY <1>2, <2>1, <2>2, <2>4, <2>6, <2>7 DEF Shape
  <2>9. Head(out).fp = None
    BY <1>2, <1>3, <1>4
  <2> QED BY <1>4, <2>3, <2>4, <2>8, <2>9
<1>5. CASE ~(Len(out) > 1) /\ then = "recv"
  <2>1. Resting.pc = "recv" /\ ~Busy(Resting)
    BY DEF Resting, Busy
  <2>2. Resting \in WorkerRecord
    BY ScanAssumption, EmptySeq DEF Resting, WorkerRecord, Version
  <2>3. Shape(Resting, content)
    BY <2>1 DEF Shape, Busy
  <2> QED BY <1>5, <2>1, <2>2, <2>3
<1>6. CASE ~(Len(out) > 1) /\ then = "read"
  <2>1. <<>> \in Seq(Result)
    OBVIOUS
  <2>2. PICK r \in WorkerRecord :
          r = [worker[w] EXCEPT !.pc = then, !.out = <<>>, !.then = "recv"]
    BY <1>1, <1>6, <2>1 DEF WorkerRecord
  <2>3. r.pc = "read" /\ r.file = f /\ r.fp = worker[w].fp
    BY <1>1, <1>6, <2>2 DEF WorkerRecord
  <2>4. Shape(r, content)
    BY <1>2, <1>6, <2>3 DEF Shape
  <2>5. Head(out).fp = None
    BY <1>2, <1>3, <1>6
  <2> QED BY <1>6, <2>2, <2>3, <2>4, <2>5
<1> QED BY <1>2, <1>4, <1>5, <1>6

\* The record sent is the only one of its file.
LEMMA SendResultStep ==
  ASSUME IInv, NEW w \in Worker, SendResult(w)
  PROVE  IInv'
<1> DEFINE f == worker[w].file
           h == Head(worker[w].out)
<1>1. /\ UNCHANGED <<content, cancelled, walker, writer, status, saved, warned, cache, paths, faults>>
      /\ worker[w].pc = "send"
  BY DEF SendResult, KeepOthers, db
<1>2. PICK r \in WorkerRecord :
           /\ r = IF Len(worker[w].out) > 1 THEN [worker[w] EXCEPT !.out = Tail(worker[w].out)]
                  ELSE IF worker[w].then = "recv" THEN Resting
                  ELSE [worker[w] EXCEPT !.pc = worker[w].then, !.out = <<>>, !.then = "recv"]
           /\ Shape(r, content) /\ r.pc \in {"recv", "send", "read"}
           /\ Busy(r) => r.file = f /\ h.fp = None
  BY <1>1, SentRecord
<1>3. /\ worker \in [Worker -> WorkerRecord] /\ worker[w] \in WorkerRecord
      /\ Busy(worker[w]) /\ Shape(worker[w], content)
  BY <1>1, WorkerTyped DEF Busy, IInv, Shapes
<1>4. worker' = [worker EXCEPT ![w] = r]
  BY <1>2, <1>3 DEF SendResult
<1>5. /\ worker' \in [Worker -> WorkerRecord]
      /\ worker'[w] = r /\ \A v \in Worker \ {w} : worker'[v] = worker[v]
  BY <1>3, <1>4
<1>6. /\ h \in Result /\ h.file = f /\ f \in File
      /\ h.meta # None => h.meta = h.fp
  <2>1. worker[w].out \in Seq(Result) /\ worker[w].out # <<>> /\ Truthful(worker[w].out)
    BY <1>1, <1>3 DEF Shape, WorkerRecord
  <2>2. 1 \in DOMAIN worker[w].out /\ h = worker[w].out[1]
    BY <2>1, Indices, EmptySeq
  <2> QED BY <1>1, <1>3, <2>1, <2>2, Taken, HeadTailProperties DEF Shape
<1>7. Held(worker, f) /\ f < walker.file /\ ~Got(f) /\ ~InPaths(paths, f)
  <2>1. Held(worker, f)
    BY <1>3 DEF Held
  <2> QED BY <1>6, <2>1 DEF IInv, HeldInv, PathsInv
<1>8. \A g : Held(worker', g) => Held(worker, g)
  BY <1>2, <1>3, <1>5 DEF Held
<1>9. (Held(worker', f) => h.fp = None) /\ \A v \in Worker : Busy(worker'[v]) => Busy(worker[v])
  <2>1. ASSUME Held(worker', f), ~Busy(r) PROVE FALSE
    <3>1. PICK v \in Worker : Busy(worker'[v]) /\ worker'[v].file = f
      BY <2>1 DEF Held
    <3>2. v # w /\ Busy(worker[v]) /\ worker[v].file = f
      BY <1>5, <2>1, <3>1
    <3> QED BY <1>3, <3>2 DEF IInv, HeldInv
  <2> QED BY <1>2, <1>3, <1>5, <2>1
<1>10. /\ results \in Seq(Result) /\ Len(results) <= Capacity
       /\ Once(results) /\ Truthful(results) /\ ~FoundIn(results, f)
  BY <1>7 DEF IInv, TypeOK, GotInv, TruthInv, Got
<1> HIDE DEF f, h
<1>11. /\ results' \in Seq(Result) /\ Len(results') <= Capacity
       /\ Once(results') /\ Truthful(results')
       /\ \A g : FoundIn(results', g) => FoundIn(results, g) \/ (g = f /\ h.fp # None)
       /\ \A g : SomeIn(results, g) => SomeIn(results', g)
       /\ SomeIn(results', f) \/ writer.pc = "returned"
  <2>1. CASE Len(results) < Capacity /\ results' = Append(results, h)
    <3>1. results' \in Seq(Result) /\ Len(results') <= Capacity
      BY <1>6, <1>10, <2>1, AppendProperties, Indices, ScanAssumption
    <3>2. /\ \A g : SomeIn(results', g) <=> (SomeIn(results, g) \/ h.file = g)
          /\ \A g : FoundIn(results', g) <=>
                      (FoundIn(results, g) \/ (h.file = g /\ h.fp # None))
          /\ Once(results') /\ Truthful(results')
      BY <1>6, <1>10, <2>1, Appended
    <3> QED BY <1>6, <3>1, <3>2
  <2>2. CASE ~ResultsOpen /\ UNCHANGED results
    BY <1>10, <2>2 DEF ResultsOpen
  <2> QED BY <2>1, <2>2 DEF SendResult, h
<1>12. \A g : Got(g)' => Got(g) \/ (g = f /\ h.fp # None)
  BY <1>1, <1>11 DEF Got
<1>13. TypeOK'
  BY <1>1, <1>5, <1>11 DEF IInv, TypeOK, WorkerRecord
<1>14. Shapes'
  BY <1>1, <1>2, <1>5 DEF IInv, Shapes
<1>15. TruthInv' /\ WalkerPhase'
  BY <1>1, <1>11 DEF IInv, TruthInv, CacheTruthful, WalkerPhase
<1>16. PathsInv'
  BY <1>1, <1>7, <1>8, <1>12 DEF IInv, PathsInv
<1>17. HeldInv'
  <2>1. \A g \in File : Held(worker', g) => g < walker'.file /\ ~Got(g)'
    BY <1>1, <1>8, <1>9, <1>12 DEF IInv, HeldInv
  <2>2. ASSUME NEW v \in Worker, NEW u \in Worker, Busy(worker'[v]), Busy(worker'[u]),
               worker'[v].file = worker'[u].file
        PROVE  v = u
    <3>1. /\ Busy(worker[v]) /\ worker[v].file = worker'[v].file
          /\ Busy(worker[u]) /\ worker[u].file = worker'[u].file
      BY <1>2, <1>5, <1>9, <2>2 DEF f
    <3> QED BY <2>2, <3>1 DEF IInv, HeldInv
  <2> QED BY <2>1, <2>2 DEF HeldInv
<1>18. GotInv'
  <2>1. ~FoundIn(writer.batch, f) /\ ~FoundIn(saved, f)
    BY <1>7 DEF Got
  <2>2. \A g \in File : Got(g)' => g < walker'.file
    BY <1>1, <1>7, <1>12 DEF IInv, GotInv
  <2> QED BY <1>1, <1>11, <2>1, <2>2 DEF IInv, GotInv
<1>19. Coverage'
  <2> SUFFICES ASSUME Intact', NEW g \in File
               PROVE  \/ g >= walker'.file \/ InPaths(paths', g) \/ Held(worker', g)
                      \/ SomeIn(results', g) \/ SomeIn(writer'.batch, g) \/ Settled(g)'
    BY DEF Coverage
  <2>1. Intact
    BY <1>1, <1>5 DEF Intact
  <2>2. g # f /\ Held(worker, g) => Held(worker', g)
    BY <1>5 DEF Held, f
  <2>3. SomeIn(results', f)
    BY <1>1, <1>11, <2>1 DEF Intact
  <2> QED BY <1>1, <1>11, <2>1, <2>2, <2>3 DEF IInv, Coverage, Settled
<1>20. WorkerPhase'
  BY <1>1, <1>2, <1>5 DEF IInv, WorkerPhase, WalkerEnded
<1>21. WriterPhase'
  <2>1. ~AllEnded
    BY <1>1 DEF AllEnded, Ended
  <2> QED BY <1>1, <2>1 DEF IInv, WriterPhase, Settled
<1> QED BY <1>13, <1>14, <1>15, <1>16, <1>17, <1>18, <1>19, <1>20, <1>21 DEF IInv

(***************************************************************************)
(* The writer.                                                             *)
(***************************************************************************)
WriterRecord ==
  [pc: {"consume", "flush", "join", "last", "finish", "returned"},
   batch: Seq(Found), status: {"running"} \cup Finishing]

\* Giving up: what is in the pipeline is not looked at again.
LEMMA AbandonStep ==
  ASSUME IInv, KeepThreads, Abandon, Fault, writer.pc \in {"consume", "flush"}
  PROVE  IInv'
<1>1. /\ UNCHANGED <<content, walker, worker, paths, results, status, saved, warned, cache>>
      /\ cancelled' = TRUE
      /\ writer' = [writer EXCEPT !.pc = "finish", !.status = "failed"]
  BY DEF KeepThreads, Abandon, db
<1>2. /\ writer' \in WriterRecord
      /\ writer'.pc = "finish" /\ writer'.status = "failed" /\ writer'.batch = writer.batch
  BY <1>1 DEF IInv, TypeOK, WriterRecord, Finishing
<1>3. faults' \in 0..MaxFaults
  BY FaultTyped DEF IInv, TypeOK
<1>4. TypeOK'
  BY <1>1, <1>2, <1>3 DEF IInv, TypeOK, WriterRecord
<1>5. Shapes' /\ TruthInv'
  BY <1>1, <1>2 DEF IInv, Shapes, TruthInv, CacheTruthful
<1>6. \A f : Got(f)' <=> Got(f)
  BY <1>1, <1>2 DEF Got
<1>7. PathsInv' /\ HeldInv' /\ GotInv'
  BY <1>1, <1>2, <1>6 DEF IInv, PathsInv, HeldInv, GotInv
<1>8. Coverage' /\ WalkerPhase' /\ WorkerPhase'
  BY <1>1 DEF IInv, Coverage, Intact, WalkerPhase, WorkerPhase
<1>9. status = "running"
  BY DEF IInv, WriterPhase
<1>10. WriterPhase'
  BY <1>1, <1>2, <1>9 DEF WriterPhase
<1> QED BY <1>4, <1>5, <1>7, <1>8, <1>10 DEF IInv

\* The records in the batch go to the end of the table and to the cache.
LEMMA BatchSaved ==
  ASSUME IInv, SaveBatch
  PROVE  /\ saved' \in Seq(Found) /\ cache' \subseteq Cached
         /\ \A f : FoundIn(saved', f) <=> (FoundIn(saved, f) \/ FoundIn(writer.batch, f))
         /\ \A f : SomeIn(saved', f) <=> (SomeIn(saved, f) \/ SomeIn(writer.batch, f))
         /\ Once(saved') /\ CacheTruthful'
<1> DEFINE batch == writer.batch
<1>1. /\ batch \in Seq(Found) /\ saved \in Seq(Found)
      /\ Once(saved) /\ Once(batch) /\ Truthful(batch)
      /\ \A f \in File : ~(FoundIn(batch, f) /\ FoundIn(saved, f))
  BY DEF IInv, TypeOK, GotInv, TruthInv
<1>2. /\ saved' = saved \o batch
      /\ cache' = cache \cup {batch[i] : i \in {j \in DOMAIN batch : batch[j].meta # None}}
  BY DEF SaveBatch
<1>3. \A i \in DOMAIN batch : batch[i] \in Found
  BY <1>1, Indices
<1>4. \A i \in DOMAIN batch : batch[i].meta # None => batch[i] \in Cached /\ batch[i].meta = batch[i].fp
  BY <1>1, <1>3 DEF Found, Cached, Truthful
<1>5. cache' \subseteq Cached /\ CacheTruthful'
  BY <1>2, <1>4 DEF IInv, TypeOK, TruthInv, CacheTruthful
<1>6. \A j \in DOMAIN saved : saved[j].fp # None => ~FoundIn(batch, saved[j].file)
  <2> SUFFICES ASSUME NEW j \in DOMAIN saved, saved[j].fp # None
               PROVE  ~FoundIn(batch, saved[j].file)
    OBVIOUS
  <2>1. saved[j] \in Found
    BY <1>1, Indices
  <2>2. saved[j].file \in File /\ FoundIn(saved, saved[j].file)
    BY <2>1 DEF Found, FoundIn
  <2> QED BY <1>1, <2>2
<1>7. /\ \A f : SomeIn(saved', f) <=> (SomeIn(saved, f) \/ SomeIn(batch, f))
      /\ \A f : FoundIn(saved', f) <=> (FoundIn(saved, f) \/ FoundIn(batch, f))
      /\ Once(saved')
  BY <1>1, <1>2, <1>6, Joined
<1>8. saved' \in Seq(Found)
  BY <1>1, <1>2, ConcatProperties
<1> QED BY <1>5, <1>7, <1>8

\* A record goes from the channel to the batch, a warning to the table.
LEMMA ConsumeStep == IInv /\ Consume => IInv'
<1> SUFFICES ASSUME IInv, Consume PROVE IInv'
  OBVIOUS
<1> DEFINE h == Head(results)
<1>1. KeepThreads /\ writer.pc = "consume"
  BY DEF Consume
<1>2. /\ writer \in WriterRecord /\ Len(writer.batch) < Batch
      /\ results \in Seq(Result) /\ Len(results) <= Capacity
      /\ status = "running" /\ writer.status = "running"
  BY <1>1 DEF IInv, TypeOK, WriterRecord, WriterPhase
<1>3. CASE /\ results # <<>> /\ h.fp # None /\ NoFault
           /\ LET batch == Append(writer.batch, h)
              IN  writer' = [writer EXCEPT !.batch = batch,
                               !.pc = IF Len(batch) >= Batch THEN "flush" ELSE "consume"]
           /\ results' = Tail(results)
           /\ UNCHANGED <<cancelled, paths, db>>
  <2>1. UNCHANGED <<content, walker, worker, cancelled, paths, status, saved, warned, cache, faults>>
    BY <1>1, <1>3 DEF KeepThreads, db, NoFault
  <2>2. /\ h \in Found /\ h.file \in File /\ (h.meta # None => h.meta = h.fp)
        /\ results' \in Seq(Result) /\ Len(results') = Len(results) - 1
    <3>1. h \in Result /\ results' \in Seq(Result) /\ Len(results') = Len(results) - 1
      BY <1>2, <1>3, HeadTailProperties
    <3>2. Truthful(results)
      BY DEF IInv, TruthInv
    <3> QED BY <1>2, <1>3, <3>1, <3>2, ResultFields, Taken
  <2> HIDE DEF h
  <2>3. PICK pc \in {"flush", "consume"} :
          /\ writer' = [writer EXCEPT !.batch = Append(writer.batch, h), !.pc = pc]
          /\ pc = "consume" <=> ~(Len(Append(writer.batch, h)) >= Batch)
    BY <1>3
  <2>4. /\ writer.batch \in Seq(Found)
        /\ Append(writer.batch, h) \in Seq(Found)
        /\ Len(Append(writer.batch, h)) = Len(writer.batch) + 1
        /\ Len(writer.batch) \in Nat
    <3>1. writer.batch \in Seq(Found)
      BY DEF IInv, TypeOK
    <3> QED BY <2>2, <3>1, AppendProperties, Indices
  <2>5. /\ writer' \in WriterRecord /\ writer'.pc = pc
        /\ writer'.batch = Append(writer.batch, h) /\ writer'.status = writer.status
    BY <1>2, <2>3, <2>4 DEF WriterRecord
  <2>6. Len(writer'.batch) <= Batch /\ (writer'.pc = "consume" => Len(writer'.batch) < Batch)
    BY <1>2, <2>3, <2>4, <2>5, ScanAssumption
  <2>7. Len(results') <= Capacity
    BY <1>2, <2>2, Indices, ScanAssumption
  <2>8. TypeOK'
    BY <2>1, <2>2, <2>5, <2>6, <2>7 DEF IInv, TypeOK, WriterRecord
  <2>9. /\ \A f : SomeIn(results, f) <=> (SomeIn(results', f) \/ h.file = f)
        /\ \A f : FoundIn(results, f) <=> (FoundIn(results', f) \/ h.file = f)
        /\ Once(results') /\ ~FoundIn(results', h.file) /\ Truthful(results')
    BY <1>2, <1>3, Taken DEF IInv, GotInv, TruthInv, h
  <2>10. ~FoundIn(writer.batch, h.file) /\ ~FoundIn(saved, h.file)
    <3>1. FoundIn(results, h.file)
      BY <2>9
    <3>2. \A f \in File : /\ ~(FoundIn(results, f) /\ FoundIn(writer.batch, f))
                          /\ ~(FoundIn(results, f) /\ FoundIn(saved, f))
      BY DEF IInv, GotInv
    <3> QED BY <2>2, <3>1, <3>2
  <2>11. /\ \A f : SomeIn(writer'.batch, f) <=> (SomeIn(writer.batch, f) \/ h.file = f)
         /\ \A f : FoundIn(writer'.batch, f) <=> (FoundIn(writer.batch, f) \/ h.file = f)
         /\ Once(writer'.batch) /\ Truthful(writer'.batch)
    <3>1. Once(writer.batch) /\ Truthful(writer.batch)
      BY DEF IInv, GotInv, TruthInv
    <3>2. h.fp # None
      BY <1>3
    <3> QED BY <2>2, <2>4, <2>5, <2>10, <3>1, <3>2, Appended
  <2>12. \A f : Got(f)' <=> Got(f)
    BY <2>1, <2>9, <2>11 DEF Got
  <2>13. PathsInv' /\ HeldInv'
    BY <2>1, <2>12 DEF IInv, PathsInv, HeldInv
  <2>14. GotInv'
    BY <2>1, <2>9, <2>10, <2>11, <2>12 DEF IInv, GotInv
  <2>15. Shapes' /\ TruthInv'
    BY <2>1, <2>9, <2>11 DEF IInv, Shapes, TruthInv, CacheTruthful
  <2>16. Coverage'
    BY <1>1, <2>1, <2>9, <2>11 DEF IInv, Coverage, Intact, Settled
  <2>17. WalkerPhase' /\ WorkerPhase'
    BY <1>1, <2>1 DEF IInv, WalkerPhase, WorkerPhase, WalkerEnded
  <2>18. WriterPhase'
    BY <1>2, <2>1, <2>5 DEF WriterPhase
  <2> QED BY <2>8, <2>13, <2>14, <2>15, <2>16, <2>17, <2>18 DEF IInv
<1>4. CASE /\ results # <<>> /\ h.fp = None /\ NoFault
           /\ warned' = warned \cup {h.file}
           /\ results' = Tail(results)
           /\ UNCHANGED <<cancelled, paths, writer, status, saved, cache>>
  <2>1. UNCHANGED <<content, walker, worker, cancelled, paths, writer, status, saved, cache, faults>>
    BY <1>1, <1>4 DEF KeepThreads, NoFault
  <2>2. h.file \in File /\ results' \in Seq(Result) /\ Len(results') = Len(results) - 1
    BY <1>2, <1>4, HeadTailProperties, ResultFields
  <2>3. Len(results') <= Capacity
    BY <1>2, <2>2, Indices, ScanAssumption
  <2>4. TypeOK'
    BY <1>4, <2>1, <2>2, <2>3 DEF IInv, TypeOK
  <2>5. /\ \A f : SomeIn(results, f) <=> (SomeIn(results', f) \/ h.file = f)
        /\ \A f : FoundIn(results, f) <=> FoundIn(results', f)
        /\ Once(results') /\ Truthful(results')
    BY <1>2, <1>4, Taken DEF IInv, GotInv, TruthInv
  <2>6. \A f : Settled(f)' <=> (Settled(f) \/ f = h.file)
    BY <1>4, <2>1 DEF Settled
  <2> HIDE DEF h
  <2>7. \A f : Got(f)' <=> Got(f)
    BY <2>1, <2>5 DEF Got
  <2>8. PathsInv' /\ HeldInv' /\ GotInv'
    BY <2>1, <2>5, <2>7 DEF IInv, PathsInv, HeldInv, GotInv
  <2>9. Shapes' /\ TruthInv'
    BY <2>1, <2>5 DEF IInv, Shapes, TruthInv, CacheTruthful
  <2>10. Coverage'
    BY <2>1, <2>5, <2>6 DEF IInv, Coverage, Intact
  <2>11. WalkerPhase' /\ WorkerPhase'
    BY <2>1 DEF IInv, WalkerPhase, WorkerPhase, WalkerEnded
  <2>12. WriterPhase'
    BY <1>1, <1>2, <2>1 DEF WriterPhase
  <2> QED BY <2>4, <2>8, <2>9, <2>10, <2>11, <2>12 DEF IInv
<1>5. CASE Fault /\ Abandon
  BY <1>1, <1>5, AbandonStep
<1>6. CASE /\ ResultsClosed /\ NoFault
           /\ writer' = [writer EXCEPT !.pc = "join"]
           /\ UNCHANGED <<cancelled, paths, results, db>>
  <2>1. UNCHANGED <<content, walker, worker, cancelled, paths, results, status, saved, warned, cache, faults>>
    BY <1>1, <1>6 DEF KeepThreads, db, NoFault
  <2>2. /\ writer' \in WriterRecord
        /\ writer'.pc = "join" /\ writer'.batch = writer.batch /\ writer'.status = writer.status
    BY <1>2, <1>6 DEF WriterRecord
  <2>3. TypeOK'
    BY <2>1, <2>2 DEF IInv, TypeOK, WriterRecord
  <2>4. Shapes' /\ TruthInv'
    BY <2>1, <2>2 DEF IInv, Shapes, TruthInv, CacheTruthful
  <2>5. \A f : Got(f)' <=> Got(f)
    BY <2>1, <2>2 DEF Got
  <2>6. PathsInv' /\ HeldInv' /\ GotInv'
    BY <2>1, <2>2, <2>5 DEF IInv, PathsInv, HeldInv, GotInv
  <2>7. Coverage'
    BY <1>1, <2>1, <2>2 DEF IInv, Coverage, Intact, Settled
  <2>8. WalkerPhase' /\ WorkerPhase'
    BY <1>1, <2>1 DEF IInv, WalkerPhase, WorkerPhase, WalkerEnded
  <2>9. results = <<>> /\ AllEnded
    BY <1>6 DEF ResultsClosed
  <2>10. WriterPhase'
    BY <1>2, <2>1, <2>2, <2>9 DEF WriterPhase, AllEnded, Ended
  <2> QED BY <2>3, <2>4, <2>6, <2>7, <2>8, <2>10 DEF IInv
<1> QED BY <1>3, <1>4, <1>5, <1>6 DEF Consume

\* The batch goes to the table; one that cannot be saved ends the scan as failed.
LEMMA FlushStep == IInv /\ Flush => IInv'
<1> SUFFICES ASSUME IInv, Flush PROVE IInv'
  OBVIOUS
<1>1. KeepThreads /\ writer.pc = "flush"
  BY DEF Flush
<1>2. writer \in WriterRecord /\ status = "running" /\ writer.status = "running"
  BY <1>1 DEF IInv, TypeOK, WriterRecord, WriterPhase
<1>3. CASE /\ SaveBatch /\ NoFault
           /\ writer' = [writer EXCEPT !.pc = "consume", !.batch = <<>>]
           /\ UNCHANGED <<status, warned, cancelled, paths, results>>
  <2>1. UNCHANGED <<content, walker, worker, cancelled, paths, results, status, warned, faults>>
    BY <1>1, <1>3 DEF KeepThreads, NoFault
  <2>2. /\ saved' \in Seq(Found) /\ cache' \subseteq Cached
        /\ \A f : FoundIn(saved', f) <=> (FoundIn(saved, f) \/ FoundIn(writer.batch, f))
        /\ \A f : SomeIn(saved', f) <=> (SomeIn(saved, f) \/ SomeIn(writer.batch, f))
        /\ Once(saved') /\ CacheTruthful'
    BY <1>3, BatchSaved
  <2>3. /\ <<>> \in Seq(Found) /\ Len(<<>>) = 0
    BY EmptySeq
  <2>4. /\ writer' \in WriterRecord
        /\ writer'.pc = "consume" /\ writer'.batch = <<>> /\ writer'.status = "running"
    BY <1>2, <1>3, <2>3 DEF WriterRecord
  <2>5. TypeOK'
    BY <2>1, <2>2, <2>3, <2>4, ScanAssumption DEF IInv, TypeOK, WriterRecord
  <2>6. /\ \A f : ~SomeIn(writer'.batch, f) /\ ~FoundIn(writer'.batch, f)
        /\ Once(writer'.batch) /\ Truthful(writer'.batch)
    BY <2>4, Empty
  <2>7. \A f : Got(f)' <=> Got(f)
    BY <2>1, <2>2, <2>6 DEF Got
  <2>8. PathsInv' /\ HeldInv' /\ GotInv'
    BY <2>1, <2>2, <2>6, <2>7 DEF IInv, PathsInv, HeldInv, GotInv
  <2>9. Shapes' /\ TruthInv'
    BY <2>1, <2>2, <2>6 DEF IInv, Shapes, TruthInv
  <2>10. Coverage'
    BY <1>1, <2>1, <2>2, <2>4 DEF IInv, Coverage, Intact, Settled
  <2>11. WalkerPhase' /\ WorkerPhase'
    BY <1>1, <2>1, <2>4 DEF IInv, WalkerPhase, WorkerPhase, WalkerEnded
  <2>12. WriterPhase'
    BY <1>2, <2>1, <2>4 DEF WriterPhase
  <2> QED BY <2>5, <2>8, <2>9, <2>10, <2>11, <2>12 DEF IInv
<1>4. CASE Fault /\ Abandon
  BY <1>1, <1>4, AbandonStep
<1> QED BY <1>3, <1>4 DEF Flush

\* The writer goes on to the last batch only if every thread came to its end.
LEMMA JoinStep == IInv /\ Join => IInv'
<1> SUFFICES ASSUME IInv, Join PROVE IInv'
  OBVIOUS
<1>1. UNCHANGED <<content, walker, worker, cancelled, paths, results, status, saved, warned, cache, faults>>
  BY DEF Join, KeepThreads, db
<1>2. /\ writer.pc = "join" /\ WalkerEnded /\ writer \in WriterRecord
      /\ status = "running" /\ writer.status = "running" /\ results = <<>> /\ AllEnded
  BY DEF Join, IInv, TypeOK, WriterRecord, WriterPhase
<1>3. /\ writer' \in WriterRecord /\ writer'.batch = writer.batch
      /\ \/ writer'.pc = "finish" /\ writer'.status = "failed"
         \/ /\ writer'.pc = "last" /\ writer'.status = "running"
            /\ walker.pc = "done" /\ \A w \in Worker : worker[w].pc # "panicked"
  <2>1. CASE walker.pc # "done" \/ \E w \in Worker : worker[w].pc = "panicked"
    <3>1. writer' = [writer EXCEPT !.pc = "finish", !.status = "failed"]
      BY <2>1 DEF Join
    <3> QED BY <1>2, <3>1 DEF WriterRecord, Finishing
  <2>2. CASE ~(walker.pc # "done" \/ \E w \in Worker : worker[w].pc = "panicked")
    <3>1. writer' = [writer EXCEPT !.pc = "last"]
      BY <2>2 DEF Join
    <3>2. /\ writer' \in WriterRecord /\ writer'.batch = writer.batch
          /\ writer'.pc = "last" /\ writer'.status = "running"
      BY <1>2, <3>1 DEF WriterRecord
    <3> QED BY <2>2, <3>2
  <2> QED BY <2>1, <2>2
<1>4. TypeOK'
  BY <1>1, <1>3 DEF IInv, TypeOK, WriterRecord
<1>5. Shapes' /\ TruthInv'
  BY <1>1, <1>3 DEF IInv, Shapes, TruthInv, CacheTruthful
<1>6. \A f : Got(f)' <=> Got(f)
  BY <1>1, <1>3 DEF Got
<1>7. PathsInv' /\ HeldInv' /\ GotInv'
  BY <1>1, <1>3, <1>6 DEF IInv, PathsInv, HeldInv, GotInv
<1>8. Coverage'
  BY <1>1, <1>2, <1>3 DEF IInv, Coverage, Intact, Settled
<1>9. WalkerPhase' /\ WorkerPhase'
  BY <1>1, <1>2, <1>3 DEF IInv, WalkerPhase, WorkerPhase, WalkerEnded
<1>10. WriterPhase'
  BY <1>1, <1>2, <1>3 DEF WriterPhase, AllEnded, Ended
<1> QED BY <1>4, <1>5, <1>7, <1>8, <1>9, <1>10 DEF IInv

\* When the threads have ended, nothing was dropped and the token is not set, every
\* file is in the table, the last batch or the warnings.
LEMMA AllAccounted ==
  ASSUME IInv, writer.pc = "last", ~cancelled
  PROVE  \A f \in File : SomeIn(writer.batch, f) \/ Settled(f)
<1>1. /\ results = <<>> /\ AllEnded /\ walker.pc = "done"
      /\ \A w \in Worker : worker[w].pc # "panicked"
      /\ walker.file > Files
  BY DEF IInv, WriterPhase, WalkerPhase
<1>2. \A w \in Worker : worker[w].pc = "done" /\ ~Busy(worker[w])
  BY <1>1 DEF AllEnded, Ended, Busy
<1>3. paths = <<>>
  BY <1>2, ScanAssumption DEF IInv, WorkerPhase
<1>4. Intact
  BY <1>1 DEF Intact
<1>5. \A f \in File : ~InPaths(paths, f) /\ ~Held(worker, f) /\ ~SomeIn(results, f)
  BY <1>1, <1>2, <1>3, Empty DEF Held
<1>6. \A f \in File : ~(f >= walker.file)
  BY <1>1, ScanAssumption DEF IInv, TypeOK, File
<1> QED BY <1>4, <1>5, <1>6 DEF IInv, Coverage

\* The scan is completed only if the last batch could be saved and nothing was
\* cancelled.
LEMMA LastBatchStep == IInv /\ LastBatch => IInv'
<1> SUFFICES ASSUME IInv, LastBatch PROVE IInv'
  OBVIOUS
<1>1. /\ UNCHANGED <<content, walker, worker, status, warned, cancelled, paths, results>>
      /\ writer.pc = "last"
  BY DEF LastBatch, KeepThreads
<1>2. writer \in WriterRecord /\ status = "running"
  BY <1>1 DEF IInv, TypeOK, WriterRecord, WriterPhase
<1>3. CASE /\ SaveBatch /\ NoFault
           /\ writer' = [writer EXCEPT !.pc = "finish", !.batch = <<>>,
                            !.status = IF cancelled THEN "cancelled" ELSE "completed"]
  <2>1. UNCHANGED faults
    BY <1>3 DEF NoFault
  <2>2. /\ saved' \in Seq(Found) /\ cache' \subseteq Cached
        /\ \A f : FoundIn(saved', f) <=> (FoundIn(saved, f) \/ FoundIn(writer.batch, f))
        /\ \A f : SomeIn(saved', f) <=> (SomeIn(saved, f) \/ SomeIn(writer.batch, f))
        /\ Once(saved') /\ CacheTruthful'
    BY <1>3, BatchSaved
  <2>3. /\ <<>> \in Seq(Found) /\ Len(<<>>) = 0
    BY EmptySeq
  <2>4. /\ writer' \in WriterRecord
        /\ writer'.pc = "finish" /\ writer'.batch = <<>>
        /\ writer'.status = IF cancelled THEN "cancelled" ELSE "completed"
    <3>1. PICK s \in {"cancelled", "completed"} :
            s = IF cancelled THEN "cancelled" ELSE "completed"
      OBVIOUS
    <3>2. writer' = [writer EXCEPT !.pc = "finish", !.batch = <<>>, !.status = s]
      BY <1>3, <3>1
    <3>3. /\ writer' \in WriterRecord
          /\ writer'.pc = "finish" /\ writer'.batch = <<>> /\ writer'.status = s
      BY <1>2, <2>3, <3>2 DEF WriterRecord, Finishing
    <3> QED BY <3>1, <3>3
  <2>5. TypeOK'
    BY <1>1, <2>1, <2>2, <2>3, <2>4, ScanAssumption DEF IInv, TypeOK, WriterRecord
  <2>6. /\ \A f : ~SomeIn(writer'.batch, f) /\ ~FoundIn(writer'.batch, f)
        /\ Once(writer'.batch) /\ Truthful(writer'.batch)
    BY <2>4, Empty
  <2>7. \A f : Got(f)' <=> Got(f)
    BY <1>1, <2>2, <2>6 DEF Got
  <2>8. PathsInv' /\ HeldInv' /\ GotInv'
    BY <1>1, <2>2, <2>6, <2>7 DEF IInv, PathsInv, HeldInv, GotInv
  <2>9. Shapes' /\ TruthInv'
    BY <1>1, <2>2, <2>6 DEF IInv, Shapes, TruthInv
  <2>10. Coverage'
    BY <1>1, <2>2, <2>4 DEF IInv, Coverage, Intact, Settled
  <2>11. WalkerPhase' /\ WorkerPhase'
    BY <1>1, <2>4 DEF IInv, WalkerPhase, WorkerPhase, WalkerEnded
  <2>12. writer'.status = "completed" => \A f \in File : Settled(f)'
    BY <1>1, <2>2, <2>4, AllAccounted DEF Settled
  <2>13. WriterPhase'
    BY <1>1, <1>2, <2>4, <2>12 DEF WriterPhase
  <2> QED BY <2>5, <2>8, <2>9, <2>10, <2>11, <2>13 DEF IInv
<1>4. CASE /\ writer.batch # <<>> /\ Fault
           /\ writer' = [writer EXCEPT !.pc = "finish", !.status = "failed"]
           /\ UNCHANGED <<saved, cache>>
  <2>1. faults' \in 0..MaxFaults
    BY <1>4, FaultTyped DEF IInv, TypeOK
  <2>2. /\ writer' \in WriterRecord
        /\ writer'.pc = "finish" /\ writer'.batch = writer.batch /\ writer'.status = "failed"
    BY <1>2, <1>4 DEF WriterRecord, Finishing
  <2>3. TypeOK'
    BY <1>1, <1>4, <2>1, <2>2 DEF IInv, TypeOK, WriterRecord
  <2>4. Shapes' /\ TruthInv'
    BY <1>1, <1>4, <2>2 DEF IInv, Shapes, TruthInv, CacheTruthful
  <2>5. \A f : Got(f)' <=> Got(f)
    BY <1>1, <1>4, <2>2 DEF Got
  <2>6. PathsInv' /\ HeldInv' /\ GotInv'
    BY <1>1, <1>4, <2>2, <2>5 DEF IInv, PathsInv, HeldInv, GotInv
  <2>7. Coverage'
    BY <1>1, <1>4, <2>2 DEF IInv, Coverage, Intact, Settled
  <2>8. WalkerPhase' /\ WorkerPhase'
    BY <1>1, <2>2 DEF IInv, WalkerPhase, WorkerPhase, WalkerEnded
  <2>9. WriterPhase'
    BY <1>1, <1>2, <2>2 DEF WriterPhase
  <2> QED BY <2>3, <2>4, <2>6, <2>7, <2>8, <2>9 DEF IInv
<1> QED BY <1>3, <1>4 DEF LastBatch

\* The status written is the one the writer decided on.
LEMMA FinishScanStep == IInv /\ FinishScan => IInv'
<1> SUFFICES ASSUME IInv, FinishScan PROVE IInv'
  OBVIOUS
<1>1. /\ UNCHANGED <<content, walker, worker, cancelled, paths, results, saved, warned, cache>>
      /\ writer.pc = "finish" /\ (Fault \/ NoFault)
  BY DEF FinishScan, KeepThreads
<1>2. writer \in WriterRecord
  BY DEF IInv, TypeOK, WriterRecord
<1>3. /\ writer' \in WriterRecord
      /\ writer'.pc = "returned" /\ writer'.batch = writer.batch /\ writer'.status = writer.status
  BY <1>2 DEF FinishScan, WriterRecord
<1>4. status = "running" /\ (status' = status \/ status' = writer.status)
  BY <1>1 DEF IInv, WriterPhase, FinishScan, Finishes
<1>5. status' \in {"running"} \cup Finishing
  BY <1>2, <1>4 DEF WriterRecord
<1>6. faults' \in 0..MaxFaults
  BY <1>1, FaultTyped DEF IInv, TypeOK
<1>7. TypeOK'
  BY <1>1, <1>3, <1>5, <1>6 DEF IInv, TypeOK, WriterRecord
<1>8. Shapes' /\ TruthInv'
  BY <1>1, <1>3 DEF IInv, Shapes, TruthInv, CacheTruthful
<1>9. \A f : Got(f)' <=> Got(f)
  BY <1>1, <1>3 DEF Got
<1>10. PathsInv' /\ HeldInv' /\ GotInv'
  BY <1>1, <1>3, <1>9 DEF IInv, PathsInv, HeldInv, GotInv
<1>11. Coverage'
  BY <1>3 DEF Coverage, Intact
<1>12. WalkerPhase' /\ WorkerPhase'
  BY <1>1, <1>3 DEF IInv, WalkerPhase, WorkerPhase, WalkerEnded
<1>13. WriterPhase'
  BY <1>1, <1>3, <1>4 DEF IInv, WriterPhase, Settled
<1> QED BY <1>7, <1>8, <1>10, <1>11, <1>12, <1>13 DEF IInv

(***************************************************************************)
(* The user.                                                               *)
(***************************************************************************)
\* The token is set.
LEMMA CancelStep == IInv /\ Cancel => IInv'
<1> SUFFICES ASSUME IInv, Cancel PROVE IInv'
  OBVIOUS
<1>1. /\ UNCHANGED <<content, walker, paths, worker, results, writer, status, saved, warned, cache, faults>>
      /\ cancelled' = TRUE
  BY DEF Cancel, db
<1>2. TypeOK'
  BY <1>1 DEF IInv, TypeOK
<1>3. Shapes' /\ TruthInv'
  BY <1>1 DEF IInv, Shapes, TruthInv, CacheTruthful
<1>4. \A f : Got(f)' <=> Got(f)
  BY <1>1 DEF Got
<1>5. PathsInv' /\ HeldInv' /\ GotInv'
  BY <1>1, <1>4 DEF IInv, PathsInv, HeldInv, GotInv
<1>6. Coverage' /\ WalkerPhase' /\ WorkerPhase'
  BY <1>1 DEF IInv, Coverage, Intact, WalkerPhase, WorkerPhase
<1>7. WriterPhase'
  BY <1>1 DEF IInv, WriterPhase, AllEnded, Ended, Settled
<1> QED BY <1>2, <1>3, <1>5, <1>6, <1>7 DEF IInv

\* An edit makes a content newer than all that were read.
LEMMA EditStep ==
  ASSUME IInv, NEW f \in File, Edit(f)
  PROVE  IInv'
<1>1. /\ UNCHANGED <<cancelled, walker, paths, worker, results, writer, status, saved, warned, cache, faults>>
      /\ content' = [content EXCEPT ![f] = content[f] + 1]
      /\ content[f] < MaxEdits /\ content \in [File -> Version]
  BY DEF Edit, db, IInv, TypeOK
<1>2. content' \in [File -> Version]
  <2>1. content[f] + 1 \in Version
    BY <1>1, ScanAssumption DEF Version
  <2> QED BY <1>1, <2>1
<1>3. \A g \in File : content[g] <= content'[g]
  <2> SUFFICES ASSUME NEW g \in File PROVE content[g] <= content'[g]
    OBVIOUS
  <2>1. content[g] \in Nat /\ content'[g] = IF g = f THEN content[g] + 1 ELSE content[g]
    BY <1>1, Numbers
  <2> QED BY <2>1
<1>4. TypeOK'
  BY <1>1, <1>2 DEF IInv, TypeOK
<1>5. Shapes'
  <2> SUFFICES ASSUME NEW w \in Worker PROVE Shape(worker[w], content')
    BY <1>1 DEF Shapes
  <2> DEFINE r == worker[w]
  <2>1. r \in WorkerRecord /\ Shape(r, content)
    BY WorkerTyped DEF IInv, Shapes
  <2>2. r.fp \in Nat /\ (r.meta \in Version => r.meta \in Nat)
    BY <2>1, Numbers DEF WorkerRecord
  <2>3. Busy(r) => /\ r.file \in File /\ content[r.file] \in Nat
                   /\ content'[r.file] \in Nat /\ content[r.file] <= content'[r.file]
    BY <1>1, <1>2, <1>3, <2>1, Numbers DEF Shape
  <2> SUFFICES Shape(r, content')
    OBVIOUS
  <2> HIDE DEF r
  <2>4. CASE ~Busy(r)
    BY <2>4 DEF Shape, Busy
  <2>5. CASE r.pc = "taken"
    BY <2>1, <2>5 DEF Shape
  <2>6. CASE r.pc = "read"
    BY <2>1, <2>2, <2>3, <2>6 DEF Shape, Busy
  <2>7. CASE r.pc = "validate"
    BY <2>1, <2>2, <2>3, <2>7 DEF Shape, Busy
  <2>8. CASE r.pc = "send"
    <3>1. Busy(r)
      BY <2>8 DEF Busy
    <3>2. r.then = "read" => r.fp <= content'[r.file]
      BY <2>1, <2>2, <2>3, <2>8, <3>1 DEF Shape
    <3> QED BY <2>1, <2>8, <3>2 DEF Shape
  <2> QED BY <2>4, <2>5, <2>6, <2>7, <2>8 DEF Busy, r
<1>6. TruthInv'
  BY <1>1 DEF IInv, TruthInv, CacheTruthful
<1>7. \A g : Got(g)' <=> Got(g)
  BY <1>1 DEF Got
<1>8. PathsInv' /\ HeldInv' /\ GotInv'
  BY <1>1, <1>7 DEF IInv, PathsInv, HeldInv, GotInv
<1>9. Coverage' /\ WalkerPhase' /\ WorkerPhase'
  BY <1>1 DEF IInv, Coverage, Intact, Settled, WalkerPhase, WorkerPhase, WalkerEnded
<1>10. WriterPhase'
  BY <1>1 DEF IInv, WriterPhase, AllEnded, Ended, Settled
<1> QED BY <1>4, <1>5, <1>6, <1>8, <1>9, <1>10 DEF IInv

(***************************************************************************)
(* Every step, and the theorems.                                           *)
(***************************************************************************)
\* Nothing happens.
LEMMA StutterStep == IInv /\ UNCHANGED vars => IInv'
<1> SUFFICES ASSUME IInv, UNCHANGED vars PROVE IInv'
  OBVIOUS
<1>1. UNCHANGED <<content, cancelled, walker, paths, worker, results, writer, status, saved, warned, cache, faults>>
  BY DEF vars, db
<1>2. TypeOK'
  BY <1>1 DEF IInv, TypeOK
<1>3. Shapes' /\ TruthInv'
  BY <1>1 DEF IInv, Shapes, TruthInv, CacheTruthful
<1>4. \A f : Got(f)' <=> Got(f)
  BY <1>1 DEF Got
<1>5. PathsInv' /\ HeldInv' /\ GotInv'
  BY <1>1, <1>4 DEF IInv, PathsInv, HeldInv, GotInv
<1>6. Coverage' /\ WalkerPhase' /\ WorkerPhase'
  BY <1>1 DEF IInv, Coverage, Intact, Settled, WalkerPhase, WorkerPhase, WalkerEnded
<1>7. WriterPhase'
  BY <1>1 DEF IInv, WriterPhase, AllEnded, Ended, Settled
<1> QED BY <1>2, <1>3, <1>5, <1>6, <1>7 DEF IInv

\* Every step keeps the invariant.
LEMMA Inductive == IInv /\ [Next]_vars => IInv'
<1> SUFFICES ASSUME IInv, [Next]_vars PROVE IInv'
  OBVIOUS
<1>1. CASE WalkerStep
  BY <1>1, EnumerateNextStep, EnumerateSendStep DEF WalkerStep
<1>2. CASE WriterStep
  BY <1>2, ConsumeStep, FlushStep, JoinStep, LastBatchStep, FinishScanStep DEF WriterStep
<1>3. CASE Cancel
  BY <1>3, CancelStep
<1>4. ASSUME NEW w \in Worker, WorkerStep(w) PROVE IInv'
  BY <1>4, ReceiveStep, FingerprintStep, ReadMetadataStep, ValidateStep, SendResultStep
  DEF WorkerStep
<1>5. ASSUME NEW f \in File, Edit(f) PROVE IInv'
  BY <1>5, EditStep
<1>6. CASE UNCHANGED vars
  BY <1>6, StutterStep
<1> QED BY <1>1, <1>2, <1>3, <1>4, <1>5, <1>6 DEF Next

\* So every state of a behaviour satisfies it.
LEMMA Invariant == Spec => []IInv
<1>1. Init => IInv
  BY InitIInv
<1>2. IInv /\ [Next]_vars => IInv'
  BY Inductive
<1> QED BY <1>1, <1>2, PTL DEF Spec

\* Every state of a scan is well typed, with any number of workers and files.
THEOREM TypeCorrect == Spec => []TypeOK
<1>1. IInv => TypeOK
  BY DEF IInv
<1> QED BY <1>1, Invariant, PTL

\* The cache never holds tags that were read from another content than the one they
\* are filed under, however the edits fall between the two fingerprints.
THEOREM Truth == Spec => []CacheTruthful
<1>1. IInv => CacheTruthful
  BY DEF IInv, TruthInv
<1> QED BY <1>1, Invariant, PTL

\* At most one row of the table is a file's.
LEMMA OneRow ==
  ASSUME IInv, NEW f \in File
  PROVE  Cardinality({i \in DOMAIN saved : saved[i].file = f}) <= 1
<1> DEFINE rows == {i \in DOMAIN saved : saved[i].file = f}
<1>1. saved \in Seq(Found) /\ Once(saved)
  BY DEF IInv, TypeOK, GotInv
<1>2. \A i \in DOMAIN saved : saved[i].fp # None
  <2> SUFFICES ASSUME NEW i \in DOMAIN saved PROVE saved[i].fp # None
    OBVIOUS
  <2>1. saved[i] \in Found
    BY <1>1, Indices
  <2>2. saved[i].fp \in Version
    BY <2>1 DEF Found
  <2> QED BY <2>2, Numbers
<1>3. \A i, j \in rows : i = j
  BY <1>1, <1>2 DEF Once
<1> HIDE DEF rows
<1>4. rows = {} \/ \E i : rows = {i}
  BY <1>3
<1>5. Cardinality(rows) <= 1
  <2>1. CASE rows = {}
    BY <2>1, FS_EmptySet
  <2>2. ASSUME NEW i, rows = {i} PROVE Cardinality(rows) <= 1
    <3>1. Cardinality({i}) = 1
      BY FS_Singleton
    <3> QED BY <2>2, <3>1
  <2> QED BY <1>4, <2>1, <2>2
<1> QED BY <1>5 DEF rows

\* A scan that says it is completed has saved each file once or warned about it,
\* whatever was cancelled, panicked or could not be written before.
THEOREM Honest == Spec => []HonestCompletion
<1>1. IInv => HonestCompletion
  <2> SUFFICES ASSUME IInv, status = "completed", NEW f \in File
               PROVE  /\ f \in warned \/ \E i \in DOMAIN saved : saved[i].file = f
                      /\ Cardinality({i \in DOMAIN saved : saved[i].file = f}) <= 1
    BY DEF HonestCompletion
  <2>1. Settled(f)
    BY DEF IInv, WriterPhase
  <2> QED BY <2>1, OneRow DEF Settled, SomeIn
<1> QED BY <1>1, Invariant, PTL
=============================================================================
