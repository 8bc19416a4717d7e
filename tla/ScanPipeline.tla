---------------------------- MODULE ScanPipeline ----------------------------
(***************************************************************************)
(* A scan (ScanUseCase::execute_started): one thread enumerates the files  *)
(* of the source, several workers read them, and the thread that was       *)
(* called writes what they found to the database in batches.  Two bounded  *)
(* channels couple them.  The user may cancel at any moment, goes on using *)
(* the files meanwhile, and every thread and every write may fail.         *)
(***************************************************************************)
EXTENDS Integers, Sequences, FiniteSets

CONSTANTS
  Files,      \* number of files, enumerated in this order
  Image,      \* those that are images, which have no tags
  Worker,     \* the worker threads
  Capacity,   \* of either channel
  Batch,      \* ScanOptions::batch_size
  MaxEdits,   \* bound on the user's edits of one file
  MaxFaults   \* bound on panics and failing writes

ASSUME ScanAssumption ==
  /\ Files \in Nat /\ Image \subseteq 1..Files
  /\ Worker # {} /\ Capacity \in Nat /\ Capacity >= Cardinality(Worker)
  /\ Batch \in Nat \ {0} /\ MaxEdits \in Nat /\ MaxFaults \in Nat

VARIABLES
  content,    \* a number for what each file holds; an edit makes a new one
  cancelled,  \* the CancellationToken
  walker,     \* the enumerating thread
  paths,      \* channel from the walker to the workers
  worker,     \* the workers
  results,    \* channel from the workers to the writer
  writer,     \* the thread that called execute_started
  status,     \* scan_runs.status
  saved,      \* scan_items, in the order of their ordinals
  warned,     \* files with a row in scan_warnings
  cache,      \* metadata_cache_entries with status "ok"
  faults

db == <<status, saved, warned, cache>>
vars == <<content, cancelled, walker, paths, worker, results, writer, db, faults>>

File == 1..Files
Version == 0..MaxEdits
None == -1                       \* no metadata
Cached == [file: File, fp: Version, meta: Version]
Found == [file: File, fp: Version, meta: Version \cup {None}]
Rec(f, fp, meta) == [file |-> f, fp |-> fp, meta |-> meta]
Warning(f) == Rec(f, None, None)
Result == Found \cup {Warning(f) : f \in File}
\* A worker that holds no file: 0 stands for none.
Resting == [pc |-> "recv", file |-> 0, fp |-> 0, meta |-> None, out |-> <<>>, then |-> "recv"]
Finishing == {"completed", "cancelled", "failed"}

TypeOK ==
  /\ content \in [File -> Version]
  /\ cancelled \in BOOLEAN
  /\ walker \in [pc: {"next", "send", "done", "failed", "panicked"}, file: 1..(Files + 1)]
  /\ paths \in Seq(File) /\ Len(paths) <= Capacity
  /\ worker \in [Worker -> [pc: {"recv", "taken", "read", "validate", "send", "done", "panicked"},
                            file: 0..Files, fp: Version, meta: Version \cup {None},
                            out: Seq(Result), then: {"recv", "read"}]]
  /\ results \in Seq(Result) /\ Len(results) <= Capacity
  /\ writer \in [pc: {"consume", "flush", "join", "last", "finish", "returned"},
                 batch: Seq(Found), status: {"running"} \cup Finishing]
  /\ Len(writer.batch) <= Batch /\ (writer.pc = "consume" => Len(writer.batch) < Batch)
  /\ status \in {"running"} \cup Finishing
  /\ saved \in Seq(Found) /\ warned \subseteq File /\ cache \subseteq Cached
  /\ faults \in 0..MaxFaults

\* The cache holds what an earlier scan read of the last file only.
Init ==
  /\ content = [f \in File |-> 0]
  /\ cancelled = FALSE
  /\ walker = [pc |-> "next", file |-> 1]
  /\ paths = <<>> /\ results = <<>>
  /\ worker = [w \in Worker |-> Resting]
  /\ writer = [pc |-> "consume", batch |-> <<>>, status |-> "running"]
  /\ status = "running" /\ saved = <<>> /\ warned = {}
  /\ cache = {Rec(f, 0, 0) : f \in (File \ Image) \cap {Files}}
  /\ faults = 0

----------------------------------------------------------------------------
Fault == faults < MaxFaults /\ faults' = faults + 1
NoFault == UNCHANGED faults

Ended(w) == worker[w].pc \in {"done", "panicked"}
AllEnded == \A w \in Worker : Ended(w)
WalkerEnded == walker.pc \in {"done", "failed", "panicked"}

\* The writer's own path_receiver lives until execute_started returns.
PathsOpen == writer.pc # "returned" \/ \E w \in Worker : ~Ended(w)
ResultsOpen == writer.pc # "returned"

\* Variant: the writer keeps its own result_sender.
ResultsClosed_Kept == FALSE

\* recv fails once the channel is empty and every sender is dropped.
ResultsClosed == results = <<>> /\ AllEnded
PathsClosed == paths = <<>> /\ WalkerEnded

----------------------------------------------------------------------------
(***************************************************************************)
(* The enumerating thread.                                                 *)
(***************************************************************************)
Walk(pc) == walker' = [walker EXCEPT !.pc = pc]

\* The visitor checks the token before it sends; a missing root is an error, and
\* the file system may panic.
EnumerateNext ==
  /\ walker.pc = "next"
  /\ \/ NoFault /\ Walk(IF walker.file > Files \/ cancelled THEN "done" ELSE "send")
     \/ walker.file = 1 /\ Fault /\ Walk("failed")
     \/ Fault /\ Walk("panicked")
  /\ UNCHANGED <<content, cancelled, paths, worker, results, writer, db>>

\* A send blocks while the channel is full, and fails once no receiver is left.
EnumerateSend ==
  /\ walker.pc = "send"
  /\ \/ /\ PathsOpen /\ Len(paths) < Capacity
        /\ paths' = Append(paths, walker.file)
        /\ walker' = [pc |-> "next", file |-> walker.file + 1]
     \/ ~PathsOpen /\ Walk("done") /\ UNCHANGED paths
  /\ UNCHANGED <<content, cancelled, worker, results, writer, db, faults>>

----------------------------------------------------------------------------
(***************************************************************************)
(* A worker.                                                               *)
(***************************************************************************)
Stop(w, pc) == worker' = [worker EXCEPT ![w] = [Resting EXCEPT !.pc = pc]]
Goto(w, pc) == worker' = [worker EXCEPT ![w].pc = pc]
Panic(w) == Fault /\ Stop(w, "panicked")
Send(w, fp, out, then) ==
  worker' = [worker EXCEPT ![w].pc = "send", ![w].fp = fp, ![w].out = out, ![w].then = then]

KeepOthers == UNCHANGED <<content, cancelled, walker, writer, db>>

Receive(w) ==
  /\ worker[w].pc = "recv"
  /\ \/ /\ paths # <<>>
        /\ worker' = [worker EXCEPT ![w].pc = "taken", ![w].file = Head(paths)]
        /\ paths' = Tail(paths)
     \/ PathsClosed /\ Stop(w, "done") /\ UNCHANGED paths
  /\ KeepOthers /\ UNCHANGED <<results, faults>>

\* A cancelled worker drops the file it has taken.  An entry that cannot be listed
\* ends like one that cannot be fingerprinted.  A cache that cannot be read is a
\* warning, and the tags are read instead.
Fingerprint(w) ==
  LET f == worker[w].file
      hits == {c \in cache : c.file = f /\ c.fp = content[f]}
  IN  /\ worker[w].pc = "taken"
      /\ \/ cancelled /\ Stop(w, "done") /\ NoFault
         \/ ~cancelled /\ Panic(w)
         \/ ~cancelled /\ NoFault /\ Send(w, 0, <<Warning(f)>>, "recv")
         \/ /\ ~cancelled /\ NoFault /\ f \in Image
            /\ Send(w, 0, <<Rec(f, content[f], None)>>, "recv")
         \/ /\ ~cancelled /\ NoFault /\ f \notin Image
            /\ \/ Send(w, content[f], <<Warning(f)>>, "read")
               \/ \E c \in hits : Send(w, 0, <<c>>, "recv")
               \/ hits = {} /\ worker' = [worker EXCEPT ![w].pc = "read", ![w].fp = content[f]]
  /\ KeepOthers /\ UNCHANGED <<paths, results>>

\* metadata.read: a file without readable tags is warned about and recorded.
ReadMetadata(w) ==
  LET f == worker[w].file
      fp == worker[w].fp
  IN  /\ worker[w].pc = "read"
      /\ \/ Panic(w)
         \/ NoFault /\ Send(w, 0, <<Warning(f), Rec(f, fp, None)>>, "recv")
         \/ /\ NoFault
            /\ worker' = [worker EXCEPT ![w].pc = "validate", ![w].meta = content[f]]
  /\ KeepOthers /\ UNCHANGED <<paths, results>>

\* Variant: the fingerprint is not taken again.
Validate_Once(w) ==
  LET f == worker[w].file
  IN  /\ worker[w].pc = "validate"
      /\ Send(w, 0, <<Rec(f, worker[w].fp, worker[w].meta)>>, "recv")
      /\ KeepOthers /\ UNCHANGED <<paths, results, faults>>

\* Tags are not stored under a fingerprint from before an edit.
Validate(w) ==
  LET f == worker[w].file
  IN  /\ worker[w].pc = "validate"
      /\ \/ /\ content[f] = worker[w].fp
            /\ Send(w, 0, <<Rec(f, worker[w].fp, worker[w].meta)>>, "recv")
         \/ Send(w, 0, <<Warning(f)>>, "recv")
      /\ KeepOthers /\ UNCHANGED <<paths, results, faults>>

\* Results are sent one by one; a send to a writer that is gone is ignored.
SendResult(w) ==
  LET out == worker[w].out
      then == worker[w].then
  IN  /\ worker[w].pc = "send"
      /\ \/ ResultsOpen /\ Len(results) < Capacity /\ results' = Append(results, Head(out))
         \/ ~ResultsOpen /\ UNCHANGED results
      /\ worker' = [worker EXCEPT ![w] =
                       IF Len(out) > 1 THEN [@ EXCEPT !.out = Tail(out)]
                       ELSE IF then = "recv" THEN Resting
                       ELSE [@ EXCEPT !.pc = then, !.out = <<>>, !.then = "recv"]]
      /\ KeepOthers /\ UNCHANGED <<paths, faults>>

----------------------------------------------------------------------------
(***************************************************************************)
(* The writer.                                                             *)
(***************************************************************************)
KeepThreads == UNCHANGED <<content, walker, worker>>

\* finish_scan: only a running scan gets a status.
Finishes(s) == status' = IF status = "running" THEN s ELSE status

\* An error cancels the threads; the scan is to end as failed, and what the channels
\* still hold is lost.
Abandon ==
  /\ cancelled' = TRUE
  /\ writer' = [writer EXCEPT !.pc = "finish", !.status = "failed"]
  /\ UNCHANGED <<paths, results, db>>

\* consume_scan_results, up to the end of the channel.
Consume ==
  /\ writer.pc = "consume"
  /\ \/ /\ results # <<>> /\ Head(results).fp # None /\ NoFault
        /\ LET batch == Append(writer.batch, Head(results))
           IN  writer' = [writer EXCEPT !.batch = batch,
                            !.pc = IF Len(batch) >= Batch THEN "flush" ELSE "consume"]
        /\ results' = Tail(results)
        /\ UNCHANGED <<cancelled, paths, db>>
     \/ /\ results # <<>> /\ Head(results).fp = None /\ NoFault
        /\ warned' = warned \cup {Head(results).file}
        /\ results' = Tail(results)
        /\ UNCHANGED <<cancelled, paths, writer, status, saved, cache>>
     \/ results # <<>> /\ Head(results).fp = None /\ Fault /\ Abandon
     \/ /\ ResultsClosed /\ NoFault
        /\ writer' = [writer EXCEPT !.pc = "join"]
        /\ UNCHANGED <<cancelled, paths, results, db>>
  /\ KeepThreads

\* save_batch: the items and what the cache learns from them, in one transaction.
SaveBatch ==
  /\ saved' = saved \o writer.batch
  /\ cache' = cache \cup {writer.batch[i] : i \in {j \in DOMAIN writer.batch : writer.batch[j].meta # None}}

\* Variant: the batch is not cleared.
Flush_Keep ==
  /\ writer.pc = "flush"
  /\ \/ /\ SaveBatch /\ NoFault
        /\ writer' = [writer EXCEPT !.pc = "consume"]
        /\ UNCHANGED <<status, warned, cancelled, paths, results>>
     \/ Fault /\ Abandon
  /\ KeepThreads

Flush ==
  /\ writer.pc = "flush"
  /\ \/ /\ SaveBatch /\ NoFault
        /\ writer' = [writer EXCEPT !.pc = "consume", !.batch = <<>>]
        /\ UNCHANGED <<status, warned, cancelled, paths, results>>
     \/ Fault /\ Abandon
  /\ KeepThreads

\* Variant: a worker that panicked is not noticed.
Join_Walker ==
  /\ writer.pc = "join" /\ WalkerEnded
  /\ writer' = IF walker.pc # "done"
               THEN [writer EXCEPT !.pc = "finish", !.status = "failed"]
               ELSE [writer EXCEPT !.pc = "last"]
  /\ KeepThreads /\ UNCHANGED <<cancelled, paths, results, db, faults>>

\* The walker is joined, then the workers; one that failed fails the scan.
Join ==
  /\ writer.pc = "join" /\ WalkerEnded
  /\ writer' = IF walker.pc # "done" \/ \E w \in Worker : worker[w].pc = "panicked"
               THEN [writer EXCEPT !.pc = "finish", !.status = "failed"]
               ELSE [writer EXCEPT !.pc = "last"]
  /\ KeepThreads /\ UNCHANGED <<cancelled, paths, results, db, faults>>

\* The rest of the records, then the status the token asks for.
LastBatch ==
  /\ writer.pc = "last"
  /\ \/ /\ SaveBatch /\ NoFault
        /\ writer' = [writer EXCEPT !.pc = "finish", !.batch = <<>>,
                         !.status = IF cancelled THEN "cancelled" ELSE "completed"]
     \/ /\ writer.batch # <<>> /\ Fault
        /\ writer' = [writer EXCEPT !.pc = "finish", !.status = "failed"]
        /\ UNCHANGED <<saved, cache>>
  /\ KeepThreads /\ UNCHANGED <<status, warned, cancelled, paths, results>>

\* The scan returns whether finish_scan succeeds or not.
FinishScan ==
  /\ writer.pc = "finish"
  /\ \/ NoFault /\ Finishes(writer.status)
     \/ Fault /\ UNCHANGED status
  /\ writer' = [writer EXCEPT !.pc = "returned"]
  /\ KeepThreads /\ UNCHANGED <<cancelled, paths, results, saved, warned, cache>>

----------------------------------------------------------------------------
Cancel ==
  /\ writer.pc # "returned" /\ ~cancelled
  /\ cancelled' = TRUE
  /\ UNCHANGED <<content, walker, paths, worker, results, writer, db, faults>>

\* The user writes other tags into a file; later edits would not be seen.
Edit(f) ==
  /\ writer.pc = "consume" /\ \A g \in File : content[g] < MaxEdits
  /\ content' = [content EXCEPT ![f] = @ + 1]
  /\ UNCHANGED <<cancelled, walker, paths, worker, results, writer, db, faults>>

WalkerStep == EnumerateNext \/ EnumerateSend
WorkerStep(w) ==
  Receive(w) \/ Fingerprint(w) \/ ReadMetadata(w) \/ Validate(w) \/ SendResult(w)
WriterStep == Consume \/ Flush \/ Join \/ LastBatch \/ FinishScan

Next ==
  \/ WalkerStep \/ WriterStep \/ Cancel
  \/ \E w \in Worker : WorkerStep(w)
  \/ \E f \in File : Edit(f)

Spec == Init /\ [][Next]_vars

\* The threads of a living process are scheduled.
FairSpec ==
  /\ Spec
  /\ WF_vars(WalkerStep) /\ WF_vars(WriterStep)
  /\ \A w \in Worker : WF_vars(WorkerStep(w))

----------------------------------------------------------------------------
(***************************************************************************)
(* Properties.                                                             *)
(***************************************************************************)
\* A completed scan left no file out: each is saved once, or a warning names it,
\* whatever was cancelled, panicked or failed to be written meanwhile.
HonestCompletion ==
  status = "completed" =>
    \A f \in File :
      /\ f \in warned \/ \E i \in DOMAIN saved : saved[i].file = f
      /\ Cardinality({i \in DOMAIN saved : saved[i].file = f}) <= 1

\* Tags in the cache were read from the very content they are filed under, though
\* the user edits files between the reads; a later scan trusts them.
CacheTruthful == \A c \in cache : c.meta = c.fp

\* No worker is left to take from the full channel the walker is blocked on, and
\* the writer, which holds the channel open, waits for the walker.
Wedged == /\ AllEnded /\ Len(paths) = Capacity
          /\ walker.pc = "send" /\ writer.pc = "join"

\* A scan returns, whatever fails or is cancelled, and leaves no thread behind;
\* unless its workers ended early while the walker was blocked.
ScanReturns ==
  <>(Wedged \/ (writer.pc = "returned" /\ AllEnded /\ WalkerEnded))

\* library-workflow-requirements.ja.md:49: a run whose worker fails after it
\* started is ended; it can be only by the writer, which has to come to its end.
WorkerFailureEnds == <>(writer.pc = "returned")
=============================================================================
