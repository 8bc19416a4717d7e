-------------------------- MODULE DesktopJobs_proofs --------------------------
(***************************************************************************)
(* Proofs about DesktopJobs, for any number of jobs, runs and generations  *)
(* and any limit of the registry.                                          *)
(*                                                                         *)
(* A thread that works is the one the session names (Owned), reservations  *)
(* belong to who is at work (Reserved), and those who reserve exclude each *)
(* other (Exclusive); so nothing moves under a job, and what it was given  *)
(* and what it returns fits the session (JobsFit).  The history is a       *)
(* forest that is deleted and archived by trees (Forest), which is why a   *)
(* late history entry is safe as long as the generation is (Expected).     *)
(* IInv collects these.                                                    *)
(***************************************************************************)
EXTENDS DesktopJobs, FiniteSetTheorems, TLAPS

\* The thread between the beginning of a job and its last step in the session.
AtWork(j) == thread[j].pc \in {"working", "session"}
Alive(j) == AtWork(j) \/ thread[j].pc = "registry"

\* The session names the job that is at work, and no other is.
Owned ==
  /\ session.job # 0 => session.job = session.latest /\ AtWork(session.job)
  /\ session.mutating => session.job # 0
  /\ \A j \in Job : AtWork(j) =>
       session.job = j /\ session.generation = thread[j].generation

\* Each reservation belongs to somebody who will give it back, or is lost.
Reserved ==
  /\ \A j \in Job : mutation = j => Alive(j)
  /\ mutation = Recovering <=> command.pc \in {"recover", "commit", "drop"}
  /\ reader = "scan" <=> scan.pc # "idle"
  /\ reader = "doctor" <=> doctor # "idle"

\* Readers, recoveries and jobs exclude each other.
Exclusive ==
  /\ reader # None => session.job = 0 /\ mutation = Free
  /\ mutation = Recovering => session.job = 0

\* The registry has the snapshot of every thread that lives, and of the latest job.
Registered ==
  /\ \A j \in Job : Alive(j) => j \in DOMAIN jobs
  /\ \A j \in DOMAIN jobs : jobs[j].status = "running" <=> Alive(j)
  /\ \A j \in DOMAIN jobs : thread[j].pc # "none"
  /\ \A j \in DOMAIN jobs : jobs[j].generation = thread[j].generation
  /\ \A j \in DOMAIN jobs : jobs[j].generation <= session.generation
  /\ session.latest # 0 => session.latest \in DOMAIN jobs

\* The history is a forest of scans, plans and apply runs.
Forest ==
  /\ \A r \in DOMAIN runs : runs[r].kind # "scan" => runs[r].parent \in DOMAIN runs
  /\ \A r \in DOMAIN runs : runs[r].kind = "plan" => runs[runs[r].parent].kind = "scan"
  /\ \A r \in DOMAIN runs : runs[r].kind = "apply" => runs[runs[r].parent].kind = "plan"
  /\ \A r \in DOMAIN runs : r \in deleted <=> ScanOf(r) \in deleted
  /\ \A r \in DOMAIN runs : r \in archived <=> ScanOf(r) \in archived

\* What a job works on is what the session shows, and what it returns fits there.
JobsFit ==
  /\ \A j \in Job : AtWork(j) =>
       /\ ~session.view_only
       /\ thread[j].kind \in Kinds /\ thread[j].input # 0
       /\ thread[j].input = Subject(thread[j].kind)
  /\ \A j \in Job : thread[j].pc = "working" => thread[j].run = 0 /\ ~thread[j].ok
  /\ \A j \in Job : thread[j].pc = "session" /\ thread[j].run # 0 =>
       /\ thread[j].run \in DOMAIN runs \ (deleted \cup archived)
       /\ thread[j].kind \in {"plan", "revision"} =>
            runs[thread[j].run] = [kind |-> "plan", parent |-> session.scan]
       /\ thread[j].kind = "apply" => runs[thread[j].run] = [kind |-> "apply", parent |-> session.plan]
  /\ \A j \in Job : thread[j].pc = "session" =>
       (thread[j].ok /\ thread[j].kind \in {"plan", "revision", "apply"} <=> thread[j].run # 0)
  /\ \A j \in Job :
       j = session.latest /\ thread[j].pc \in {"registry", "ended"}
         /\ thread[j].generation = session.generation
       => thread[j].run \in {0, session.plan, session.execution}

\* What a scan returns is there, and newer than what any job returned.
ScanFits ==
  /\ scan.pc # "idle" => \A j \in DOMAIN jobs : jobs[j].generation < scan.generation
  /\ scan.pc # "idle" /\ scan.run # 0 =>
       scan.run \in DOMAIN runs \ deleted /\ runs[scan.run].kind = "scan"

\* What was read of the history still holds if the generation does.
Expected ==
  /\ command.pc \in {"activate", "authorize"} =>
       command.expected <= session.generation /\ command.run \in DOMAIN runs
  /\ command.pc = "activate" /\ command.expected = session.generation =>
       command.run \notin deleted /\ (command.run \in archived => command.archived)
  /\ command.pc \in {"recover", "commit"} => session.generation < MaxGeneration

IInv ==
  /\ TypeOK
  /\ Owned
  /\ Reserved
  /\ Exclusive
  /\ Registered
  /\ Forest
  /\ JobsFit
  /\ ScanFits
  /\ Expected
  /\ ContextConsistent

USE DesktopAssumption DEF session_vars, None, DoctorPhase

----------------------------------------------------------------------------
\* The marks of the reservation are no jobs.
LEMMA Marks == Free \notin Job /\ Recovering \notin Job /\ Free # Recovering /\ 0 \notin Job
BY DEF Free, Recovering, Job

\* Of the types of the variables.
LEMMA Typed ==
  ASSUME TypeOK
  PROVE  /\ session.generation \in 0..MaxGeneration /\ session.job \in 0..MaxJobs
         /\ session.latest \in 0..MaxJobs /\ session.mutating \in BOOLEAN
         /\ session.scanning \in BOOLEAN /\ session.view_only \in BOOLEAN
         /\ session.scan \in 0..MaxRuns /\ session.plan \in 0..MaxRuns /\ session.execution \in 0..MaxRuns
         /\ scan.generation \in 0..MaxGeneration /\ scan.run \in 0..MaxRuns
         /\ command.expected \in 0..MaxGeneration /\ command.run \in 0..MaxRuns
         /\ \A j \in Job : /\ thread[j] \in Thread
                           /\ thread[j].generation \in 0..MaxGeneration
                           /\ thread[j].run \in 0..MaxRuns /\ thread[j].input \in 0..MaxRuns
         /\ DOMAIN runs = 1..Len(runs) /\ Len(runs) \in 0..MaxRuns
         /\ \A r \in DOMAIN runs : runs[r] \in Entry
<1>1. /\ session.generation \in 0..MaxGeneration /\ session.job \in 0..MaxJobs
      /\ session.latest \in 0..MaxJobs /\ session.mutating \in BOOLEAN
      /\ session.scanning \in BOOLEAN /\ session.view_only \in BOOLEAN
      /\ session.scan \in 0..MaxRuns /\ session.plan \in 0..MaxRuns /\ session.execution \in 0..MaxRuns
  BY DEF TypeOK, Session
<1>2. /\ scan.generation \in 0..MaxGeneration /\ scan.run \in 0..MaxRuns
      /\ command.expected \in 0..MaxGeneration /\ command.run \in 0..MaxRuns
  BY DEF TypeOK, Scan, Command
<1>3. \A j \in Job : thread[j] \in Thread
  BY DEF TypeOK
<1>4. \A j \in Job : /\ thread[j].generation \in 0..MaxGeneration
                     /\ thread[j].run \in 0..MaxRuns /\ thread[j].input \in 0..MaxRuns
  BY <1>3 DEF Thread
<1>5. runs \in Seq(Entry) /\ Len(runs) <= MaxRuns
  BY DEF TypeOK
<1>6. /\ DOMAIN runs = 1..Len(runs) /\ Len(runs) \in 0..MaxRuns
      /\ \A r \in DOMAIN runs : runs[r] \in Entry
  BY <1>5
<1> QED BY <1>1, <1>2, <1>3, <1>4, <1>6

\* What an idle session shows.
Shows(s, g, scanning, a, p, x, v) ==
  /\ s \in Session
  /\ s.generation = g /\ s.scanning = scanning /\ s.job = 0 /\ s.latest = 0 /\ ~s.mutating
  /\ s.scan = a /\ s.plan = p /\ s.execution = x /\ s.view_only = v

\* A new session is one, and shows what it is told to.
LEMMA Shown ==
  ASSUME NEW g \in 0..MaxGeneration
  PROVE  /\ Shows(NewSession(g), g, FALSE, 0, 0, 0, FALSE)
         /\ Shows([NewSession(g) EXCEPT !.scanning = TRUE], g, TRUE, 0, 0, 0, FALSE)
         /\ \A a, p, x \in 0..MaxRuns : \A v \in BOOLEAN :
              /\ Shows([NewSession(g) EXCEPT !.scan = a], g, FALSE, a, 0, 0, FALSE)
              /\ Shows([NewSession(g) EXCEPT !.scan = a, !.plan = p, !.execution = x, !.view_only = v],
                       g, FALSE, a, p, x, v)
<1>0. 0 \in 0..MaxJobs /\ 0 \in 0..MaxRuns /\ TRUE \in BOOLEAN /\ FALSE \in BOOLEAN
  OBVIOUS
<1>1. PICK n \in Session : n = NewSession(g)
  BY <1>0 DEF Session, NewSession
<1>2. Shows(n, g, FALSE, 0, 0, 0, FALSE)
  BY <1>1 DEF NewSession, Shows
<1>3. Shows([n EXCEPT !.scanning = TRUE], g, TRUE, 0, 0, 0, FALSE)
  BY <1>0, <1>2 DEF Session, Shows
<1>4. ASSUME NEW a \in 0..MaxRuns, NEW p \in 0..MaxRuns, NEW x \in 0..MaxRuns, NEW v \in BOOLEAN
      PROVE  /\ Shows([n EXCEPT !.scan = a], g, FALSE, a, 0, 0, FALSE)
             /\ Shows([n EXCEPT !.scan = a, !.plan = p, !.execution = x, !.view_only = v],
                      g, FALSE, a, p, x, v)
  BY <1>0, <1>2 DEF Session, Shows
<1> QED BY <1>1, <1>2, <1>3, <1>4

\* The bound on generations leaves room for one more.
LEMMA NextGeneration ==
  ASSUME TypeOK, session.generation < MaxGeneration
  PROVE  session.generation + 1 \in 0..MaxGeneration
<1>1. session.generation \in 0..MaxGeneration /\ MaxGeneration \in Nat
  BY DEF TypeOK, Session
<1> QED BY ONLY <1>1, session.generation < MaxGeneration

\* No entry of the history has the number 0, which stands for none.
LEMMA NoZero ==
  ASSUME TypeOK
  PROVE  0 \notin DOMAIN runs /\ 0 \notin deleted /\ 0 \notin archived
<1>1. DOMAIN runs = 1..Len(runs) /\ Len(runs) \in 0..MaxRuns
  BY Typed
<1>2. deleted \subseteq DOMAIN runs /\ archived \subseteq DOMAIN runs
  BY DEF TypeOK
<1>3. 0 \notin DOMAIN runs
  BY <1>1
<1> QED BY <1>2, <1>3

\* Pruning keeps the snapshots of the jobs that run.
LEMMA Pruning ==
  /\ DOMAIN Prune(jobs) \subseteq DOMAIN jobs
  /\ \A j \in DOMAIN jobs : jobs[j].status = "running" => j \in DOMAIN Prune(jobs)
<1>1. \/ Prune(jobs) = jobs
      \/ Prune(jobs) = [j \in {k \in DOMAIN jobs : jobs[k].status = "running"
                            \/ Cardinality({i \in Terminal(jobs) : i < k}) >= Pruned} |-> jobs[j]]
  BY DEF Prune
<1> QED BY <1>1

\* Whoever finds no reservation and no job finds nobody at work.
LEMMA NobodyAtWork ==
  ASSUME IInv, NoReservation, session.job = 0
  PROVE  /\ \A j \in Job : ~AtWork(j)
         /\ scan.pc = "idle" /\ doctor = "idle"
         /\ command.pc \notin {"recover", "commit", "drop"}
         /\ ~session.mutating
<1>1. \A j \in Job : ~AtWork(j)
  BY Marks DEF IInv, Owned
<1>2. scan.pc = "idle" /\ doctor = "idle" /\ command.pc \notin {"recover", "commit", "drop"}
  BY Marks DEF IInv, Reserved, NoReservation
<1> QED BY <1>1, <1>2 DEF IInv, Owned

\* While a reader or a recovery is at work, no job is.
LEMMA NoJobAtWork ==
  ASSUME IInv, scan.pc # "idle" \/ doctor # "idle" \/ command.pc \in {"recover", "commit", "drop"}
  PROVE  session.job = 0 /\ \A j \in Job : ~AtWork(j)
<1>1. session.job = 0
  BY DEF IInv, Reserved, Exclusive
<1> QED BY <1>1, Marks DEF IInv, Owned

----------------------------------------------------------------------------
\* A new backend has no jobs, no reservations and an empty session.
LEMMA InitIInv == Init => IInv
<1> SUFFICES ASSUME Init PROVE IInv
  OBVIOUS
<1>1. /\ session = NewSession(0) /\ DOMAIN jobs = {} /\ mutation = Free /\ reader = "none"
      /\ scan = NoScan /\ doctor = "idle" /\ command = NoCommand
      /\ \A j \in Job : thread[j] = NoThread
      /\ caps = {} /\ deleted = {} /\ archived = {}
  BY DEF Init
<1>2. /\ DOMAIN runs = 1..3 /\ Len(runs) = 3 /\ runs \in Seq(Entry)
      /\ runs[1] = [kind |-> "scan", parent |-> 0]
      /\ runs[2] = [kind |-> "plan", parent |-> 1]
      /\ runs[3] = [kind |-> "apply", parent |-> 2]
  BY DEF Init, Entry
<1>3. TypeOK
  <2>1. session \in Session
    BY <1>1 DEF NewSession, Session
  <2>2. scan \in Scan /\ command \in Command
    BY <1>1 DEF NoScan, Scan, NoCommand, Command
  <2>3. thread \in [Job -> Thread]
    BY DEF Init, NoThread, Thread
  <2>4. jobs \in [DOMAIN jobs -> Snapshot]
    BY DEF Init
  <2> QED BY <1>1, <1>2, <2>1, <2>2, <2>3, <2>4 DEF TypeOK, NewSession
<1>4. \A j \in Job : ~AtWork(j) /\ ~Alive(j)
  BY <1>1 DEF AtWork, Alive, NoThread
<1>5. Owned /\ Reserved /\ Exclusive
  BY <1>1, <1>4, Marks DEF Owned, Reserved, Exclusive, NewSession, NoScan, NoCommand
<1>6. Registered
  BY <1>1, <1>4 DEF Registered, NewSession
<1>7. Forest
  <2>1. \A r \in DOMAIN runs : r = 1 \/ r = 2 \/ r = 3
    BY <1>2
  <2> QED BY <1>1, <1>2, <2>1 DEF Forest, ScanOf
<1>8. JobsFit /\ ScanFits
  BY <1>1, <1>4, Marks DEF JobsFit, ScanFits, NewSession, NoScan, NoThread
<1>9. Expected /\ ContextConsistent
  BY <1>1 DEF Expected, ContextConsistent, NoCommand, NewSession
<1> QED BY <1>3, <1>5, <1>6, <1>7, <1>8, <1>9 DEF IInv

----------------------------------------------------------------------------
(***************************************************************************)
(* What stays when its variables do.                                       *)
(***************************************************************************)
LEMMA JobsKept ==
  ASSUME Owned, Registered, UNCHANGED <<session, jobs, thread>>
  PROVE  Owned' /\ Registered' /\ \A j \in Job : AtWork(j)' = AtWork(j) /\ Alive(j)' = Alive(j)
<1>1. \A j \in Job : AtWork(j)' = AtWork(j) /\ Alive(j)' = Alive(j)
  BY DEF AtWork, Alive
<1>2. Owned'
  BY DEF Owned, AtWork
<1>3. Registered'
  BY <1>1 DEF Registered, Alive, AtWork
<1> QED BY <1>1, <1>2, <1>3

\* The registry stays right for whatever a session becomes that does not go back.
LEMMA RegisteredKept ==
  ASSUME Registered, UNCHANGED <<jobs, thread>>, session'.latest \in {0, session.latest},
         \A j \in DOMAIN jobs : jobs[j].generation <= session'.generation
  PROVE  Registered'
<1>1. \A j \in Job : Alive(j)' = Alive(j)
  BY DEF Alive, AtWork
<1>2. /\ \A j \in Job : Alive(j) => j \in DOMAIN jobs
      /\ \A j \in DOMAIN jobs : jobs[j].status = "running" <=> Alive(j)
      /\ \A j \in DOMAIN jobs : jobs[j].generation = thread[j].generation
      /\ session'.latest # 0 => session'.latest \in DOMAIN jobs
  BY DEF Registered
<1>3. /\ \A j \in DOMAIN jobs : jobs[j].status = "running" <=> Alive(j)'
      /\ \A j \in DOMAIN jobs : thread[j].pc # "none"
  BY <1>2 DEF Registered, Alive, AtWork
<1> QED BY <1>1, <1>2, <1>3 DEF Registered

\* What the session shows stays there as long as neither it nor the history changes.
LEMMA HistoryKept ==
  ASSUME Forest, ContextConsistent, UNCHANGED <<session, runs, deleted, archived>>
  PROVE  Forest' /\ ContextConsistent'
BY DEF Forest, ScanOf, ContextConsistent

\* What the jobs work on stays what the session shows.
LEMMA JobsFitKept ==
  ASSUME JobsFit, UNCHANGED <<session, thread, runs, deleted, archived>>
  PROVE  JobsFit'
BY DEF JobsFit, AtWork, Subject

\* A scan or a diagnosis goes on, and reserves or releases nothing.
LEMMA ReaderStep ==
  ASSUME IInv, UNCHANGED <<session, jobs, mutation, reader, command, thread, caps, runs, deleted, archived>>,
         scan' \in Scan, doctor' \in DoctorPhase,
         scan.pc = "idle" <=> scan'.pc = "idle", doctor = "idle" <=> doctor' = "idle",
         scan'.generation = scan.generation, scan'.run \in {0, scan.run}
  PROVE  IInv'
<1> USE DEF IInv
<1>1. TypeOK'
  BY DEF TypeOK
<1>2. Owned' /\ Registered' /\ \A j \in Job : AtWork(j)' = AtWork(j) /\ Alive(j)' = Alive(j)
  BY JobsKept
<1>3. Reserved' /\ Exclusive'
  BY <1>2 DEF Reserved, Exclusive
<1>4. Forest' /\ ContextConsistent'
  BY HistoryKept
<1>5. JobsFit' /\ ScanFits'
  BY JobsFitKept, <1>2 DEF ScanFits
<1>6. Expected'
  BY DEF Expected
<1> QED BY <1>1, <1>2, <1>3, <1>4, <1>5, <1>6

\* A command goes on without touching session or reservations.
LEMMA CommandStep ==
  ASSUME IInv, UNCHANGED <<session, jobs, mutation, reader, scan, doctor, thread, runs, deleted, archived>>,
         caps' \subseteq [plan: Run, generation: 0..MaxGeneration],
         command' \in Command, Expected',
         command'.pc \in {"recover", "commit", "drop"} <=> command.pc \in {"recover", "commit", "drop"}
  PROVE  IInv'
<1> USE DEF IInv
<1>1. TypeOK'
  BY DEF TypeOK
<1>2. Owned' /\ Registered' /\ \A j \in Job : AtWork(j)' = AtWork(j) /\ Alive(j)' = Alive(j)
  BY JobsKept
<1>3. Reserved' /\ Exclusive'
  BY <1>2 DEF Reserved, Exclusive
<1>4. Forest' /\ ContextConsistent'
  BY HistoryKept
<1>5. JobsFit' /\ ScanFits'
  BY JobsFitKept, <1>2 DEF ScanFits
<1> QED BY <1>1, <1>2, <1>3, <1>4, <1>5

\* The history grows by a scan, or by a run under one that is neither deleted nor
\* archived.
LEMMA Grows ==
  ASSUME IInv, NEW kind \in {"scan", "plan", "apply"}, NEW parent \in 0..MaxRuns, Len(runs) < MaxRuns,
         Add(kind, parent), UNCHANGED <<session, deleted, archived>>,
         kind # "scan" => parent \in DOMAIN runs \ (deleted \cup archived),
         kind = "plan" => runs[parent].kind = "scan",
         kind = "apply" => runs[parent].kind = "plan"
  PROVE  /\ runs' \in Seq(Entry) /\ Len(runs') <= MaxRuns
         /\ DOMAIN runs \subseteq DOMAIN runs'
         /\ Len(runs) + 1 \in DOMAIN runs' \ (deleted \cup archived)
         /\ Len(runs) + 1 \in 1..MaxRuns
         /\ runs'[Len(runs) + 1] = [kind |-> kind, parent |-> parent]
         /\ \A r \in DOMAIN runs : runs'[r] = runs[r]
         /\ Forest' /\ ContextConsistent'
<1> USE DEF IInv
<1>0. PICK new : new = Len(runs) + 1
  OBVIOUS
<1>1. runs \in Seq(Entry) /\ Len(runs) \in Nat /\ DOMAIN runs = 1..Len(runs)
  BY Typed DEF TypeOK
<1>2. [kind |-> kind, parent |-> parent] \in Entry
  BY DEF Entry
<1>3. /\ runs' \in Seq(Entry) /\ Len(runs') = new /\ DOMAIN runs' = 1..new
      /\ \A r \in DOMAIN runs : runs'[r] = runs[r]
      /\ runs'[new] = [kind |-> kind, parent |-> parent]
  BY <1>0, <1>1, <1>2 DEF Add
<1>4. /\ new \notin DOMAIN runs /\ new \in DOMAIN runs' /\ new \in 1..MaxRuns
      /\ DOMAIN runs' = DOMAIN runs \cup {new}
      /\ Len(runs') <= MaxRuns
  BY <1>0, <1>1, <1>3
<1>5. new \notin deleted \cup archived /\ deleted \subseteq DOMAIN runs /\ archived \subseteq DOMAIN runs
  BY <1>4 DEF TypeOK
<1>6. ASSUME NEW r \in DOMAIN runs
      PROVE  ScanOf(r)' = ScanOf(r) /\ ScanOf(r) \in DOMAIN runs
  <2>1. runs[r] \in Entry
    BY <1>1
  <2>2. runs[r].kind \in {"scan", "plan", "apply"}
    BY <2>1 DEF Entry
  <2> QED BY <1>3, <2>2 DEF Forest, ScanOf
<1>7. ScanOf(new)' = IF kind = "scan" THEN new ELSE ScanOf(parent)
  BY <1>3, <1>6 DEF ScanOf
<1>8. Forest'
  <2>1. /\ \A r \in DOMAIN runs' : runs'[r].kind # "scan" => runs'[r].parent \in DOMAIN runs'
        /\ \A r \in DOMAIN runs' : runs'[r].kind = "plan" => runs'[runs'[r].parent].kind = "scan"
        /\ \A r \in DOMAIN runs' : runs'[r].kind = "apply" => runs'[runs'[r].parent].kind = "plan"
    <3> SUFFICES ASSUME NEW r \in DOMAIN runs'
                 PROVE  /\ runs'[r].kind # "scan" => runs'[r].parent \in DOMAIN runs'
                        /\ runs'[r].kind = "plan" => runs'[runs'[r].parent].kind = "scan"
                        /\ runs'[r].kind = "apply" => runs'[runs'[r].parent].kind = "plan"
      OBVIOUS
    <3>1. CASE r = new
      BY <1>3, <1>4, <3>1
    <3>2. CASE r \in DOMAIN runs
      BY <1>3, <1>4, <3>2 DEF Forest
    <3> QED BY <1>4, <3>1, <3>2
  <2>2. \A r \in DOMAIN runs' : (r \in deleted <=> ScanOf(r)' \in deleted) /\ (r \in archived <=> ScanOf(r)' \in archived)
    <3>1. \A r \in DOMAIN runs : (r \in deleted <=> ScanOf(r)' \in deleted) /\ (r \in archived <=> ScanOf(r)' \in archived)
      BY <1>6 DEF Forest
    <3>2. kind # "scan" => ScanOf(parent) \notin deleted \cup archived
      BY DEF Forest
    <3> QED BY <1>4, <1>5, <1>7, <3>1, <3>2
  <2> QED BY <2>1, <2>2 DEF Forest
<1>9. ContextConsistent'
  BY <1>3 DEF ContextConsistent, TypeOK
<1> QED BY <1>0, <1>3, <1>4, <1>5, <1>8, <1>9

----------------------------------------------------------------------------
(***************************************************************************)
(* Scans and diagnoses.                                                    *)
(***************************************************************************)
LEMMA ReaderTalkStep ==
  ASSUME IInv, CancelScan \/ ScanReport \/ ScanStatus \/ ScanLost \/ DoctorWork \/ DoctorLost
  PROVE  IInv'
<1>1. /\ UNCHANGED <<session, jobs, mutation, reader, command, thread, caps, runs, deleted, archived>>
      /\ scan \in Scan /\ doctor \in DoctorPhase
  BY DEF CancelScan, ScanReport, ScanStatus, ScanLost, DoctorWork, DoctorLost, IInv, TypeOK
<1>2. CASE CancelScan
  BY <1>1, <1>2, ReaderStep DEF CancelScan, Scan
<1>3. CASE ScanReport
  <2>1. PICK e \in {"failed", "cancelled", "completed"}, q \in {0, scan.run} :
          scan' = [scan EXCEPT !.pc = "session", !.entry = e, !.run = q]
    BY <1>3 DEF ScanReport
  <2>2. q \in 0..MaxRuns
    BY <1>1 DEF Scan
  <2>3. scan' \in Scan /\ scan'.pc = "session" /\ scan'.generation = scan.generation /\ scan'.run = q
    BY <1>1, <2>1, <2>2 DEF Scan
  <2> QED BY <1>1, <1>3, <2>3, ReaderStep DEF ScanReport
<1>4. CASE ScanStatus
  BY <1>1, <1>4, ReaderStep DEF ScanStatus, Scan
<1>5. CASE DoctorWork \/ DoctorLost
  BY <1>1, <1>5, ReaderStep DEF DoctorWork, DoctorLost, Scan
<1>6. CASE ScanLost
  BY <1>1, <1>6, ReaderStep DEF ScanLost, Scan
<1> QED BY <1>2, <1>3, <1>4, <1>5, <1>6

\* The scan thread has its result, which the session does not show yet.
LEMMA ScanWorkStep ==
  ASSUME IInv, ScanWork
  PROVE  IInv'
<1>1. /\ UNCHANGED <<session, jobs, mutation, reader, doctor, command, thread, caps, deleted, archived>>
      /\ scan \in Scan /\ scan.pc = "working"
  BY DEF ScanWork, IInv, TypeOK
<1>2. CASE scan' = [scan EXCEPT !.pc = "report"] /\ UNCHANGED runs
  BY <1>1, <1>2, ReaderStep DEF IInv, TypeOK, Scan
<1>3. ASSUME Len(runs) < MaxRuns, Add("scan", 0),
             scan' = [scan EXCEPT !.pc = "report", !.run = Len(runs) + 1]
      PROVE  IInv'
  <2>1. /\ runs' \in Seq(Entry) /\ Len(runs') <= MaxRuns
        /\ DOMAIN runs \subseteq DOMAIN runs'
        /\ Len(runs) + 1 \in DOMAIN runs' \ (deleted \cup archived)
        /\ Len(runs) + 1 \in 1..MaxRuns
        /\ runs'[Len(runs) + 1] = [kind |-> "scan", parent |-> 0]
        /\ \A r \in DOMAIN runs : runs'[r] = runs[r]
        /\ Forest' /\ ContextConsistent'
    BY <1>1, <1>3, Grows
  <2>2. scan' \in Scan /\ scan'.pc = "report" /\ scan'.run = Len(runs) + 1 /\ scan'.generation = scan.generation
    <3>1. Len(runs) + 1 \in 0..MaxRuns
      BY <2>1
    <3> QED BY <1>1, <1>3, <3>1 DEF Scan
  <2>3. TypeOK'
    BY <1>1, <2>1, <2>2 DEF IInv, TypeOK
  <2>4. Owned' /\ Registered' /\ \A j \in Job : AtWork(j)' = AtWork(j) /\ Alive(j)' = Alive(j)
    BY <1>1, JobsKept DEF IInv
  <2>5. Reserved' /\ Exclusive'
    BY <1>1, <2>2, <2>4 DEF IInv, Reserved, Exclusive
  <2>6. JobsFit' /\ ScanFits'
    <3>1. \A j \in Job : ~AtWork(j)
      BY <1>1, NoJobAtWork
    <3> QED BY <1>1, <2>1, <2>2, <2>4, <3>1 DEF IInv, JobsFit, ScanFits, AtWork
  <2>7. Expected'
    BY <1>1, <2>1 DEF IInv, Expected
  <2> QED BY <2>1, <2>3, <2>4, <2>5, <2>6, <2>7 DEF IInv
<1> QED BY <1>2, <1>3 DEF ScanWork

\* The result of a scan becomes the context; no job has ended in its generation.
LEMMA ScanSessionStep ==
  ASSUME IInv, ScanSession
  PROVE  IInv'
<1>1. /\ UNCHANGED <<jobs, mutation, reader, doctor, command, thread, caps, runs, deleted, archived>>
      /\ scan \in Scan /\ scan.pc = "session"
      /\ scan' = [scan EXCEPT !.pc = "release"]
  BY DEF ScanSession, IInv, TypeOK
<1>2. scan' \in Scan /\ scan'.pc = "release" /\ scan'.run = scan.run /\ scan'.generation = scan.generation
  BY <1>1 DEF Scan
<1>3. CASE UNCHANGED session
  BY <1>1, <1>2, <1>3, ReaderStep DEF IInv, TypeOK
<1>4. ASSUME session.generation = scan.generation,
             session' = [session EXCEPT !.scanning = FALSE, !.scan = scan.run, !.plan = 0, !.execution = 0]
      PROVE  IInv'
  <2>1. /\ session' \in Session
        /\ session'.generation = session.generation /\ session'.job = session.job
        /\ session'.latest = session.latest /\ session'.mutating = session.mutating
        /\ session'.scan = scan.run /\ session'.plan = 0 /\ session'.execution = 0
        /\ session'.view_only = session.view_only
    <3>1. session \in Session /\ scan.run \in 0..MaxRuns /\ 0 \in 0..MaxRuns
      BY Typed DEF IInv, TypeOK
    <3> QED BY <1>4, <3>1 DEF Session
  <2>2. scan.run = 0 \/ (scan.run \in DOMAIN runs \ deleted /\ runs[scan.run].kind = "scan")
    BY <1>1 DEF IInv, JobsFit, ScanFits
  <2>3. TypeOK'
    BY <1>1, <1>2, <2>1, <2>2 DEF IInv, TypeOK
  <2>4. session.job = 0 /\ \A j \in Job : ~AtWork(j)
    BY <1>1, NoJobAtWork
  <2>5. \A j \in Job : AtWork(j)' = AtWork(j) /\ Alive(j)' = Alive(j)
    BY <1>1 DEF AtWork, Alive
  <2>6. Owned' /\ Registered'
    <3>1. Owned'
      BY <1>1, <2>1, <2>4, <2>5 DEF IInv, Owned
    <3>2. Registered'
      BY <1>1, <2>1, RegisteredKept DEF IInv, Registered
    <3> QED BY <3>1, <3>2
  <2>7. Reserved' /\ Exclusive'
    BY <1>1, <1>2, <2>1, <2>5 DEF IInv, Reserved, Exclusive
  <2>8. Forest'
    BY <1>1 DEF IInv, Forest, ScanOf
  <2>9. JobsFit' /\ ScanFits'
    <3>1. \A j \in Job : j = session.latest => thread[j].generation # session.generation
      <4>1. \A j \in DOMAIN jobs : jobs[j].generation < scan.generation /\ jobs[j].generation = thread[j].generation
        BY <1>1 DEF IInv, JobsFit, ScanFits, Registered
      <4>2. \A j \in Job : j = session.latest => j \in DOMAIN jobs
        BY Marks DEF IInv, Registered
      <4>3. \A j \in Job : j = session.latest => thread[j].generation < session.generation
        BY <1>4, <4>1, <4>2
      <4> QED BY <4>3, Typed DEF IInv
    <3> QED BY <1>1, <1>2, <2>1, <2>4, <2>5, <3>1 DEF IInv, JobsFit, ScanFits, AtWork
  <2>10. Expected'
    BY <1>1, <2>1 DEF IInv, Expected
  <2>11. ContextConsistent'
    <3>1. 0 \notin deleted /\ 0 \notin archived
      BY NoZero DEF IInv
    <3> QED BY <1>1, <2>1, <2>2, <3>1 DEF ContextConsistent
  <2> QED BY <2>3, <2>6, <2>7, <2>8, <2>9, <2>10, <2>11 DEF IInv
<1> QED BY <1>3, <1>4 DEF ScanSession

\* A reader begins or ends, and the reservation follows.
LEMMA ReservationStep ==
  ASSUME IInv, ScanRelease \/ DoctorRelease \/ StartDoctor
  PROVE  IInv'
<1>1. /\ UNCHANGED <<session, jobs, mutation, command, thread, caps, runs, deleted, archived>>
      /\ scan \in Scan
  BY DEF ScanRelease, DoctorRelease, StartDoctor, IInv, TypeOK
<1>2. /\ scan' \in Scan /\ scan'.generation = scan.generation /\ scan'.run = scan.run
      /\ scan'.pc = "idle" \/ scan' = scan
      /\ doctor' \in DoctorPhase
  BY <1>1 DEF ScanRelease, DoctorRelease, StartDoctor, IInv, TypeOK, Scan
<1>3. /\ reader' \in {None, "doctor"}
      /\ scan'.pc = "idle"
      /\ reader' = "doctor" <=> doctor' # "idle"
      /\ reader' = "doctor" => session.job = 0 /\ mutation = Free
  <2>1. CASE ScanRelease
    BY <1>1, <2>1 DEF ScanRelease, IInv, Reserved, TypeOK, Scan
  <2>2. CASE DoctorRelease
    BY <1>1, <2>2 DEF DoctorRelease, IInv, Reserved, TypeOK
  <2>3. CASE StartDoctor
    BY <1>1, <2>3, NobodyAtWork DEF StartDoctor, IdleContext, NoReservation
  <2> QED BY <2>1, <2>2, <2>3
<1>4. TypeOK'
  BY <1>1, <1>2, <1>3 DEF IInv, TypeOK
<1>5. Owned' /\ Registered' /\ \A j \in Job : AtWork(j)' = AtWork(j) /\ Alive(j)' = Alive(j)
  BY <1>1, JobsKept DEF IInv
<1>6. Reserved' /\ Exclusive'
  BY <1>1, <1>3, <1>5 DEF IInv, Reserved, Exclusive
<1>7. Forest' /\ ContextConsistent'
  BY <1>1, HistoryKept DEF IInv
<1>8. JobsFit' /\ ScanFits'
  BY JobsFitKept, <1>1, <1>3, <1>5 DEF IInv, ScanFits
<1>9. Expected'
  BY <1>1 DEF IInv, Expected
<1> QED BY <1>4, <1>5, <1>6, <1>7, <1>8, <1>9 DEF IInv

----------------------------------------------------------------------------
(***************************************************************************)
(* New sessions.                                                           *)
(***************************************************************************)
\* Nobody is at work when a new session begins.
LEMMA Renewed ==
  ASSUME IInv, IdleContext, session' \in Session,
         session'.generation = session.generation + 1,
         session'.job = 0, session'.latest = 0, ~session'.mutating,
         UNCHANGED <<jobs, thread>>
  PROVE  /\ Owned' /\ Registered'
         /\ \A j \in Job : ~AtWork(j)' /\ Alive(j)' = Alive(j)
         /\ \A j \in DOMAIN jobs : jobs[j].generation < session'.generation
<1>1. session.job = 0 /\ NoReservation
  BY DEF IdleContext
<1>2. /\ \A j \in Job : ~AtWork(j)
      /\ command.pc \notin {"recover", "commit", "drop"}
  BY <1>1, NobodyAtWork
<1>3. \A j \in Job : AtWork(j)' = AtWork(j) /\ Alive(j)' = Alive(j)
  BY DEF AtWork, Alive
<1>4. Owned'
  BY <1>2, <1>3 DEF Owned
<1>5. \A j \in DOMAIN jobs : jobs[j].generation < session'.generation
  <2>1. \A j \in DOMAIN jobs : jobs[j] \in Snapshot
    BY DEF IInv, TypeOK
  <2>2. \A j \in DOMAIN jobs : jobs[j].generation \in Nat
    BY <2>1 DEF Snapshot
  <2> QED BY <2>2, Typed DEF IInv, Registered
<1>6. Registered'
  <2>1. \A j \in DOMAIN jobs : jobs[j].generation <= session'.generation
    <3>1. \A j \in DOMAIN jobs : jobs[j] \in Snapshot
      BY DEF IInv, TypeOK
    <3> QED BY <1>5, <3>1, Typed DEF IInv, Snapshot
  <2> QED BY <2>1, RegisteredKept DEF IInv
<1> QED BY <1>2, <1>3, <1>4, <1>5, <1>6

\* What was read of the last session is out of date in the new one.
LEMMA OutOfDate ==
  ASSUME IInv, IdleContext, session'.generation = session.generation + 1,
         UNCHANGED <<command, runs>>
  PROVE  Expected'
<1>1. command.expected \in Nat /\ session.generation \in Nat
  BY Typed DEF IInv
<1>2. command.pc \in {"activate", "authorize"} =>
        command.expected < session'.generation /\ command.run \in DOMAIN runs
  BY <1>1 DEF IInv, Expected
<1>3. command.pc \notin {"recover", "commit", "drop"}
  BY NobodyAtWork DEF IdleContext
<1> QED BY <1>1, <1>2, <1>3 DEF Expected

\* Of a session that begins anew and shows at most a scan.
LEMMA NewSessionStep ==
  ASSUME IInv, StartScan \/ Invalidate
  PROVE  IInv'
<1>1. /\ IdleContext /\ session.generation < MaxGeneration
      /\ UNCHANGED <<jobs, mutation, doctor, command, thread, caps, runs, deleted, archived>>
  BY DEF StartScan, Invalidate, Bumped
<1>2. session.generation + 1 \in 0..MaxGeneration /\ session.scan \in 0..MaxRuns /\ 0 \in 0..MaxRuns
  BY <1>1, NextGeneration, Typed DEF IInv
<1>3. /\ session' \in Session /\ session'.generation = session.generation + 1
      /\ session'.job = 0 /\ session'.latest = 0 /\ ~session'.mutating
      /\ session'.plan = 0 /\ session'.execution = 0 /\ session'.scan \in {0, session.scan}
  <2>1. CASE StartScan
    <3>1. session' = [NewSession(session.generation + 1) EXCEPT !.scanning = TRUE]
      BY <2>1 DEF StartScan
    <3>2. Shows(session', session.generation + 1, TRUE, 0, 0, 0, FALSE)
      BY <1>2, <3>1, Shown
    <3> QED BY <3>2 DEF Shows
  <2>2. CASE Invalidate
    <3>1. PICK shown \in {0, session.scan} :
            session' = [NewSession(session.generation + 1) EXCEPT !.scan = shown]
      BY <2>2 DEF Invalidate
    <3>2. Shows(session', session.generation + 1, FALSE, shown, 0, 0, FALSE)
      BY <1>2, <3>1, Shown
    <3> QED BY <3>2 DEF Shows
  <2> QED BY <1>1, <2>1, <2>2
<1>4. /\ Owned' /\ Registered' /\ Expected'
      /\ \A j \in Job : ~AtWork(j)' /\ Alive(j)' = Alive(j)
      /\ \A j \in DOMAIN jobs : jobs[j].generation < session'.generation
  BY <1>1, <1>3, Renewed, OutOfDate
<1>5. mutation = Free /\ scan.pc = "idle" /\ doctor = "idle"
  BY <1>1, NobodyAtWork DEF IdleContext, NoReservation
<1>6. /\ scan' \in Scan /\ reader' \in {None, "scan"}
      /\ reader' = "scan" <=> scan'.pc # "idle"
      /\ scan'.pc # "idle" => scan'.generation = session'.generation /\ scan'.run = 0
  <2>1. CASE StartScan
    <3>1. scan' = [NoScan EXCEPT !.pc = "working", !.entry = "running", !.generation = session.generation + 1]
      BY <2>1 DEF StartScan
    <3>2. NoScan \in Scan /\ NoScan.run = 0
      BY DEF NoScan, Scan
    <3>3. scan' \in Scan /\ scan'.pc = "working" /\ scan'.generation = session.generation + 1 /\ scan'.run = 0
      BY <1>2, <3>1, <3>2 DEF Scan
    <3> QED BY <1>3, <2>1, <3>3 DEF StartScan
  <2>2. CASE Invalidate
    BY <1>1, <1>5, <2>2 DEF Invalidate, IInv, TypeOK, IdleContext, NoReservation
  <2> QED BY <2>1, <2>2
<1>7. TypeOK'
  BY <1>1, <1>3, <1>6 DEF IInv, TypeOK
<1>8. Reserved' /\ Exclusive'
  BY <1>1, <1>3, <1>4, <1>5, <1>6 DEF IInv, Reserved, Exclusive
<1>9. Forest'
  BY <1>1 DEF IInv, Forest, ScanOf
<1>10. JobsFit' /\ ScanFits'
  BY <1>1, <1>3, <1>4, <1>6, Marks DEF JobsFit, ScanFits, AtWork
<1>11. ContextConsistent'
  <2>1. 0 \notin deleted /\ 0 \notin archived
    BY NoZero DEF IInv
  <2> QED BY <1>1, <1>3, <2>1 DEF IInv, ContextConsistent
<1> QED BY <1>4, <1>7, <1>8, <1>9, <1>10, <1>11 DEF IInv

\* A tree of the history is deleted or archived, and the session shows nothing.
LEMMA RemoveStep ==
  ASSUME IInv, DeleteHistory \/ ArchiveHistory
  PROVE  IInv'
<1>1. /\ IdleContext /\ session.generation < MaxGeneration
      /\ session' = NewSession(session.generation + 1)
      /\ UNCHANGED <<jobs, mutation, reader, scan, doctor, command, thread, caps, runs>>
  BY DEF DeleteHistory, ArchiveHistory, Bumped
<1>2. /\ session' \in Session /\ session'.generation = session.generation + 1
      /\ session'.job = 0 /\ session'.latest = 0 /\ ~session'.mutating
      /\ session'.plan = 0 /\ session'.execution = 0 /\ session'.scan = 0
  <2>1. session.generation + 1 \in 0..MaxGeneration
    BY <1>1, NextGeneration DEF IInv
  <2>2. Shows(session', session.generation + 1, FALSE, 0, 0, 0, FALSE)
    BY <1>1, <2>1, Shown
  <2> QED BY <2>2 DEF Shows
<1>3. /\ Owned' /\ Registered' /\ Expected'
      /\ \A j \in Job : ~AtWork(j)' /\ Alive(j)' = Alive(j)
  BY <1>1, <1>2, Renewed, OutOfDate
<1>4. mutation = Free /\ scan.pc = "idle" /\ doctor = "idle"
  BY <1>1, NobodyAtWork DEF IdleContext, NoReservation
<1>5. PICK s \in DOMAIN runs :
        /\ runs[s].kind = "scan"
        /\ \/ deleted' = deleted \cup {r \in DOMAIN runs : ScanOf(r) = s} /\ UNCHANGED archived
           \/ archived' = archived \cup {r \in DOMAIN runs : ScanOf(r) = s} /\ UNCHANGED deleted
  BY DEF DeleteHistory, ArchiveHistory, Kept
<1>6. deleted' \subseteq DOMAIN runs /\ archived' \subseteq DOMAIN runs
  BY <1>5 DEF IInv, TypeOK
<1>7. TypeOK'
  BY <1>1, <1>2, <1>6 DEF IInv, TypeOK
<1>8. Reserved' /\ Exclusive'
  BY <1>1, <1>2, <1>3, <1>4 DEF IInv, Reserved, Exclusive
<1>9. Forest'
  <2>1. \A r \in DOMAIN runs : ScanOf(r)' = ScanOf(r)
    BY <1>1 DEF ScanOf
  <2>2. ASSUME NEW r \in DOMAIN runs PROVE ScanOf(r) \in DOMAIN runs /\ runs[ScanOf(r)].kind = "scan"
    <3>1. runs[r] \in Entry
      BY <2>2, Typed DEF IInv
    <3>2. runs[r].kind \in {"scan", "plan", "apply"}
      BY <3>1 DEF Entry
    <3> QED BY <3>2 DEF IInv, Forest, ScanOf
  <2>3. \A r \in DOMAIN runs : ScanOf(ScanOf(r)) = ScanOf(r)
    BY <2>2 DEF ScanOf
  <2>4. \A r \in DOMAIN runs : (r \in deleted <=> ScanOf(r) \in deleted) /\ (r \in archived <=> ScanOf(r) \in archived)
    BY DEF IInv, Forest
  <2>5. \A r \in DOMAIN runs : (r \in deleted' <=> ScanOf(r) \in deleted') /\ (r \in archived' <=> ScanOf(r) \in archived')
    BY <1>5, <2>2, <2>3, <2>4
  <2> QED BY <1>1, <2>1, <2>5 DEF IInv, Forest
<1>10. JobsFit' /\ ScanFits'
  BY <1>1, <1>2, <1>3, <1>4, Marks DEF JobsFit, ScanFits, AtWork
<1>11. ContextConsistent'
  <2>1. 0 \notin deleted' /\ 0 \notin archived'
    BY <1>6, Typed DEF IInv
  <2> QED BY <1>1, <1>2, <2>1 DEF ContextConsistent
<1> QED BY <1>3, <1>7, <1>8, <1>9, <1>10, <1>11 DEF IInv

\* An entry of the history becomes the session if nothing happened since it was read.
LEMMA ActivateStep ==
  ASSUME IInv, Activate
  PROVE  IInv'
<1>1. /\ command.pc = "activate" /\ command' = NoCommand
      /\ UNCHANGED <<jobs, mutation, reader, scan, doctor, thread, caps, runs, deleted, archived>>
  BY DEF Activate, CommandEnds
<1>2. NoCommand \in Command /\ NoCommand.pc = "idle"
  BY DEF NoCommand, Command
<1>3. CASE UNCHANGED session
  <2>1. Expected'
    BY <1>1, <1>2 DEF Expected
  <2> QED BY <1>1, <1>2, <1>3, <2>1, CommandStep DEF IInv, TypeOK
<1>4. ASSUME session.generation = command.expected, IdleContext, session.generation < MaxGeneration,
             session' = Activated(command.run)
      PROVE  IInv'
  <2> DEFINE r == command.run
  <2>1. r \in DOMAIN runs /\ r \notin deleted /\ (r \in archived => command.archived)
    BY <1>1, <1>4 DEF IInv, Expected
  <2>2. /\ runs[r].kind \in {"scan", "plan", "apply"}
        /\ r \in 1..MaxRuns
        /\ DOMAIN runs \subseteq 1..MaxRuns
    <3>1. runs[r] \in Entry /\ DOMAIN runs \subseteq 1..MaxRuns
      BY <2>1, Typed DEF IInv
    <3> QED BY <2>1, <3>1 DEF Entry
  <2> DEFINE p == IF runs[r].kind = "scan" THEN 0 ELSE IF runs[r].kind = "plan" THEN r ELSE runs[r].parent
             x == IF runs[r].kind = "apply" THEN r ELSE 0
  <2>3. session' = [NewSession(session.generation + 1) EXCEPT
                      !.scan = ScanOf(r), !.plan = p, !.execution = x, !.view_only = command.archived]
    BY <1>4, <2>2 DEF Activated
  <2>4. /\ ScanOf(r) \in DOMAIN runs /\ runs[ScanOf(r)].kind = "scan"
        /\ p = 0 \/ (p \in DOMAIN runs /\ runs[p].kind = "plan" /\ runs[p].parent = ScanOf(r) /\ ScanOf(p) = ScanOf(r))
        /\ x = 0 \/ (x \in DOMAIN runs /\ runs[x].kind = "apply" /\ runs[x].parent = p /\ x = r)
    BY <2>1, <2>2 DEF IInv, Forest, ScanOf
  <2>5. /\ ScanOf(r) \notin deleted
        /\ p # 0 => p \notin deleted /\ (p \in archived => r \in archived)
        /\ x # 0 => x \notin deleted
    BY <2>1, <2>4 DEF IInv, Forest
  <2>6. ScanOf(r) \in 0..MaxRuns /\ p \in 0..MaxRuns /\ x \in 0..MaxRuns
    BY <2>2, <2>4
  <2> HIDE DEF p, x
  <2>7. /\ session' \in Session /\ session'.generation = session.generation + 1
        /\ session'.job = 0 /\ session'.latest = 0 /\ ~session'.mutating
        /\ session'.plan = p /\ session'.execution = x /\ session'.scan = ScanOf(r)
        /\ session'.view_only = command.archived
    <3>1. session.generation + 1 \in 0..MaxGeneration
      BY <1>4, NextGeneration DEF IInv
    <3>2. command.archived \in BOOLEAN
      BY DEF IInv, TypeOK, Command
    <3>3. Shows(session', session.generation + 1, FALSE, ScanOf(r), p, x, command.archived)
      BY <2>3, <2>6, <3>1, <3>2, Shown
    <3> QED BY <3>3 DEF Shows
  <2>8. TypeOK'
    BY <1>1, <1>2, <2>4, <2>7 DEF IInv, TypeOK
  <2>9. /\ Owned' /\ Registered'
        /\ \A j \in Job : ~AtWork(j)' /\ Alive(j)' = Alive(j)
    BY <1>1, <1>4, <2>7, Renewed
  <2>10. mutation = Free /\ reader = None /\ scan.pc = "idle" /\ doctor = "idle"
    BY <1>4, NobodyAtWork DEF IdleContext, NoReservation
  <2>11. Reserved' /\ Exclusive'
    BY <1>1, <1>2, <2>7, <2>9, <2>10, Marks DEF Reserved, Exclusive
  <2>12. Forest'
    BY <1>1 DEF IInv, Forest, ScanOf
  <2>13. JobsFit' /\ ScanFits'
    BY <1>1, <2>7, <2>9, <2>10, Marks DEF JobsFit, ScanFits, AtWork
  <2>14. Expected'
    BY <1>1, <1>2 DEF Expected
  <2>15. ContextConsistent'
    <3>1. 0 \notin deleted /\ 0 \notin archived
      BY NoZero DEF IInv
    <3>2. {session'.scan, session'.plan, session'.execution} \cap deleted = {}
      BY <2>5, <2>7, <3>1
    <3>3. {session'.plan, session'.execution} \cap archived # {} => session'.view_only
      BY <2>1, <2>4, <2>5, <2>7, <3>1
    <3>4. /\ x # 0 => runs[x].parent = p
          /\ p # 0 => runs[p].parent = ScanOf(r)
      BY <2>4
    <3> QED BY <1>1, <2>7, <3>2, <3>3, <3>4 DEF ContextConsistent
  <2> QED BY <2>8, <2>9, <2>11, <2>12, <2>13, <2>14, <2>15 DEF IInv
<1> QED BY <1>3, <1>4 DEF Activate, Bumped

----------------------------------------------------------------------------
(***************************************************************************)
(* Jobs.                                                                   *)
(***************************************************************************)
\* A job begins when nobody is at work; what it works on is what is shown.
LEMMA BeginJobStep ==
  ASSUME IInv, NEW kind \in Kinds, NEW mutates \in BOOLEAN, NEW input,
         BeginJob(kind, mutates, input), UNCHANGED caps, command' \in {command, NoCommand}
  PROVE  IInv'
<1>1. /\ ~session.view_only /\ mutation = Free /\ reader = None
      /\ session.job = 0 /\ session.generation < MaxGeneration
      /\ input # 0 /\ input = Subject(kind)
      /\ UNCHANGED <<reader, scan, doctor, runs, deleted, archived, caps>>
  BY DEF BeginJob, NoReservation, Bumped
<1>2. /\ \A i \in Job : ~AtWork(i)
      /\ scan.pc = "idle" /\ doctor = "idle"
      /\ command.pc \notin {"recover", "commit", "drop"}
  BY <1>1, NobodyAtWork DEF NoReservation
<1>3. PICK j \in Job :
        /\ Fresh(j)
        /\ session' = [session EXCEPT !.generation = @ + 1, !.job = j, !.latest = j, !.mutating = mutates]
        /\ mutation' = IF mutates THEN j ELSE mutation
        /\ jobs' = [i \in DOMAIN Prune(jobs) \cup {j} |->
                      IF i = j THEN [status |-> "running", generation |-> session.generation + 1]
                      ELSE jobs[i]]
        /\ thread' = [thread EXCEPT ![j] = [NoThread EXCEPT !.pc = "working", !.kind = kind,
                        !.input = input, !.mutation = mutates, !.generation = session.generation + 1]]
  BY DEF BeginJob
<1>4. PICK g \in 0..MaxGeneration : g = session.generation + 1 /\ session.generation < g /\ g \in Nat
  <2>1. session.generation + 1 \in 0..MaxGeneration /\ session.generation \in 0..MaxGeneration
    BY <1>1, NextGeneration, Typed DEF IInv
  <2> QED BY <2>1
<1>5. /\ session' \in Session
      /\ session'.generation = g /\ session'.job = j /\ session'.latest = j
      /\ session'.mutating = mutates /\ session'.view_only = session.view_only
      /\ session'.scan = session.scan /\ session'.plan = session.plan
      /\ session'.execution = session.execution
  <2>1. session \in Session /\ j \in 0..MaxJobs
    BY DEF IInv, TypeOK, Job
  <2> QED BY <1>3, <1>4, <2>1 DEF Session
<1>6. input \in 0..MaxRuns
  BY <1>1, Typed DEF IInv, Subject, Kinds
<1>7. PICK t \in Thread :
        /\ t.pc = "working" /\ t.kind = kind /\ t.input = input /\ t.generation = g /\ t.run = 0 /\ ~t.ok
        /\ thread' = [thread EXCEPT ![j] = t]
  <2>1. NoThread \in Thread /\ NoThread.run = 0 /\ ~NoThread.ok
    BY DEF NoThread, Thread
  <2>2. [NoThread EXCEPT !.pc = "working", !.kind = kind, !.input = input, !.mutation = mutates,
           !.generation = g] \in Thread
    BY <1>4, <1>6, <2>1 DEF Thread
  <2> QED BY <1>3, <1>4, <2>1, <2>2 DEF Thread
<1>8. /\ thread \in [Job -> Thread] /\ thread' \in [Job -> Thread]
      /\ thread'[j] = t /\ \A i \in Job : i # j => thread'[i] = thread[i]
  BY <1>7 DEF IInv, TypeOK
<1>9. /\ \A i \in Job : AtWork(i)' <=> i = j
      /\ \A i \in Job : Alive(i)' <=> i = j \/ Alive(i)
      /\ AtWork(j)' /\ Alive(j)'
  BY <1>2, <1>7, <1>8 DEF AtWork, Alive
<1>10. /\ DOMAIN jobs' = DOMAIN Prune(jobs) \cup {j}
       /\ jobs'[j] = [status |-> "running", generation |-> g]
       /\ \A i \in DOMAIN Prune(jobs) : i # j => jobs'[i] = jobs[i]
       /\ jobs' = [i \in DOMAIN jobs' |-> jobs'[i]]
  BY <1>3, <1>4
<1>11. /\ DOMAIN Prune(jobs) \subseteq DOMAIN jobs
       /\ \A i \in DOMAIN jobs : jobs[i].status = "running" => i \in DOMAIN Prune(jobs)
  BY Pruning
<1>12. TypeOK'
  <2>1. [status |-> "running", generation |-> g] \in Snapshot
    BY DEF Snapshot
  <2>2. DOMAIN jobs' \subseteq Job
    BY <1>10, <1>11 DEF IInv, TypeOK
  <2>3. \A i \in DOMAIN jobs' : jobs'[i] \in Snapshot
    BY <1>10, <1>11, <2>1 DEF IInv, TypeOK
  <2>4. jobs' \in [DOMAIN jobs' -> Snapshot]
    BY <1>10, <2>3
  <2>5. mutation' \in {Free, Recovering} \cup Job
    BY <1>1, <1>3
  <2>6. command' \in Command
    <3>1. NoCommand \in Command
      BY DEF NoCommand, Command
    <3> QED BY <3>1 DEF IInv, TypeOK
  <2> QED BY <1>1, <1>5, <1>8, <2>2, <2>4, <2>5, <2>6 DEF IInv, TypeOK
<1>13. Owned'
  <2>1. j # 0
    BY Marks
  <2> QED BY <1>5, <1>7, <1>8, <1>9, <2>1 DEF Owned
<1>14. command'.pc \notin {"recover", "commit", "drop"}
  BY <1>2 DEF NoCommand
<1>15. Reserved' /\ Exclusive'
  <2>1. mutation' \in {Free, j} /\ mutation' # Recovering /\ reader' = None
        /\ scan'.pc = "idle" /\ doctor' = "idle"
    BY <1>1, <1>2, <1>3, Marks
  <2>2. None # "scan" /\ None # "doctor"
    OBVIOUS
  <2> QED BY <1>9, <1>14, <2>1, <2>2, Marks DEF Reserved, Exclusive
<1>16. Registered'
  <2>1. \A i \in Job : Alive(i)' => i \in DOMAIN jobs'
    BY <1>9, <1>10, <1>11 DEF IInv, Registered
  <2>2. ASSUME NEW i \in DOMAIN jobs'
        PROVE  /\ jobs'[i].status = "running" <=> Alive(i)'
               /\ thread'[i].pc # "none"
               /\ jobs'[i].generation = thread'[i].generation
               /\ jobs'[i].generation <= session'.generation
    <3>1. CASE i = j
      BY <1>4, <1>5, <1>7, <1>8, <1>9, <1>10, <3>1
    <3>2. CASE i # j
      <4>1. i \in DOMAIN jobs /\ i \in Job /\ jobs'[i] = jobs[i] /\ thread'[i] = thread[i]
        BY <1>8, <1>10, <1>11, <3>2 DEF IInv, TypeOK
      <4>2. jobs[i] \in Snapshot
        BY <4>1 DEF IInv, TypeOK
      <4>3. jobs[i].generation \in Nat /\ session.generation \in Nat
        BY <4>2, Typed DEF IInv, Snapshot
      <4>4. jobs[i].generation <= session.generation /\ jobs[i].generation = thread[i].generation
            /\ (jobs[i].status = "running" <=> Alive(i)) /\ thread[i].pc # "none"
        BY <4>1 DEF IInv, Registered
      <4> QED BY <1>4, <1>5, <1>9, <3>2, <4>1, <4>3, <4>4
    <3> QED BY <3>1, <3>2
  <2>3. session'.latest \in DOMAIN jobs'
    BY <1>5, <1>10
  <2> QED BY <2>1, <2>2, <2>3 DEF Registered
<1>17. Forest'
  BY <1>1 DEF IInv, Forest, ScanOf
<1>18. JobsFit' /\ ScanFits'
  <2>1. \A i \in Job : AtWork(i)' => i = j /\ thread'[i] = t
    BY <1>8, <1>9
  <2>2. ASSUME NEW i \in Job, AtWork(i)'
        PROVE  /\ ~session'.view_only
               /\ thread'[i].kind \in Kinds /\ thread'[i].input # 0
               /\ thread'[i].input = Subject(thread[i].kind)'
    <3>1. /\ thread'[i].kind = kind /\ thread'[i].input = input
          /\ ~session'.view_only
      BY <1>1, <1>5, <1>7, <2>1, <2>2
    <3>2. Subject(thread[i].kind)' = input
      BY <1>1, <1>5, <3>1 DEF Subject
    <3> QED BY <1>1, <3>1, <3>2
  <2>3. \A i \in Job : thread'[i].pc = "session" => AtWork(i)'
    BY DEF AtWork
  <2>4. \A i \in Job : thread'[i].pc # "session"
    BY <1>7, <2>1, <2>3
  <2>5. \A i \in Job : thread'[i].pc = "working" => thread'[i].run = 0 /\ ~thread'[i].ok
    BY <1>7, <1>8, <1>9 DEF AtWork
  <2>6. thread'[session'.latest].pc = "working"
    BY <1>5, <1>7, <1>8
  <2>7. JobsFit'
    BY <2>2, <2>4, <2>5, <2>6 DEF JobsFit
  <2> QED BY <1>1, <1>2, <2>7 DEF ScanFits
<1>19. Expected'
  <2>1. CASE command' = NoCommand
    BY <2>1 DEF Expected, NoCommand
  <2>2. CASE UNCHANGED command
    <3>1. command.expected \in Nat /\ session.generation \in Nat
      BY Typed DEF IInv
    <3>2. command.pc \in {"activate", "authorize"} =>
            command.expected < g /\ command.run \in DOMAIN runs
      BY <1>4, <3>1 DEF IInv, Expected
    <3> QED BY <1>1, <1>2, <1>4, <1>5, <2>2, <3>1, <3>2 DEF Expected
  <2> QED BY <2>1, <2>2
<1>20. ContextConsistent'
  BY <1>1, <1>5 DEF IInv, ContextConsistent
<1> QED BY <1>12, <1>13, <1>15, <1>16, <1>17, <1>18, <1>19, <1>20 DEF IInv

\* The work of a job ends with a result that fits the session, or with none.
LEMMA WorkEnds ==
  ASSUME IInv, NEW j \in Job, NEW t \in Thread, thread[j].pc = "working",
         t.pc = "session", t.kind = thread[j].kind, t.input = thread[j].input,
         t.generation = thread[j].generation, thread' = [thread EXCEPT ![j] = t],
         UNCHANGED <<session_vars, scan, doctor, command, caps, deleted, archived>>,
         runs' \in Seq(Entry), Len(runs') <= MaxRuns, DOMAIN runs \subseteq DOMAIN runs',
         \A r \in DOMAIN runs : runs'[r] = runs[r], Forest', ContextConsistent',
         t.ok /\ t.kind \in {"plan", "revision", "apply"} <=> t.run # 0,
         t.run # 0 =>
           /\ t.run \in DOMAIN runs' \ (deleted \cup archived)
           /\ t.kind \in {"plan", "revision"} => runs'[t.run] = [kind |-> "plan", parent |-> session.scan]
           /\ t.kind = "apply" => runs'[t.run] = [kind |-> "apply", parent |-> session.plan]
  PROVE  IInv'
<1>1. /\ thread' \in [Job -> Thread] /\ thread'[j] = t
      /\ \A i \in Job : i # j => thread'[i] = thread[i]
  BY DEF IInv, TypeOK
<1>2. /\ \A i \in Job : AtWork(i)' <=> AtWork(i)
      /\ \A i \in Job : Alive(i)' <=> Alive(i)
      /\ AtWork(j)
  BY <1>1 DEF AtWork, Alive
<1>3. session.job = j /\ \A i \in Job : AtWork(i) => i = j
  BY <1>2 DEF IInv, Owned
<1>4. scan.pc = "idle"
  BY <1>3, Marks DEF IInv, Reserved, Exclusive
<1>5. \A i \in Job : thread'[i].generation = thread[i].generation
  BY <1>1
<1>6. TypeOK'
  BY <1>1 DEF IInv, TypeOK
<1>7. Owned'
  BY <1>2, <1>5 DEF IInv, Owned
<1>8. Reserved' /\ Exclusive'
  BY <1>2 DEF IInv, Reserved, Exclusive
<1>9. Registered'
  <2>1. \A i \in DOMAIN jobs : i \in Job
    BY DEF IInv, TypeOK
  <2> QED BY <1>2, <1>5, <2>1 DEF IInv, Registered
<1>10. JobsFit'
  <2>1. ASSUME NEW i \in Job, AtWork(i)'
        PROVE  /\ ~session'.view_only
               /\ thread'[i].kind \in Kinds /\ thread'[i].input # 0
               /\ thread'[i].input = Subject(thread[i].kind)'
    <3>1. i = j
      BY <1>2, <1>3, <2>1
    <3>2. Subject(thread[i].kind)' = Subject(thread[i].kind)
      BY <1>1, <3>1 DEF Subject
    <3>3. /\ ~session.view_only /\ thread[i].kind \in Kinds /\ thread[i].input # 0
          /\ thread[i].input = Subject(thread[i].kind)
      BY <1>2, <2>1 DEF IInv, JobsFit
    <3> QED BY <1>1, <3>1, <3>2, <3>3
  <2>2. \A i \in Job : thread'[i].pc # "working"
    BY <1>1, <1>3 DEF AtWork
  <2>3. \A i \in Job : thread'[i].pc = "session" => i = j
    BY <1>2, <1>3 DEF AtWork
  <2>4. ASSUME NEW i \in Job, i = session'.latest, thread'[i].pc \in {"registry", "ended"},
               thread'[i].generation = session'.generation
        PROVE  thread'[i].run \in {0, session'.plan, session'.execution}
    BY <1>1, <2>4 DEF IInv, JobsFit
  <2> QED BY <1>1, <2>1, <2>2, <2>3, <2>4 DEF JobsFit
<1>11. ScanFits'
  BY <1>4 DEF ScanFits
<1>12. Expected'
  BY DEF IInv, Expected
<1> QED BY <1>6, <1>7, <1>8, <1>9, <1>10, <1>11, <1>12 DEF IInv

\* Of the work of a job.
LEMMA JobWorkStep ==
  ASSUME IInv, NEW j \in Job, JobWork(j)
  PROVE  IInv'
<1>1. /\ thread[j].pc = "working" /\ thread[j] \in Thread
      /\ UNCHANGED <<session_vars, scan, doctor, command, caps, deleted, archived>>
  BY Typed DEF JobWork, IInv
<1>2. thread[j].run = 0 /\ ~thread[j].ok
  BY <1>1 DEF IInv, JobsFit
<1>3. AtWork(j)
  BY <1>1 DEF AtWork
<1>4. /\ thread[j].kind \in Kinds /\ thread[j].input # 0
      /\ thread[j].input = Subject(thread[j].kind)
  BY <1>3 DEF IInv, JobsFit
<1>5. runs \in Seq(Entry) /\ Len(runs) <= MaxRuns /\ Forest /\ ContextConsistent
  BY DEF IInv, TypeOK
<1>6. CASE /\ thread[j].kind \in {"verify", "rollback"}
           /\ thread' = [thread EXCEPT ![j].pc = "session", ![j].ok = TRUE] /\ UNCHANGED runs
  <2>1. PICK t \in Thread : t = [thread[j] EXCEPT !.pc = "session", !.ok = TRUE]
    BY <1>1 DEF Thread
  <2>2. t.pc = "session" /\ t.kind = thread[j].kind /\ t.input = thread[j].input /\ t.run = 0
        /\ t.generation = thread[j].generation
    BY <1>1, <1>2, <2>1 DEF Thread
  <2>3. thread' = [thread EXCEPT ![j] = t]
    BY <1>6, <2>1 DEF IInv, TypeOK
  <2>4. Forest' /\ ContextConsistent'
    BY <1>1, <1>5, <1>6, HistoryKept
  <2> QED BY <1>1, <1>5, <1>6, <2>2, <2>3, <2>4, WorkEnds
<1>7. CASE thread' = [thread EXCEPT ![j].pc = "session"] /\ UNCHANGED runs
  <2>1. PICK t \in Thread : t = [thread[j] EXCEPT !.pc = "session"]
    BY <1>1 DEF Thread
  <2>2. t.pc = "session" /\ t.kind = thread[j].kind /\ t.input = thread[j].input /\ t.run = 0
        /\ t.generation = thread[j].generation /\ ~t.ok
    BY <1>1, <1>2, <2>1 DEF Thread
  <2>3. thread' = [thread EXCEPT ![j] = t]
    BY <1>7, <2>1 DEF IInv, TypeOK
  <2>4. Forest' /\ ContextConsistent'
    BY <1>1, <1>5, <1>7, HistoryKept
  <2> QED BY <1>1, <1>5, <1>7, <2>2, <2>3, <2>4, WorkEnds
<1>8. ASSUME thread[j].kind \in {"plan", "revision", "apply"}, Len(runs) < MaxRuns,
             thread[j].input \notin archived,
             CASE thread[j].kind = "plan" -> Add("plan", thread[j].input)
               [] thread[j].kind = "revision" -> Add("plan", ScanOf(thread[j].input))
               [] thread[j].kind = "apply" -> Add("apply", thread[j].input),
             thread' = [thread EXCEPT ![j].pc = "session", ![j].ok = TRUE, ![j].run = Len(runs) + 1]
      PROVE  IInv'
  <2>1. /\ thread[j].input \in DOMAIN runs \ (deleted \cup archived)
        /\ thread[j].kind = "plan" => runs[thread[j].input].kind = "scan"
        /\ thread[j].kind # "plan" => runs[thread[j].input].kind = "plan"
    BY <1>4, <1>8 DEF IInv, TypeOK, ContextConsistent, Subject
  <2>2. thread[j].kind = "revision" =>
          /\ ScanOf(thread[j].input) = session.scan
          /\ session.scan \in DOMAIN runs \ (deleted \cup archived)
          /\ runs[session.scan].kind = "scan"
    <3> SUFFICES ASSUME thread[j].kind = "revision"
                 PROVE  /\ ScanOf(thread[j].input) = session.scan
                        /\ session.scan \in DOMAIN runs \ (deleted \cup archived)
                        /\ runs[session.scan].kind = "scan"
      OBVIOUS
    <3>1. thread[j].input = session.plan /\ runs[session.plan].kind = "plan"
      BY <1>4, <2>1 DEF Subject
    <3>2. runs[session.plan].parent = session.scan
      BY <1>4, <3>1 DEF IInv, ContextConsistent
    <3>3. session.scan \in DOMAIN runs /\ runs[session.scan].kind = "scan"
      BY <2>1, <3>1, <3>2 DEF IInv, Forest
    <3>4. ScanOf(thread[j].input) = session.scan
      BY <3>1, <3>2 DEF ScanOf
    <3> QED BY <2>1, <3>3, <3>4 DEF IInv, Forest
  <2>3. PICK kind \in {"plan", "apply"}, parent \in DOMAIN runs :
          /\ Add(kind, parent)
          /\ parent \notin deleted \cup archived
          /\ kind = "plan" => runs[parent].kind = "scan"
          /\ kind = "apply" => runs[parent].kind = "plan"
          /\ thread[j].kind \in {"plan", "revision"} => kind = "plan" /\ parent = session.scan
          /\ thread[j].kind = "apply" => kind = "apply" /\ parent = session.plan
    <3>1. CASE thread[j].kind = "plan"
      <4>1. thread[j].input = session.scan
        BY <1>4, <3>1 DEF Subject
      <4>2. Add("plan", session.scan)
        BY <1>8, <3>1, <4>1
      <4> QED BY <2>1, <3>1, <4>1, <4>2
    <3>2. CASE thread[j].kind = "revision"
      <4>1. Add("plan", session.scan)
        BY <1>8, <2>2, <3>2
      <4> QED BY <2>2, <3>2, <4>1
    <3>3. CASE thread[j].kind = "apply"
      <4>1. thread[j].input = session.plan
        BY <1>4, <3>3 DEF Subject
      <4>2. Add("apply", session.plan)
        BY <1>8, <3>3, <4>1
      <4> QED BY <2>1, <3>3, <4>1, <4>2
    <3> QED BY <1>8, <3>1, <3>2, <3>3
  <2>4. PICK new : new = Len(runs) + 1
    OBVIOUS
  <2>5. parent \in 0..MaxRuns
    BY Typed DEF IInv
  <2>6. /\ runs' \in Seq(Entry) /\ Len(runs') <= MaxRuns
        /\ DOMAIN runs \subseteq DOMAIN runs'
        /\ new \in DOMAIN runs' \ (deleted \cup archived)
        /\ new \in 1..MaxRuns
        /\ runs'[new] = [kind |-> kind, parent |-> parent]
        /\ \A r \in DOMAIN runs : runs'[r] = runs[r]
        /\ Forest' /\ ContextConsistent'
    BY <1>1, <1>8, <2>3, <2>4, <2>5, Grows
  <2>7. new \in 0..MaxRuns /\ new # 0
    BY <2>6
  <2>8. PICK t \in Thread : t = [thread[j] EXCEPT !.pc = "session", !.ok = TRUE, !.run = new]
    BY <1>1, <2>7 DEF Thread
  <2>9. t.pc = "session" /\ t.kind = thread[j].kind /\ t.input = thread[j].input /\ t.run = new
        /\ t.generation = thread[j].generation /\ t.ok
    BY <1>1, <2>8 DEF Thread
  <2>10. thread' = [thread EXCEPT ![j] = t]
    BY <1>8, <2>4, <2>8 DEF IInv, TypeOK
  <2>11. /\ t.ok /\ t.kind \in {"plan", "revision", "apply"} <=> t.run # 0
         /\ t.run \in DOMAIN runs' \ (deleted \cup archived)
         /\ t.kind \in {"plan", "revision"} => runs'[t.run] = [kind |-> "plan", parent |-> session.scan]
         /\ t.kind = "apply" => runs'[t.run] = [kind |-> "apply", parent |-> session.plan]
    BY <1>8, <2>3, <2>6, <2>7, <2>9
  <2> QED BY <1>1, <2>6, <2>9, <2>10, <2>11, WorkEnds
<1> QED BY <1>1, <1>6, <1>7, <1>8 DEF JobWork

\* The result of a job becomes what the session shows; its generation still holds,
\* because whoever changes it finds the session idle.
LEMMA FinishSessionStep ==
  ASSUME IInv, NEW j \in Job, FinishSession(j)
  PROVE  IInv'
<1>1. /\ thread[j].pc = "session" /\ thread[j] \in Thread
      /\ thread' = [thread EXCEPT ![j].pc = "registry"]
      /\ UNCHANGED <<jobs, mutation, reader, scan, doctor, command, caps, runs, deleted, archived>>
  BY Typed DEF FinishSession, IInv
<1>2. AtWork(j)
  BY <1>1 DEF AtWork
<1>3. /\ session.job = j /\ session.latest = j /\ session.generation = thread[j].generation
      /\ \A i \in Job : AtWork(i) => i = j
  BY <1>2, Marks DEF IInv, Owned
<1>4. PICK t \in Thread :
        /\ t = [thread[j] EXCEPT !.pc = "registry"]
        /\ t.pc = "registry" /\ t.generation = thread[j].generation /\ t.run = thread[j].run
  <2>1. PICK t \in Thread : t = [thread[j] EXCEPT !.pc = "registry"]
    BY <1>1 DEF Thread
  <2>2. t.pc = "registry" /\ t.generation = thread[j].generation /\ t.run = thread[j].run
    BY <1>1, <2>1 DEF Thread
  <2> QED BY <2>1, <2>2
<1>5. /\ thread' \in [Job -> Thread] /\ thread'[j] = t
      /\ \A i \in Job : i # j => thread'[i] = thread[i]
  BY <1>1, <1>4 DEF IInv, TypeOK
<1>6. /\ \A i \in Job : ~AtWork(i)'
      /\ \A i \in Job : Alive(i)' <=> Alive(i)
      /\ \A i \in Job : thread'[i].generation = thread[i].generation
  BY <1>1, <1>3, <1>4, <1>5 DEF AtWork, Alive
<1>7. /\ thread[j].run # 0 =>
           /\ thread[j].run \in DOMAIN runs \ (deleted \cup archived)
           /\ thread[j].kind \in {"plan", "revision"} =>
                runs[thread[j].run] = [kind |-> "plan", parent |-> session.scan]
           /\ thread[j].kind = "apply" =>
                runs[thread[j].run] = [kind |-> "apply", parent |-> session.plan]
      /\ thread[j].ok /\ thread[j].kind \in {"plan", "revision", "apply"} <=> thread[j].run # 0
  BY <1>1 DEF IInv, JobsFit
<1>8. PICK p \in 0..MaxRuns, x \in 0..MaxRuns :
        /\ session' = [session EXCEPT !.job = 0, !.mutating = FALSE, !.plan = p, !.execution = x]
        /\ thread[j].run \in {0, p, x}
        /\ \/ p = session.plan /\ x = session.execution
           \/ x = 0 /\ p \in DOMAIN runs \ (deleted \cup archived)
                /\ runs[p] = [kind |-> "plan", parent |-> session.scan]
           \/ p = session.plan /\ x \in DOMAIN runs \ (deleted \cup archived)
                /\ runs[x] = [kind |-> "apply", parent |-> session.plan]
  <2>1. /\ session \in Session /\ session.plan \in 0..MaxRuns /\ session.execution \in 0..MaxRuns
        /\ thread[j].run \in 0..MaxRuns /\ 0 \in 0..MaxRuns
    BY Typed DEF IInv, TypeOK
  <2>2. session' =
          IF ~thread[j].ok THEN Finished(j)
          ELSE CASE thread[j].kind \in {"plan", "revision"} ->
                      [Finished(j) EXCEPT !.plan = thread[j].run, !.execution = 0]
                 [] thread[j].kind = "apply" -> [Finished(j) EXCEPT !.execution = thread[j].run]
                 [] OTHER -> Finished(j)
    BY <1>3 DEF FinishSession
  <2>3. CASE thread[j].ok /\ thread[j].kind \in {"plan", "revision"}
    <3>1. session' = [session EXCEPT !.job = 0, !.mutating = FALSE, !.plan = thread[j].run, !.execution = 0]
      BY <2>1, <2>2, <2>3 DEF Finished
    <3> QED BY <1>7, <2>1, <2>3, <3>1
  <2>4. CASE thread[j].ok /\ thread[j].kind = "apply"
    <3>1. session' = [session EXCEPT !.job = 0, !.mutating = FALSE, !.plan = session.plan, !.execution = thread[j].run]
      BY <2>1, <2>2, <2>4 DEF Finished, Session
    <3> QED BY <1>7, <2>1, <2>4, <3>1
  <2>5. CASE ~(thread[j].ok /\ thread[j].kind \in {"plan", "revision", "apply"})
    <3>1. session' = Finished(j)
      BY <2>2, <2>5
    <3>2. session' = [session EXCEPT !.job = 0, !.mutating = FALSE, !.plan = session.plan, !.execution = session.execution]
      BY <2>1, <3>1 DEF Finished, Session
    <3> QED BY <1>7, <2>1, <2>5, <3>2
  <2> QED BY <2>3, <2>4, <2>5
<1>9. /\ session' \in Session
      /\ session'.generation = session.generation /\ session'.job = 0
      /\ session'.latest = session.latest /\ ~session'.mutating
      /\ session'.view_only = session.view_only /\ session'.scan = session.scan
      /\ session'.plan = p /\ session'.execution = x
  <2>1. session \in Session /\ 0 \in 0..MaxJobs /\ FALSE \in BOOLEAN
    BY DEF IInv, TypeOK
  <2> QED BY <1>8, <2>1 DEF Session
<1>10. scan.pc = "idle"
  BY <1>3, Marks DEF IInv, Reserved, Exclusive
<1>11. TypeOK'
  <2>1. p \in {0} \cup {r \in DOMAIN runs : runs[r].kind = "plan"}
    BY <1>8 DEF IInv, TypeOK
  <2>2. x \in {0} \cup {r \in DOMAIN runs : runs[r].kind = "apply"}
    BY <1>8 DEF IInv, TypeOK
  <2> QED BY <1>1, <1>5, <1>9, <2>1, <2>2 DEF IInv, TypeOK
<1>12. Owned'
  BY <1>6, <1>9 DEF Owned
<1>13. Reserved' /\ Exclusive'
  BY <1>1, <1>6, <1>9 DEF IInv, Reserved, Exclusive
<1>14. Registered'
  <2>1. \A i \in DOMAIN jobs : i \in Job
    BY DEF IInv, TypeOK
  <2> QED BY <1>1, <1>6, <1>9, <2>1 DEF IInv, Registered
<1>15. Forest'
  BY <1>1 DEF IInv, Forest, ScanOf
<1>16. JobsFit' /\ ScanFits'
  <2>1. \A i \in Job : thread'[i].pc \notin {"working", "session"}
    BY <1>6 DEF AtWork
  <2>2. thread'[session'.latest].run \in {0, session'.plan, session'.execution}
    <3>1. thread'[session'.latest].run = thread[j].run
      BY <1>3, <1>4, <1>5, <1>9
    <3>2. thread[j].run \in {0, p, x}
      BY <1>8
    <3> QED BY <1>9, <3>1, <3>2
  <2> QED BY <1>1, <1>6, <1>10, <2>1, <2>2 DEF JobsFit, ScanFits
<1>17. Expected'
  BY <1>1, <1>9 DEF IInv, Expected
<1>18. ContextConsistent'
  <2>1. 0 \notin deleted /\ 0 \notin archived
    BY NoZero DEF IInv
  <2>2. ~session.view_only
    BY <1>2 DEF IInv, JobsFit
  <2>3. /\ session.execution # 0 => runs[session.execution].parent = session.plan
        /\ session.plan # 0 => runs[session.plan].parent = session.scan
        /\ {session.scan, session.plan, session.execution} \cap deleted = {}
        /\ {session.plan, session.execution} \cap archived = {}
    BY <2>2 DEF IInv, ContextConsistent
  <2>4. /\ x # 0 => runs[x].parent = p
        /\ p # 0 => runs[p].parent = session.scan
        /\ {session.scan, p, x} \cap deleted = {}
        /\ {p, x} \cap archived = {}
    BY <1>8, <2>1, <2>3
  <2> QED BY <1>1, <1>9, <2>4 DEF ContextConsistent
<1> QED BY <1>11, <1>12, <1>13, <1>14, <1>15, <1>16, <1>17, <1>18 DEF IInv

\* The registry learns that a job has ended, and its reservation is free.
LEMMA FinishRegistryStep ==
  ASSUME IInv, NEW j \in Job, FinishRegistry(j)
  PROVE  IInv'
<1>1. /\ thread[j].pc = "registry" /\ thread[j] \in Thread
      /\ thread' = [thread EXCEPT ![j].pc = "ended"]
      /\ UNCHANGED <<session, reader, scan, doctor, command, caps, runs, deleted, archived>>
  BY Typed DEF FinishRegistry, IInv
<1>2. Alive(j) /\ ~AtWork(j)
  BY <1>1 DEF Alive, AtWork
<1>3. j \in DOMAIN jobs /\ jobs[j].status = "running"
  BY <1>2 DEF IInv, Registered
<1>4. PICK status \in {"completed", "failed"} :
        /\ jobs' = [jobs EXCEPT ![j].status = status]
        /\ mutation' = IF mutation = j THEN Free ELSE mutation
  BY <1>3 DEF FinishRegistry
<1>5. PICK t \in Thread :
        /\ t = [thread[j] EXCEPT !.pc = "ended"]
        /\ t.pc = "ended" /\ t.generation = thread[j].generation /\ t.run = thread[j].run
  <2>1. PICK t \in Thread : t = [thread[j] EXCEPT !.pc = "ended"]
    BY <1>1 DEF Thread
  <2>2. t.pc = "ended" /\ t.generation = thread[j].generation /\ t.run = thread[j].run
    BY <1>1, <2>1 DEF Thread
  <2> QED BY <2>1, <2>2
<1>6. /\ thread' \in [Job -> Thread] /\ thread'[j] = t
      /\ \A i \in Job : i # j => thread'[i] = thread[i]
  BY <1>1, <1>5 DEF IInv, TypeOK
<1>7. /\ \A i \in Job : AtWork(i)' <=> AtWork(i)
      /\ \A i \in Job : Alive(i)' <=> Alive(i) /\ i # j
      /\ \A i \in Job : thread'[i].generation = thread[i].generation
  BY <1>1, <1>5, <1>6 DEF AtWork, Alive
<1>8. PICK s \in Snapshot :
        /\ s = [jobs[j] EXCEPT !.status = status]
        /\ s.status = status /\ s.generation = jobs[j].generation
  <2>1. jobs[j] \in Snapshot
    BY <1>3 DEF IInv, TypeOK
  <2>2. PICK s \in Snapshot : s = [jobs[j] EXCEPT !.status = status]
    BY <2>1 DEF Snapshot
  <2>3. s.status = status /\ s.generation = jobs[j].generation
    BY <2>1, <2>2 DEF Snapshot
  <2> QED BY <2>2, <2>3
<1>9. /\ DOMAIN jobs' = DOMAIN jobs /\ jobs'[j] = s
      /\ \A i \in DOMAIN jobs : i # j => jobs'[i] = jobs[i]
      /\ jobs' \in [DOMAIN jobs' -> Snapshot]
  BY <1>3, <1>4, <1>8 DEF IInv, TypeOK
<1>10. \A i \in DOMAIN jobs : jobs'[i].generation = jobs[i].generation
  BY <1>8, <1>9
<1>11. TypeOK'
  BY <1>1, <1>4, <1>6, <1>9 DEF IInv, TypeOK
<1>12. Owned'
  <2>1. session.job # 0 => session.job = session.latest /\ AtWork(session.job) /\ session.job \in Job
    BY Typed DEF IInv, Owned, Job
  <2> QED BY <1>1, <1>7, <2>1 DEF IInv, Owned
<1>13. Reserved' /\ Exclusive'
  <2>1. \A i \in Job : mutation' = i => Alive(i)'
    BY <1>4, <1>7, Marks DEF IInv, Reserved
  <2>2. mutation' = Recovering <=> mutation = Recovering
    BY <1>4, Marks
  <2>3. mutation = Free => mutation' = Free
    BY <1>4
  <2> QED BY <1>1, <2>1, <2>2, <2>3 DEF IInv, Reserved, Exclusive
<1>14. Registered'
  <2>1. \A i \in DOMAIN jobs : i \in Job
    BY DEF IInv, TypeOK
  <2>2. \A i \in DOMAIN jobs : jobs'[i].status = "running" <=> Alive(i)'
    BY <1>7, <1>8, <1>9, <2>1 DEF IInv, Registered
  <2> QED BY <1>1, <1>7, <1>9, <1>10, <2>1, <2>2 DEF IInv, Registered
<1>15. Forest' /\ ContextConsistent'
  BY <1>1, HistoryKept DEF IInv
<1>16. JobsFit'
  <2>1. ASSUME NEW i \in Job, AtWork(i)'
        PROVE  /\ ~session'.view_only
               /\ thread'[i].kind \in Kinds /\ thread'[i].input # 0
               /\ thread'[i].input = Subject(thread[i].kind)'
    <3>1. AtWork(i) /\ i # j
      BY <1>2, <1>7, <2>1
    <3>2. thread'[i] = thread[i]
      BY <1>6, <3>1
    <3>3. Subject(thread[i].kind)' = Subject(thread[i].kind)
      BY <1>1, <3>2 DEF Subject
    <3> QED BY <1>1, <3>1, <3>2, <3>3 DEF IInv, JobsFit
  <2>2. \A i \in Job : thread'[i].pc \in {"working", "session"} => i # j /\ thread'[i] = thread[i]
    BY <1>5, <1>6
  <2>3. ASSUME NEW i \in Job, i = session'.latest, thread'[i].pc \in {"registry", "ended"},
               thread'[i].generation = session'.generation
        PROVE  thread'[i].run \in {0, session'.plan, session'.execution}
    <3>1. thread[i].pc \in {"registry", "ended"} /\ thread'[i].run = thread[i].run
      BY <1>1, <1>5, <1>6, <2>3
    <3> QED BY <1>1, <1>7, <2>3, <3>1 DEF IInv, JobsFit
  <2>4. \A i \in Job : thread'[i].pc = "working" => thread'[i].run = 0 /\ ~thread'[i].ok
    BY <2>2 DEF IInv, JobsFit
  <2>5. \A i \in Job : thread'[i].pc = "session" /\ thread'[i].run # 0 =>
          /\ thread'[i].run \in DOMAIN runs \ (deleted \cup archived)
          /\ thread'[i].kind \in {"plan", "revision"} =>
               runs[thread'[i].run] = [kind |-> "plan", parent |-> session.scan]
          /\ thread'[i].kind = "apply" => runs[thread'[i].run] = [kind |-> "apply", parent |-> session.plan]
    BY <2>2 DEF IInv, JobsFit
  <2>6. \A i \in Job : thread'[i].pc = "session" =>
          (thread'[i].ok /\ thread'[i].kind \in {"plan", "revision", "apply"} <=> thread'[i].run # 0)
    BY <2>2 DEF IInv, JobsFit
  <2> QED BY <1>1, <2>1, <2>3, <2>4, <2>5, <2>6 DEF JobsFit
<1>17. ScanFits'
  BY <1>1, <1>9, <1>10 DEF IInv, ScanFits
<1>18. Expected'
  BY <1>1 DEF IInv, Expected
<1> QED BY <1>11, <1>12, <1>13, <1>14, <1>15, <1>16, <1>17, <1>18 DEF IInv

----------------------------------------------------------------------------
(***************************************************************************)
(* Commands.                                                               *)
(***************************************************************************)
\* What a command remembers of the session and the history is well typed.
LEMMA Commanded ==
  ASSUME IInv, NEW pc \in {"recover", "activate", "authorize"}, NEW run \in 0..MaxRuns, Commanding(pc, run)
  PROVE  /\ command' \in Command
         /\ command'.pc = pc /\ command'.expected = session.generation /\ command'.run = run
         /\ command'.archived = (run \in archived)
<1>1. session.generation \in 0..MaxGeneration /\ (run \in archived) \in BOOLEAN
  BY Typed DEF IInv
<1> QED BY <1>1 DEF Commanding, Command

\* Of commands that touch neither session nor reservations.
LEMMA CommandTalkStep ==
  ASSUME IInv, RecoveryWork \/ ReadHistory \/ CheckTarget \/ IssueTarget \/ ConsumeTarget
  PROVE  IInv'
<1>1. /\ UNCHANGED <<session, jobs, mutation, reader, scan, doctor, thread, runs, deleted, archived>>
      /\ command \in Command /\ caps \subseteq [plan: Run, generation: 0..MaxGeneration]
  BY DEF RecoveryWork, ReadHistory, CheckTarget, IssueTarget, ConsumeTarget, IInv, TypeOK
<1>2. NoCommand \in Command /\ NoCommand.pc = "idle"
  BY DEF NoCommand, Command
<1>3. CASE RecoveryWork
  <2>1. PICK pc \in {"commit", "drop"} : command' = [command EXCEPT !.pc = pc]
    BY <1>3 DEF RecoveryWork
  <2>2. command' \in Command /\ command'.pc = pc
    BY <1>1, <2>1 DEF Command
  <2>3. command.pc = "recover" /\ UNCHANGED caps
    BY <1>3 DEF RecoveryWork
  <2>4. Expected'
    BY <1>1, <2>2, <2>3 DEF IInv, Expected
  <2> QED BY <1>1, <2>2, <2>3, <2>4, CommandStep
<1>4. CASE ReadHistory
  <2>1. PICK r \in Kept : Commanding("activate", r)
    BY <1>4 DEF ReadHistory
  <2>2. r \in 0..MaxRuns /\ r \in DOMAIN runs /\ r \notin deleted
    BY <2>1, Typed DEF IInv, Kept
  <2>3. /\ command' \in Command
        /\ command'.pc = "activate" /\ command'.expected = session.generation /\ command'.run = r
        /\ command'.archived = (r \in archived)
    BY <2>1, <2>2, Commanded
  <2>4. session.generation \in Nat
    BY Typed DEF IInv
  <2>5. Expected'
    <3>1. command'.run \in archived => command'.archived
      BY <2>3
    <3> QED BY <1>1, <2>2, <2>3, <2>4, <3>1 DEF Expected
  <2>6. command.pc = "idle" /\ UNCHANGED caps
    BY <1>4 DEF ReadHistory
  <2> QED BY <1>1, <2>3, <2>5, <2>6, CommandStep
<1>5. CASE CheckTarget
  <2>1. /\ Commanding("authorize", session.plan) /\ session.plan # 0
        /\ command.pc = "idle" /\ UNCHANGED caps
    BY <1>5 DEF CheckTarget
  <2>2. session.plan \in 0..MaxRuns /\ session.plan \in DOMAIN runs /\ session.generation \in Nat
    BY <2>1, Typed DEF IInv, TypeOK
  <2>3. /\ command' \in Command
        /\ command'.pc = "authorize" /\ command'.expected = session.generation
        /\ command'.run = session.plan
    BY <2>1, <2>2, Commanded
  <2>4. Expected'
    BY <1>1, <2>2, <2>3 DEF Expected
  <2> QED BY <1>1, <2>1, <2>3, <2>4, CommandStep
<1>6. CASE IssueTarget
  <2>1. /\ command.pc = "authorize" /\ command' = NoCommand
        /\ caps' = caps \cup {[plan |-> command.run, generation |-> command.expected]}
    BY <1>6 DEF IssueTarget, CommandEnds
  <2>2. command.run \in Run /\ command.expected \in 0..MaxGeneration
    BY <2>1, Typed DEF IInv, Expected, Run
  <2>3. caps' \subseteq [plan: Run, generation: 0..MaxGeneration]
    BY <1>1, <2>1, <2>2
  <2>4. Expected'
    BY <1>2, <2>1 DEF Expected
  <2> QED BY <1>1, <1>2, <2>1, <2>3, <2>4, CommandStep
<1>7. CASE ConsumeTarget
  <2>1. PICK c \in caps :
          /\ command.pc = "idle" /\ caps' = caps \ {c}
          /\ command' = [NoCommand EXCEPT !.pc = "revise", !.expected = c.generation, !.run = c.plan]
    BY <1>7 DEF ConsumeTarget
  <2>2. c.plan \in 0..MaxRuns /\ c.generation \in 0..MaxGeneration
    BY <1>1 DEF Run
  <2>3. command' \in Command /\ command'.pc = "revise"
    BY <1>2, <2>1, <2>2 DEF Command
  <2>4. Expected'
    BY <2>3 DEF Expected
  <2>5. caps' \subseteq [plan: Run, generation: 0..MaxGeneration]
    BY <1>1, <2>1
  <2> QED BY <1>1, <2>1, <2>3, <2>4, <2>5, CommandStep
<1> QED BY <1>3, <1>4, <1>5, <1>6, <1>7

\* A recovery reserves, renews the generation and gives the reservation back.
LEMMA RecoveryStep ==
  ASSUME IInv, StartRecovery \/ RecoveryCommit \/ RecoveryDrop
  PROVE  IInv'
<1>1. /\ UNCHANGED <<jobs, reader, scan, doctor, thread, caps, runs, deleted, archived>>
      /\ session \in Session /\ command \in Command
  BY DEF StartRecovery, RecoveryCommit, RecoveryDrop, IInv, TypeOK
<1>2. session.job = 0 /\ \A i \in Job : ~AtWork(i)
  <2>1. CASE StartRecovery
    BY <2>1, NobodyAtWork DEF StartRecovery, IdleContext
  <2>2. CASE RecoveryCommit \/ RecoveryDrop
    <3>1. command.pc \in {"recover", "commit", "drop"}
      BY <2>2 DEF RecoveryCommit, RecoveryDrop
    <3> QED BY <3>1, NoJobAtWork
  <2> QED BY <2>1, <2>2
<1>3. reader = None
  <2>1. CASE StartRecovery
    BY <2>1 DEF StartRecovery, IdleContext, NoReservation
  <2>2. CASE RecoveryCommit \/ RecoveryDrop
    <3>1. mutation = Recovering
      BY <2>2 DEF RecoveryCommit, RecoveryDrop, IInv, Reserved
    <3> QED BY <3>1, Marks DEF IInv, Exclusive
  <2> QED BY <2>1, <2>2
<1>4. scan.pc = "idle"
  BY <1>3 DEF IInv, Reserved
<1>5. PICK g \in 0..MaxGeneration :
        /\ session' = session \/ session' = [session EXCEPT !.generation = g]
        /\ session'.generation = g /\ session.generation <= g /\ session.generation \in Nat /\ g \in Nat
        /\ g # session.generation => RecoveryCommit
  <2>0. session.generation \in 0..MaxGeneration
    BY Typed DEF IInv
  <2>1. CASE UNCHANGED session
    BY <2>0, <2>1
  <2>2. CASE RecoveryCommit /\ session' = [session EXCEPT !.generation = @ + 1]
    <3>1. session.generation < MaxGeneration
      BY <2>2 DEF RecoveryCommit, IInv, Expected
    <3>2. session.generation + 1 \in 0..MaxGeneration
      BY <3>1, NextGeneration DEF IInv
    <3>3. session'.generation = session.generation + 1
      BY <1>1, <2>2 DEF Session
    <3>4. session.generation <= session.generation + 1 /\ session.generation \in Nat /\ session.generation + 1 \in Nat
      BY <2>0
    <3> QED BY <2>2, <3>2, <3>3, <3>4
  <2> QED BY <2>1, <2>2 DEF StartRecovery, RecoveryCommit, RecoveryDrop
<1>6. /\ session' \in Session /\ session'.job = session.job /\ session'.latest = session.latest
      /\ session'.mutating = session.mutating /\ session'.scan = session.scan
      /\ session'.plan = session.plan /\ session'.execution = session.execution
      /\ session'.view_only = session.view_only
  BY <1>1, <1>5 DEF Session
<1>7. /\ command' \in Command
      /\ mutation' \in {Free, Recovering} \cup Job
      /\ \A i \in Job : mutation' = i => mutation = i
      /\ mutation' = Recovering <=> command'.pc \in {"recover", "commit", "drop"}
      /\ command'.pc \in {"idle", "recover", "drop"}
      /\ command'.pc = "recover" => session'.generation < MaxGeneration
  <2>1. CASE StartRecovery
    <3>1. Commanding("recover", 0) /\ 0 \in 0..MaxRuns /\ mutation' = Recovering
          /\ session' = session /\ session.generation < MaxGeneration
      BY <2>1 DEF StartRecovery, Bumped
    <3>2. command' \in Command /\ command'.pc = "recover"
      BY <3>1, Commanded
    <3> QED BY <3>1, <3>2, Marks
  <2>2. CASE RecoveryCommit
    <3>1. command' = [command EXCEPT !.pc = "drop"] /\ command.pc = "commit" /\ UNCHANGED mutation
      BY <2>2 DEF RecoveryCommit
    <3>2. command' \in Command /\ command'.pc = "drop"
      BY <1>1, <3>1 DEF Command
    <3> QED BY <3>1, <3>2 DEF IInv, TypeOK, Reserved
  <2>3. CASE RecoveryDrop
    <3>1. command' = NoCommand /\ command.pc = "drop" /\ mutation' = IF mutation = Recovering THEN Free ELSE mutation
      BY <2>3 DEF RecoveryDrop, CommandEnds
    <3>2. NoCommand \in Command /\ NoCommand.pc = "idle"
      BY DEF NoCommand, Command
    <3>3. mutation = Recovering
      BY <3>1 DEF IInv, Reserved
    <3> QED BY <3>1, <3>2, <3>3, Marks
  <2> QED BY <2>1, <2>2, <2>3
<1>8. TypeOK'
  BY <1>1, <1>6, <1>7 DEF IInv, TypeOK
<1>9. \A i \in Job : AtWork(i)' = AtWork(i) /\ Alive(i)' = Alive(i)
  BY <1>1 DEF AtWork, Alive
<1>10. Owned'
  BY <1>2, <1>6, <1>9 DEF IInv, Owned
<1>11. Reserved' /\ Exclusive'
  BY <1>1, <1>2, <1>3, <1>6, <1>7, <1>9 DEF IInv, Reserved, Exclusive
<1>12. Registered'
  <2>1. ASSUME NEW i \in DOMAIN jobs PROVE jobs[i].generation <= session'.generation
    <3>1. jobs[i] \in Snapshot
      BY DEF IInv, TypeOK
    <3>2. jobs[i].generation \in Nat
      BY <3>1 DEF Snapshot
    <3> QED BY <1>5, <3>2 DEF IInv, Registered
  <2> QED BY <1>1, <1>6, <2>1, RegisteredKept DEF IInv
<1>13. Forest'
  BY <1>1 DEF IInv, Forest, ScanOf
<1>14. JobsFit' /\ ScanFits'
  <2>1. \A i \in Job : thread'[i].pc \notin {"working", "session"}
    BY <1>1, <1>2 DEF AtWork
  <2>2. ASSUME NEW i \in Job, i = session'.latest, thread'[i].pc \in {"registry", "ended"},
               thread'[i].generation = session'.generation
        PROVE  thread'[i].run \in {0, session'.plan, session'.execution}
    <3>1. thread[i].generation <= session.generation
      <4>1. i \in DOMAIN jobs
        BY <1>6, <2>2, Marks DEF IInv, Registered
      <4> QED BY <4>1 DEF IInv, Registered
    <3>2. thread[i].generation = session.generation
      BY <1>1, <1>5, <2>2, <3>1
    <3> QED BY <1>1, <1>6, <2>2, <3>2 DEF IInv, JobsFit
  <2> QED BY <1>1, <1>4, <1>9, <1>2, <2>1, <2>2 DEF JobsFit, ScanFits
<1>15. Expected'
  BY <1>7 DEF Expected
<1>16. ContextConsistent'
  BY <1>1, <1>6 DEF IInv, ContextConsistent
<1> QED BY <1>8, <1>10, <1>11, <1>12, <1>13, <1>14, <1>15, <1>16 DEF IInv

\* A manual target is revised by a job, or not at all.
LEMMA ReviseTargetStep ==
  ASSUME IInv, ReviseTarget
  PROVE  IInv'
<1>1. command' = NoCommand /\ command.pc = "revise" /\ UNCHANGED caps
  BY DEF ReviseTarget, CommandEnds
<1>2. CASE BeginJob("revision", FALSE, command.run)
  BY <1>1, <1>2, BeginJobStep DEF Kinds
<1>3. CASE UNCHANGED <<session_vars, scan, doctor, thread, runs, deleted, archived>>
  <2>1. NoCommand \in Command /\ NoCommand.pc = "idle"
    BY DEF NoCommand, Command
  <2>2. Expected'
    BY <1>1, <2>1 DEF Expected
  <2> QED BY <1>1, <1>3, <2>1, <2>2, CommandStep DEF IInv, TypeOK
<1> QED BY <1>2, <1>3 DEF ReviseTarget

----------------------------------------------------------------------------
\* No step leads out of the invariant.
LEMMA Inductive == IInv /\ [Next]_vars => IInv'
<1> SUFFICES ASSUME IInv, [Next]_vars PROVE IInv'
  OBVIOUS
<1>1. CASE ScanWork
  BY <1>1, ScanWorkStep
<1>2. CASE ScanReport \/ CancelScan \/ ScanStatus \/ ScanLost \/ DoctorWork \/ DoctorLost
  BY <1>2, ReaderTalkStep
<1>3. CASE ScanSession
  BY <1>3, ScanSessionStep
<1>4. CASE ScanRelease \/ DoctorRelease \/ StartDoctor
  BY <1>4, ReservationStep
<1>5. ASSUME NEW j \in Job, JobWork(j) \/ FinishSession(j) \/ FinishRegistry(j) PROVE IInv'
  BY <1>5, JobWorkStep, FinishSessionStep, FinishRegistryStep
<1>6. CASE RecoveryWork \/ ReadHistory \/ CheckTarget \/ IssueTarget \/ ConsumeTarget
  BY <1>6, CommandTalkStep
<1>7. CASE RecoveryCommit \/ RecoveryDrop \/ StartRecovery
  BY <1>7, RecoveryStep
<1>8. CASE Activate
  BY <1>8, ActivateStep
<1>9. CASE ReviseTarget
  BY <1>9, ReviseTargetStep
<1>10. CASE StartScan \/ Invalidate
  BY <1>10, NewSessionStep
<1>11. CASE StartJob
  <2>1. PICK kind \in Kinds, execute \in BOOLEAN :
          BeginJob(kind, execute /\ kind \in {"apply", "rollback"}, Subject(kind))
    BY <1>11 DEF StartJob
  <2>2. (execute /\ kind \in {"apply", "rollback"}) \in BOOLEAN
    OBVIOUS
  <2>3. command' = command /\ UNCHANGED caps
    BY <1>11 DEF StartJob
  <2> QED BY <2>1, <2>2, <2>3, BeginJobStep
<1>12. CASE DeleteHistory \/ ArchiveHistory
  BY <1>12, RemoveStep
<1>13. CASE UNCHANGED vars
  <2>1. /\ UNCHANGED <<session, jobs, mutation, reader, scan, doctor, command, thread, caps, runs, deleted, archived>>
        /\ scan \in Scan /\ doctor \in DoctorPhase
    BY <1>13 DEF vars, IInv, TypeOK
  <2> QED BY <2>1, ReaderStep
<1> QED BY <1>1, <1>2, <1>3, <1>4, <1>5, <1>6, <1>7, <1>8, <1>9, <1>10, <1>11, <1>12, <1>13
        DEF Next, Threads, Window

\* IInv holds in every state of the desktop backend.
THEOREM Invariance == Spec => []IInv
<1>1. Init => IInv
  BY InitIInv
<1>2. IInv /\ [Next]_vars => IInv'
  BY Inductive
<1> QED BY <1>1, <1>2, PTL DEF Spec

\* Every variable of the backend has its type, and the session names entries of the
\* history that are what it takes them for.
THEOREM TypeCorrect == Spec => []TypeOK
<1>1. IInv => TypeOK
  BY DEF IInv
<1> QED BY <1>1, Invariance, PTL

\* What the window shows hangs together, whatever arrives late (finish_job_session,
\* activate_history, delete_history).
THEOREM Context == Spec => []ContextConsistent
<1>1. IInv => ContextConsistent
  BY DEF IInv
<1> QED BY <1>1, Invariance, PTL

\* A window that finds its latest job ended can go on with the result
\* (JobRegistry::finish after finish_job_session, begin_job, prune).
THEOREM Usable == Spec => []ResultUsable
<1>1. IInv => ResultUsable
  <2> SUFFICES ASSUME IInv, NEW j, j = session.latest, j # 0
               PROVE  /\ j \in DOMAIN jobs
                      /\ jobs[j].status # "running" =>
                           /\ session.job = 0 /\ ~session.mutating /\ mutation # j
                           /\ jobs[j].status = "completed" /\ jobs[j].generation = session.generation =>
                                thread[j].run \in {0, session.plan, session.execution}
    BY DEF ResultUsable
  <2>1. j \in DOMAIN jobs /\ j \in Job
    BY DEF IInv, Registered, TypeOK
  <2> SUFFICES ASSUME jobs[j].status # "running"
               PROVE  /\ session.job = 0 /\ ~session.mutating /\ mutation # j
                      /\ jobs[j].generation = session.generation =>
                           thread[j].run \in {0, session.plan, session.execution}
    BY <2>1
  <2>2. ~Alive(j) /\ ~AtWork(j)
    BY <2>1 DEF IInv, Registered, Alive
  <2>3. session.job = 0 /\ ~session.mutating
    BY <2>2 DEF IInv, Owned
  <2>4. mutation # j
    BY <2>1, <2>2 DEF IInv, Reserved
  <2>5. jobs[j].generation = session.generation => thread[j].run \in {0, session.plan, session.execution}
    <3>1. thread[j] \in Thread /\ thread[j].pc # "none" /\ thread[j].generation = jobs[j].generation
      BY <2>1, Typed DEF IInv, Registered
    <3>2. thread[j].pc = "ended"
      BY <2>2, <3>1 DEF Alive, AtWork, Thread
    <3> QED BY <2>1, <3>1, <3>2 DEF IInv, JobsFit
  <2> QED BY <2>3, <2>4, <2>5
<1> QED BY <1>1, Invariance, PTL

\* At most one of scan, diagnosis, recovery and the jobs is at work, those that never
\* return included (begin_job,
\* start_scan, reserve_doctor, run_recovery, ensure_idle_workflow_context).
THEOREM Exclusion == Spec => []OneAtATime
<1>1. IInv => OneAtATime
  <2> SUFFICES ASSUME IInv PROVE OneAtATime
    OBVIOUS
  <2> DEFINE W == {j \in Job : thread[j].pc = "working"}
  <2>1. W = {} \/ W = {session.job}
    BY DEF IInv, Owned, AtWork
  <2>2. session.job = 0 => W = {}
    BY Marks DEF IInv, Owned, AtWork
  <2>3. Cardinality(W) \in {0, 1} /\ (session.job = 0 => Cardinality(W) = 0)
    BY <2>1, <2>2, FS_EmptySet, FS_Singleton
  <2>4. scan.pc \in {"working", "lost"} \/ doctor \in {"working", "lost"} => session.job = 0 /\ mutation = Free
    BY DEF IInv, Reserved, Exclusive
  <2>5. ~(scan.pc \in {"working", "lost"} /\ doctor \in {"working", "lost"})
    BY DEF IInv, Reserved
  <2>6. command.pc = "recover" => mutation # Free /\ session.job = 0
    BY Marks DEF IInv, Reserved, Exclusive
  <2> HIDE DEF W
  <2>7. Cardinality(W) + (IF scan.pc \in {"working", "lost"} THEN 1 ELSE 0)
          + (IF doctor \in {"working", "lost"} THEN 1 ELSE 0)
          + (IF command.pc = "recover" THEN 1 ELSE 0) <= 1
    BY <2>3, <2>4, <2>5, <2>6
  <2> QED BY <2>7 DEF W, OneAtATime
<1> QED BY <1>1, Invariance, PTL
=============================================================================
