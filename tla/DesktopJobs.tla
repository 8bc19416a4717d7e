----------------------------- MODULE DesktopJobs -----------------------------
(***************************************************************************)
(* The desktop backend: the session says what the window works on and has  *)
(* a generation that every command must name; the job registry keeps the   *)
(* snapshots of jobs and the two reservations, for mutations and for       *)
(* readers; scans and diagnoses have registries of their own.  Commands    *)
(* come from the window at any time, each job, scan and diagnosis runs on  *)
(* a thread of its own, and every lock is held for one step.               *)
(***************************************************************************)
EXTENDS Integers, Sequences, FiniteSets

CONSTANTS
  MaxJobs,        \* bound on jobs
  MaxRuns,        \* bound on scans, plans and apply runs in the history
  MaxGeneration,  \* bound on changes of the session
  JobLimit,       \* snapshots the registry holds before it prunes (256)
  Pruned          \* finished ones it then drops (64)

\* Three runs are in the history at the beginning.
ASSUME DesktopAssumption ==
  /\ MaxJobs \in Nat /\ MaxRuns \in Nat /\ MaxRuns >= 3 /\ MaxGeneration \in Nat
  /\ JobLimit \in Nat \ {0} /\ Pruned \in Nat \ {0}

VARIABLES
  session,   \* WorkflowSessionState
  jobs,      \* JobRegistryState.jobs
  mutation,  \* JobRegistryState.active_mutation_job_id
  reader,    \* JobRegistryState.active_reader_id
  scan,      \* the thread of the latest scan, its token and its ScanRegistry entry
  doctor,    \* the thread of the latest diagnosis
  command,   \* a recovery or an opening of the history under way
  thread,    \* the threads of the jobs
  caps,      \* PlanTargetAuthorizationRegistry
  runs,      \* the history: scans, plans and apply runs, each with its parent
  deleted,   \* those that were deleted
  archived   \* those that were archived

session_vars == <<session, jobs, mutation, reader>>
vars == <<session_vars, scan, doctor, command, thread, caps, runs, deleted, archived>>

None == "none"
Free == 0                 \* no job holds the reservation for mutations
Recovering == -1          \* an external one, for a recovery, does
Kinds == {"plan", "revision", "apply", "verify", "rollback"}
Job == 1..MaxJobs
Run == 1..MaxRuns
NewSession(generation) ==
  [generation |-> generation, scanning |-> FALSE, job |-> 0, latest |-> 0, mutating |-> FALSE,
   scan |-> 0, plan |-> 0, execution |-> 0, view_only |-> FALSE]
NoScan == [pc |-> "idle", cancelled |-> FALSE, run |-> 0, entry |-> None, generation |-> 0]
NoCommand == [pc |-> "idle", expected |-> 0, run |-> 0, archived |-> FALSE]
NoThread == [pc |-> "none", kind |-> None, input |-> 0, mutation |-> FALSE,
             generation |-> 0, run |-> 0, ok |-> FALSE]

\* Which fields hold what.
Session ==
  [generation: 0..MaxGeneration, scanning: BOOLEAN, job: 0..MaxJobs, latest: 0..MaxJobs,
   mutating: BOOLEAN, scan: 0..MaxRuns, plan: 0..MaxRuns, execution: 0..MaxRuns, view_only: BOOLEAN]
Snapshot == [status: {"running", "completed", "failed"}, generation: 0..MaxGeneration]
Scan == [pc: {"idle", "working", "report", "session", "release", "lost"}, cancelled: BOOLEAN, run: 0..MaxRuns,
         entry: {None, "running", "completed", "cancelled", "failed"}, generation: 0..MaxGeneration]
Command == [pc: {"idle", "recover", "commit", "drop", "activate", "authorize", "revise"},
            expected: 0..MaxGeneration, run: 0..MaxRuns, archived: BOOLEAN]
Thread == [pc: {"none", "working", "session", "registry", "ended"}, kind: Kinds \cup {None},
           input: 0..MaxRuns, mutation: BOOLEAN, generation: 0..MaxGeneration, run: 0..MaxRuns,
           ok: BOOLEAN]
DoctorPhase == {"idle", "working", "release", "lost"}
Entry == [kind: {"scan", "plan", "apply"}, parent: 0..MaxRuns]

TypeOK ==
  /\ session \in Session
  /\ session.scan \in {0} \cup {r \in DOMAIN runs : runs[r].kind = "scan"}
  /\ session.plan \in {0} \cup {r \in DOMAIN runs : runs[r].kind = "plan"}
  /\ session.execution \in {0} \cup {r \in DOMAIN runs : runs[r].kind = "apply"}
  /\ DOMAIN jobs \subseteq Job /\ jobs \in [DOMAIN jobs -> Snapshot]
  /\ mutation \in {Free, Recovering} \cup Job /\ reader \in {None, "scan", "doctor"}
  /\ scan \in Scan
  /\ doctor \in DoctorPhase
  /\ command \in Command
  /\ thread \in [Job -> Thread]
  /\ caps \subseteq [plan: Run, generation: 0..MaxGeneration]
  /\ runs \in Seq(Entry) /\ Len(runs) <= MaxRuns
  /\ deleted \subseteq DOMAIN runs /\ archived \subseteq DOMAIN runs

\* The registry is as empty as when the program starts; the history is not.
Init ==
  /\ session = NewSession(0)
  /\ jobs = <<>> /\ mutation = Free /\ reader = None
  /\ scan = NoScan /\ doctor = "idle" /\ command = NoCommand
  /\ thread = [j \in Job |-> NoThread]
  /\ caps = {}
  /\ runs = <<[kind |-> "scan", parent |-> 0], [kind |-> "plan", parent |-> 1],
              [kind |-> "apply", parent |-> 2]>>
  /\ deleted = {} /\ archived = {}

----------------------------------------------------------------------------
Bumped == session.generation < MaxGeneration
Add(kind, parent) == runs' = Append(runs, [kind |-> kind, parent |-> parent])
ScanOf(r) == IF runs[r].kind = "scan" THEN r
             ELSE IF runs[r].kind = "plan" THEN runs[r].parent ELSE runs[runs[r].parent].parent
Kept == {r \in DOMAIN runs : r \notin deleted}

\* ensure_idle_workflow_context; reservations of either kind are busy.
NoReservation == mutation = Free /\ reader = None
IdleContext == ~session.scanning /\ ~session.mutating /\ NoReservation /\ session.job = 0

----------------------------------------------------------------------------
(***************************************************************************)
(* Scans.                                                                  *)
(***************************************************************************)
\* start_scan begins a new session.  A job it would supersede refuses it before.
StartScan ==
  /\ IdleContext /\ Bumped
  /\ session' = [NewSession(session.generation + 1) EXCEPT !.scanning = TRUE]
  /\ reader' = "scan"
  /\ scan' = [NoScan EXCEPT !.pc = "working", !.entry = "running",
                            !.generation = session.generation + 1]
  /\ UNCHANGED <<jobs, mutation, doctor, command, thread, caps, runs, deleted, archived>>

\* cancel_scan finds the token as long as the entry is there.
CancelScan ==
  /\ scan.entry # None /\ ~scan.cancelled
  /\ scan' = [scan EXCEPT !.cancelled = TRUE]
  /\ UNCHANGED <<session_vars, doctor, command, thread, caps, runs, deleted, archived>>

\* ScanUseCase::execute returns a run, a cancelled one too, or an error.
ScanWork ==
  /\ scan.pc = "working"
  /\ \/ /\ Len(runs) < MaxRuns /\ Add("scan", 0)
        /\ scan' = [scan EXCEPT !.pc = "report", !.run = Len(runs) + 1]
     \/ scan' = [scan EXCEPT !.pc = "report"] /\ UNCHANGED runs
  /\ UNCHANGED <<session_vars, doctor, command, thread, caps, deleted, archived>>

\* It may also never return (ScanPipeline: WorkerFailureEnds), or panic, which no
\* catch_unwind makes an error here: the rest of the thread is not reached.
ScanLost ==
  /\ scan.pc = "working"
  /\ scan' = [scan EXCEPT !.pc = "lost"]
  /\ UNCHANGED <<session_vars, doctor, command, thread, caps, runs, deleted, archived>>

\* The status says cancelled if the token is set by now.
ScanReport ==
  /\ scan.pc = "report"
  /\ scan' = [scan EXCEPT !.pc = "session",
       !.entry = IF scan.run = 0 THEN "failed" ELSE IF scan.cancelled THEN "cancelled" ELSE "completed",
       !.run = IF scan.cancelled THEN 0 ELSE @]
  /\ UNCHANGED <<session_vars, doctor, command, thread, caps, runs, deleted, archived>>

ScanSession ==
  /\ scan.pc = "session"
  /\ scan' = [scan EXCEPT !.pc = "release"]
  /\ session' = IF session.generation = scan.generation /\ session.scanning
                THEN [session EXCEPT !.scanning = FALSE, !.scan = scan.run,
                                     !.plan = 0, !.execution = 0]
                ELSE session
  /\ UNCHANGED <<jobs, mutation, reader, doctor, command, thread, caps, runs, deleted, archived>>

ScanRelease ==
  /\ scan.pc = "release"
  /\ scan' = [scan EXCEPT !.pc = "idle"]
  /\ reader' = IF reader = "scan" THEN None ELSE reader
  /\ UNCHANGED <<session, jobs, mutation, doctor, command, thread, caps, runs, deleted, archived>>

\* scan_status forgets a finished scan the first time it is asked for.
ScanStatus ==
  /\ scan.entry \notin {None, "running"}
  /\ scan' = [scan EXCEPT !.entry = None]
  /\ UNCHANGED <<session_vars, doctor, command, thread, caps, runs, deleted, archived>>

----------------------------------------------------------------------------
(***************************************************************************)
(* Jobs.                                                                   *)
(***************************************************************************)
\* What the session must show for a job of each kind.
Subject(kind) ==
  CASE kind = "plan" -> session.scan
    [] kind \in {"revision", "apply"} -> session.plan
    [] kind \in {"verify", "rollback"} -> session.execution

Terminal(js) == {j \in DOMAIN js : js[j].status # "running"}

\* Jobs are numbered in the order they begin; no number is used again.
Fresh(j) == thread[j].pc = "none" /\ \A i \in Job : i < j => thread[i].pc # "none"

\* The oldest finished snapshots make room for a new one.
Prune(js) ==
  IF Cardinality(DOMAIN js) < JobLimit THEN js
  ELSE [j \in {k \in DOMAIN js : js[k].status = "running"
                 \/ Cardinality({i \in Terminal(js) : i < k}) >= Pruned} |-> js[j]]

\* Variant: only another mutation is in the way.
BeginJob_Reader(kind, mutates, input) ==
  /\ ~session.view_only /\ ~session.scanning /\ mutation = Free /\ session.job = 0
  /\ Bumped
  /\ input # 0 /\ Subject(kind) = input
  /\ \E j \in Job :
     /\ Fresh(j)
     /\ session' = [session EXCEPT !.generation = @ + 1, !.job = j, !.latest = j, !.mutating = mutates]
     /\ mutation' = IF mutates THEN j ELSE mutation
     /\ jobs' = [i \in DOMAIN Prune(jobs) \cup {j} |->
                   IF i = j THEN [status |-> "running", generation |-> session.generation + 1]
                   ELSE jobs[i]]
     /\ thread' = [thread EXCEPT ![j] = [NoThread EXCEPT !.pc = "working", !.kind = kind,
                     !.input = input, !.mutation = mutates, !.generation = session.generation + 1]]
  /\ UNCHANGED <<reader, scan, doctor, runs, deleted, archived>>

\* begin_job under both locks, and the thread of run_job.
BeginJob(kind, mutates, input) ==
  /\ ~session.view_only /\ ~session.scanning /\ NoReservation /\ session.job = 0
  /\ Bumped
  /\ input # 0 /\ Subject(kind) = input
  /\ \E j \in Job :
     /\ Fresh(j)
     /\ session' = [session EXCEPT !.generation = @ + 1, !.job = j, !.latest = j, !.mutating = mutates]
     /\ mutation' = IF mutates THEN j ELSE mutation
     /\ jobs' = [i \in DOMAIN Prune(jobs) \cup {j} |->
                   IF i = j THEN [status |-> "running", generation |-> session.generation + 1]
                   ELSE jobs[i]]
     /\ thread' = [thread EXCEPT ![j] = [NoThread EXCEPT !.pc = "working", !.kind = kind,
                     !.input = input, !.mutation = mutates, !.generation = session.generation + 1]]
  /\ UNCHANGED <<reader, scan, doctor, runs, deleted, archived>>

\* create_plan, apply_plan, verify_execution, rollback_execution; a dry run
\* mutates nothing.
StartJob ==
  /\ \E kind \in Kinds \ {"revision"}, execute \in BOOLEAN :
       BeginJob(kind, execute /\ kind \in {"apply", "rollback"}, Subject(kind))
  /\ UNCHANGED <<command, caps>>

\* Variant: a panic ends the thread.
JobWork_Panics(j) ==
  /\ thread[j].pc = "working"
  /\ thread' = [thread EXCEPT ![j].pc = "ended"]
  /\ UNCHANGED <<session_vars, scan, doctor, command, caps, runs, deleted, archived>>

\* The use case returns a run or an error; catch_unwind makes a panic an error,
\* and the database refuses to work on what is archived (ensure_scan_mutable).
JobWork(j) ==
  /\ thread[j].pc = "working"
  /\ \/ /\ thread[j].kind \in {"verify", "rollback"}
        /\ thread' = [thread EXCEPT ![j].pc = "session", ![j].ok = TRUE] /\ UNCHANGED runs
     \/ /\ thread[j].kind \in {"plan", "revision", "apply"} /\ Len(runs) < MaxRuns
        /\ thread[j].input \notin archived
        /\ CASE thread[j].kind = "plan" -> Add("plan", thread[j].input)
             [] thread[j].kind = "revision" -> Add("plan", ScanOf(thread[j].input))
             [] thread[j].kind = "apply" -> Add("apply", thread[j].input)
        /\ thread' = [thread EXCEPT ![j].pc = "session", ![j].ok = TRUE, ![j].run = Len(runs) + 1]
     \/ thread' = [thread EXCEPT ![j].pc = "session"] /\ UNCHANGED runs
  /\ UNCHANGED <<session_vars, scan, doctor, command, caps, deleted, archived>>

Finished(j) == [session EXCEPT !.job = 0, !.mutating = FALSE]

\* Variant: a new plan leaves the apply run of the old one.
FinishSession_Execution(j) ==
  /\ thread[j].pc = "session"
  /\ thread' = [thread EXCEPT ![j].pc = "registry"]
  /\ session' =
       IF session.generation # thread[j].generation \/ session.job # j
       THEN [session EXCEPT !.mutating = @ /\ ~thread[j].mutation]
       ELSE IF ~thread[j].ok THEN Finished(j)
       ELSE CASE thread[j].kind \in {"plan", "revision"} -> [Finished(j) EXCEPT !.plan = thread[j].run]
              [] thread[j].kind = "apply" -> [Finished(j) EXCEPT !.execution = thread[j].run]
              [] OTHER -> Finished(j)
  /\ UNCHANGED <<jobs, mutation, reader, scan, doctor, command, caps, runs, deleted, archived>>

\* Variant: the result of an apply run becomes the plan.
FinishSession_Kind(j) ==
  /\ thread[j].pc = "session"
  /\ thread' = [thread EXCEPT ![j].pc = "registry"]
  /\ session' = IF thread[j].ok THEN [Finished(j) EXCEPT !.plan = thread[j].run] ELSE Finished(j)
  /\ UNCHANGED <<jobs, mutation, reader, scan, doctor, command, caps, runs, deleted, archived>>

\* finish_job_session: a result of another generation is dropped.
FinishSession(j) ==
  /\ thread[j].pc = "session"
  /\ thread' = [thread EXCEPT ![j].pc = "registry"]
  /\ session' =
       IF session.generation # thread[j].generation \/ session.job # j
       THEN [session EXCEPT !.mutating = @ /\ ~thread[j].mutation]
       ELSE IF ~thread[j].ok THEN Finished(j)
       ELSE CASE thread[j].kind \in {"plan", "revision"} ->
                   [Finished(j) EXCEPT !.plan = thread[j].run, !.execution = 0]
              [] thread[j].kind = "apply" -> [Finished(j) EXCEPT !.execution = thread[j].run]
              [] OTHER -> Finished(j)
  /\ UNCHANGED <<jobs, mutation, reader, scan, doctor, command, caps, runs, deleted, archived>>

\* Variant: the reservation stays.
FinishRegistry_Leaks(j) ==
  /\ thread[j].pc = "registry"
  /\ thread' = [thread EXCEPT ![j].pc = "ended"]
  /\ IF j \in DOMAIN jobs /\ jobs[j].status = "running"
     THEN jobs' = [jobs EXCEPT ![j].status = IF thread[j].ok THEN "completed" ELSE "failed"]
     ELSE UNCHANGED jobs
  /\ UNCHANGED <<session, mutation, reader, scan, doctor, command, caps, runs, deleted, archived>>

\* JobRegistry::finish, under its one lock; a snapshot that is gone keeps the
\* reservation.
FinishRegistry(j) ==
  /\ thread[j].pc = "registry"
  /\ thread' = [thread EXCEPT ![j].pc = "ended"]
  /\ IF j \in DOMAIN jobs /\ jobs[j].status = "running"
     THEN /\ jobs' = [jobs EXCEPT ![j].status = IF thread[j].ok THEN "completed" ELSE "failed"]
          /\ mutation' = IF mutation = j THEN Free ELSE mutation
     ELSE UNCHANGED <<jobs, mutation>>
  /\ UNCHANGED <<session, reader, scan, doctor, command, caps, runs, deleted, archived>>

----------------------------------------------------------------------------
(***************************************************************************)
(* Diagnoses, recovery, the history and manual targets.                    *)
(***************************************************************************)
\* reserve_doctor: another reader, which leaves the session alone.
StartDoctor ==
  /\ IdleContext /\ doctor' = "working" /\ reader' = "doctor"
  /\ UNCHANGED <<session, jobs, mutation, scan, command, thread, caps, runs, deleted, archived>>

\* DoctorUseCase::execute returns or, caught by catch_unwind, panics.
DoctorWork ==
  /\ doctor = "working" /\ doctor' = "release"
  /\ UNCHANGED <<session_vars, scan, command, thread, caps, runs, deleted, archived>>

\* The scan a diagnosis begins with never returns.
DoctorLost ==
  /\ doctor = "working" /\ doctor' = "lost"
  /\ UNCHANGED <<session_vars, scan, command, thread, caps, runs, deleted, archived>>

DoctorRelease ==
  /\ doctor = "release" /\ doctor' = "idle"
  /\ reader' = IF reader = "doctor" THEN None ELSE reader
  /\ UNCHANGED <<session, jobs, mutation, scan, command, thread, caps, runs, deleted, archived>>

Commanding(pc, run) ==
  command' = [pc |-> pc, expected |-> session.generation, run |-> run, archived |-> run \in archived]
CommandEnds == command' = NoCommand

\* run_recovery reserves the mutations while it holds the session.
StartRecovery ==
  /\ command.pc = "idle" /\ IdleContext /\ Bumped
  /\ Commanding("recover", 0) /\ mutation' = Recovering
  /\ UNCHANGED <<session, jobs, reader, scan, doctor, thread, caps, runs, deleted, archived>>

\* It recovers and verifies without a lock; an error drops the guard.
RecoveryWork ==
  /\ command.pc = "recover"
  /\ \E pc \in {"commit", "drop"} : command' = [command EXCEPT !.pc = pc]
  /\ UNCHANGED <<session_vars, scan, doctor, thread, caps, runs, deleted, archived>>

\* A recovery succeeds only if the generation is still the expected one.
RecoveryCommit ==
  /\ command.pc = "commit"
  /\ session' = IF session.generation = command.expected
                THEN [session EXCEPT !.generation = @ + 1] ELSE session
  /\ command' = [command EXCEPT !.pc = "drop"]
  /\ UNCHANGED <<jobs, mutation, reader, scan, doctor, thread, caps, runs, deleted, archived>>

\* Drop for ExternalMutationGuard
RecoveryDrop ==
  /\ command.pc = "drop" /\ CommandEnds
  /\ mutation' = IF mutation = Recovering THEN Free ELSE mutation
  /\ UNCHANGED <<session, jobs, reader, scan, doctor, thread, caps, runs, deleted, archived>>

\* invalidate_workflow
Invalidate ==
  /\ IdleContext /\ Bumped
  /\ \E scanned \in {0, session.scan} :
       session' = [NewSession(session.generation + 1) EXCEPT !.scan = scanned]
  /\ UNCHANGED <<jobs, mutation, reader, scan, doctor, command, thread, caps, runs, deleted, archived>>

\* activate_history reads a run and its parents before it takes the session.
ReadHistory ==
  /\ command.pc = "idle"
  /\ \E r \in Kept : Commanding("activate", r)
  /\ UNCHANGED <<session_vars, scan, doctor, thread, caps, runs, deleted, archived>>

Activated(r) ==
  [NewSession(session.generation + 1) EXCEPT
     !.scan = ScanOf(r),
     !.plan = CASE runs[r].kind = "scan" -> 0 [] runs[r].kind = "plan" -> r
                [] runs[r].kind = "apply" -> runs[r].parent,
     !.execution = IF runs[r].kind = "apply" THEN r ELSE 0,
     !.view_only = command.archived]

Activate ==
  /\ command.pc = "activate" /\ CommandEnds
  /\ session' = IF session.generation = command.expected /\ IdleContext /\ Bumped
                THEN Activated(command.run) ELSE session
  /\ UNCHANGED <<jobs, mutation, reader, scan, doctor, thread, caps, runs, deleted, archived>>

\* delete_history removes a scan and all that came of it, with the session held.
DeleteHistory ==
  /\ IdleContext /\ Bumped
  /\ \E s \in {r \in Kept : runs[r].kind = "scan"} :
       deleted' = deleted \cup {r \in DOMAIN runs : ScanOf(r) = s}
  /\ session' = NewSession(session.generation + 1)
  /\ UNCHANGED <<jobs, mutation, reader, scan, doctor, command, thread, caps, runs, archived>>

\* archive_history, under the session lock too.
ArchiveHistory ==
  /\ IdleContext /\ Bumped
  /\ \E s \in {r \in Kept \ archived : runs[r].kind = "scan"} :
       archived' = archived \cup {r \in DOMAIN runs : ScanOf(r) = s}
  /\ session' = NewSession(session.generation + 1)
  /\ UNCHANGED <<jobs, mutation, reader, scan, doctor, command, thread, caps, runs, deleted>>

\* authorize_plan_target checks the session, asks the database and issues.
CheckTarget ==
  /\ command.pc = "idle" /\ ~session.view_only /\ ~session.scanning /\ session.job = 0
  /\ session.plan # 0
  /\ Commanding("authorize", session.plan)
  /\ UNCHANGED <<session_vars, scan, doctor, thread, caps, runs, deleted, archived>>

IssueTarget ==
  /\ command.pc = "authorize" /\ CommandEnds
  /\ caps' = caps \cup {[plan |-> command.run, generation |-> command.expected]}
  /\ UNCHANGED <<session_vars, scan, doctor, thread, runs, deleted, archived>>

\* revise_plan_target consumes first, whatever becomes of the revision.
ConsumeTarget ==
  /\ command.pc = "idle"
  /\ \E c \in caps :
       /\ caps' = caps \ {c}
       /\ command' = [NoCommand EXCEPT !.pc = "revise", !.expected = c.generation, !.run = c.plan]
  /\ UNCHANGED <<session_vars, scan, doctor, thread, runs, deleted, archived>>

ReviseTarget ==
  /\ command.pc = "revise" /\ CommandEnds
  /\ \/ session.generation = command.expected /\ BeginJob("revision", FALSE, command.run)
     \/ UNCHANGED <<session_vars, scan, doctor, thread, runs, deleted, archived>>
  /\ UNCHANGED caps

----------------------------------------------------------------------------
Threads ==
  \/ ScanWork \/ ScanLost \/ ScanReport \/ ScanSession \/ ScanRelease
  \/ \E j \in Job : JobWork(j) \/ FinishSession(j) \/ FinishRegistry(j)
  \/ DoctorWork \/ DoctorLost \/ DoctorRelease
  \/ RecoveryWork \/ RecoveryCommit \/ RecoveryDrop \/ Activate \/ IssueTarget \/ ReviseTarget
Window ==
  \/ StartScan \/ CancelScan \/ ScanStatus \/ StartJob \/ StartDoctor \/ StartRecovery
  \/ Invalidate \/ ReadHistory \/ DeleteHistory \/ ArchiveHistory \/ CheckTarget \/ ConsumeTarget
Next == Threads \/ Window

Spec == Init /\ [][Next]_vars

\* Every thread, and a command that was begun, runs on, except where it is lost.
FairSpec ==
  /\ Spec
  /\ WF_vars(ScanWork \/ ScanReport \/ ScanSession \/ ScanRelease)
  /\ \A j \in Job : WF_vars(JobWork(j) \/ FinishSession(j) \/ FinishRegistry(j))
  /\ WF_vars(DoctorWork \/ DoctorRelease)
  /\ WF_vars(RecoveryWork \/ RecoveryCommit \/ RecoveryDrop \/ Activate \/ IssueTarget \/ ReviseTarget)

----------------------------------------------------------------------------
\* At most one of scan, diagnosis, recovery and the jobs is at work, a scan or a
\* diagnosis that never returns included, whatever the locks they are started under
\* let pass: the two reservations and the three fields of the session add up to one
\* exclusion (begin_job, start_scan, reserve_doctor, run_recovery,
\* ensure_idle_workflow_context).
OneAtATime ==
  Cardinality({j \in Job : thread[j].pc = "working"})
    + (IF scan.pc \in {"working", "lost"} THEN 1 ELSE 0)
    + (IF doctor \in {"working", "lost"} THEN 1 ELSE 0)
    + (IF command.pc = "recover" THEN 1 ELSE 0) <= 1

\* What the window shows hangs together: the plan is of the scan, the apply run of
\* the plan, none of them deleted, and archived plans can only be looked at, also
\* when a result or a history entry arrives late (finish_job_session,
\* activate_history, delete_history).
ContextConsistent ==
  /\ session.execution # 0 => runs[session.execution].parent = session.plan
  /\ session.plan # 0 => runs[session.plan].parent = session.scan
  /\ {session.scan, session.plan, session.execution} \cap deleted = {}
  /\ {session.plan, session.execution} \cap archived # {} => session.view_only

\* A window that finds its latest job ended can go on with the result at once: the
\* session shows it and is idle, and no reservation of the job is left.  The
\* snapshot is found whatever was pruned (run_job, JobRegistry::finish, begin_job,
\* list_active_jobs).
ResultUsable ==
  LET j == session.latest IN
  j # 0 =>
    /\ j \in DOMAIN jobs
    /\ jobs[j].status # "running" =>
         /\ session.job = 0 /\ ~session.mutating /\ mutation # j
         /\ jobs[j].status = "completed" /\ jobs[j].generation = session.generation =>
              thread[j].run \in {0, session.plan, session.execution}

\* Every reservation is given back (run_job, start_scan, start_doctor,
\* ExternalMutationGuard), unless a scan or a diagnosis never returns or panics.
ReservationsReturned ==
  ~IdleContext ~> IdleContext \/ scan.pc = "lost" \/ doctor = "lost"
=============================================================================
