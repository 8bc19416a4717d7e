--------------------------- MODULE MutationLease ---------------------------
(***************************************************************************)
(* Who may change the music folders: the two-layer mutation lease.         *)
(*                                                                         *)
(* Every apply, rollback or recovery first takes an operating system lock  *)
(* on its source and target roots (root_lock.rs), then, in one SQLite      *)
(* transaction, inserts lease rows that carry a fresh fencing token and an *)
(* expiry, and only then keeps the pair as a handle in memory              *)
(* (SqliteScanStore::acquire_mutation_lease).  Journal entries carry the   *)
(* token of the lease they were written under.  A crash drops the lock and *)
(* the handle but leaves the rows and the open entries behind; the next    *)
(* process that opens the database removes the rows whose locks nobody     *)
(* holds, and a recovery takes an open entry over with a newer token.      *)
(*                                                                         *)
(* A folder tree is abstracted to the set of regions it covers: two roots  *)
(* overlap (windows_path_scopes_overlap) iff they share a region.          *)
(***************************************************************************)
EXTENDS Integers, JournalStates

CONSTANTS
  Store,     \* SqliteScanStore instances, each in a process of its own
  Region,    \* disjoint pieces of the file system
  Op,        \* journal entries that may ever be prepared
  NoOp,      \* recovery_operation_id = None
  TTL,       \* MUTATION_LEASE_TTL_SECONDS
  MaxToken,  \* bound on last_fencing_token
  MaxClock   \* bound on the wall clock

ASSUME LeaseAssumption ==
  /\ NoOp \notin Op
  /\ TTL \in Nat \ {0}
  /\ MaxToken \in Nat
  /\ MaxClock \in Nat

VARIABLES
  clock,      \* now()
  lastToken,  \* mutation_lease_sequence.last_fencing_token
  rows,       \* mutation_leases: the tokens that have rows
  rowScopes,  \* their scopes, which a reconciliation remembers after a delete
  expires,    \* their expires_at
  journal,    \* operation_journal
  phase,      \* what each store is doing
  scopes,     \* the regions whose OS lock the store holds or is about to take
  token,      \* fencing token of the store's lease
  target,     \* the operation a recovery lease is taken for
  seen,       \* tokens read by reconciliation and not probed yet
  cand        \* tokens whose lock the probe found free

leaseVars == <<lastToken, rows, rowScopes, expires>>
dbVars == <<leaseVars, journal>>
storeVars == <<phase, scopes, token, target, seen, cand>>
vars == <<clock, dbVars, storeVars>>

Token == 1..MaxToken
Scope == SUBSET Region
Phase == {"closed", "probing", "guarded", "idle", "locked", "committed",
          "fencing", "held", "releasing", "leaked"}

NoEntry == [state |-> "none", token |-> 0, paths |-> {}, roots |-> {}]

Entry == [state: JournalState \cup {"none"}, token: Token \cup {0},
          paths: Scope, roots: Scope]

TypeOK ==
  /\ clock \in Nat
  /\ lastToken \in 0..MaxToken
  /\ rows \subseteq Token
  /\ rowScopes \in [Token -> Scope]
  /\ expires \in [Token -> Nat]
  /\ journal \in [Op -> Entry]
  /\ phase \in [Store -> Phase]
  /\ scopes \in [Store -> Scope]
  /\ token \in [Store -> Token \cup {0}]
  /\ target \in [Store -> Op \cup {NoOp}]
  /\ seen \in [Store -> SUBSET Token]
  /\ cand \in [Store -> SUBSET Token]

----------------------------------------------------------------------------
(***************************************************************************)
(* State predicates.                                                       *)
(***************************************************************************)
Overlaps(S, T) == S \cap T # {}

\* Variant: the lock is dropped between the commit and the handle.
Locking_Gap(s) ==
  phase[s] \in {"guarded", "locked", "fencing", "held", "releasing", "leaked"}

\* A RootProcessLock exists: the guard of a reconciliation, the lock of an
\* acquisition in progress, or the one a lease handle keeps alive.
Locking(s) ==
  phase[s] \in {"guarded", "locked", "committed", "fencing", "held", "releasing", "leaked"}

\* RootProcessLock::acquire_many(S) would succeed.
LockFree(S) == \A s \in Store : Locking(s) => ~Overlaps(scopes[s], S)

\* The lease was committed and its rows have not been given back.
Leased(s) == phase[s] \in {"committed", "fencing", "held", "leaked"}

RowActive(t) == t \in rows /\ expires[t] > clock

Open(j) == journal[j].state \in OpenState

\* mutation_leases has an unexpired row that overlaps S.
Busy(S) == \E t \in rows : RowActive(t) /\ Overlaps(rowScopes[t], S)

\* unresolved_journal_overlaps: an open entry other than `except` that no
\* unexpired lease covers has its source or target in S.
Unresolved(S, except) ==
  \E j \in Op : /\ j # except
                /\ Open(j)
                /\ ~RowActive(journal[j].token)
                /\ Overlaps(journal[j].paths, S)

\* renew_complete_mutation_lease: the rows of the handle are all still there.
\* Their expiry is not looked at.
Renewable(s) == token[s] \in rows /\ rowScopes[token[s]] = scopes[s]

\* Variant: the lifetime is subtracted.
Renew_Past(s) ==
  /\ Renewable(s)
  /\ expires' = [expires EXCEPT ![token[s]] = clock - TTL]
  /\ UNCHANGED <<lastToken, rows, rowScopes>>

\* All rows of the lease get a new lifetime, in the transaction of every write.
Renew(s) ==
  /\ Renewable(s)
  /\ expires' = [expires EXCEPT ![token[s]] = clock + TTL]
  /\ UNCHANGED <<lastToken, rows, rowScopes>>

\* DELETE FROM mutation_leases WHERE fencing_token IN T.
Delete(T) ==
  /\ rows' = rows \ T
  /\ UNCHANGED <<lastToken, rowScopes, expires>>

\* The lock and the handle are dropped.
Unlocked(s, ph) ==
  /\ phase' = [phase EXCEPT ![s] = ph]
  /\ scopes' = [scopes EXCEPT ![s] = {}]
  /\ token' = [token EXCEPT ![s] = 0]
  /\ target' = [target EXCEPT ![s] = NoOp]
  /\ seen' = [seen EXCEPT ![s] = {}]
  /\ cand' = [cand EXCEPT ![s] = {}]

Init ==
  /\ clock = 0
  /\ lastToken = 0
  /\ rows = {}
  /\ rowScopes = [t \in Token |-> {}]
  /\ expires = [t \in Token |-> 0]
  /\ journal = [j \in Op |-> NoEntry]
  /\ phase = [s \in Store |-> "closed"]
  /\ scopes = [s \in Store |-> {}]
  /\ token = [s \in Store |-> 0]
  /\ target = [s \in Store |-> NoOp]
  /\ seen = [s \in Store |-> {}]
  /\ cand = [s \in Store |-> {}]

----------------------------------------------------------------------------
(***************************************************************************)
(* Opening the database reconciles what a crash left behind                *)
(* (reconcile_abandoned_journals).                                         *)
(***************************************************************************)
\* SELECT ... FROM mutation_leases, before any lock is taken.
OpenStore(s) ==
  /\ phase[s] = "closed"
  /\ phase' = [phase EXCEPT ![s] = "probing"]
  /\ seen' = [seen EXCEPT ![s] = rows]
  /\ UNCHANGED <<clock, dbVars, scopes, token, target, cand>>

\* Each persisted lease is probed by taking and dropping its lock.
ProbeLease(s) ==
  /\ phase[s] = "probing"
  /\ \E t \in seen[s] :
       /\ seen' = [seen EXCEPT ![s] = @ \ {t}]
       /\ cand' = [cand EXCEPT ![s] = IF LockFree(rowScopes[t]) THEN @ \cup {t} ELSE @]
  /\ UNCHANGED <<clock, dbVars, phase, scopes, token, target>>

\* All candidates are locked again as one guard; if that fails none is removed.
GuardCandidates(s) ==
  LET all == UNION {rowScopes[t] : t \in cand[s]}
  IN  /\ phase[s] = "probing"
      /\ seen[s] = {}
      /\ phase' = [phase EXCEPT ![s] = "guarded"]
      /\ IF LockFree(all)
         THEN scopes' = [scopes EXCEPT ![s] = all] /\ UNCHANGED cand
         ELSE cand' = [cand EXCEPT ![s] = {}] /\ UNCHANGED scopes
      /\ UNCHANGED <<clock, dbVars, token, target, seen>>

\* The guarded rows are deleted and the guard dropped.  (The marks left on open
\* entries and runs change no state of an entry.)
ReconcileCommit(s) ==
  /\ phase[s] = "guarded"
  /\ Delete(cand[s])
  /\ Unlocked(s, "idle")
  /\ UNCHANGED <<clock, journal>>

----------------------------------------------------------------------------
(***************************************************************************)
(* Acquiring a lease.                                                      *)
(***************************************************************************)
\* Process lock for a run over roots S, or for the recovery of operation j,
\* whose roots are those of the run that prepared it.
LockScopes(s, S, j) ==
  /\ phase[s] = "idle"
  /\ S # {}
  /\ LockFree(S)
  /\ phase' = [phase EXCEPT ![s] = "locked"]
  /\ scopes' = [scopes EXCEPT ![s] = S]
  /\ target' = [target EXCEPT ![s] = j]
  /\ UNCHANGED <<clock, dbVars, token, seen, cand>>

LockForRun(s) == \E S \in Scope : LockScopes(s, S, NoOp)

LockForRecovery(s) ==
  \E j \in Op : journal[j].state # "none" /\ LockScopes(s, journal[j].roots, j)

\* Variant: open entries do not count.
AcquireAllowed_RowsOnly(S, except) == ~Busy(S)

\* What the BEGIN IMMEDIATE transaction demands before it inserts its rows.
AcquireAllowed(S, except) == ~Busy(S) /\ ~Unresolved(S, except)

\* Variant: dead rows anywhere, not only those in the way.
ExpiredOverlapping_Anywhere(S) == {t \in rows : ~RowActive(t)}

\* expired_overlapping_lease_tokens: dead rows swept out of the way.
ExpiredOverlapping(S) ==
  {t \in rows : ~RowActive(t) /\ Overlaps(rowScopes[t], S)}

\* Variant: the token is drawn from the rows instead of the persistent counter.
AcquireCommit_Recount(s) ==
  LET next == IF rows = {} THEN 1 ELSE 1 + CHOOSE t \in rows : \A u \in rows : u <= t
  IN  /\ phase[s] = "locked"
      /\ AcquireAllowed(scopes[s], target[s])
      /\ next <= MaxToken
      /\ lastToken' = IF next > lastToken THEN next ELSE lastToken
      /\ rows' = (rows \ ExpiredOverlapping(scopes[s])) \cup {next}
      /\ rowScopes' = [rowScopes EXCEPT ![next] = scopes[s]]
      /\ expires' = [expires EXCEPT ![next] = clock + TTL]
      /\ token' = [token EXCEPT ![s] = next]
      /\ phase' = [phase EXCEPT ![s] = "committed"]
      /\ UNCHANGED <<clock, journal, scopes, target, seen, cand>>

AcquireCommit(s) ==
  /\ phase[s] = "locked"
  /\ AcquireAllowed(scopes[s], target[s])
  /\ lastToken < MaxToken
  /\ lastToken' = lastToken + 1
  /\ rows' = (rows \ ExpiredOverlapping(scopes[s])) \cup {lastToken + 1}
  /\ rowScopes' = [rowScopes EXCEPT ![lastToken + 1] = scopes[s]]
  /\ expires' = [expires EXCEPT ![lastToken + 1] = clock + TTL]
  /\ token' = [token EXCEPT ![s] = lastToken + 1]
  /\ phase' = [phase EXCEPT ![s] = "committed"]
  /\ UNCHANGED <<clock, journal, scopes, target, seen, cand>>

\* "mutation_scope_busy", "mutation_recovery_required" or a database error.
AcquireFails(s) ==
  /\ phase[s] = "locked"
  /\ Unlocked(s, "idle")
  /\ UNCHANGED <<clock, dbVars>>

\* Lock and ownership move into lease_handles.
InsertHandle(s) ==
  /\ phase[s] = "committed"
  /\ phase' = [phase EXCEPT ![s] = IF target[s] = NoOp THEN "held" ELSE "fencing"]
  /\ UNCHANGED <<clock, dbVars, scopes, token, target, seen, cand>>

\* acquire_recovery_lease moves the open entry under the new token, unless
\* another unexpired lease still covers it.
MayRefence(s) ==
  LET j == target[s]
  IN  /\ Renewable(s)
      /\ Open(j)
      /\ ~(RowActive(journal[j].token) /\ journal[j].token # token[s])

Refence(s) ==
  /\ phase[s] = "fencing"
  /\ MayRefence(s)
  /\ journal' = [journal EXCEPT ![target[s]].token = token[s]]
  /\ Renew(s)
  /\ phase' = [phase EXCEPT ![s] = "held"]
  /\ UNCHANGED <<clock, scopes, token, target, seen, cand>>

\* "recovery_operation_fenced": the lease is given back.
RefenceRejected(s) ==
  /\ phase[s] = "fencing"
  /\ ~MayRefence(s)
  /\ phase' = [phase EXCEPT ![s] = "releasing"]
  /\ Delete({token[s]})
  /\ UNCHANGED <<clock, journal, scopes, token, target, seen, cand>>

\* A database error after the lease exists returns through `?`, and nobody
\* releases: the handle stays in lease_handles until the process ends.
RefenceError(s) ==
  /\ phase[s] = "fencing"
  /\ phase' = [phase EXCEPT ![s] = "leaked"]
  /\ UNCHANGED <<clock, dbVars, scopes, token, target, seen, cand>>

----------------------------------------------------------------------------
(***************************************************************************)
(* Working under a lease.                                                  *)
(***************************************************************************)
Heartbeat(s) ==
  /\ phase[s] = "held"
  /\ Renew(s)
  /\ UNCHANGED <<clock, journal, storeVars>>

\* prepare_journal_operation, by an apply or rollback run.  Nothing asks
\* whether the run's earlier entries were closed.
Prepare(s) ==
  /\ phase[s] = "held"
  /\ target[s] = NoOp
  /\ Renew(s)
  /\ \E j \in Op, P \in Scope :
       /\ journal[j].state = "none"
       /\ P # {}
       /\ P \subseteq scopes[s]
       /\ journal' = [journal EXCEPT ![j] =
             [state |-> "prepared", token |-> token[s], paths |-> P, roots |-> scopes[s]]]
  /\ UNCHANGED <<clock, storeVars>>

\* transition_journal_operation: compare-and-swap on state and token.
Transition(s) ==
  /\ phase[s] = "held"
  /\ Renew(s)
  /\ \E j \in Op, to \in JournalState :
       /\ journal[j].token = token[s]
       /\ target[s] \in {NoOp, j}
       /\ TransitionAllowed(journal[j].state, to)
       /\ journal' = [journal EXCEPT ![j].state = to]
  /\ UNCHANGED <<clock, storeVars>>

\* release_mutation_lease: first the rows, then the handle with its lock.
ReleaseRows(s) ==
  /\ phase[s] = "held"
  /\ Delete({token[s]})
  /\ phase' = [phase EXCEPT ![s] = "releasing"]
  /\ UNCHANGED <<clock, journal, scopes, token, target, seen, cand>>

DropHandle(s) ==
  /\ phase[s] = "releasing"
  /\ Unlocked(s, "idle")
  /\ UNCHANGED <<clock, dbVars>>

\* A failing DELETE returns before the handle is removed.
ReleaseError(s) ==
  /\ phase[s] = "held"
  /\ phase' = [phase EXCEPT ![s] = "leaked"]
  /\ UNCHANGED <<clock, dbVars, scopes, token, target, seen, cand>>

----------------------------------------------------------------------------
(***************************************************************************)
(* The environment.                                                        *)
(***************************************************************************)
\* The process ends, in order or not: the OS drops its locks, the database
\* keeps its rows.
Crash(s) ==
  /\ phase[s] # "closed"
  /\ Unlocked(s, "closed")
  /\ UNCHANGED <<clock, dbVars>>

Tick ==
  /\ clock < MaxClock
  /\ clock' = clock + 1
  /\ UNCHANGED <<dbVars, storeVars>>

Next ==
  \/ Tick
  \/ \E s \in Store :
       \/ OpenStore(s) \/ ProbeLease(s) \/ GuardCandidates(s) \/ ReconcileCommit(s)
       \/ LockForRun(s) \/ LockForRecovery(s) \/ AcquireCommit(s) \/ AcquireFails(s)
       \/ InsertHandle(s) \/ Refence(s) \/ RefenceRejected(s) \/ RefenceError(s)
       \/ Heartbeat(s) \/ Prepare(s) \/ Transition(s)
       \/ ReleaseRows(s) \/ DropHandle(s) \/ ReleaseError(s)
       \/ Crash(s)

Spec == Init /\ [][Next]_vars

----------------------------------------------------------------------------
(***************************************************************************)
(* Properties.                                                             *)
(***************************************************************************)
\* No two stores ever hold leases over overlapping roots, whatever crashed,
\* expired or was reconciled in between: neither in the operating system nor,
\* for a store that still works under its lease, in the database.
ScopeExclusion ==
  \A s, t \in Store :
    (s # t /\ Leased(s)) =>
       /\ Locking(t) => ~Overlaps(scopes[s], scopes[t])
       /\ token[s] # token[t]
       /\ \A k \in rows : k # token[s] => ~Overlaps(rowScopes[k], scopes[s])

\* The rows of a living owner survive: neither the expiry sweep of another
\* acquisition nor the reconciliation of a starting process, which read the
\* table before it took any lock, removes them.
LivingOwnerKeepsRows ==
  \A s \in Store : Leased(s) => Renewable(s)

\* A run works on roots nobody left unfinished: every open entry that touches
\* the scopes of a lease is the lease's own, or is the one entry its recovery
\* is about to take over.
IsolatedScope ==
  \A s \in Store, j \in Op :
    /\ Leased(s)
    /\ Open(j)
    /\ Overlaps(journal[j].paths, scopes[s])
    => journal[j].token = token[s] \/ (phase[s] # "held" /\ target[s] = j)

\* An entry only ever moves to a newer token, and the store that held it under
\* the older one has lost its lease by then: a late write of that store fails.
FencingAdvances ==
  [][\A j \in Op :
       journal'[j].token # journal[j].token =>
         /\ journal'[j].token > journal[j].token
         /\ \A s \in Store : Leased(s) => token[s] # journal[j].token]_vars

\* An open entry can always be recovered once no lease and no lock is left on
\* its roots: architecture.ja.md:56 promises that the explicit recovery of a
\* selected operation obtains a new token after reconciliation.
RecoveryObtainable ==
  \A j \in Op :
    (/\ Open(j)
     /\ LockFree(journal[j].roots)
     /\ \A t \in rows : ~Overlaps(rowScopes[t], journal[j].roots))
    => AcquireAllowed(journal[j].roots, j)

----------------------------------------------------------------------------
(***************************************************************************)
(* The inductive invariant behind them.                                    *)
(***************************************************************************)
\* A token is never ahead of the counter it was drawn from.
TokensDrawn ==
  /\ \A t \in rows : t <= lastToken
  /\ \A j \in Op : journal[j].token <= lastToken
  /\ \A s \in Store : /\ token[s] <= lastToken
                      /\ \A t \in seen[s] \cup cand[s] : t <= lastToken

\* Operating system locks exclude each other.
LocksDisjoint ==
  \A s, t \in Store :
    (s # t /\ Locking(s) /\ Locking(t)) => ~Overlaps(scopes[s], scopes[t])

\* The phases of an acquisition, from the lock on.
Acquired == {"locked", "committed", "fencing", "held", "releasing", "leaked"}

\* What a store knows of its lock, token and target in each phase.
HandlesConsistent ==
  \A s \in Store :
    /\ ~Locking(s) => scopes[s] = {}
    /\ phase[s] \in Acquired => scopes[s] # {}
    /\ ~Leased(s) => (token[s] = 0 \/ (phase[s] = "releasing" /\ token[s] \notin rows))
    /\ phase[s] = "guarded" => \A t \in cand[s] : rowScopes[t] \subseteq scopes[s]
    /\ phase[s] \notin Acquired => target[s] = NoOp
    /\ phase[s] = "fencing" => target[s] # NoOp
    /\ target[s] # NoOp => /\ journal[target[s]].state # "none"
                           /\ scopes[s] = journal[target[s]].roots
    /\ (target[s] # NoOp /\ phase[s] \in {"committed", "fencing"})
         => journal[target[s]].token < token[s]

\* An entry stays inside the roots it was prepared under and, as long as they
\* exist, inside the rows of its token.
EntriesCovered ==
  \A j \in Op :
    /\ journal[j].state = "none" => journal[j].token = 0
    /\ journal[j].state # "none" =>
         /\ journal[j].paths # {}
         /\ journal[j].paths \subseteq journal[j].roots
         /\ journal[j].token \in rows =>
              journal[j].paths \subseteq rowScopes[journal[j].token]

\* No other row overlaps the roots of a living lease.
RowsDisjoint ==
  \A s \in Store : \A k \in rows :
    (Leased(s) /\ k # token[s]) => ~Overlaps(rowScopes[k], scopes[s])

IInv ==
  /\ TypeOK
  /\ TokensDrawn
  /\ LocksDisjoint
  /\ HandlesConsistent
  /\ LivingOwnerKeepsRows
  /\ RowsDisjoint
  /\ EntriesCovered
  /\ IsolatedScope
=============================================================================
