------------------------ MODULE MutationLease_proofs ------------------------
(***************************************************************************)
(* Proofs about MutationLease, for any number of stores, regions, entries  *)
(* and tokens.                                                             *)
(*                                                                         *)
(* ScopeExclusion is not inductive on its own: it holds in the database    *)
(* because it holds among the operating system locks (LocksDisjoint),      *)
(* because a living owner's rows say what it locks (LivingOwnerKeepsRows)  *)
(* and because a reconciliation deletes rows only while it holds their     *)
(* locks (HandlesConsistent, "guarded").  IsolatedScope needs in addition  *)
(* that entries stay inside the scopes of their token (EntriesCovered).    *)
(* IInv collects these; one lemma per action shows that it is preserved.   *)
(***************************************************************************)
EXTENDS MutationLease, TLAPS

USE DEF Overlaps, Locking, Leased, Acquired, Open, dbVars, storeVars, leaseVars

\* Nothing is locked, leased or prepared at first.
LEMMA InitIInv == Init => IInv
<1> SUFFICES ASSUME Init PROVE IInv
  OBVIOUS
<1>1. TypeOK
  BY LeaseAssumption DEF Init, TypeOK, Phase, Token, Scope, Entry, NoEntry
<1>2. TokensDrawn /\ EntriesCovered
  BY DEF Init, TokensDrawn, EntriesCovered, NoEntry
<1>3. HandlesConsistent
  BY DEF Init, HandlesConsistent
<1>4. LocksDisjoint /\ LivingOwnerKeepsRows /\ RowsDisjoint /\ IsolatedScope
  BY DEF Init, LocksDisjoint, LivingOwnerKeepsRows, RowsDisjoint, IsolatedScope
<1> QED BY <1>1, <1>2, <1>3, <1>4 DEF IInv

----------------------------------------------------------------------------
\* Reading the lease table changes no lease and takes no lock.
LEMMA OpenStoreStep ==
  ASSUME IInv, NEW s \in Store, OpenStore(s)
  PROVE  IInv'
<1> USE LeaseAssumption DEF IInv
<1>1. TypeOK'
  BY DEF TypeOK, OpenStore, Phase, Token, Scope, Entry
<1>2. TokensDrawn'
  BY DEF TypeOK, TokensDrawn, OpenStore
<1>3. LocksDisjoint'
  BY DEF TypeOK, LocksDisjoint, HandlesConsistent, OpenStore
<1>4. HandlesConsistent'
  BY DEF TypeOK, TokensDrawn, HandlesConsistent, EntriesCovered, OpenStore
<1>5. LivingOwnerKeepsRows'
  BY DEF TypeOK, TokensDrawn, HandlesConsistent, LivingOwnerKeepsRows, OpenStore, Renewable
<1>6. RowsDisjoint'
  BY DEF TypeOK, TokensDrawn, RowsDisjoint, OpenStore
<1>7. EntriesCovered'
  BY DEF TypeOK, TokensDrawn, HandlesConsistent, EntriesCovered, LivingOwnerKeepsRows,
     OpenStore
<1>8. IsolatedScope'
  BY DEF TypeOK, HandlesConsistent, EntriesCovered, IsolatedScope, LocksDisjoint, OpenStore
<1> QED BY <1>1, <1>2, <1>3, <1>4, <1>5, <1>6, <1>7, <1>8

\* A probe takes and drops its lock within the step.
LEMMA ProbeLeaseStep ==
  ASSUME IInv, NEW s \in Store, ProbeLease(s)
  PROVE  IInv'
<1> USE LeaseAssumption DEF IInv
<1>1. TypeOK'
  BY DEF TypeOK, ProbeLease, Phase, Token, Scope, Entry
<1>2. TokensDrawn'
  BY DEF TypeOK, TokensDrawn, ProbeLease
<1>3. LocksDisjoint'
  BY DEF TypeOK, LocksDisjoint, HandlesConsistent, ProbeLease
<1>4. HandlesConsistent'
  BY DEF TypeOK, TokensDrawn, HandlesConsistent, EntriesCovered, ProbeLease
<1>5. LivingOwnerKeepsRows'
  BY DEF TypeOK, TokensDrawn, HandlesConsistent, LivingOwnerKeepsRows, ProbeLease, Renewable
<1>6. RowsDisjoint'
  BY DEF TypeOK, TokensDrawn, RowsDisjoint, ProbeLease
<1>7. EntriesCovered'
  BY DEF TypeOK, TokensDrawn, HandlesConsistent, EntriesCovered, LivingOwnerKeepsRows,
     ProbeLease
<1>8. IsolatedScope'
  BY DEF TypeOK, HandlesConsistent, EntriesCovered, IsolatedScope, LocksDisjoint, ProbeLease
<1> QED BY <1>1, <1>2, <1>3, <1>4, <1>5, <1>6, <1>7, <1>8

\* The guard is a lock like any other: it is taken only where no store holds one.
LEMMA GuardCandidatesStep ==
  ASSUME IInv, NEW s \in Store, GuardCandidates(s)
  PROVE  IInv'
<1> USE LeaseAssumption DEF IInv
<1>1. UNION {rowScopes[t] : t \in cand[s]} \in Scope
  BY DEF TypeOK, Scope
<1>2. scopes' \in [Store -> Scope] /\ cand' \in [Store -> SUBSET Token]
  BY <1>1 DEF TypeOK, GuardCandidates
<1>3. TypeOK'
  BY <1>1, <1>2 DEF TypeOK, GuardCandidates, LockFree, Phase, Token, Scope, Entry
<1>4. TokensDrawn'
  BY <1>1, <1>2 DEF TypeOK, TokensDrawn, GuardCandidates, LockFree
<1>5. LocksDisjoint'
  BY <1>1, <1>2 DEF TypeOK, LocksDisjoint, HandlesConsistent, GuardCandidates, LockFree
<1>6. HandlesConsistent'
  BY <1>1, <1>2 DEF TypeOK, TokensDrawn, HandlesConsistent, EntriesCovered,
     GuardCandidates, LockFree
<1>7. LivingOwnerKeepsRows'
  BY <1>1, <1>2 DEF TypeOK, TokensDrawn, HandlesConsistent, LivingOwnerKeepsRows,
     GuardCandidates, LockFree, Renewable
<1>8. RowsDisjoint'
  BY <1>1, <1>2 DEF TypeOK, TokensDrawn, RowsDisjoint, GuardCandidates, LockFree
<1>9. EntriesCovered'
  BY <1>1, <1>2 DEF TypeOK, TokensDrawn, HandlesConsistent, EntriesCovered,
     LivingOwnerKeepsRows, GuardCandidates, LockFree
<1>10. IsolatedScope'
  BY <1>1, <1>2 DEF TypeOK, HandlesConsistent, EntriesCovered, IsolatedScope,
     LocksDisjoint, GuardCandidates, LockFree
<1> QED BY <1>3, <1>4, <1>5, <1>6, <1>7, <1>8, <1>9, <1>10

\* Reconciliation never deletes the row of a living owner: its guard covers the
\* scopes of every row it deletes, and a living owner locks its own.
LEMMA ReconcileCommitStep ==
  ASSUME IInv, NEW s \in Store, ReconcileCommit(s)
  PROVE  IInv'
<1> USE LeaseAssumption DEF IInv
<1>1. \A u \in Store : Leased(u) => token[u] \notin cand[s]
  BY DEF TypeOK, LocksDisjoint, HandlesConsistent, LivingOwnerKeepsRows, ReconcileCommit,
     Renewable
<1>2. TypeOK'
  BY <1>1 DEF TypeOK, ReconcileCommit, Unlocked, Delete, Phase, Token, Scope, Entry
<1>3. TokensDrawn'
  BY <1>1 DEF TypeOK, TokensDrawn, ReconcileCommit, Unlocked, Delete
<1>4. LocksDisjoint'
  BY <1>1 DEF TypeOK, LocksDisjoint, HandlesConsistent, ReconcileCommit, Unlocked, Delete
<1>5. HandlesConsistent'
  BY <1>1 DEF TypeOK, TokensDrawn, HandlesConsistent, EntriesCovered, ReconcileCommit,
     Unlocked, Delete
<1>6. LivingOwnerKeepsRows'
  BY <1>1 DEF TypeOK, TokensDrawn, HandlesConsistent, LivingOwnerKeepsRows,
     ReconcileCommit, Unlocked, Delete, Renewable
<1>7. RowsDisjoint'
  BY <1>1 DEF TypeOK, TokensDrawn, RowsDisjoint, ReconcileCommit, Unlocked, Delete
<1>8. EntriesCovered'
  BY <1>1 DEF TypeOK, TokensDrawn, HandlesConsistent, EntriesCovered,
     LivingOwnerKeepsRows, ReconcileCommit, Unlocked, Delete
<1>9. IsolatedScope'
  BY <1>1 DEF TypeOK, HandlesConsistent, EntriesCovered, IsolatedScope, LocksDisjoint,
     ReconcileCommit, Unlocked, Delete
<1> QED BY <1>2, <1>3, <1>4, <1>5, <1>6, <1>7, <1>8, <1>9

\* A run locks roots that no other store locks.
LEMMA LockForRunStep ==
  ASSUME IInv, NEW s \in Store, LockForRun(s)
  PROVE  IInv'
<1> USE LeaseAssumption DEF IInv
<1>1. TypeOK'
  BY DEF TypeOK, LockForRun, LockScopes, LockFree, Phase, Token, Scope, Entry
<1>2. TokensDrawn'
  BY DEF TypeOK, TokensDrawn, LockForRun, LockScopes, LockFree
<1>3. LocksDisjoint'
  BY DEF TypeOK, LocksDisjoint, HandlesConsistent, LockForRun, LockScopes, LockFree
<1>4. HandlesConsistent'
  BY DEF TypeOK, TokensDrawn, HandlesConsistent, EntriesCovered, LockForRun, LockScopes,
     LockFree
<1>5. LivingOwnerKeepsRows'
  BY DEF TypeOK, TokensDrawn, HandlesConsistent, LivingOwnerKeepsRows, LockForRun,
     LockScopes, LockFree, Renewable
<1>6. RowsDisjoint'
  BY DEF TypeOK, TokensDrawn, RowsDisjoint, LockForRun, LockScopes, LockFree
<1>7. EntriesCovered'
  BY DEF TypeOK, TokensDrawn, HandlesConsistent, EntriesCovered, LivingOwnerKeepsRows,
     LockForRun, LockScopes, LockFree
<1>8. IsolatedScope'
  BY DEF TypeOK, HandlesConsistent, EntriesCovered, IsolatedScope, LocksDisjoint,
     LockForRun, LockScopes, LockFree
<1> QED BY <1>1, <1>2, <1>3, <1>4, <1>5, <1>6, <1>7, <1>8

\* So does a recovery, on the roots its entry was prepared under.
LEMMA LockForRecoveryStep ==
  ASSUME IInv, NEW s \in Store, LockForRecovery(s)
  PROVE  IInv'
<1> USE LeaseAssumption DEF IInv
<1>1. TypeOK'
  BY DEF TypeOK, LockForRecovery, LockScopes, LockFree, Phase, Token, Scope, Entry
<1>2. TokensDrawn'
  BY DEF TypeOK, TokensDrawn, LockForRecovery, LockScopes, LockFree
<1>3. LocksDisjoint'
  BY DEF TypeOK, LocksDisjoint, HandlesConsistent, LockForRecovery, LockScopes, LockFree
<1>4. HandlesConsistent'
  BY DEF TypeOK, TokensDrawn, HandlesConsistent, EntriesCovered, LockForRecovery,
     LockScopes, LockFree
<1>5. LivingOwnerKeepsRows'
  BY DEF TypeOK, TokensDrawn, HandlesConsistent, LivingOwnerKeepsRows, LockForRecovery,
     LockScopes, LockFree, Renewable
<1>6. RowsDisjoint'
  BY DEF TypeOK, TokensDrawn, RowsDisjoint, LockForRecovery, LockScopes, LockFree
<1>7. EntriesCovered'
  BY DEF TypeOK, TokensDrawn, HandlesConsistent, EntriesCovered, LivingOwnerKeepsRows,
     LockForRecovery, LockScopes, LockFree
<1>8. IsolatedScope'
  BY DEF TypeOK, HandlesConsistent, EntriesCovered, IsolatedScope, LocksDisjoint,
     LockForRecovery, LockScopes, LockFree
<1> QED BY <1>1, <1>2, <1>3, <1>4, <1>5, <1>6, <1>7, <1>8

\* The heart of the invariant.  The rows that survive the sweep do not overlap the
\* new ones, no living owner's row is swept, and every open entry on the new roots is
\* the one the lease is taken for.
LEMMA AcquireCommitStep ==
  ASSUME IInv, NEW s \in Store, AcquireCommit(s)
  PROVE  IInv'
<1> DEFINE n == lastToken + 1
<1> USE LeaseAssumption DEF IInv
<1>1. /\ lastToken \in Nat /\ n \in 0..MaxToken
      /\ n \in Token /\ n \notin rows
      /\ \A t \in Token : t \in Nat
  BY DEF TypeOK, TokensDrawn, AcquireCommit, Token
<1>13. /\ \A j \in Op : journal[j].token \in Nat /\ journal[j].token < n
      /\ \A u \in Store : token[u] \in Nat /\ token[u] < n
  <2>1. \A j \in Op : journal[j].token \in Token \cup {0}
    BY DEF TypeOK, Entry
  <2>2. \A u \in Store : token[u] \in Token \cup {0}
    BY DEF TypeOK
  <2> QED BY <1>1, <2>1, <2>2 DEF TokensDrawn
<1>2. \A t \in rows \ ExpiredOverlapping(scopes[s]) : ~Overlaps(rowScopes[t], scopes[s])
  BY DEF AcquireCommit, AcquireAllowed, Busy, ExpiredOverlapping
<1>3. \A u \in Store : Leased(u) => u # s /\ token[u] \notin ExpiredOverlapping(scopes[s])
  BY DEF TypeOK, LocksDisjoint, LivingOwnerKeepsRows, Renewable, AcquireCommit,
     ExpiredOverlapping
<1>4. /\ lastToken' = n
      /\ rows' = (rows \ ExpiredOverlapping(scopes[s])) \cup {n}
      /\ rowScopes' = [rowScopes EXCEPT ![n] = scopes[s]]
      /\ expires' = [expires EXCEPT ![n] = clock + TTL]
      /\ token' = [token EXCEPT ![s] = n]
      /\ phase' = [phase EXCEPT ![s] = "committed"]
      /\ phase[s] = "locked"
      /\ UNCHANGED <<clock, journal, scopes, target, seen, cand>>
  BY DEF AcquireCommit
<1> HIDE DEF n
<1>5. TypeOK'
  <2>1. clock + TTL \in Nat
    BY DEF TypeOK
  <2>2. expires' \in [Token -> Nat]
    BY <1>1, <1>4, <2>1 DEF TypeOK
  <2>3. rowScopes' \in [Token -> Scope]
    BY <1>1, <1>4 DEF TypeOK
  <2>4. token' \in [Store -> Token \cup {0}]
    BY <1>1, <1>4 DEF TypeOK
  <2>5. rows' \subseteq Token /\ lastToken' \in 0..MaxToken
    BY <1>1, <1>4 DEF TypeOK
  <2>6. phase' \in [Store -> Phase]
    BY <1>4 DEF TypeOK, Phase
  <2> QED BY <1>4, <2>2, <2>3, <2>4, <2>5, <2>6 DEF TypeOK
<1>6. TokensDrawn'
  <2>0. n = lastToken + 1
    BY DEF n
  <2>1. \A t \in rows' : t <= lastToken'
    BY <1>1, <1>4, <2>0 DEF TypeOK, TokensDrawn
  <2>2. \A j \in Op : journal'[j].token <= lastToken'
    BY <1>1, <1>4, <1>13, <2>0
  <2>3. \A u \in Store : token'[u] <= lastToken'
    BY <1>1, <1>4, <1>13, <2>0 DEF TypeOK
  <2>4. \A u \in Store : \A t \in seen'[u] \cup cand'[u] : t <= lastToken'
    BY <1>1, <1>4, <2>0 DEF TypeOK, TokensDrawn
  <2> QED BY <2>1, <2>2, <2>3, <2>4 DEF TokensDrawn
<1>7. HandlesConsistent'
  <2>0. n = lastToken + 1
    BY DEF n
  <2>2. target[s] # NoOp => journal[target[s]].token < n
    BY <1>13 DEF TypeOK
  <2>3. \A u \in Store : n \notin cand[u]
    BY <1>1, <2>0 DEF TypeOK, TokensDrawn
  <2>4. \A u \in Store \ {s} : phase'[u] = phase[u] /\ token'[u] = token[u]
    BY <1>4 DEF TypeOK
  <2>5. phase'[s] = "committed" /\ token'[s] = n
    BY <1>4 DEF TypeOK
  <2>6. \A u \in Store : \A t \in cand[u] : rowScopes'[t] = rowScopes[t]
    BY <1>4, <2>3 DEF TypeOK
  <2>7. \A u \in Store : token[u] \notin rows => u = s \/ token'[u] \notin rows'
    BY <1>4, <1>13, <2>4
  <2> QED
    BY <1>4, <2>2, <2>4, <2>5, <2>6, <2>7 DEF HandlesConsistent
<1>8. LivingOwnerKeepsRows'
  BY <1>1, <1>3, <1>4  DEF TypeOK, LivingOwnerKeepsRows, Renewable
<1>9. RowsDisjoint'
  BY <1>1, <1>2, <1>3, <1>4  DEF TypeOK, RowsDisjoint, LocksDisjoint
<1>10. EntriesCovered'
  BY <1>4, <1>13 DEF TypeOK, EntriesCovered
<1>11. IsolatedScope'
  <2>1. \A j \in Op : (Open(j) /\ Overlaps(journal[j].paths, scopes[s])) => j = target[s]
    <3> SUFFICES ASSUME NEW j \in Op, Open(j), Overlaps(journal[j].paths, scopes[s]), j # target[s]
                 PROVE  FALSE
      OBVIOUS
    <3>1. RowActive(journal[j].token)
      BY DEF AcquireCommit, AcquireAllowed, Unresolved
    <3>2. journal[j].state # "none"
      BY DEF OpenState, JournalState
    <3>3. journal[j].token \in rows /\ Overlaps(rowScopes[journal[j].token], scopes[s])
      BY <3>1, <3>2 DEF EntriesCovered, RowActive
    <3> QED BY <3>1, <3>3 DEF AcquireCommit, AcquireAllowed, Busy
  <2>2. phase'[s] = "committed" /\ \A u \in Store \ {s} : phase'[u] = phase[u] /\ token'[u] = token[u]
    BY <1>4 DEF TypeOK
  <2>3. ASSUME NEW u \in Store, NEW j \in Op, Leased(u)', Open(j)', Overlaps(journal[j].paths, scopes[u])'
        PROVE  journal[j].token = token'[u] \/ (phase'[u] # "held" /\ target[u] = j)
    <3>1. CASE u = s
      BY <1>4, <2>1, <2>2, <2>3, <3>1
    <3>2. CASE u # s
      BY <1>4, <2>2, <2>3, <3>2 DEF IsolatedScope
    <3> QED BY <3>1, <3>2
  <2> QED BY <1>4, <2>3 DEF IsolatedScope
<1>12. LocksDisjoint'
  BY <1>4 DEF TypeOK, LocksDisjoint
<1> QED BY <1>5, <1>6, <1>7, <1>8, <1>9, <1>10, <1>11, <1>12


\* A refused acquisition drops its lock.
LEMMA AcquireFailsStep ==
  ASSUME IInv, NEW s \in Store, AcquireFails(s)
  PROVE  IInv'
<1> USE LeaseAssumption DEF IInv
<1>1. TypeOK'
  BY DEF TypeOK, AcquireFails, Unlocked, Phase, Token, Scope, Entry
<1>2. TokensDrawn'
  BY DEF TypeOK, TokensDrawn, AcquireFails, Unlocked
<1>3. LocksDisjoint'
  BY DEF TypeOK, LocksDisjoint, HandlesConsistent, AcquireFails, Unlocked
<1>4. HandlesConsistent'
  BY DEF TypeOK, TokensDrawn, HandlesConsistent, EntriesCovered, AcquireFails, Unlocked
<1>5. LivingOwnerKeepsRows'
  BY DEF TypeOK, TokensDrawn, HandlesConsistent, LivingOwnerKeepsRows, AcquireFails,
     Unlocked, Renewable
<1>6. RowsDisjoint'
  BY DEF TypeOK, TokensDrawn, RowsDisjoint, AcquireFails, Unlocked
<1>7. EntriesCovered'
  BY DEF TypeOK, TokensDrawn, HandlesConsistent, EntriesCovered, LivingOwnerKeepsRows,
     AcquireFails, Unlocked
<1>8. IsolatedScope'
  BY DEF TypeOK, HandlesConsistent, EntriesCovered, IsolatedScope, LocksDisjoint,
     AcquireFails, Unlocked
<1> QED BY <1>1, <1>2, <1>3, <1>4, <1>5, <1>6, <1>7, <1>8

\* The handle takes over a lock that is already held.
LEMMA InsertHandleStep ==
  ASSUME IInv, NEW s \in Store, InsertHandle(s)
  PROVE  IInv'
<1> USE LeaseAssumption DEF IInv
<1>1. TypeOK'
  BY DEF TypeOK, InsertHandle, Phase, Token, Scope, Entry
<1>2. TokensDrawn'
  BY DEF TypeOK, TokensDrawn, InsertHandle
<1>3. LocksDisjoint'
  BY DEF TypeOK, LocksDisjoint, HandlesConsistent, InsertHandle
<1>4. HandlesConsistent'
  BY DEF TypeOK, TokensDrawn, HandlesConsistent, EntriesCovered, InsertHandle
<1>5. LivingOwnerKeepsRows'
  BY DEF TypeOK, TokensDrawn, HandlesConsistent, LivingOwnerKeepsRows, InsertHandle,
     Renewable
<1>6. RowsDisjoint'
  BY DEF TypeOK, TokensDrawn, RowsDisjoint, InsertHandle
<1>7. EntriesCovered'
  BY DEF TypeOK, TokensDrawn, HandlesConsistent, EntriesCovered, LivingOwnerKeepsRows,
     InsertHandle
<1>8. IsolatedScope'
  BY DEF TypeOK, HandlesConsistent, EntriesCovered, IsolatedScope, LocksDisjoint,
     InsertHandle
<1> QED BY <1>1, <1>2, <1>3, <1>4, <1>5, <1>6, <1>7, <1>8

\* The entry changes hands inside the roots both leases were taken on.
LEMMA RefenceStep ==
  ASSUME IInv, NEW s \in Store, Refence(s)
  PROVE  IInv'
<1> USE LeaseAssumption DEF IInv
<1>1. target[s] \in Op /\ token[s] \in Token /\ clock + TTL \in Nat
  BY DEF TypeOK, Refence, MayRefence, Renewable, HandlesConsistent
<1>2. TypeOK'
  <2>1. journal' \in [Op -> Entry]
    BY <1>1 DEF TypeOK, Refence, Entry
  <2>2. expires' \in [Token -> Nat]
    BY <1>1 DEF TypeOK, Refence, Renew
  <2>3. phase' \in [Store -> Phase]
    BY DEF TypeOK, Refence, Phase
  <2> QED BY <2>1, <2>2, <2>3 DEF TypeOK, Refence, Renew
<1>3. HandlesConsistent'
  <2>1. /\ journal'[target[s]].token = token[s]
        /\ \A j \in Op : /\ j # target[s] => journal'[j].token = journal[j].token
                         /\ journal'[j].state = journal[j].state
                         /\ journal'[j].roots = journal[j].roots
    BY <1>1 DEF TypeOK, Refence, Entry
  <2>2. \A u \in Store \ {s} : target[u] = target[s] => target[u] = NoOp
    BY <1>1 DEF TypeOK, HandlesConsistent, LocksDisjoint, Refence
  <2>3. /\ phase'[s] = "held" /\ phase[s] = "fencing"
        /\ \A u \in Store \ {s} : phase'[u] = phase[u]
    BY DEF TypeOK, Refence
  <2> QED BY <2>1, <2>2, <2>3 DEF TypeOK, HandlesConsistent, Refence, Renew
<1>4. TokensDrawn'
  BY <1>1 DEF TypeOK, TokensDrawn, Refence, Renew
<1>5. EntriesCovered'
  BY <1>1 DEF TypeOK, EntriesCovered, Refence, Renew, MayRefence, Renewable,
     HandlesConsistent
<1>6. LocksDisjoint'
  BY DEF TypeOK, LocksDisjoint, Refence
<1>7. LivingOwnerKeepsRows'
  BY DEF TypeOK, LivingOwnerKeepsRows, Refence, Renew, Renewable
<1>8. RowsDisjoint'
  BY DEF TypeOK, RowsDisjoint, Refence, Renew
<1>9. IsolatedScope'
  BY <1>1 DEF TypeOK, HandlesConsistent, EntriesCovered, IsolatedScope, LocksDisjoint,
     Refence
<1> QED BY <1>2, <1>3, <1>4, <1>5, <1>6, <1>7, <1>8, <1>9

\* Only the lease's own rows are deleted.
LEMMA RefenceRejectedStep ==
  ASSUME IInv, NEW s \in Store, RefenceRejected(s)
  PROVE  IInv'
<1> USE LeaseAssumption DEF IInv
<1>1. \A u \in Store : (Leased(u) /\ u # s) => token[u] # token[s]
  BY DEF TypeOK, LocksDisjoint, HandlesConsistent, LivingOwnerKeepsRows, Renewable,
     RefenceRejected
<1>2. TypeOK'
  BY <1>1 DEF TypeOK, RefenceRejected, Delete, Phase, Token, Scope, Entry
<1>3. TokensDrawn'
  BY <1>1 DEF TypeOK, TokensDrawn, RefenceRejected, Delete
<1>4. LocksDisjoint'
  BY <1>1 DEF TypeOK, LocksDisjoint, HandlesConsistent, RefenceRejected, Delete
<1>5. HandlesConsistent'
  BY <1>1 DEF TypeOK, TokensDrawn, HandlesConsistent, EntriesCovered, RefenceRejected,
     Delete
<1>6. LivingOwnerKeepsRows'
  BY <1>1 DEF TypeOK, TokensDrawn, HandlesConsistent, LivingOwnerKeepsRows,
     RefenceRejected, Delete, Renewable
<1>7. RowsDisjoint'
  BY <1>1 DEF TypeOK, TokensDrawn, RowsDisjoint, RefenceRejected, Delete
<1>8. EntriesCovered'
  BY <1>1 DEF TypeOK, TokensDrawn, HandlesConsistent, EntriesCovered,
     LivingOwnerKeepsRows, RefenceRejected, Delete
<1>9. IsolatedScope'
  BY <1>1 DEF TypeOK, HandlesConsistent, EntriesCovered, IsolatedScope, LocksDisjoint,
     RefenceRejected, Delete
<1> QED BY <1>2, <1>3, <1>4, <1>5, <1>6, <1>7, <1>8, <1>9

\* Only the lease's own rows are deleted.
LEMMA ReleaseRowsStep ==
  ASSUME IInv, NEW s \in Store, ReleaseRows(s)
  PROVE  IInv'
<1> USE LeaseAssumption DEF IInv
<1>1. \A u \in Store : (Leased(u) /\ u # s) => token[u] # token[s]
  BY DEF TypeOK, LocksDisjoint, HandlesConsistent, LivingOwnerKeepsRows, Renewable,
     ReleaseRows
<1>2. TypeOK'
  BY <1>1 DEF TypeOK, ReleaseRows, Delete, Phase, Token, Scope, Entry
<1>3. TokensDrawn'
  BY <1>1 DEF TypeOK, TokensDrawn, ReleaseRows, Delete
<1>4. LocksDisjoint'
  BY <1>1 DEF TypeOK, LocksDisjoint, HandlesConsistent, ReleaseRows, Delete
<1>5. HandlesConsistent'
  BY <1>1 DEF TypeOK, TokensDrawn, HandlesConsistent, EntriesCovered, ReleaseRows, Delete
<1>6. LivingOwnerKeepsRows'
  BY <1>1 DEF TypeOK, TokensDrawn, HandlesConsistent, LivingOwnerKeepsRows, ReleaseRows,
     Delete, Renewable
<1>7. RowsDisjoint'
  BY <1>1 DEF TypeOK, TokensDrawn, RowsDisjoint, ReleaseRows, Delete
<1>8. EntriesCovered'
  BY <1>1 DEF TypeOK, TokensDrawn, HandlesConsistent, EntriesCovered,
     LivingOwnerKeepsRows, ReleaseRows, Delete
<1>9. IsolatedScope'
  BY <1>1 DEF TypeOK, HandlesConsistent, EntriesCovered, IsolatedScope, LocksDisjoint,
     ReleaseRows, Delete
<1> QED BY <1>2, <1>3, <1>4, <1>5, <1>6, <1>7, <1>8, <1>9

\* A leaked lease keeps its lock and its rows.
LEMMA RefenceErrorStep ==
  ASSUME IInv, NEW s \in Store, RefenceError(s)
  PROVE  IInv'
<1> USE LeaseAssumption DEF IInv
<1>1. TypeOK'
  BY DEF TypeOK, RefenceError, Phase, Token, Scope, Entry
<1>2. TokensDrawn'
  BY DEF TypeOK, TokensDrawn, RefenceError
<1>3. LocksDisjoint'
  BY DEF TypeOK, LocksDisjoint, HandlesConsistent, RefenceError
<1>4. HandlesConsistent'
  BY DEF TypeOK, TokensDrawn, HandlesConsistent, EntriesCovered, RefenceError
<1>5. LivingOwnerKeepsRows'
  BY DEF TypeOK, TokensDrawn, HandlesConsistent, LivingOwnerKeepsRows, RefenceError,
     Renewable
<1>6. RowsDisjoint'
  BY DEF TypeOK, TokensDrawn, RowsDisjoint, RefenceError
<1>7. EntriesCovered'
  BY DEF TypeOK, TokensDrawn, HandlesConsistent, EntriesCovered, LivingOwnerKeepsRows,
     RefenceError
<1>8. IsolatedScope'
  BY DEF TypeOK, HandlesConsistent, EntriesCovered, IsolatedScope, LocksDisjoint,
     RefenceError
<1> QED BY <1>1, <1>2, <1>3, <1>4, <1>5, <1>6, <1>7, <1>8

\* A renewal moves an expiry and nothing else.
LEMMA HeartbeatStep ==
  ASSUME IInv, NEW s \in Store, Heartbeat(s)
  PROVE  IInv'
<1> USE LeaseAssumption DEF IInv
<1>1. clock + TTL \in Nat
  BY DEF TypeOK
<1>2. TypeOK'
  BY <1>1 DEF TypeOK, Heartbeat, Renew, Renewable, Phase, Token, Scope, Entry
<1>3. TokensDrawn'
  BY <1>1 DEF TypeOK, TokensDrawn, Heartbeat, Renew, Renewable
<1>4. LocksDisjoint'
  BY <1>1 DEF TypeOK, LocksDisjoint, HandlesConsistent, Heartbeat, Renew, Renewable
<1>5. HandlesConsistent'
  BY <1>1 DEF TypeOK, TokensDrawn, HandlesConsistent, EntriesCovered, Heartbeat, Renew,
     Renewable
<1>6. LivingOwnerKeepsRows'
  BY <1>1 DEF TypeOK, TokensDrawn, HandlesConsistent, LivingOwnerKeepsRows, Heartbeat,
     Renew, Renewable
<1>7. RowsDisjoint'
  BY <1>1 DEF TypeOK, TokensDrawn, RowsDisjoint, Heartbeat, Renew, Renewable
<1>8. EntriesCovered'
  BY <1>1 DEF TypeOK, TokensDrawn, HandlesConsistent, EntriesCovered,
     LivingOwnerKeepsRows, Heartbeat, Renew, Renewable
<1>9. IsolatedScope'
  BY <1>1 DEF TypeOK, HandlesConsistent, EntriesCovered, IsolatedScope, LocksDisjoint,
     Heartbeat, Renew, Renewable
<1> QED BY <1>2, <1>3, <1>4, <1>5, <1>6, <1>7, <1>8, <1>9

\* A new entry lies inside the scopes of the lease it is written under.
LEMMA PrepareStep ==
  ASSUME IInv, NEW s \in Store, Prepare(s)
  PROVE  IInv'
<1> USE LeaseAssumption DEF IInv
<1>1. PICK j \in Op, P \in Scope :
       /\ journal[j].state = "none"
       /\ P # {}
       /\ P \subseteq scopes[s]
       /\ journal' = [journal EXCEPT ![j] =
             [state |-> "prepared", token |-> token[s], paths |-> P, roots |-> scopes[s]]]
  BY DEF Prepare
<1>2. token[s] \in Token /\ clock + TTL \in Nat
  BY DEF TypeOK, Prepare, Renew, Renewable
<1>3. journal' \in [Op -> Entry]
  BY <1>1, <1>2 DEF TypeOK, Entry, JournalState
<1>4. TypeOK'
  BY <1>1, <1>2, <1>3 DEF TypeOK, Prepare, Renew, Renewable, Phase, Token, Scope, Entry
<1>5. TokensDrawn'
  BY <1>1, <1>2, <1>3 DEF TypeOK, TokensDrawn, Prepare, Renew, Renewable
<1>6. LocksDisjoint'
  BY <1>1, <1>2, <1>3 DEF TypeOK, LocksDisjoint, HandlesConsistent, Prepare, Renew,
     Renewable
<1>7. HandlesConsistent'
  BY <1>1, <1>2, <1>3 DEF TypeOK, TokensDrawn, HandlesConsistent, EntriesCovered, Prepare,
     Renew, Renewable
<1>8. LivingOwnerKeepsRows'
  BY <1>1, <1>2, <1>3 DEF TypeOK, TokensDrawn, HandlesConsistent, LivingOwnerKeepsRows,
     Prepare, Renew, Renewable
<1>9. RowsDisjoint'
  BY <1>1, <1>2, <1>3 DEF TypeOK, TokensDrawn, RowsDisjoint, Prepare, Renew, Renewable
<1>10. EntriesCovered'
  BY <1>1, <1>2, <1>3 DEF TypeOK, TokensDrawn, HandlesConsistent, EntriesCovered,
     LivingOwnerKeepsRows, Prepare, Renew, Renewable
<1>11. IsolatedScope'
  BY <1>1, <1>2, <1>3 DEF TypeOK, HandlesConsistent, EntriesCovered, IsolatedScope,
     LocksDisjoint, Prepare, Renew, Renewable
<1> QED BY <1>4, <1>5, <1>6, <1>7, <1>8, <1>9, <1>10, <1>11

\* A transition never reopens an entry, moves it or hands it over.
LEMMA TransitionStep ==
  ASSUME IInv, NEW s \in Store, Transition(s)
  PROVE  IInv'
<1> USE LeaseAssumption DEF IInv
<1>1. /\ journal' \in [Op -> Entry]
      /\ \A j \in Op : /\ journal'[j].token = journal[j].token
                       /\ journal'[j].paths = journal[j].paths
                       /\ journal'[j].roots = journal[j].roots
                       /\ journal[j].state = "none" <=> journal'[j].state = "none"
                       /\ journal'[j].state \in OpenState => journal[j].state \in OpenState
  BY SMTT(30) DEF TypeOK, Transition, Entry, TransitionAllowed, OpenState, TerminalState,
     JournalState
<1>2. clock + TTL \in Nat
  BY DEF TypeOK
<1>3. TypeOK'
  BY <1>1, <1>2 DEF TypeOK, Transition, Renew, Renewable, Phase, Token, Scope, Entry
<1>4. TokensDrawn'
  BY <1>1, <1>2 DEF TypeOK, TokensDrawn, Transition, Renew, Renewable
<1>5. LocksDisjoint'
  BY <1>1, <1>2 DEF TypeOK, LocksDisjoint, HandlesConsistent, Transition, Renew, Renewable
<1>6. HandlesConsistent'
  BY <1>1, <1>2 DEF TypeOK, TokensDrawn, HandlesConsistent, EntriesCovered, Transition,
     Renew, Renewable
<1>7. LivingOwnerKeepsRows'
  BY <1>1, <1>2 DEF TypeOK, TokensDrawn, HandlesConsistent, LivingOwnerKeepsRows,
     Transition, Renew, Renewable
<1>8. RowsDisjoint'
  BY <1>1, <1>2 DEF TypeOK, TokensDrawn, RowsDisjoint, Transition, Renew, Renewable
<1>9. EntriesCovered'
  BY <1>1, <1>2 DEF TypeOK, TokensDrawn, HandlesConsistent, EntriesCovered,
     LivingOwnerKeepsRows, Transition, Renew, Renewable
<1>10. IsolatedScope'
  BY <1>1, <1>2 DEF TypeOK, HandlesConsistent, EntriesCovered, IsolatedScope,
     LocksDisjoint, Transition, Renew, Renewable
<1> QED BY <1>3, <1>4, <1>5, <1>6, <1>7, <1>8, <1>9, <1>10

\* Dropping the handle frees a lock whose rows are gone.
LEMMA DropHandleStep ==
  ASSUME IInv, NEW s \in Store, DropHandle(s)
  PROVE  IInv'
<1> USE LeaseAssumption DEF IInv
<1>1. TypeOK'
  BY DEF TypeOK, DropHandle, Unlocked, Phase, Token, Scope, Entry
<1>2. TokensDrawn'
  BY DEF TypeOK, TokensDrawn, DropHandle, Unlocked
<1>3. LocksDisjoint'
  BY DEF TypeOK, LocksDisjoint, HandlesConsistent, DropHandle, Unlocked
<1>4. HandlesConsistent'
  BY DEF TypeOK, TokensDrawn, HandlesConsistent, EntriesCovered, DropHandle, Unlocked
<1>5. LivingOwnerKeepsRows'
  BY DEF TypeOK, TokensDrawn, HandlesConsistent, LivingOwnerKeepsRows, DropHandle,
     Unlocked, Renewable
<1>6. RowsDisjoint'
  BY DEF TypeOK, TokensDrawn, RowsDisjoint, DropHandle, Unlocked
<1>7. EntriesCovered'
  BY DEF TypeOK, TokensDrawn, HandlesConsistent, EntriesCovered, LivingOwnerKeepsRows,
     DropHandle, Unlocked
<1>8. IsolatedScope'
  BY DEF TypeOK, HandlesConsistent, EntriesCovered, IsolatedScope, LocksDisjoint,
     DropHandle, Unlocked
<1> QED BY <1>1, <1>2, <1>3, <1>4, <1>5, <1>6, <1>7, <1>8

\* A leaked lease keeps its lock and its rows.
LEMMA ReleaseErrorStep ==
  ASSUME IInv, NEW s \in Store, ReleaseError(s)
  PROVE  IInv'
<1> USE LeaseAssumption DEF IInv
<1>1. TypeOK'
  BY DEF TypeOK, ReleaseError, Phase, Token, Scope, Entry
<1>2. TokensDrawn'
  BY DEF TypeOK, TokensDrawn, ReleaseError
<1>3. LocksDisjoint'
  BY DEF TypeOK, LocksDisjoint, HandlesConsistent, ReleaseError
<1>4. HandlesConsistent'
  BY DEF TypeOK, TokensDrawn, HandlesConsistent, EntriesCovered, ReleaseError
<1>5. LivingOwnerKeepsRows'
  BY DEF TypeOK, TokensDrawn, HandlesConsistent, LivingOwnerKeepsRows, ReleaseError,
     Renewable
<1>6. RowsDisjoint'
  BY DEF TypeOK, TokensDrawn, RowsDisjoint, ReleaseError
<1>7. EntriesCovered'
  BY DEF TypeOK, TokensDrawn, HandlesConsistent, EntriesCovered, LivingOwnerKeepsRows,
     ReleaseError
<1>8. IsolatedScope'
  BY DEF TypeOK, HandlesConsistent, EntriesCovered, IsolatedScope, LocksDisjoint,
     ReleaseError
<1> QED BY <1>1, <1>2, <1>3, <1>4, <1>5, <1>6, <1>7, <1>8

\* A crash frees locks and changes no row and no entry.
LEMMA CrashStep ==
  ASSUME IInv, NEW s \in Store, Crash(s)
  PROVE  IInv'
<1> USE LeaseAssumption DEF IInv
<1>1. TypeOK'
  BY DEF TypeOK, Crash, Unlocked, Phase, Token, Scope, Entry
<1>2. TokensDrawn'
  BY DEF TypeOK, TokensDrawn, Crash, Unlocked
<1>3. LocksDisjoint'
  BY DEF TypeOK, LocksDisjoint, HandlesConsistent, Crash, Unlocked
<1>4. HandlesConsistent'
  BY DEF TypeOK, TokensDrawn, HandlesConsistent, EntriesCovered, Crash, Unlocked
<1>5. LivingOwnerKeepsRows'
  BY DEF TypeOK, TokensDrawn, HandlesConsistent, LivingOwnerKeepsRows, Crash, Unlocked,
     Renewable
<1>6. RowsDisjoint'
  BY DEF TypeOK, TokensDrawn, RowsDisjoint, Crash, Unlocked
<1>7. EntriesCovered'
  BY DEF TypeOK, TokensDrawn, HandlesConsistent, EntriesCovered, LivingOwnerKeepsRows,
     Crash, Unlocked
<1>8. IsolatedScope'
  BY DEF TypeOK, HandlesConsistent, EntriesCovered, IsolatedScope, LocksDisjoint, Crash,
     Unlocked
<1> QED BY <1>1, <1>2, <1>3, <1>4, <1>5, <1>6, <1>7, <1>8

----------------------------------------------------------------------------
\* Time passes without anybody reading the clock, and a stutter changes nothing.
LEMMA IdleStep == IInv /\ (Tick \/ UNCHANGED vars) => IInv'
<1> SUFFICES ASSUME IInv, Tick \/ UNCHANGED vars PROVE IInv'
  OBVIOUS
<1>1. clock' \in Nat /\ UNCHANGED <<dbVars, storeVars>>
  BY DEF IInv, TypeOK, Tick, vars
<1> QED
  BY <1>1 DEF IInv, TypeOK, TokensDrawn, LocksDisjoint, HandlesConsistent,
     LivingOwnerKeepsRows, RowsDisjoint, EntriesCovered, IsolatedScope, Renewable

\* IInv is inductive: no operation of any store, no crash and no passage of time
\* breaks it.
THEOREM IInvInductive == IInv /\ [Next]_vars => IInv'
<1> SUFFICES ASSUME IInv, [Next]_vars PROVE IInv'
  OBVIOUS
<1>1. CASE Tick \/ UNCHANGED vars
  BY <1>1, IdleStep
<1>2. ASSUME NEW s \in Store,
             OpenStore(s) \/ ProbeLease(s) \/ GuardCandidates(s) \/ ReconcileCommit(s) \/
             LockForRun(s) \/ LockForRecovery(s) \/ AcquireCommit(s) \/ AcquireFails(s)
             \/ InsertHandle(s) \/ Refence(s) \/ RefenceRejected(s) \/ RefenceError(s) \/
             Heartbeat(s) \/ Prepare(s) \/ Transition(s) \/ ReleaseRows(s) \/
             DropHandle(s) \/ ReleaseError(s) \/ Crash(s)
      PROVE  IInv'
  BY <1>2, OpenStoreStep, ProbeLeaseStep, GuardCandidatesStep, ReconcileCommitStep,
     LockForRunStep, LockForRecoveryStep, AcquireCommitStep, AcquireFailsStep,
     InsertHandleStep, RefenceStep, RefenceRejectedStep, RefenceErrorStep,
     HeartbeatStep, PrepareStep, TransitionStep, ReleaseRowsStep, DropHandleStep,
     ReleaseErrorStep, CrashStep
<1> QED BY <1>1, <1>2 DEF Next

\* In every reachable state the variables have their types and the strengthened
\* invariant holds.
THEOREM IInvHolds == Spec => []IInv
<1> QED BY InitIInv, IInvInductive, PTL DEF Spec

\* The lease tables, the journal's tokens and the stores' handles keep the types
\* the schema and the LeaseHandle structure give them.
THEOREM TypeCorrect == Spec => []TypeOK
<1>1. IInv => TypeOK
  BY DEF IInv
<1> QED BY <1>1, IInvHolds, PTL

\* However many processes share the database, and whenever they crash, expire or
\* reconcile, no two of them hold leases over overlapping folder trees.
THEOREM Exclusion == Spec => []ScopeExclusion
<1>1. IInv => ScopeExclusion
  BY DEF IInv, TypeOK, ScopeExclusion, LocksDisjoint, HandlesConsistent,
     LivingOwnerKeepsRows, RowsDisjoint, Renewable, Token
<1> QED BY <1>1, IInvHolds, PTL

\* Neither an expiry sweep nor the reconciliation of a starting process takes the
\* rows of a store that still works under its lease.
THEOREM OwnersKeepRows == Spec => []LivingOwnerKeepsRows
<1>1. IInv => LivingOwnerKeepsRows
  BY DEF IInv
<1> QED BY <1>1, IInvHolds, PTL

\* A run never works over an entry that somebody else left open.
THEOREM Isolation == Spec => []IsolatedScope
<1>1. IInv => IsolatedScope
  BY DEF IInv
<1> QED BY <1>1, IInvHolds, PTL

\* What one step may do to the token of an entry.
AdvanceOf(j) ==
  journal'[j].token # journal[j].token =>
    /\ journal'[j].token > journal[j].token
    /\ \A s \in Store : Leased(s) => token[s] # journal[j].token

\* Preparing an entry gives it its first token.
LEMMA PrepareAdvances ==
  ASSUME IInv, NEW s \in Store, Prepare(s), NEW j \in Op
  PROVE  AdvanceOf(j)
<1>1. token[s] \in Token /\ \A u \in Store : Leased(u) => token[u] \in Token
  BY DEF IInv, TypeOK, LivingOwnerKeepsRows, Prepare, Renew, Renewable
<1>2. \A t \in Token : t \in Nat /\ t > 0
  BY LeaseAssumption DEF Token
<1>3. PICK k \in Op, P \in Scope :
       /\ journal[k].state = "none"
       /\ journal' = [journal EXCEPT ![k] =
             [state |-> "prepared", token |-> token[s], paths |-> P, roots |-> scopes[s]]]
  BY DEF Prepare
<1>4. journal[k].token = 0
  BY <1>3 DEF IInv, EntriesCovered
<1>5. journal'[k].token = token[s] /\ (j # k => journal'[j] = journal[j])
  BY <1>3 DEF IInv, TypeOK
<1> QED BY <1>1, <1>2, <1>4, <1>5 DEF AdvanceOf

\* A recovery moves its entry from a token nobody owns any more to its own newer one.
LEMMA RefenceAdvances ==
  ASSUME IInv, NEW s \in Store, Refence(s), NEW j \in Op
  PROVE  AdvanceOf(j)
<1>1. /\ phase[s] = "fencing" /\ target[s] \in Op
      /\ journal[target[s]].token < token[s]
      /\ journal[target[s]].state # "none"
      /\ scopes[s] = journal[target[s]].roots
  BY DEF IInv, TypeOK, HandlesConsistent, Refence
<1>2. /\ journal'[target[s]].token = token[s]
      /\ j # target[s] => journal'[j] = journal[j]
  BY <1>1 DEF IInv, TypeOK, Refence, Entry
<1>3. ASSUME NEW u \in Store, Leased(u), token[u] = journal[target[s]].token
      PROVE  FALSE
  <2>1. token[u] \in rows /\ rowScopes[token[u]] = scopes[u]
    BY <1>3 DEF IInv, LivingOwnerKeepsRows, Renewable
  <2>2. Overlaps(scopes[u], scopes[s])
    BY <1>1, <1>3, <2>1 DEF IInv, EntriesCovered
  <2>3. u # s
    <3>1. token[s] \in Nat
      BY LeaseAssumption DEF IInv, TypeOK, Token
    <3> QED BY <1>1, <1>3, <3>1
  <2> QED BY <1>1, <1>3, <2>2, <2>3 DEF IInv, LocksDisjoint
<1> QED BY <1>1, <1>2, <1>3 DEF AdvanceOf

\* Fencing works: a token only grows, and whoever held the old one is out.
THEOREM TokensAdvance == Spec => FencingAdvances
<1>1. ASSUME IInv, [Next]_vars, NEW j \in Op
      PROVE  AdvanceOf(j)
  <2>1. CASE \E s \in Store : Prepare(s)
    BY <1>1, <2>1, PrepareAdvances
  <2>2. CASE \E s \in Store : Refence(s)
    BY <1>1, <2>2, RefenceAdvances
  <2>3. CASE \E s \in Store : Transition(s)
    BY <1>1, <2>3 DEF IInv, TypeOK, Transition, Entry, AdvanceOf
  <2>4. CASE UNCHANGED journal
    BY <2>4 DEF AdvanceOf
  <2>5. \/ UNCHANGED journal
        \/ \E s \in Store : Prepare(s) \/ Refence(s) \/ Transition(s)
    BY <1>1 DEF Next, vars, Tick, OpenStore, ProbeLease, GuardCandidates, ReconcileCommit,
       LockForRun, LockForRecovery, LockScopes, AcquireCommit, AcquireFails, InsertHandle,
       RefenceRejected, RefenceError, Heartbeat, ReleaseRows, DropHandle, ReleaseError, Crash
  <2> QED BY <2>1, <2>2, <2>3, <2>4, <2>5
<1>2. IInv /\ [Next]_vars =>
        [\A j \in Op :
           journal'[j].token # journal[j].token =>
             /\ journal'[j].token > journal[j].token
             /\ \A s \in Store : Leased(s) => token[s] # journal[j].token]_vars
  BY <1>1 DEF AdvanceOf
<1> QED BY <1>2, IInvHolds, PTL DEF Spec, FencingAdvances
=============================================================================
