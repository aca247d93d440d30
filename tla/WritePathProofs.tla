-------------------------- MODULE WritePathProofs --------------------------
(***************************************************************************)
(* Proofs about WritePath for any number of rounds, any batch size, tenant  *)
(* pool, pool size, retry limit and number of crashes.                      *)
(***************************************************************************)
EXTENDS WritePath, FiniteSetTheorems, TLAPS

-----------------------------------------------------------------------------
(* Facts about the helpers.                                                 *)

(* The two components of a write. *)
LEMMA WriteParts ==
  ASSUME NEW w \in Writes
  PROVE  w[1] \in Items /\ w[2] \in Tables
  BY DEF Writes

(* regionTarget maps the three regions onto the three partitions. *)
LEMMA RegionTargetType ==
  ASSUME NEW g \in AllRegions
  PROVE  regionTarget(g) \in Partitions
  BY DEF AllRegions, Partitions, regionTarget

(* Once a tenant is picked, the target of a write is a row of event_counters. *)
LEMMA TargetType ==
  ASSUME NEW w \in Writes, TenantOf(w) \in Tenants
  PROVE  Target(w) \in CounterRows
  <1>1. HomeRegion[TenantOf(w)] \in AllRegions
    BY TenantsAssumption
  <1>2. regionTarget(HomeRegion[TenantOf(w)]) \in Partitions
    BY <1>1, RegionTargetType
  <1> QED
    BY <1>2 DEF Target, CounterRows

(* The row an attempt inserts is a row of the table. *)
LEMMA NewRowType ==
  ASSUME NEW w \in Writes, TenantOf(w) \in Tenants, attempts[w] \in Attempts
  PROVE  NewRow(w) \in EventRow
  BY TargetType DEF NewRow, EventRow

LEMMA NewTxType == NewTx \in TxType
  BY DEF NewTx, TxType

-----------------------------------------------------------------------------
(* Type correctness, together with the contents of open transactions.       *)

LEMMA InitType == Init => TypeOK /\ TxInv
  <1> SUFFICES ASSUME Init PROVE TypeOK /\ TxInv
    OBVIOUS
  <1>1. TypeOK
    BY NewTxType, BoundsAssumption DEF Init, TypeOK, PCs
  <1>2. TxInv
    BY DEF Init, TxInv, TxInvOf, Holding
  <1> QED
    BY <1>1, <1>2

(* Every action keeps the variables in their types. *)
LEMMA TypeStep ==
  ASSUME TypeOK, TxInv, [Next]_vars
  PROVE  TypeOK'
  <1> USE BoundsAssumption DEF dbVars, metricVars, lifeVars
  <1>1. ASSUME NEW r \in Rounds, WriteTick(r) PROVE TypeOK'
    BY <1>1 DEF WriteTick, TypeOK, PCs, Items
  <1>2. ASSUME NEW w \in Writes, BeginTx(w) PROVE TypeOK'
    BY <1>2, NewTxType DEF BeginTx, EnterAttempt, TypeOK, TxInv, TxInvOf, PCs, Holding
  <1>3. ASSUME NEW w \in Writes, BeginFails(w) PROVE TypeOK'
    BY <1>3 DEF BeginFails, Return, TypeOK, PCs
  <1>4. ASSUME NEW w \in Writes, setTenantContext(w) PROVE TypeOK'
    <2>1. TenantOf(w) \in Tenants
      BY <1>4 DEF setTenantContext, TxInv, TxInvOf
    <2>2. tx' \in [Writes -> TxType]
      BY <1>4, <2>1 DEF setTenantContext, TypeOK, TxType
    <2> QED
      BY <1>4, <2>2 DEF setTenantContext, TypeOK, PCs, Holding
  <1>5. ASSUME NEW w \in Writes, Insert(w) PROVE TypeOK'
    <2>1. TenantOf(w) \in Tenants /\ attempts[w] \in Attempts
      BY <1>5 DEF Insert, TxInv, TxInvOf, TypeOK, Attempts, Holding
    <2>2. NewRow(w) \in EventRow
      BY <2>1, NewRowType
    <2>3. tx' \in [Writes -> TxType]
      BY <1>5, <2>2, NewTxType DEF Insert, TypeOK, TxType
    <2> QED
      BY <1>5, <2>3 DEF Insert, Return, TypeOK, PCs, Holding
  <1>6. ASSUME NEW w \in Writes, IncrementCounter(w) PROVE TypeOK'
    <2>1. Target(w) \in CounterRows
      BY <1>6, TargetType DEF IncrementCounter, TxInv, TxInvOf
    <2>2. tx' \in [Writes -> TxType]
      BY <1>6, <2>1 DEF IncrementCounter, TypeOK, TxType
    <2> QED
      BY <1>6, <2>2 DEF IncrementCounter, TypeOK, PCs, Holding
  <1>7. ASSUME NEW w \in Writes, Commit(w)
        PROVE  rows' \subseteq EventRow /\ cnt' \in [CounterRows -> Nat] /\ tx' \in [Writes -> TxType]
    <2>1. tx[w].ins \subseteq EventRow /\ tx[w].seen \in Nat
      BY DEF TypeOK, TxType
    <2>2. rows' \subseteq EventRow
      BY <1>7, <2>1 DEF Commit, TypeOK
    <2>3. tx' \in [Writes -> TxType]
      BY <1>7, NewTxType DEF Commit, TypeOK
    <2>4. cnt' \in [CounterRows -> Nat]
      <3>1. tx[w].seen + 1 \in Nat
        BY <2>1
      <3> DEFINE n == tx[w].seen + 1
                 c == Target(w)
      <3>2. cnt \in [CounterRows -> Nat] /\ cnt' = [cnt EXCEPT ![c] = n] /\ n \in Nat
        BY <1>7, <3>1 DEF Commit, TypeOK
      <3> HIDE DEF n, c
      <3> QED
        BY <3>2
    <2> QED
      BY <2>2, <2>3, <2>4
  <1>8. ASSUME NEW w \in Writes, Release(w) PROVE TypeOK'
    BY <1>7, <1>8 DEF Release, Return, TypeOK, PCs
  <1>9. ASSUME NEW w \in Writes, AckLost(w) PROVE TypeOK'
    BY <1>9 DEF AckLost, Return, TypeOK, PCs
  <1>10. ASSUME NEW w \in Writes, OrphanCommit(w) PROVE TypeOK'
    <2>1. rows' \subseteq EventRow /\ cnt' \in [CounterRows -> Nat] /\ tx' \in [Writes -> TxType]
      BY <1>7, <1>10 DEF OrphanCommit
    <2>2. late' \in [CounterRows -> Nat]
      <3> DEFINE c == Target(w)
      <3>1. late \in [CounterRows -> Nat] /\ late' \in {late, [late EXCEPT ![c] = @ + 1]}
        BY <1>10 DEF OrphanCommit, TypeOK
      <3> HIDE DEF c
      <3> QED
        BY <3>1
    <2> QED
      BY <1>10, <2>1, <2>2 DEF OrphanCommit, TypeOK
  <1>11. ASSUME NEW w \in Writes, OrphanAbort(w) PROVE TypeOK'
    BY <1>11, NewTxType DEF OrphanAbort, TypeOK
  <1>12. ASSUME NEW w \in Writes, Retry(w) PROVE TypeOK'
    <2>1. writeRetries' \in [CounterRows -> Nat]
      <3> DEFINE c == Target(w)
      <3>1. /\ writeRetries \in [CounterRows -> Nat]
            /\ writeRetries' \in {writeRetries, [writeRetries EXCEPT ![c] = @ + 1]}
        BY <1>12 DEF Retry, EnterAttempt, TypeOK
      <3> HIDE DEF c
      <3> QED
        BY <3>1
    <2>2. tx' \in [Writes -> TxType] /\ pc' \in [Writes -> PCs]
      BY <1>12, NewTxType DEF Retry, EnterAttempt, TypeOK, PCs, Holding
    <2>3. attempts' \in [Writes -> 0 .. (MaxRetries + 1)]
      BY <1>12 DEF Retry, EnterAttempt, TypeOK
    <2> QED
      BY <1>12, <2>1, <2>2, <2>3 DEF Retry, TypeOK
  <1>13. ASSUME NEW w \in Writes, StatementError(w) PROVE TypeOK'
    BY <1>13, NewTxType DEF StatementError, Return, TypeOK, PCs
  <1>14. ASSUME NEW w \in Writes, recordWrite(w) PROVE TypeOK'
    BY <1>14 DEF recordWrite, TypeOK, PCs
  <1>15. ASSUME Crash PROVE TypeOK'
    BY <1>15, NewTxType DEF Crash, TypeOK, PCs
  <1>16. ASSUME NEW g \in AllRegions, OutageBegins(g) \/ OutageEnds(g) PROVE TypeOK'
    BY <1>16 DEF OutageBegins, OutageEnds, TypeOK
  <1>17. ASSUME UNCHANGED vars PROVE TypeOK'
    BY <1>17 DEF vars, TypeOK
  <1> QED
    BY <1>1, <1>2, <1>3, <1>4, <1>5, <1>6, <1>8, <1>9, <1>10, <1>11, <1>12,
       <1>13, <1>14, <1>15, <1>16, <1>17 DEF Next

(* What a write's part of TxInv depends on. *)
LEMMA TxFrame ==
  ASSUME NEW v \in Writes, TxInvOf(v), tenant' = tenant,
         pc'[v] = pc[v], tx'[v] = tx[v], attempts'[v] = attempts[v],
         res'[v] = res[v], orphan'[v] = orphan[v]
  PROVE  TxInvOf(v)'
  <1>1. TenantOf(v)' = TenantOf(v)
    BY DEF TenantOf
  <1>2. NewRow(v)' = NewRow(v)
    BY <1>1 DEF NewRow, Target
  <1> QED
    BY <1>1, <1>2 DEF TxInvOf

(* Every action keeps an open transaction to the row of its current attempt. *)
LEMMA TxStep ==
  ASSUME TypeOK, TxInv, [Next]_vars
  PROVE  TxInv'
  <1> SUFFICES ASSUME NEW v \in Writes PROVE TxInvOf(v)'
    BY DEF TxInv
  <1> USE DEF dbVars, metricVars, lifeVars
  <1>t. /\ TxInvOf(v)
        /\ pc \in [Writes -> PCs] /\ tx \in [Writes -> TxType]
        /\ attempts \in [Writes -> 0 .. (MaxRetries + 1)]
        /\ res \in [Writes -> {"none", "ok", "err", "rls"}]
        /\ orphan \in [Writes -> {"no", "own", "old"}]
    BY DEF TypeOK, TxInv
  <1>f. ASSUME tenant' = tenant
        PROVE  /\ TenantOf(v)' = TenantOf(v)
               /\ attempts'[v] = attempts[v] => NewRow(v)' = NewRow(v)
    BY <1>f DEF TenantOf, NewRow, Target
  <1>1. ASSUME NEW r \in Rounds, WriteTick(r) PROVE TxInvOf(v)'
    <2>1. CASE v[1][1] # r
      <3>1. TenantOf(v)' = TenantOf(v)
        BY <1>1, <2>1, WriteParts DEF WriteTick, TenantOf
      <3>2. NewRow(v)' = NewRow(v)
        BY <1>1, <3>1 DEF WriteTick, NewRow, Target
      <3> QED
        BY <1>1, <1>t, <2>1, <3>1, <3>2 DEF WriteTick, TxInvOf
    <2>2. CASE v[1][1] = r
      <3>1. pc[v] = "idle" /\ pc'[v] = "begin"
        BY <1>1, <2>2 DEF WriteTick
      <3>2. TenantOf(v)' \in Tenants
        BY <1>1, <2>2, WriteParts DEF WriteTick, TenantOf, Items
      <3> QED
        BY <1>1, <1>t, <3>1, <3>2 DEF WriteTick, TxInvOf, Holding, Settled
    <2> QED
      BY <2>1, <2>2
  <1>2. ASSUME NEW w \in Writes, BeginTx(w) \/ Retry(w) PROVE TxInvOf(v)'
    <2>1. CASE v # w
      BY <1>2, <1>t, <2>1, TxFrame DEF BeginTx, Retry, EnterAttempt
    <2>2. CASE v = w
      <3>1. /\ pc'[v] = "context" /\ tx'[v] = NewTx /\ attempts'[v] = attempts[v] + 1
            /\ orphan'[v] = orphan[v] /\ res'[v] = res[v] /\ pc[v] \notin Settled /\ pc[v] # "idle"
        BY <1>2, <1>t, <2>2 DEF BeginTx, Retry, EnterAttempt, Settled
      <3>2. orphan[v] = "no" /\ res[v] # "ok" /\ TenantOf(v) \in Tenants
        BY <1>t, <3>1 DEF TxInvOf
      <3>3. TenantOf(v)' \in Tenants
        BY <1>2, <3>2 DEF BeginTx, Retry, TenantOf
      <3> QED
        BY <1>t, <3>1, <3>2, <3>3 DEF TxInvOf, NewTx, Holding
    <2> QED
      BY <2>1, <2>2
  <1>3. ASSUME NEW w \in Writes, BeginFails(w) PROVE TxInvOf(v)'
    BY <1>3, <1>t, <1>f, TxFrame DEF BeginFails, Return, TxInvOf, Holding, Settled
  <1>4. ASSUME NEW w \in Writes, setTenantContext(w) PROVE TxInvOf(v)'
    <2>1. CASE v # w
      BY <1>4, <1>t, <2>1, TxFrame DEF setTenantContext
    <2>2. CASE v = w
      <3>1. tx'[v].ctx = TenantOf(v) /\ tx'[v].ins = tx[v].ins
        BY <1>4, <1>t, <2>2 DEF setTenantContext, TxType
      <3> QED
        BY <1>4, <1>t, <1>f, <2>2, <3>1 DEF setTenantContext, TxInvOf, Holding, Settled
    <2> QED
      BY <2>1, <2>2
  <1>5. ASSUME NEW w \in Writes, Insert(w) PROVE TxInvOf(v)'
    <2>1. CASE v # w
      BY <1>5, <1>t, <2>1, TxFrame DEF Insert, Return
    <2>2. CASE v = w
      <3>1. tx[v].ctx = TenantOf(v) /\ tx[v].ins = {}
        BY <1>5, <1>t, <2>2 DEF Insert, TxInvOf
      <3>2. tx'[v].ins = {NewRow(v)}
        BY <1>5, <1>t, <2>2, <3>1 DEF Insert, TxType
      <3> QED
        BY <1>5, <1>t, <1>f, <2>2, <3>1, <3>2 DEF Insert, TxInvOf, Holding, Settled
    <2> QED
      BY <2>1, <2>2
  <1>6. ASSUME NEW w \in Writes, IncrementCounter(w) PROVE TxInvOf(v)'
    <2>1. CASE v # w
      BY <1>6, <1>t, <2>1, TxFrame DEF IncrementCounter
    <2>2. CASE v = w
      <3>1. tx'[v].ins = tx[v].ins
        BY <1>6, <1>t, <2>2 DEF IncrementCounter, TxType
      <3> QED
        BY <1>6, <1>t, <1>f, <2>2, <3>1 DEF IncrementCounter, TxInvOf, Holding, Settled
    <2> QED
      BY <2>1, <2>2
  <1>8. ASSUME NEW w \in Writes, Release(w) PROVE TxInvOf(v)'
    BY <1>8, <1>t, <1>f, TxFrame DEF Release, Commit, Return, TxInvOf, Holding, Settled
  <1>9. ASSUME NEW w \in Writes, AckLost(w) PROVE TxInvOf(v)'
    BY <1>9, <1>t, <1>f, TxFrame DEF AckLost, Return, TxInvOf, Holding, Settled
  <1>10. ASSUME NEW w \in Writes, OrphanCommit(w) \/ OrphanAbort(w) PROVE TxInvOf(v)'
    <2>1. CASE v # w
      BY <1>10, <1>t, <2>1, TxFrame DEF OrphanCommit, OrphanAbort, Commit
    <2>2. CASE v = w
      <3>1. /\ orphan[v] # "no" /\ orphan'[v] = "no" /\ pc'[v] = pc[v] /\ tenant' = tenant
            /\ attempts'[v] = attempts[v] /\ res'[v] = res[v]
        BY <1>10, <1>t, <2>2 DEF OrphanCommit, OrphanAbort
      <3> QED
        BY <1>t, <1>f, <3>1 DEF TxInvOf, Holding, Settled
    <2> QED
      BY <2>1, <2>2
  <1>13. ASSUME NEW w \in Writes, StatementError(w) PROVE TxInvOf(v)'
    BY <1>13, <1>t, <1>f, TxFrame DEF StatementError, Return, TxInvOf, Holding, Settled
  <1>14. ASSUME NEW w \in Writes, recordWrite(w) PROVE TxInvOf(v)'
    BY <1>14, <1>t, <1>f, TxFrame DEF recordWrite, TxInvOf, Holding, Settled
  <1>15. ASSUME Crash PROVE TxInvOf(v)'
    BY <1>15, <1>t, <1>f DEF Crash, TxInvOf, Holding, Settled, PCs
  <1>16. ASSUME NEW g \in AllRegions, OutageBegins(g) \/ OutageEnds(g) PROVE TxInvOf(v)'
    BY <1>16, <1>t, TxFrame DEF OutageBegins, OutageEnds
  <1>17. ASSUME UNCHANGED vars PROVE TxInvOf(v)'
    BY <1>17, <1>t, TxFrame DEF vars
  <1> QED
    BY <1>1, <1>2, <1>3, <1>4, <1>5, <1>6, <1>8, <1>9, <1>10, <1>13, <1>14, <1>15,
       <1>16, <1>17 DEF Next

-----------------------------------------------------------------------------
(* The ledger: what a commit does to rows and counters.                     *)

(* A transaction that can still commit: its client waits for RELEASE, or gave
   up on it. *)
Pending(w) == pc[w] = "release" \/ orphan[w] # "no"

(* The commit of a pending transaction stores the one row of its attempt, for a
   write that has stored none, and raises the counter of its target by one. *)
LEMMA CommitEffect ==
  ASSUME TypeOK, TxInv, RowsInv, NEW w \in Writes, Pending(w), Commit(w)
  PROVE  /\ rows' = rows \cup {NewRow(w)}
         /\ NewRow(w) \in EventRow /\ NewRow(w).write = w
         /\ NewRow(w).target = Target(w) /\ NewRow(w).tenant = TenantOf(w)
         /\ Target(w) \in CounterRows /\ TenantOf(w) \in Tenants /\ attempts[w] \in Attempts
         /\ \A r \in rows : r.write # w
         /\ cnt' = [cnt EXCEPT ![Target(w)] = @ + 1]
  <1>1. TxInvOf(w)
    BY DEF TxInv
  <1>2. pc[w] # "idle" /\ attempts[w] > 0 /\ tx[w].ins = {NewRow(w)}
    BY <1>1 DEF TxInvOf, Pending, Holding, Settled
  <1>3. TenantOf(w) \in Tenants /\ attempts[w] \in Attempts
    BY <1>1, <1>2, BoundsAssumption DEF TxInvOf, TypeOK, Attempts
  <1>4. Target(w) \in CounterRows /\ NewRow(w) \in EventRow
    BY <1>3, TargetType, NewRowType
  <1>5. \A r \in rows : r.write # w
    BY DEF RowsInv, Pending, Settled
  <1>6. cnt' = [cnt EXCEPT ![Target(w)] = @ + 1]
    BY DEF Commit, Serializable
  <1> QED
    BY <1>2, <1>3, <1>4, <1>5, <1>6 DEF Commit, NewRow

(* Only RELEASE and the late commit of an abandoned RELEASE touch the tables. *)
LEMMA OnlyCommits ==
  ASSUME TxInv, [Next]_vars
  PROVE  \/ rows' = rows /\ cnt' = cnt
         \/ \E w \in Writes : (Release(w) \/ OrphanCommit(w)) /\ Pending(w) /\ Commit(w)
  <1> USE DEF dbVars, metricVars, lifeVars
  <1>1. ASSUME NEW w \in Writes, Release(w) \/ OrphanCommit(w) PROVE Pending(w) /\ Commit(w)
    BY <1>1 DEF Release, OrphanCommit, Pending
  <1>2. ASSUME NEW r \in Rounds, WriteTick(r) PROVE rows' = rows /\ cnt' = cnt
    BY <1>2 DEF WriteTick
  <1>3. ASSUME NEW w \in Writes,
               \/ BeginTx(w) \/ BeginFails(w) \/ setTenantContext(w) \/ Insert(w)
               \/ IncrementCounter(w) \/ AckLost(w) \/ OrphanAbort(w) \/ Retry(w)
               \/ StatementError(w) \/ recordWrite(w)
        PROVE  rows' = rows /\ cnt' = cnt
    BY <1>3 DEF BeginTx, BeginFails, setTenantContext, Insert, IncrementCounter, AckLost,
                OrphanAbort, Retry, StatementError, recordWrite
  <1>4. ASSUME NEW g \in AllRegions, OutageBegins(g) \/ OutageEnds(g)
        PROVE  rows' = rows /\ cnt' = cnt
    BY <1>4 DEF OutageBegins, OutageEnds
  <1>5. Crash => rows' = rows /\ cnt' = cnt
    BY DEF Crash
  <1>6. UNCHANGED vars => rows' = rows /\ cnt' = cnt
    BY DEF vars
  <1> QED
    BY <1>1, <1>2, <1>3, <1>4, <1>5, <1>6 DEF Next

(* A write that has settled, and is not pending, stays so and keeps its tenant. *)
LEMMA SettledStays ==
  ASSUME TypeOK, [Next]_vars, NEW v \in Writes, pc[v] \in Settled, orphan[v] = "no"
  PROVE  pc'[v] \in Settled /\ orphan'[v] = "no" /\ TenantOf(v)' = TenantOf(v)
  <1> USE DEF dbVars, metricVars, lifeVars, TypeOK, Settled, TenantOf
  <1>1. ASSUME NEW r \in Rounds, WriteTick(r)
        PROVE  pc'[v] \in Settled /\ orphan'[v] = "no" /\ TenantOf(v)' = TenantOf(v)
    <2>1. v[1][1] # r
      BY <1>1 DEF WriteTick
    <2> QED
      BY <1>1, <2>1, WriteParts DEF WriteTick
  <1>2. ASSUME NEW w \in Writes,
               \/ BeginTx(w) \/ BeginFails(w) \/ setTenantContext(w) \/ Insert(w)
               \/ IncrementCounter(w) \/ AckLost(w) \/ Retry(w) \/ Release(w)
               \/ StatementError(w) \/ recordWrite(w) \/ OrphanAbort(w) \/ OrphanCommit(w)
        PROVE  pc'[v] \in Settled /\ orphan'[v] = "no" /\ TenantOf(v)' = TenantOf(v)
    BY <1>2 DEF BeginTx, BeginFails, setTenantContext, Insert, IncrementCounter, AckLost,
                OrphanAbort, OrphanCommit, Retry, StatementError, recordWrite, Release,
                EnterAttempt, Return, Holding
  <1>3. ASSUME NEW g \in AllRegions, OutageBegins(g) \/ OutageEnds(g)
        PROVE  pc'[v] \in Settled /\ orphan'[v] = "no" /\ TenantOf(v)' = TenantOf(v)
    BY <1>3 DEF OutageBegins, OutageEnds
  <1>4. Crash => pc'[v] \in Settled /\ orphan'[v] = "no" /\ TenantOf(v)' = TenantOf(v)
    BY DEF Crash
  <1>5. UNCHANGED vars => pc'[v] \in Settled /\ orphan'[v] = "no" /\ TenantOf(v)' = TenantOf(v)
    BY DEF vars
  <1> QED
    BY <1>1, <1>2, <1>3, <1>4, <1>5 DEF Next

(* A committed row belongs to a write that is settled and has nothing pending. *)
LEMMA RowsStep ==
  ASSUME TypeOK, TxInv, RowsInv, [Next]_vars
  PROVE  RowsInv'
  <1> DEFINE Good(r) == /\ pc[r.write] \in Settled /\ orphan[r.write] = "no"
                        /\ r.tenant = TenantOf(r.write) /\ r.target = Target(r.write)
  <1>1. ASSUME NEW r \in rows PROVE Good(r)'
    <2>1. r.write \in Writes
      BY DEF TypeOK, EventRow
    <2>2. Good(r)
      BY DEF RowsInv
    <2>3. pc'[r.write] \in Settled /\ orphan'[r.write] = "no" /\ TenantOf(r.write)' = TenantOf(r.write)
      BY <2>1, <2>2, SettledStays
    <2> QED
      BY <2>2, <2>3 DEF Target
  <1>2. CASE rows' = rows
    BY <1>1, <1>2 DEF RowsInv
  <1>3. CASE rows' # rows
    <2>1. PICK w \in Writes : (Release(w) \/ OrphanCommit(w)) /\ Pending(w) /\ Commit(w)
      BY <1>3, OnlyCommits
    <2>2. /\ rows' = rows \cup {NewRow(w)}
          /\ NewRow(w).write = w /\ NewRow(w).target = Target(w) /\ NewRow(w).tenant = TenantOf(w)
      BY <2>1, CommitEffect
    <2>3. IsFiniteSet(rows')
      BY <2>2, FS_AddElement DEF RowsInv
    <2>4. TxInvOf(w) /\ tenant' = tenant /\ pc'[w] \in Settled /\ orphan'[w] = "no"
      BY <2>1 DEF TxInv, TxInvOf, Release, OrphanCommit, Return, TypeOK, Settled
    <2>5. PICK n : n = NewRow(w)
      OBVIOUS
    <2>6. ASSUME NEW r \in rows' PROVE Good(r)'
      <3>1. CASE r \in rows
        BY <1>1, <3>1
      <3>2. CASE r = n
        BY <2>2, <2>4, <2>5, <3>2 DEF Target, TenantOf
      <3> QED
        BY <2>2, <2>5, <3>1, <3>2
    <2> QED
      BY <2>3, <2>6 DEF RowsInv
  <1> QED
    BY <1>2, <1>3

(* Counting is right after a row is added: the counter of its target, and only
   that one, gains one. *)
LEMMA CountersStep ==
  ASSUME TypeOK, TxInv, RowsInv, CountersExact, [Next]_vars
  PROVE  CountersExact'
  <1>1. CASE rows' = rows /\ cnt' = cnt
    BY <1>1 DEF CountersExact
  <1>2. CASE ~(rows' = rows /\ cnt' = cnt)
    <2>1. PICK w \in Writes : (Release(w) \/ OrphanCommit(w)) /\ Pending(w) /\ Commit(w)
      BY <1>2, OnlyCommits
    <2> DEFINE n == NewRow(w)
    <2>2. /\ rows' = rows \cup {n}
          /\ n.write = w /\ n.target = Target(w)
          /\ Target(w) \in CounterRows
          /\ \A r \in rows : r.write # w
          /\ cnt' = [cnt EXCEPT ![Target(w)] = @ + 1]
      BY <2>1, CommitEffect
    <2> HIDE DEF n
    <2> SUFFICES ASSUME NEW c \in CounterRows
                 PROVE  cnt'[c] = Cardinality({r \in rows' : r.target = c})
      BY DEF CountersExact
    <2> DEFINE S == {r \in rows : r.target = c}
    <2>3. IsFiniteSet(S) /\ cnt[c] = Cardinality(S)
      BY FS_Subset DEF RowsInv, CountersExact
    <2>4. CASE c # Target(w)
      <3>1. {r \in rows' : r.target = c} = S
        BY <2>2, <2>4
      <3> QED
        BY <2>2, <2>3, <2>4, <3>1 DEF TypeOK
    <2>5. CASE c = Target(w)
      <3>1. {r \in rows' : r.target = c} = S \cup {n}
        BY <2>2, <2>5
      <3>2. n \notin S
        BY <2>2
      <3>3. Cardinality(S \cup {n}) = Cardinality(S) + 1
        BY <2>3, <3>2, FS_AddElement
      <3> QED
        BY <2>2, <2>3, <2>5, <3>1, <3>3 DEF TypeOK
    <2> QED
      BY <2>4, <2>5
  <1> QED
    BY <1>1, <1>2

(* A commit adds the row of a write that had none. *)
LEMMA AtMostOneRowStep ==
  ASSUME TypeOK, TxInv, RowsInv, AtMostOneRow, [Next]_vars
  PROVE  AtMostOneRow'
  <1>1. CASE rows' = rows
    BY <1>1 DEF AtMostOneRow
  <1>2. CASE rows' # rows
    <2>1. PICK w \in Writes : (Release(w) \/ OrphanCommit(w)) /\ Pending(w) /\ Commit(w)
      BY <1>2, OnlyCommits
    <2>2. rows' = rows \cup {NewRow(w)} /\ NewRow(w).write = w /\ \A r \in rows : r.write # w
      BY <2>1, CommitEffect
    <2> QED
      BY <2>2 DEF AtMostOneRow
  <1> QED
    BY <1>1, <1>2

(* The result of a write becomes "ok" only by the RELEASE that stores its row,
   and never becomes "rls". *)
LEMMA ResultStep ==
  ASSUME TypeOK, TxInv, [Next]_vars, NEW v \in Writes, res'[v] # res[v]
  PROVE  res'[v] = "err" \/ (res'[v] = "ok" /\ Release(v))
  <1> USE DEF dbVars, metricVars, lifeVars, TypeOK
  <1>1. ASSUME NEW w \in Writes,
               \/ BeginFails(w) \/ Insert(w) \/ AckLost(w) \/ Release(w) \/ StatementError(w)
        PROVE  res'[v] = "err" \/ (res'[v] = "ok" /\ Release(v))
    BY <1>1 DEF BeginFails, Insert, AckLost, Release, StatementError, Return, TxInv, TxInvOf
  <1>2. ASSUME NEW w \in Writes,
               \/ BeginTx(w) \/ setTenantContext(w) \/ IncrementCounter(w) \/ Retry(w)
               \/ recordWrite(w) \/ OrphanAbort(w) \/ OrphanCommit(w)
        PROVE  FALSE
    BY <1>2 DEF BeginTx, setTenantContext, IncrementCounter, Retry, recordWrite,
                OrphanAbort, OrphanCommit
  <1>3. ASSUME NEW r \in Rounds, WriteTick(r) PROVE FALSE
    BY <1>3 DEF WriteTick
  <1>4. ASSUME NEW g \in AllRegions, OutageBegins(g) \/ OutageEnds(g) PROVE FALSE
    BY <1>4 DEF OutageBegins, OutageEnds
  <1>5. ~Crash /\ ~UNCHANGED vars
    BY DEF Crash, vars
  <1> QED
    BY <1>1, <1>2, <1>3, <1>4, <1>5 DEF Next

(* An acknowledged write keeps its row: rows only grow, and neither its tenant
   nor its target changes any more. *)
LEMMA AckedStep ==
  ASSUME TypeOK, TxInv, RowsInv, AckedIsStored, [Next]_vars
  PROVE  AckedIsStored'
  <1> SUFFICES ASSUME NEW v \in Writes, res'[v] = "ok"
               PROVE  \E r \in rows' : r.write = v /\ r.tenant = TenantOf(v)' /\ r.target = Target(v)'
    BY DEF AckedIsStored
  <1>1. rows \subseteq rows'
    BY OnlyCommits DEF Commit
  <1>2. CASE res[v] = "ok"
    <2>1. PICK r \in rows : r.write = v /\ r.tenant = TenantOf(v) /\ r.target = Target(v)
      BY <1>2 DEF AckedIsStored
    <2>2. pc[v] \in Settled /\ orphan[v] = "no"
      BY <2>1 DEF RowsInv
    <2>3. TenantOf(v)' = TenantOf(v)
      BY <2>2, SettledStays
    <2> QED
      BY <1>1, <2>1, <2>3 DEF Target
  <1>3. CASE res[v] # "ok"
    <2>1. Release(v)
      BY <1>3, ResultStep
    <2>2. Pending(v) /\ Commit(v) /\ tenant' = tenant
      BY <2>1 DEF Release, Pending
    <2>3. /\ rows' = rows \cup {NewRow(v)} /\ NewRow(v).write = v
          /\ NewRow(v).target = Target(v) /\ NewRow(v).tenant = TenantOf(v)
      BY <2>2, CommitEffect
    <2> QED
      BY <2>2, <2>3 DEF Target, TenantOf
  <1> QED
    BY <1>2, <1>3

-----------------------------------------------------------------------------
(* The theorems.                                                            *)

(* An empty database and no round started. *)
LEMMA IndInit == Init => IndInv
  <1> SUFFICES ASSUME Init PROVE IndInv
    OBVIOUS
  <1>1. RowsInv
    BY FS_EmptySet DEF Init, RowsInv
  <1>2. CountersExact
    <2>1. ASSUME NEW c \in CounterRows PROVE {r \in rows : r.target = c} = {}
      BY DEF Init
    <2> QED
      BY <2>1, FS_EmptySet DEF Init, CountersExact
  <1>3. AtMostOneRow /\ AckedIsStored /\ ContextHolds
    BY DEF Init, AtMostOneRow, AckedIsStored, ContextHolds
  <1> QED
    BY <1>1, <1>2, <1>3, InitType DEF IndInv

(* Every step preserves IndInv. *)
LEMMA IndStep ==
  ASSUME IndInv, [Next]_vars PROVE IndInv'
  <1> USE DEF IndInv
  <1>1. TypeOK' /\ TxInv'
    BY TypeStep, TxStep
  <1>2. RowsInv' /\ CountersExact' /\ AtMostOneRow'
    BY RowsStep, CountersStep, AtMostOneRowStep
  <1>3. AckedIsStored'
    BY AckedStep
  <1>4. ContextHolds'
    BY ResultStep DEF ContextHolds
  <1> QED
    BY <1>1, <1>2, <1>3, <1>4

(* IndInv holds initially and every step preserves it. *)
THEOREM Inductive == Spec => []IndInv
  BY IndInit, IndStep, PTL DEF Spec

(* Every variable keeps its type. *)
THEOREM TypeCorrect == Spec => []TypeOK
  BY Inductive, PTL DEF IndInv

(* tenantInsert keeps the counters exact, for any number of overlapping rounds,
   retries, lost acknowledgements and crashes. *)
THEOREM CountersAreExact == Spec => []CountersExact
  BY Inductive, PTL DEF IndInv

(* Retries and late commits never store a second row for a write. *)
THEOREM NoDuplicateRows == Spec => []AtMostOneRow
  BY Inductive, PTL DEF IndInv

(* A write that recordWrite counts in writesTotal is in the table, under its
   tenant and in its home partition, for ever after. *)
THEOREM AckedWritesAreStored == Spec => []AckedIsStored
  BY Inductive, PTL DEF IndInv

(* No attempt of any write runs its INSERT outside its tenant's context. *)
THEOREM PolicyNeverRejects == Spec => []ContextHolds
  BY Inductive, PTL DEF IndInv

(* The empty tables are an empty ledger. *)
LEMMA LedgerInits == Init => Ledger!LedgerInit
  <1>1. Ledger!CounterRows = CounterRows
    BY DEF Ledger!CounterRows, CounterRows, Ledger!Partitions, Partitions
  <1> QED
    BY <1>1 DEF Init, Ledger!LedgerInit

(* A commit is an Append of the ledger, and nothing else touches it. *)
LEMMA LedgerSteps ==
  ASSUME IndInv, [Next]_vars PROVE [Ledger!LedgerNext]_(Ledger!lvars)
  <1>a. Ledger!CounterRows = CounterRows
    BY DEF Ledger!CounterRows, CounterRows, Ledger!Partitions, Partitions
  <1>b. \A g \in AllRegions : Ledger!regionTarget(g) = regionTarget(g)
    BY DEF Ledger!regionTarget, regionTarget
  <1>1. CASE rows' = rows /\ cnt' = cnt
    BY <1>1 DEF Ledger!lvars
  <1>2. CASE ~(rows' = rows /\ cnt' = cnt)
    <2>1. PICK w \in Writes : (Release(w) \/ OrphanCommit(w)) /\ Pending(w) /\ Commit(w)
      BY <1>2, OnlyCommits DEF IndInv
    <2>2. /\ rows' = rows \cup {NewRow(w)}
          /\ Target(w) \in CounterRows /\ TenantOf(w) \in Tenants /\ attempts[w] \in Attempts
          /\ \A r \in rows : r.write # w
          /\ cnt' = [cnt EXCEPT ![Target(w)] = @ + 1]
      BY <2>1, CommitEffect DEF IndInv
    <2>3. Target(w) \in Ledger!Homes(TenantOf(w))
      BY <1>b, <2>2, TenantsAssumption DEF Target, Ledger!Homes
    <2>4. Ledger!RowsOf(w) = {}
      BY <2>2 DEF Ledger!RowsOf
    <2>5. Ledger!Append(w, attempts[w], TenantOf(w), Target(w))
      BY <2>2, <2>3, <2>4 DEF Ledger!Append, NewRow
    <2> QED
      BY <1>a, <2>2, <2>5 DEF Ledger!LedgerNext
  <1> QED
    BY <1>1, <1>2

(* runWrites implements the abstract ledger: every step maps to one Append or
   to a stuttering step. *)
THEOREM Refinement == Spec => ImplementsLedger
  BY LedgerInits, LedgerSteps, Inductive, PTL DEF Spec, ImplementsLedger, Ledger!LedgerSpec

-----------------------------------------------------------------------------
(* The metrics and the totals.                                              *)

(* The writes that a tick has started. *)
Started == {w \in Writes : pc[w] # "idle"}

(* The writes of target c whose ExecuteTx has returned and recordWrite has not
   run, those among them that succeeded, and those whose commit may still come
   for the running process. *)
Returned(c) == {w \in Writes : pc[w] = "record" /\ Target(w) = c}
Acked(c) == {w \in Writes : pc[w] = "record" /\ res[w] = "ok" /\ Target(w) = c}
Own(c) == {w \in Writes : orphan[w] = "own" /\ Target(w) = c}

(* The bracket with what is under way on both sides of it: an acknowledged
   write is a commit that writesTotal has yet to count, and a lost
   acknowledgement one that has been counted and may yet commit. *)
BracketOf(c) ==
  /\ writesTotal[c] + Cardinality(Acked(c)) =< cnt[c] - base[c]
  /\ cnt[c] - base[c] + Cardinality(Own(c))
       =< writesTotal[c] + writeErrors[c] + Cardinality(Returned(c)) + late[c]

(* runWrites starts the two writes of an item together. *)
Paired ==
  \A i \in Items : pc[<<i, "events">>] = "idle" <=> pc[<<i, "events_regional">>] = "idle"

(* The inductive invariant of the metrics.  That only finitely many writes are
   started is what makes counting them meaningful: Rounds may be infinite. *)
MetricsInv ==
  /\ IsFiniteSet(Started)
  /\ Paired
  /\ \A c \in CounterRows : BracketOf(c)

(* What a set gains from an element that it may contain. *)
Bump(b) == IF b THEN 1 ELSE 0

(* A set that changes in at most one element. *)
LEMMA OneChange ==
  ASSUME NEW S, NEW T, NEW w, IsFiniteSet(S), S \ {w} = T \ {w}
  PROVE  /\ Cardinality(S) \in Nat /\ Cardinality(T) \in Nat
         /\ Cardinality(T) = Cardinality(S) + Bump(w \in T) - Bump(w \in S)
<1> DEFINE R == S \ {w}
<1>1. IsFiniteSet(R) /\ Cardinality(R) \in Nat /\ w \notin R
  BY FS_RemoveElement, FS_CardinalityType
<1>2. IsFiniteSet(R \cup {w}) /\ Cardinality(R \cup {w}) = Cardinality(R) + 1
  BY <1>1, FS_AddElement
<1>3. /\ w \in S => S = R \cup {w}
      /\ w \notin S => S = R
      /\ w \in T => T = R \cup {w}
      /\ w \notin T => T = R
  OBVIOUS
<1>. HIDE DEF R
<1>4. Cardinality(S) = Cardinality(R) + Bump(w \in S)
  <2>1. CASE w \in S
    <3>1. Bump(w \in S) = 1
      BY <2>1 DEF Bump
    <3>. QED  BY <1>2, <1>3, <2>1, <3>1
  <2>2. CASE w \notin S
    <3>1. Bump(w \in S) = 0
      BY <2>2 DEF Bump
    <3>. QED  BY <1>1, <1>3, <2>2, <3>1
  <2>. QED  BY <2>1, <2>2
<1>5. Cardinality(T) = Cardinality(R) + Bump(w \in T)
  <2>1. CASE w \in T
    <3>1. Bump(w \in T) = 1
      BY <2>1 DEF Bump
    <3>. QED  BY <1>2, <1>3, <2>1, <3>1
  <2>2. CASE w \notin T
    <3>1. Bump(w \in T) = 0
      BY <2>2 DEF Bump
    <3>. QED  BY <1>1, <1>3, <2>2, <3>1
  <2>. QED  BY <2>1, <2>2
<1>. QED  BY <1>1, <1>4, <1>5 DEF Bump

(* The three sets are finite. *)
LEMMA CountsFinite ==
  ASSUME TxInv, IsFiniteSet(Started), NEW c
  PROVE  /\ IsFiniteSet(Returned(c)) /\ Cardinality(Returned(c)) \in Nat
         /\ IsFiniteSet(Acked(c)) /\ Cardinality(Acked(c)) \in Nat
         /\ IsFiniteSet(Own(c)) /\ Cardinality(Own(c)) \in Nat
<1>1. Returned(c) \subseteq Started /\ Acked(c) \subseteq Started
  BY DEF Returned, Acked, Started
<1>2. Own(c) \subseteq Started
  BY DEF Own, Started, TxInv, TxInvOf, Settled
<1>. QED  BY <1>1, <1>2, FS_Subset, FS_CardinalityType

(* A step that touches one write only moves that write in and out of them. *)
LEMMA OneWrite ==
  ASSUME TxInv, IsFiniteSet(Started), tenant' = tenant, NEW w \in Writes, NEW c,
         \A v \in Writes \ {w} : pc'[v] = pc[v] /\ res'[v] = res[v] /\ orphan'[v] = orphan[v]
  PROVE  /\ Cardinality(Returned(c)') = Cardinality(Returned(c)) + Bump(w \in Returned(c)') - Bump(w \in Returned(c))
         /\ Cardinality(Acked(c)') = Cardinality(Acked(c)) + Bump(w \in Acked(c)') - Bump(w \in Acked(c))
         /\ Cardinality(Own(c)') = Cardinality(Own(c)) + Bump(w \in Own(c)') - Bump(w \in Own(c))
         /\ Target(w)' = Target(w)
<1>1. \A v \in Writes : Target(v)' = Target(v)
  BY DEF Target, TenantOf
<1>2. Returned(c) \ {w} = Returned(c)' \ {w}
  BY <1>1 DEF Returned
<1>3. Acked(c) \ {w} = Acked(c)' \ {w}
  BY <1>1 DEF Acked
<1>4. Own(c) \ {w} = Own(c)' \ {w}
  BY <1>1 DEF Own
<1>. QED  BY <1>1, <1>2, <1>3, <1>4, CountsFinite, OneChange

(* Nothing changes for a target none of whose numbers and writes change. *)
LEMMA SameNumbers ==
  ASSUME NEW c, BracketOf(c),
         Cardinality(Returned(c)') = Cardinality(Returned(c)),
         Cardinality(Acked(c)') = Cardinality(Acked(c)),
         Cardinality(Own(c)') = Cardinality(Own(c)),
         cnt'[c] = cnt[c], base'[c] = base[c], writesTotal'[c] = writesTotal[c],
         writeErrors'[c] = writeErrors[c], late'[c] = late[c]
  PROVE  BracketOf(c)'
  BY DEF BracketOf

(* A step of a write changes nothing for the targets that are not its own. *)
LEMMA OtherTarget ==
  ASSUME TxInv, IsFiniteSet(Started), tenant' = tenant, NEW w \in Writes, NEW c, c # Target(w),
         BracketOf(c),
         \A v \in Writes \ {w} : pc'[v] = pc[v] /\ res'[v] = res[v] /\ orphan'[v] = orphan[v],
         cnt'[c] = cnt[c], base'[c] = base[c], writesTotal'[c] = writesTotal[c],
         writeErrors'[c] = writeErrors[c], late'[c] = late[c]
  PROVE  BracketOf(c)'
<1>1. /\ w \notin Returned(c) /\ w \notin Acked(c) /\ w \notin Own(c)
      /\ w \notin Returned(c)' /\ w \notin Acked(c)' /\ w \notin Own(c)'
  BY OneWrite DEF Returned, Acked, Own
<1>2. /\ Cardinality(Returned(c)) \in Nat /\ Cardinality(Acked(c)) \in Nat
      /\ Cardinality(Own(c)) \in Nat
  BY CountsFinite
<1>3. /\ Cardinality(Returned(c)') = Cardinality(Returned(c)) + 0 - 0
      /\ Cardinality(Acked(c)') = Cardinality(Acked(c)) + 0 - 0
      /\ Cardinality(Own(c)') = Cardinality(Own(c)) + 0 - 0
  BY <1>1, OneWrite DEF Bump
<1>4. /\ Cardinality(Returned(c)') = Cardinality(Returned(c))
      /\ Cardinality(Acked(c)') = Cardinality(Acked(c))
      /\ Cardinality(Own(c)') = Cardinality(Own(c))
  BY <1>2, <1>3
<1>. QED  BY <1>4, SameNumbers

(* The three counts of a write's own target after a step of that write. *)
LEMMA OwnTarget ==
  ASSUME TypeOK, TxInv, IsFiniteSet(Started), tenant' = tenant, NEW w \in Writes,
         NEW c \in CounterRows, c = Target(w),
         \A v \in Writes \ {w} : pc'[v] = pc[v] /\ res'[v] = res[v] /\ orphan'[v] = orphan[v]
  PROVE  /\ Cardinality(Returned(c)) \in Nat /\ Cardinality(Acked(c)) \in Nat
         /\ Cardinality(Own(c)) \in Nat
         /\ cnt[c] \in Nat /\ base[c] \in Nat /\ writesTotal[c] \in Nat
         /\ writeErrors[c] \in Nat /\ late[c] \in Nat
         /\ Cardinality(Returned(c)')
              = Cardinality(Returned(c)) + Bump(pc'[w] = "record") - Bump(pc[w] = "record")
         /\ Cardinality(Acked(c)')
              = Cardinality(Acked(c)) + Bump(pc'[w] = "record" /\ res'[w] = "ok")
                                      - Bump(pc[w] = "record" /\ res[w] = "ok")
         /\ Cardinality(Own(c)')
              = Cardinality(Own(c)) + Bump(orphan'[w] = "own") - Bump(orphan[w] = "own")
<1>1. Target(w)' = c
  BY OneWrite
<1>2. /\ (w \in Returned(c)') <=> (pc'[w] = "record")
      /\ (w \in Returned(c)) <=> (pc[w] = "record")
      /\ (w \in Acked(c)') <=> (pc'[w] = "record" /\ res'[w] = "ok")
      /\ (w \in Acked(c)) <=> (pc[w] = "record" /\ res[w] = "ok")
      /\ (w \in Own(c)') <=> (orphan'[w] = "own")
      /\ (w \in Own(c)) <=> (orphan[w] = "own")
  BY <1>1 DEF Returned, Acked, Own
<1>3. /\ Bump(w \in Returned(c)') = Bump(pc'[w] = "record")
      /\ Bump(w \in Returned(c)) = Bump(pc[w] = "record")
      /\ Bump(w \in Acked(c)') = Bump(pc'[w] = "record" /\ res'[w] = "ok")
      /\ Bump(w \in Acked(c)) = Bump(pc[w] = "record" /\ res[w] = "ok")
      /\ Bump(w \in Own(c)') = Bump(orphan'[w] = "own")
      /\ Bump(w \in Own(c)) = Bump(orphan[w] = "own")
  BY <1>2 DEF Bump
<1>4. /\ Cardinality(Returned(c)) \in Nat /\ Cardinality(Acked(c)) \in Nat
      /\ Cardinality(Own(c)) \in Nat
  BY CountsFinite
<1>5. /\ cnt[c] \in Nat /\ base[c] \in Nat /\ writesTotal[c] \in Nat
      /\ writeErrors[c] \in Nat /\ late[c] \in Nat
  BY DEF TypeOK
<1>6. /\ Cardinality(Returned(c)') = Cardinality(Returned(c)) + Bump(w \in Returned(c)') - Bump(w \in Returned(c))
      /\ Cardinality(Acked(c)') = Cardinality(Acked(c)) + Bump(w \in Acked(c)') - Bump(w \in Acked(c))
      /\ Cardinality(Own(c)') = Cardinality(Own(c)) + Bump(w \in Own(c)') - Bump(w \in Own(c))
  BY OneWrite
<1>. QED  BY <1>3, <1>4, <1>5, <1>6

(* The steps of one write. *)
WriteStep(w) ==
  \/ BeginTx(w) \/ BeginFails(w) \/ setTenantContext(w)
  \/ Insert(w) \/ IncrementCounter(w) \/ Release(w)
  \/ AckLost(w) \/ OrphanCommit(w) \/ OrphanAbort(w)
  \/ Retry(w) \/ StatementError(w) \/ recordWrite(w)

(* They belong to a started write and leave the others alone. *)
LEMMA WriteStepFrame ==
  ASSUME TypeOK, TxInv, NEW w \in Writes, WriteStep(w)
  PROVE  /\ tenant' = tenant /\ base' = base
         /\ \A v \in Writes \ {w} : pc'[v] = pc[v] /\ res'[v] = res[v] /\ orphan'[v] = orphan[v]
         /\ pc[w] # "idle" /\ pc'[w] # "idle"
         /\ TenantOf(w) \in Tenants
<1> USE DEF dbVars, metricVars, lifeVars
<1>1. /\ tenant' = tenant /\ base' = base
      /\ \A v \in Writes \ {w} : pc'[v] = pc[v] /\ res'[v] = res[v] /\ orphan'[v] = orphan[v]
  BY DEF TypeOK, WriteStep, BeginTx, BeginFails, setTenantContext, Insert, IncrementCounter, Release, AckLost,
         OrphanCommit, OrphanAbort, Retry, StatementError, recordWrite, EnterAttempt, Return
<1>2. pc[w] # "idle"
  BY DEF WriteStep, BeginTx, BeginFails, setTenantContext, Insert, IncrementCounter, Release, AckLost,
         OrphanCommit, OrphanAbort, Retry, StatementError, recordWrite, Holding, TxInv, TxInvOf, Settled
<1>3. pc'[w] # "idle"
  BY <1>2 DEF TypeOK, WriteStep, BeginTx, BeginFails, setTenantContext, Insert, IncrementCounter, Release,
         AckLost, OrphanCommit, OrphanAbort, Retry, StatementError, recordWrite, EnterAttempt, Return
<1>. QED  BY <1>1, <1>2, <1>3 DEF TxInv, TxInvOf

(* A step of a write keeps the bracket of every target. *)
LEMMA BracketWrite ==
  ASSUME TypeOK, TxInv, RowsInv, IsFiniteSet(Started),
         NEW w \in Writes, WriteStep(w), NEW c \in CounterRows, BracketOf(c)
  PROVE  BracketOf(c)'
<1> USE DEF dbVars, metricVars, lifeVars
<1>f. /\ tenant' = tenant /\ base' = base /\ TenantOf(w) \in Tenants
      /\ \A v \in Writes \ {w} : pc'[v] = pc[v] /\ res'[v] = res[v] /\ orphan'[v] = orphan[v]
  BY WriteStepFrame
<1>t. /\ Target(w) \in CounterRows /\ TxInvOf(w)
      /\ pc \in [Writes -> PCs] /\ res \in [Writes -> {"none", "ok", "err", "rls"}]
      /\ orphan \in [Writes -> {"no", "own", "old"}]
      /\ writesTotal \in [CounterRows -> Nat] /\ writeErrors \in [CounterRows -> Nat]
      /\ cnt \in [CounterRows -> Nat] /\ late \in [CounterRows -> Nat]
  BY <1>f, TargetType DEF TypeOK, TxInv
<1>1. CASE c # Target(w)
  <2>1. cnt'[c] = cnt[c]
    <3>1. CASE cnt' = cnt
      BY <3>1
    <3>2. CASE Release(w) \/ OrphanCommit(w)
      BY <3>2, <1>1, <1>t DEF Release, OrphanCommit, Commit
    <3>. QED  BY <3>1, <3>2 DEF WriteStep, BeginTx, BeginFails, setTenantContext, Insert, IncrementCounter,
                                AckLost, OrphanAbort, Retry, StatementError, recordWrite
  <2>2. writesTotal'[c] = writesTotal[c] /\ writeErrors'[c] = writeErrors[c]
    <3>1. CASE recordWrite(w)
      BY <3>1, <1>1, <1>t DEF recordWrite
    <3>2. CASE ~recordWrite(w)
      BY <3>2 DEF WriteStep, BeginTx, BeginFails, setTenantContext, Insert, IncrementCounter,
                  Release, AckLost, OrphanCommit, OrphanAbort, Retry, StatementError
    <3>. QED  BY <3>1, <3>2
  <2>3. late'[c] = late[c]
    <3>1. CASE OrphanCommit(w)
      BY <3>1, <1>1, <1>t DEF OrphanCommit
    <3>2. CASE ~OrphanCommit(w)
      BY <3>2 DEF WriteStep, BeginTx, BeginFails, setTenantContext, Insert, IncrementCounter,
                  Release, AckLost, OrphanAbort, Retry, StatementError, recordWrite
    <3>. QED  BY <3>1, <3>2
  <2>. QED  BY <1>1, <1>f, <2>1, <2>2, <2>3, OtherTarget
<1>2. CASE c = Target(w)
  <2> DEFINE R == Cardinality(Returned(c))    A == Cardinality(Acked(c))    O == Cardinality(Own(c))
             Rn == Cardinality(Returned(c)')  An == Cardinality(Acked(c)')  On == Cardinality(Own(c)')
  <2>1. /\ R \in Nat /\ A \in Nat /\ O \in Nat
        /\ cnt[c] \in Nat /\ base[c] \in Nat /\ writesTotal[c] \in Nat
        /\ writeErrors[c] \in Nat /\ late[c] \in Nat
        /\ Rn = R + Bump(pc'[w] = "record") - Bump(pc[w] = "record")
        /\ An = A + Bump(pc'[w] = "record" /\ res'[w] = "ok") - Bump(pc[w] = "record" /\ res[w] = "ok")
        /\ On = O + Bump(orphan'[w] = "own") - Bump(orphan[w] = "own")
    BY <1>2, <1>f, OwnTarget
  <2>2. /\ writesTotal[c] + A =< cnt[c] - base[c]
        /\ cnt[c] - base[c] + O =< writesTotal[c] + writeErrors[c] + R + late[c]
    BY DEF BracketOf
  <2>3. base'[c] = base[c]
    BY <1>f
  <2> SUFFICES /\ writesTotal'[c] + An =< cnt'[c] - base[c]
               /\ cnt'[c] - base[c] + On =< writesTotal'[c] + writeErrors'[c] + Rn + late'[c]
    BY <2>3 DEF BracketOf
  <2> HIDE DEF R, A, O, Rn, An, On
  <2>4. CASE BeginTx(w) \/ setTenantContext(w) \/ Insert(w) \/ IncrementCounter(w) \/ Retry(w)
    <3>1. /\ pc[w] # "record" /\ pc'[w] # "record" /\ orphan'[w] = orphan[w]
          /\ UNCHANGED <<cnt, writesTotal, writeErrors, late>>
      BY <2>4, <1>t DEF BeginTx, setTenantContext, Insert, IncrementCounter, Retry, EnterAttempt, TxInvOf
    <3>2. Rn = R /\ An = A /\ On = O
      BY <2>1, <3>1 DEF Bump
    <3>. QED  BY <2>2, <3>1, <3>2
  <2>5. CASE BeginFails(w) \/ StatementError(w)
    <3>1. /\ pc[w] # "record" /\ pc'[w] = "record" /\ res'[w] = "err" /\ orphan'[w] = orphan[w]
          /\ UNCHANGED <<cnt, writesTotal, writeErrors, late>>
      BY <2>5, <1>t DEF BeginFails, StatementError, Return, Holding
    <3>2. Rn = R + 1 /\ An = A /\ On = O
      BY <2>1, <3>1 DEF Bump
    <3>. QED  BY <2>1, <2>2, <3>1, <3>2
  <2>6. CASE Release(w)
    <3>1. /\ pc[w] # "record" /\ pc'[w] = "record" /\ res'[w] = "ok" /\ orphan'[w] = orphan[w]
          /\ UNCHANGED <<writesTotal, writeErrors, late>>
      BY <2>6, <1>t DEF Release, Return
    <3>2. Rn = R + 1 /\ An = A + 1 /\ On = O
      BY <2>1, <3>1 DEF Bump
    <3>3. cnt' = [cnt EXCEPT ![c] = @ + 1]
      BY <2>6, <1>2, CommitEffect DEF Release, Pending
    <3>4. cnt'[c] = cnt[c] + 1
      BY <3>3, <1>t
    <3>. QED  BY <2>1, <2>2, <3>1, <3>2, <3>4
  <2>7. CASE AckLost(w)
    <3>1. /\ pc[w] # "record" /\ pc'[w] = "record" /\ res'[w] = "err"
          /\ orphan[w] = "no" /\ orphan'[w] = "own"
          /\ UNCHANGED <<cnt, writesTotal, writeErrors, late>>
      BY <2>7, <1>t DEF AckLost, Return, TxInvOf, Settled
    <3>2. Rn = R + 1 /\ An = A /\ On = O + 1
      BY <2>1, <3>1 DEF Bump
    <3>. QED  BY <2>1, <2>2, <3>1, <3>2
  <2>8. CASE OrphanCommit(w)
    <3>1. /\ pc'[w] = pc[w] /\ res'[w] = res[w] /\ orphan'[w] = "no"
          /\ UNCHANGED <<writesTotal, writeErrors>>
      BY <2>8, <1>t DEF OrphanCommit
    <3>2. cnt' = [cnt EXCEPT ![c] = @ + 1]
      BY <2>8, <1>2, CommitEffect DEF OrphanCommit, Pending
    <3>3. cnt'[c] = cnt[c] + 1
      BY <3>2, <1>t
    <3>4. Rn = R /\ An = A /\ On = O - Bump(orphan[w] = "own")
      BY <2>1, <3>1 DEF Bump
    <3>5. CASE orphan[w] = "own"
      <4>1. late'[c] = late[c]
        BY <2>8, <3>5 DEF OrphanCommit
      <4>2. On = O - 1
        BY <2>1, <3>4, <3>5 DEF Bump
      <4>. QED  BY <2>1, <2>2, <3>1, <3>3, <3>4, <4>1, <4>2
    <3>6. CASE orphan[w] = "old"
      <4>1. late'[c] = late[c] + 1
        BY <2>8, <3>6, <1>2, <1>t DEF OrphanCommit
      <4>2. On = O
        BY <2>1, <3>4, <3>6 DEF Bump
      <4>. QED  BY <2>1, <2>2, <3>1, <3>3, <3>4, <4>1, <4>2
    <3>. QED  BY <2>8, <1>t, <3>5, <3>6 DEF OrphanCommit
  <2>9. CASE OrphanAbort(w)
    <3>1. /\ pc'[w] = pc[w] /\ res'[w] = res[w] /\ orphan'[w] = "no"
          /\ UNCHANGED <<cnt, writesTotal, writeErrors, late>>
      BY <2>9, <1>t DEF OrphanAbort
    <3>2. Rn = R /\ An = A /\ (On = O \/ On = O - 1)
      BY <2>1, <3>1 DEF Bump
    <3>. QED  BY <2>1, <2>2, <3>1, <3>2
  <2>10. CASE recordWrite(w)
    <3>1. /\ pc[w] = "record" /\ pc'[w] # "record" /\ res'[w] = res[w] /\ orphan'[w] = orphan[w]
          /\ UNCHANGED <<cnt, late>>
      BY <2>10, <1>t DEF recordWrite
    <3>2. Rn = R - 1 /\ On = O
      BY <2>1, <3>1 DEF Bump
    <3>3. CASE res[w] = "ok"
      <4>1. writesTotal'[c] = writesTotal[c] + 1 /\ writeErrors' = writeErrors
        BY <2>10, <3>3, <1>2, <1>t DEF recordWrite
      <4>2. An = A - 1
        BY <2>1, <3>1, <3>3 DEF Bump
      <4>. QED  BY <2>1, <2>2, <3>1, <3>2, <4>1, <4>2
    <3>4. CASE res[w] # "ok"
      <4>1. writeErrors'[c] = writeErrors[c] + 1 /\ writesTotal' = writesTotal
        BY <2>10, <3>4, <1>2, <1>t DEF recordWrite
      <4>2. An = A
        BY <2>1, <3>1, <3>4 DEF Bump
      <4>. QED  BY <2>1, <2>2, <3>1, <3>2, <4>1, <4>2
    <3>. QED  BY <3>3, <3>4
  <2>. QED  BY <2>4, <2>5, <2>6, <2>7, <2>8, <2>9, <2>10 DEF WriteStep
<1>. QED  BY <1>1, <1>2

(* A tick starts the writes of its round, which were idle: none of them counts in
   any number yet. *)
LEMMA BracketTick ==
  ASSUME TypeOK, TxInv, NEW r \in Rounds, WriteTick(r), NEW c \in CounterRows, BracketOf(c)
  PROVE  BracketOf(c)'
<1> USE DEF dbVars, metricVars, lifeVars
<1>1. ASSUME NEW v \in Writes
      PROVE  \/ /\ pc'[v] = pc[v] /\ Target(v)' = Target(v)
                /\ res'[v] = res[v] /\ orphan'[v] = orphan[v]
             \/ pc[v] = "idle" /\ pc'[v] = "begin" /\ orphan[v] = "no" /\ orphan'[v] = "no"
  <2>1. CASE v[1][1] # r
    <3>1. TenantOf(v)' = TenantOf(v)
      BY <2>1, WriteParts DEF WriteTick, TenantOf
    <3>. QED  BY <2>1, <3>1 DEF WriteTick, Target
  <2>2. CASE v[1][1] = r
    BY <2>2 DEF WriteTick, TxInv, TxInvOf, Settled
  <2>. QED  BY <2>1, <2>2
<1>2. Returned(c)' = Returned(c)
  BY <1>1 DEF Returned
<1>3. Acked(c)' = Acked(c)
  BY <1>1 DEF Acked
<1>4. Own(c)' = Own(c)
  BY <1>1 DEF Own
<1>. QED  BY <1>2, <1>3, <1>4, SameNumbers DEF WriteTick

(* A new process has counted nothing, and nothing of it is under way. *)
LEMMA BracketCrash ==
  ASSUME TypeOK, Crash, NEW c \in CounterRows
  PROVE  BracketOf(c)'
<1> USE DEF dbVars, metricVars, lifeVars
<1>1. Returned(c)' = {} /\ Acked(c)' = {} /\ Own(c)' = {}
  BY DEF Crash, Returned, Acked, Own
<1>2. /\ writesTotal'[c] = 0 /\ writeErrors'[c] = 0 /\ late'[c] = 0
      /\ cnt'[c] = cnt[c] /\ base'[c] = cnt[c] /\ cnt[c] \in Nat
  BY DEF Crash, TypeOK
<1>3. /\ Cardinality(Returned(c)') = 0 /\ Cardinality(Acked(c)') = 0 /\ Cardinality(Own(c)') = 0
  BY <1>1, FS_EmptySet
<1>. QED  BY <1>2, <1>3 DEF BracketOf

(* The writes of one round are finitely many, however many rounds there are. *)
LEMMA RoundIsFinite ==
  ASSUME NEW r \in Rounds
  PROVE  IsFiniteSet({w \in Writes : w[1][1] = r})
<1> DEFINE I == {r} \X (1 .. Batch)
<1>0. IsFiniteSet({r})
  BY FS_Singleton
<1>1. IsFiniteSet(1 .. Batch)
  <2>1. 1 \in Int /\ Batch \in Int
    BY BatchAssumption
  <2>. QED  BY <2>1, FS_Interval
<1>2. IsFiniteSet(I)
  BY <1>0, <1>1, FS_Product
<1>3. IsFiniteSet(Tables)
  <2>1. IsFiniteSet({"events"}) 
    BY FS_Singleton
  <2>2. IsFiniteSet({"events"} \cup {"events_regional"})
    BY <2>1, FS_AddElement
  <2>3. Tables = {"events"} \cup {"events_regional"}
    BY DEF Tables
  <2>. QED  BY <2>2, <2>3
<1>4. IsFiniteSet(I \X Tables)
  BY <1>2, <1>3, FS_Product
<1>5. ASSUME NEW w \in Writes, w[1][1] = r PROVE w \in I \X Tables
  <2>1. PICK i \in Items, t \in Tables : w = <<i, t>>
    BY DEF Writes
  <2>2. PICK q \in Rounds, b \in 1 .. Batch : i = <<q, b>>
    BY DEF Items
  <2>3. q = r
    BY <1>5, <2>1, <2>2
  <2>. QED  BY <2>1, <2>2, <2>3
<1>6. {w \in Writes : w[1][1] = r} \subseteq I \X Tables
  BY <1>5
<1>. QED  BY <1>4, <1>6, FS_Subset

(* A write is started by the tick of its round and by nothing else, and never
   becomes idle again. *)
LEMMA IdleStep ==
  ASSUME TypeOK, TxInv, [Next]_vars
  PROVE  \/ \A v \in Writes : (pc'[v] = "idle") <=> (pc[v] = "idle")
         \/ \E r \in Rounds : /\ WriteTick(r)
                              /\ \A v \in Writes : pc'[v] = IF v[1][1] = r THEN "begin" ELSE pc[v]
<1> USE DEF dbVars, metricVars, lifeVars
<1>1. ASSUME NEW r \in Rounds, WriteTick(r)
      PROVE  \A v \in Writes : pc'[v] = IF v[1][1] = r THEN "begin" ELSE pc[v]
  BY <1>1 DEF WriteTick
<1>2. ASSUME NEW w \in Writes, WriteStep(w)
      PROVE  \A v \in Writes : (pc'[v] = "idle") <=> (pc[v] = "idle")
  BY <1>2, WriteStepFrame
<1>3. CASE Crash
  BY <1>3 DEF Crash
<1>4. ASSUME NEW g \in AllRegions, OutageBegins(g) \/ OutageEnds(g)
      PROVE  \A v \in Writes : (pc'[v] = "idle") <=> (pc[v] = "idle")
  BY <1>4 DEF OutageBegins, OutageEnds
<1>5. CASE UNCHANGED vars
  BY <1>5 DEF vars
<1>. QED  BY <1>1, <1>2, <1>3, <1>4, <1>5 DEF Next, WriteStep

(* Every step keeps the invariant of the metrics. *)
LEMMA MetricsStep ==
  ASSUME TypeOK, TxInv, RowsInv, MetricsInv, [Next]_vars
  PROVE  MetricsInv'
<1> USE DEF dbVars, metricVars, lifeVars
<1>1. IsFiniteSet(Started')
  <2>1. CASE \A v \in Writes : (pc'[v] = "idle") <=> (pc[v] = "idle")
    <3>1. Started' = Started
      BY <2>1 DEF Started
    <3>. QED  BY <3>1 DEF MetricsInv
  <2>2. ASSUME NEW r \in Rounds, \A v \in Writes : pc'[v] = IF v[1][1] = r THEN "begin" ELSE pc[v]
        PROVE  IsFiniteSet(Started')
    <3>1. Started' \subseteq Started \cup {w \in Writes : w[1][1] = r}
      BY <2>2 DEF Started
    <3>2. IsFiniteSet(Started \cup {w \in Writes : w[1][1] = r})
      BY RoundIsFinite, FS_Union DEF MetricsInv
    <3>. QED  BY <3>1, <3>2, FS_Subset
  <2>. QED  BY <2>1, <2>2, IdleStep
<1>2. Paired'
  <2> SUFFICES ASSUME NEW i \in Items
               PROVE  pc'[<<i, "events">>] = "idle" <=> pc'[<<i, "events_regional">>] = "idle"
    BY DEF Paired
  <2>1. /\ <<i, "events">> \in Writes /\ <<i, "events_regional">> \in Writes
        /\ <<i, "events">>[1] = i /\ <<i, "events_regional">>[1] = i
    BY DEF Writes, Tables
  <2>2. pc[<<i, "events">>] = "idle" <=> pc[<<i, "events_regional">>] = "idle"
    BY DEF MetricsInv, Paired
  <2>3. CASE \A v \in Writes : (pc'[v] = "idle") <=> (pc[v] = "idle")
    BY <2>1, <2>2, <2>3
  <2>4. ASSUME NEW r \in Rounds, \A v \in Writes : pc'[v] = IF v[1][1] = r THEN "begin" ELSE pc[v]
        PROVE  pc'[<<i, "events">>] = "idle" <=> pc'[<<i, "events_regional">>] = "idle"
    BY <2>1, <2>2, <2>4
  <2>. QED  BY <2>3, <2>4, IdleStep
<1>3. ASSUME NEW c \in CounterRows PROVE BracketOf(c)'
  <2>1. BracketOf(c) /\ IsFiniteSet(Started)
    BY DEF MetricsInv
  <2>2. ASSUME NEW r \in Rounds, WriteTick(r) PROVE BracketOf(c)'
    BY <2>1, <2>2, BracketTick
  <2>3. ASSUME NEW w \in Writes, WriteStep(w) PROVE BracketOf(c)'
    BY <2>1, <2>3, BracketWrite
  <2>4. CASE Crash
    BY <2>4, BracketCrash
  <2>5. ASSUME UNCHANGED <<rows, cnt, tenant, pc, tx, attempts, res, orphan, writesTotal,
                           writeErrors, writeRetries, crashes, base, late>>
        PROVE  BracketOf(c)'
    <3>1. \A v \in Writes : Target(v)' = Target(v)
      BY <2>5 DEF Target, TenantOf
    <3>2. Returned(c)' = Returned(c) /\ Acked(c)' = Acked(c) /\ Own(c)' = Own(c)
      BY <2>5, <3>1 DEF Returned, Acked, Own
    <3>. QED  BY <2>1, <2>5, <3>2, SameNumbers
  <2>6. ASSUME NEW g \in AllRegions, OutageBegins(g) \/ OutageEnds(g) PROVE BracketOf(c)'
    BY <2>5, <2>6 DEF OutageBegins, OutageEnds
  <2>7. CASE UNCHANGED vars
    BY <2>5, <2>7 DEF vars
  <2>. QED  BY <2>2, <2>3, <2>4, <2>6, <2>7 DEF Next, WriteStep
<1>. QED  BY <1>1, <1>2, <1>3 DEF MetricsInv

(* Nothing is started and nothing is counted yet. *)
LEMMA MetricsInit == Init => MetricsInv
<1> SUFFICES ASSUME Init PROVE MetricsInv
  OBVIOUS
<1>1. Started = {}
  BY DEF Init, Started
<1>2. Paired
  BY DEF Init, Paired, Writes, Tables
<1>3. ASSUME NEW c \in CounterRows PROVE BracketOf(c)
  <2>1. Returned(c) = {} /\ Acked(c) = {} /\ Own(c) = {}
    BY DEF Init, Returned, Acked, Own
  <2>2. /\ Cardinality(Returned(c)) = 0 /\ Cardinality(Acked(c)) = 0 /\ Cardinality(Own(c)) = 0
    BY <2>1, FS_EmptySet
  <2>. QED  BY <2>2 DEF Init, BracketOf
<1>. QED  BY <1>1, <1>2, <1>3, FS_EmptySet DEF MetricsInv

(* The invariant of the metrics holds, given that of the transactions. *)
THEOREM MetricsInductive == Spec => []MetricsInv
<1>1. IndInv /\ MetricsInv /\ [Next]_vars => MetricsInv'
  BY MetricsStep DEF IndInv
<1>. QED  BY <1>1, MetricsInit, Inductive, PTL DEF Spec

(* The bracket is what is left of its strengthening when the writes under way are
   forgotten. *)
LEMMA BracketFollows == IndInv /\ MetricsInv => MetricsBracket
<1> SUFFICES ASSUME IndInv, MetricsInv, NEW c \in CounterRows
             PROVE  /\ writesTotal[c] =< cnt[c] - base[c]
                    /\ cnt[c] - base[c] =< writesTotal[c] + writeErrors[c] + Recording(c) + late[c]
  BY DEF MetricsBracket
<1>1. Recording(c) = Cardinality(Returned(c))
  BY DEF Recording, Returned
<1>2. /\ cnt[c] \in Nat /\ base[c] \in Nat /\ writesTotal[c] \in Nat
      /\ writeErrors[c] \in Nat /\ late[c] \in Nat
  BY DEF IndInv, TypeOK
<1>3. /\ Cardinality(Returned(c)) \in Nat /\ Cardinality(Acked(c)) \in Nat
      /\ Cardinality(Own(c)) \in Nat
  BY CountsFinite DEF IndInv, MetricsInv
<1>4. BracketOf(c)
  BY DEF MetricsInv
<1>. QED  BY <1>1, <1>2, <1>3, <1>4 DEF BracketOf

(* What the metrics of one process say about the counters since it started, for
   any number of overlapping rounds, lost acknowledgements and crashes: at least
   writesTotal commits, and at most the writes recorded, those about to be, and
   the commits a killed process left behind. *)
THEOREM MetricsBracketHolds == Spec => []MetricsBracket
  BY BracketFollows, MetricsInductive, Inductive, PTL

(* The committed rows of table t, one for each of its writes that has a row. *)
RowsIn(t) == {r \in rows : r.write[2] = t}

(* The items that a tick has started. *)
StartedItems == {i \in Items : pc[<<i, "events">>] # "idle"}

(* When every started write is acknowledged, each table holds one row for every
   started item. *)
LEMMA OneRowPerItem ==
  ASSUME IndInv, MetricsInv, \A w \in Writes : pc[w] # "idle" => res[w] = "ok",
         NEW t \in Tables
  PROVE  /\ IsFiniteSet(RowsIn(t)) /\ IsFiniteSet(StartedItems)
         /\ Cardinality(StartedItems) = Cardinality(RowsIn(t))
<1> DEFINE f == [r \in RowsIn(t) |-> r.write[1]]
<1>1. \A i \in Items : <<i, t>> \in Writes
  BY DEF Writes
<1>2. StartedItems = {i \in Items : pc[<<i, t>>] # "idle"}
  <2>1. t = "events" \/ t = "events_regional"
    BY DEF Tables
  <2>. QED  BY <2>1 DEF StartedItems, MetricsInv, Paired
<1>3. ASSUME NEW r \in RowsIn(t)
      PROVE  /\ r.write \in Writes /\ r.write[1] \in Items
             /\ r.write = <<r.write[1], t>> /\ r.write[1] \in StartedItems
  <2>1. r.write \in Writes /\ r.write[2] = t /\ pc[r.write] # "idle"
    BY DEF RowsIn, IndInv, TypeOK, EventRow, RowsInv, Settled
  <2>2. r.write[1] \in Items /\ r.write = <<r.write[1], t>>
    BY <2>1 DEF Writes
  <2>. QED  BY <1>2, <2>1, <2>2
<1>4. f \in [RowsIn(t) -> StartedItems]
  BY <1>3
<1>5. ASSUME NEW r1 \in RowsIn(t), NEW r2 \in RowsIn(t), f[r1] = f[r2] PROVE r1 = r2
  <2>1. r1.write = r2.write
    BY <1>3, <1>5
  <2>. QED  BY <2>1 DEF RowsIn, IndInv, AtMostOneRow
<1>6. ASSUME NEW i \in StartedItems PROVE \E r \in RowsIn(t) : f[r] = i
  <2>1. <<i, t>> \in Writes /\ pc[<<i, t>>] # "idle"
    BY <1>1, <1>2
  <2>2. PICK r \in rows : r.write = <<i, t>>
    BY <2>1 DEF IndInv, AckedIsStored
  <2>3. r.write[1] = i /\ r.write[2] = t
    BY <2>2
  <2>4. r \in RowsIn(t)
    BY <2>3 DEF RowsIn
  <2>. QED  BY <2>3, <2>4
<1>7. f \in Bijection(RowsIn(t), StartedItems)
  BY <1>4, <1>5, <1>6 DEF Bijection, Injection, Surjection, IsInjective
<1>8. ExistsBijection(RowsIn(t), StartedItems)
  BY <1>7 DEF ExistsBijection
<1>9. IsFiniteSet(RowsIn(t))
  BY FS_Subset DEF RowsIn, IndInv, RowsInv
<1>. QED  BY <1>8, <1>9, FS_Bijection

(* A row is counted as "global" if it is in events and in a partition if it is in
   events_regional. *)
LEMMA TargetsOfTables ==
  ASSUME IndInv, NEW r \in rows
  PROVE  /\ r.write[2] \in Tables
         /\ r.write[2] = "events" <=> r.target = "global"
         /\ r.write[2] = "events_regional" <=> r.target \in {"east", "west", "eu"}
<1>1. r.write \in Writes /\ r.target = Target(r.write) /\ TenantOf(r.write) \in Tenants
  BY DEF IndInv, TypeOK, EventRow, RowsInv
<1>2. r.write[2] \in Tables
  BY <1>1, WriteParts
<1>3. regionTarget(HomeRegion[TenantOf(r.write)]) \in Partitions
  BY <1>1, TenantsAssumption, RegionTargetType
<1>. QED  BY <1>1, <1>2, <1>3 DEF Tables, Target, Partitions

(* The global counter that ListTenants reports equals the sum of the regional ones
   whenever every write that was started has been acknowledged: runWrites starts
   one write of each kind per item, and each of them stores one counted row. *)
THEOREM TotalsAgreeHolds == Spec => []TotalsAgree
<1>1. IndInv /\ MetricsInv => TotalsAgree
  <2> SUFFICES ASSUME IndInv, MetricsInv, \A w \in Writes : pc[w] # "idle" => res[w] = "ok"
               PROVE  cnt["global"] = cnt["east"] + cnt["west"] + cnt["eu"]
    BY DEF TotalsAgree
  <2> DEFINE Of(c) == {r \in rows : r.target = c}
  <2>1. \A c \in CounterRows : IsFiniteSet(Of(c)) /\ cnt[c] = Cardinality(Of(c)) /\ cnt[c] \in Nat
    <3> TAKE c \in CounterRows
    <3>1. Of(c) \subseteq rows /\ IsFiniteSet(rows)
      BY DEF IndInv, RowsInv
    <3>2. IsFiniteSet(Of(c))
      BY <3>1, FS_Subset
    <3>. QED  BY <3>2 DEF IndInv, CountersExact, TypeOK
  <2>2. {"global", "east", "west", "eu"} \subseteq CounterRows
    BY DEF CounterRows, Partitions
  <2>3. RowsIn("events") = Of("global")
    BY TargetsOfTables DEF RowsIn
  <2>4. RowsIn("events_regional") = (Of("east") \cup Of("west")) \cup Of("eu")
    BY TargetsOfTables DEF RowsIn
  <2>5. Cardinality(RowsIn("events")) = Cardinality(RowsIn("events_regional"))
    BY OneRowPerItem DEF Tables
  <2>6. Of("east") \cap Of("west") = {} /\ (Of("east") \cup Of("west")) \cap Of("eu") = {}
    OBVIOUS
  <2> HIDE DEF Of
  <2>7. /\ IsFiniteSet(Of("east") \cup Of("west"))
        /\ Cardinality(Of("east") \cup Of("west")) = cnt["east"] + cnt["west"] - 0
    BY <2>1, <2>2, <2>6, FS_Union, FS_EmptySet
  <2>8. Cardinality((Of("east") \cup Of("west")) \cup Of("eu"))
          = cnt["east"] + cnt["west"] - 0 + cnt["eu"] - 0
    BY <2>1, <2>2, <2>6, <2>7, FS_Union, FS_EmptySet
  <2>9. cnt["global"] = Cardinality(RowsIn("events"))
    BY <2>1, <2>2, <2>3
  <2>10. /\ cnt["global"] \in Nat /\ cnt["east"] \in Nat /\ cnt["west"] \in Nat /\ cnt["eu"] \in Nat
    BY <2>1, <2>2
  <2>11. cnt["global"] = cnt["east"] + cnt["west"] - 0 + cnt["eu"] - 0
    BY <2>4, <2>5, <2>8, <2>9
  <2>. QED  BY <2>10, <2>11
<1>. QED  BY <1>1, MetricsInductive, Inductive, PTL

=============================================================================
