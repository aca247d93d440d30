----------------------------- MODULE WritePath -----------------------------
(***************************************************************************)
(* The write side of the workload: runWrites, recordWrite, tenantInsert and *)
(* setTenantContext (internal/workload/runner.go), over CockroachDB's       *)
(* serializable transactions and cockroach-go's ExecuteTx, with the process *)
(* killed and restarted at any point.                                       *)
(*                                                                          *)
(* Every tick starts a round in its own goroutines and no round waits for   *)
(* the one before it, so any number of rounds overlap.  A round picks a     *)
(* tenant for each item of the batch and runs two writes for it, one into   *)
(* events and one into the tenant's partition of events_regional.           *)
(***************************************************************************)
EXTENDS Geo, Integers, FiniteSets

CONSTANTS
  Rounds,         \* the ticks of writeTicker that are explored
  Batch,          \* Config.BatchSize
  Tenants,        \* the tenant pool
  HomeRegion,     \* Tenant.HomeRegion
  NoTenant,       \* app.current_tenant is not set
  PoolRegions,    \* regions with a DSN of their own (keys of regionalPools)
  MaxConns,       \* pool size
  MaxRetries,     \* retries ExecuteTx makes before it gives up
  FaultyRegions,  \* regions whose partition may lose its quorum
  MaxCrashes      \* bound on kills of the workload process

ASSUME BatchAssumption    == Batch \in Nat
ASSUME TenantsAssumption  == HomeRegion \in [Tenants -> AllRegions] /\ NoTenant \notin Tenants
ASSUME PoolAssumption     == PoolRegions \subseteq AllRegions /\ FaultyRegions \subseteq AllRegions
ASSUME BoundsAssumption   == MaxConns \in Nat \ {0} /\ MaxRetries \in Nat /\ MaxCrashes \in Nat

Items  == Rounds \X (1 .. Batch)
Tables == {"events", "events_regional"}
Writes == Items \X Tables

VARIABLES
  rows,         \* committed rows of events and events_regional
  cnt,          \* event_counters: target -> cnt
  tenant,       \* item -> the tenant runWrites picked for it
  pc,           \* write -> the statement its goroutine executes next
  tx,           \* write -> the open transaction, as the server sees it
  attempts,     \* write -> attempts counted by the closure of tenantInsert
  res,          \* write -> what ExecuteTx returned
  orphan,       \* write -> its RELEASE is under way and nobody waits for it
  writesTotal, writeErrors, writeRetries,  \* metrics, per target
  down,         \* regions whose partition has no quorum now
  crashes,      \* kills so far
  base,         \* cnt when the running process started
  late          \* per target: rows committed for a process that is gone

dbVars     == <<rows, cnt>>
metricVars == <<writesTotal, writeErrors, writeRetries>>
lifeVars   == <<crashes, base>>
vars == <<rows, cnt, tenant, pc, tx, attempts, res, orphan, writesTotal,
          writeErrors, writeRetries, down, crashes, base, late>>

TenantOf(w) == tenant[w[1]]

(* Mutant: both tenantInsert calls are given the literal "global". *)
TargetAlwaysGlobal(w) == "global"

(* The metric label, the counter row and (but for "global") the partition. *)
Target(w) == IF w[2] = "events" THEN "global" ELSE regionTarget(HomeRegion[TenantOf(w)])

(* Mutant: runWrites passes appPool to both writes. *)
PoolShared(w) == "app"

(* events goes through appPool; events_regional through the pool of the home
   region, or appPool where the region has no pool of its own. *)
Pool(w) ==
  IF w[2] = "events_regional" /\ HomeRegion[TenantOf(w)] \in PoolRegions
  THEN HomeRegion[TenantOf(w)] ELSE "app"

Holding == {"context", "insert", "count", "release"}   \* a connection is checked out
PCs     == {"idle", "begin"} \cup Holding \cup {"record", "done", "dead"}

InUse(p) == Cardinality({w \in Writes : pc[w] \in Holding /\ Pool(w) = p})

Attempts == 1 .. (MaxRetries + 1)
EventRow == [write : Writes, attempt : Attempts, tenant : Tenants, target : CounterRows]

(* A transaction just begun, or just rolled back to cockroach_restart: no
   SET LOCAL, no rows, no counter read. *)
NewTx == [ctx |-> NoTenant, ins |-> {}, seen |-> 0]

Init ==
  /\ rows = {}
  /\ cnt = [c \in CounterRows |-> 0]
  /\ tenant = [i \in Items |-> NoTenant]
  /\ pc = [w \in Writes |-> "idle"]
  /\ tx = [w \in Writes |-> NewTx]
  /\ attempts = [w \in Writes |-> 0]
  /\ res = [w \in Writes |-> "none"]
  /\ orphan = [w \in Writes |-> "no"]
  /\ writesTotal = [c \in CounterRows |-> 0]
  /\ writeErrors = [c \in CounterRows |-> 0]
  /\ writeRetries = [c \in CounterRows |-> 0]
  /\ down = {}
  /\ crashes = 0
  /\ base = [c \in CounterRows |-> 0]
  /\ late = [c \in CounterRows |-> 0]

-----------------------------------------------------------------------------
(* The loop of Run and runWrites: a tick starts a round, whatever the rounds
   before it are doing. *)
WriteTick(r) ==
  /\ \A w \in Writes : w[1][1] = r => pc[w] = "idle"
  /\ \E picked \in [1 .. Batch -> Tenants] :
       tenant' = [i \in Items |-> IF i[1] = r THEN picked[i[2]] ELSE tenant[i]]
  /\ pc' = [w \in Writes |-> IF w[1][1] = r THEN "begin" ELSE pc[w]]
  /\ UNCHANGED <<dbVars, tx, attempts, res, orphan, metricVars, down, lifeVars, late>>

(* Mutant: the tenant context is set on the first attempt only. *)
EnterAttemptKeepsContext(w) ==
  /\ pc' = [pc EXCEPT ![w] = IF attempts[w] = 0 THEN "context" ELSE "insert"]
  /\ tx' = [tx EXCEPT ![w] = NewTx]
  /\ UNCHANGED writeRetries
  /\ attempts' = [attempts EXCEPT ![w] = @ + 1]

(* The head of the closure: every attempt but the first is counted as a retry. *)
EnterAttempt(w) ==
  /\ pc' = [pc EXCEPT ![w] = "context"]
  /\ tx' = [tx EXCEPT ![w] = NewTx]
  /\ writeRetries' = IF attempts[w] > 0
                     THEN [writeRetries EXCEPT ![Target(w)] = @ + 1]
                     ELSE writeRetries
  /\ attempts' = [attempts EXCEPT ![w] = @ + 1]

(* ExecuteTx hands its result to recordWrite; the transaction is over and the
   connection is back in the pool. *)
Return(w, result) ==
  /\ pc' = [pc EXCEPT ![w] = "record"]
  /\ res' = [res EXCEPT ![w] = result]

(* ExecuteTx: a free connection of the pool, BEGIN and SAVEPOINT. *)
BeginTx(w) ==
  /\ pc[w] = "begin"
  /\ InUse(Pool(w)) < MaxConns
  /\ EnterAttempt(w)
  /\ UNCHANGED <<dbVars, tenant, res, orphan, writesTotal, writeErrors, down, lifeVars, late>>

(* The pool cannot connect, or BEGIN fails: the closure never runs. *)
BeginFails(w) ==
  /\ pc[w] = "begin"
  /\ Return(w, "err")
  /\ UNCHANGED <<dbVars, tenant, tx, attempts, orphan, metricVars, down, lifeVars, late>>

(* The two SET LOCAL statements (the QoS tier has no effect on the data). *)
setTenantContext(w) ==
  /\ pc[w] = "context"
  /\ tx' = [tx EXCEPT ![w].ctx = TenantOf(w)]
  /\ pc' = [pc EXCEPT ![w] = "insert"]
  /\ UNCHANGED <<dbVars, tenant, attempts, res, orphan, metricVars, down, lifeVars, late>>

NewRow(w) == [write |-> w, attempt |-> attempts[w], tenant |-> TenantOf(w), target |-> Target(w)]

(* The statement hangs while the partition it writes to has no quorum. *)
Reachable(w) == w[2] = "events_regional" => HomeRegion[TenantOf(w)] \notin down

(* Mutant: the closure inserts through the pool instead of its transaction. *)
InsertOnPool(w) ==
  /\ pc[w] = "insert"
  /\ Reachable(w)
  /\ rows' = rows \cup {NewRow(w)}
  /\ pc' = [pc EXCEPT ![w] = "count"]
  /\ UNCHANGED <<cnt, tenant, tx, res, attempts, orphan, metricVars, down, lifeVars, late>>

(* InsertEvent / InsertRegionalEvent.  The policy tenant_isolation lets the row
   in only under its own tenant's context, and the row stays inside the
   transaction; a row it rejects is an error no retry is made for. *)
Insert(w) ==
  /\ pc[w] = "insert"
  /\ Reachable(w)
  /\ IF tx[w].ctx = TenantOf(w)
     THEN /\ tx' = [tx EXCEPT ![w].ins = @ \cup {NewRow(w)}]
          /\ pc' = [pc EXCEPT ![w] = "count"]
          /\ UNCHANGED res
     ELSE /\ tx' = [tx EXCEPT ![w] = NewTx]
          /\ Return(w, "rls")
  /\ UNCHANGED <<dbVars, tenant, attempts, orphan, metricVars, down, lifeVars, late>>

(* UPDATE event_counters SET cnt = cnt + 1: the value read is part of what
   serializability protects. *)
IncrementCounter(w) ==
  /\ pc[w] = "count"
  /\ tx' = [tx EXCEPT ![w].seen = cnt[Target(w)]]
  /\ pc' = [pc EXCEPT ![w] = "release"]
  /\ UNCHANGED <<dbVars, tenant, attempts, res, orphan, metricVars, down, lifeVars, late>>

(* The server's commit of w's transaction, which RELEASE SAVEPOINT performs. *)
Serializable(w) == tx[w].seen = cnt[Target(w)]
Commit(w) ==
  /\ Serializable(w)
  /\ rows' = rows \cup tx[w].ins
  /\ cnt' = [cnt EXCEPT ![Target(w)] = tx[w].seen + 1]
  /\ tx' = [tx EXCEPT ![w] = NewTx]

Release(w) ==
  /\ pc[w] = "release"
  /\ Commit(w)
  /\ Return(w, "ok")
  /\ UNCHANGED <<tenant, attempts, orphan, metricVars, down, lifeVars, late>>

(* The connection breaks after RELEASE was sent.  ExecuteTx returns an
   ambiguous-commit error at once and does not retry; the server commits the
   transaction, or drops it, in its own time. *)
AckLost(w) ==
  /\ pc[w] = "release"
  /\ orphan' = [orphan EXCEPT ![w] = "own"]
  /\ Return(w, "err")
  /\ UNCHANGED <<dbVars, tenant, tx, attempts, metricVars, down, lifeVars, late>>

OrphanCommit(w) ==
  /\ orphan[w] # "no"
  /\ Commit(w)
  /\ late' = IF orphan[w] = "old" THEN [late EXCEPT ![Target(w)] = @ + 1] ELSE late
  /\ orphan' = [orphan EXCEPT ![w] = "no"]
  /\ UNCHANGED <<tenant, pc, attempts, res, metricVars, down, lifeVars>>

OrphanAbort(w) ==
  /\ orphan[w] # "no"
  /\ tx' = [tx EXCEPT ![w] = NewTx]
  /\ orphan' = [orphan EXCEPT ![w] = "no"]
  /\ UNCHANGED <<dbVars, tenant, pc, attempts, res, metricVars, down, lifeVars, late>>

(* Mutant: one retry more than MaxRetries. *)
RetryOnceMore(w) ==
  /\ pc[w] \in {"insert", "count", "release"}
  /\ attempts[w] =< MaxRetries + 1
  /\ EnterAttempt(w)
  /\ UNCHANGED <<dbVars, tenant, res, orphan, writesTotal, writeErrors, down, lifeVars, late>>

(* 40001 from any statement on data, RELEASE included: ROLLBACK TO SAVEPOINT
   and the closure runs again from its first line. *)
Retry(w) ==
  /\ pc[w] \in {"insert", "count", "release"}
  /\ attempts[w] =< MaxRetries
  /\ EnterAttempt(w)
  /\ UNCHANGED <<dbVars, tenant, res, orphan, writesTotal, writeErrors, down, lifeVars, late>>

(* Mutant: the closure returns nil after an error of one of its statements. *)
StatementErrorSwallowed(w) ==
  /\ pc[w] \in Holding
  /\ tx' = [tx EXCEPT ![w] = NewTx]
  /\ Return(w, "ok")
  /\ UNCHANGED <<dbVars, tenant, attempts, orphan, metricVars, down, lifeVars, late>>

(* Any other error of a statement, or one retry too many: ExecuteTx rolls back
   and returns. *)
StatementError(w) ==
  /\ pc[w] \in Holding
  /\ tx' = [tx EXCEPT ![w] = NewTx]
  /\ Return(w, "err")
  /\ UNCHANGED <<dbVars, tenant, attempts, orphan, metricVars, down, lifeVars, late>>

(* Mutant: the write is counted as done before the error is looked at. *)
recordWriteAlways(w) ==
  /\ pc[w] = "record"
  /\ writesTotal' = [writesTotal EXCEPT ![Target(w)] = @ + 1]
  /\ writeErrors' = IF res[w] = "ok" THEN writeErrors ELSE [writeErrors EXCEPT ![Target(w)] = @ + 1]
  /\ pc' = [pc EXCEPT ![w] = "done"]
  /\ UNCHANGED <<dbVars, tenant, tx, attempts, res, orphan, writeRetries, down, lifeVars, late>>

recordWrite(w) ==
  /\ pc[w] = "record"
  /\ IF res[w] = "ok"
     THEN /\ writesTotal' = [writesTotal EXCEPT ![Target(w)] = @ + 1]
          /\ UNCHANGED writeErrors
     ELSE /\ writeErrors' = [writeErrors EXCEPT ![Target(w)] = @ + 1]
          /\ UNCHANGED writesTotal
  /\ pc' = [pc EXCEPT ![w] = "done"]
  /\ UNCHANGED <<dbVars, tenant, tx, attempts, res, orphan, writeRetries, down, lifeVars, late>>

-----------------------------------------------------------------------------
(* The container is killed and Docker starts it again (unless-stopped).
   Metrics start from zero, event_counters does not.  The server aborts the
   transactions of the closed connections, except that a RELEASE already sent
   may still take effect. *)
Crash ==
  /\ crashes < MaxCrashes
  /\ crashes' = crashes + 1
  /\ orphan' = [w \in Writes |-> IF pc[w] = "release" \/ orphan[w] # "no" THEN "old" ELSE "no"]
  /\ tx' = [w \in Writes |-> IF orphan'[w] = "old" THEN tx[w] ELSE NewTx]
  /\ pc' = [w \in Writes |-> IF pc[w] \in {"idle", "done"} THEN pc[w] ELSE "dead"]
  /\ writesTotal' = [c \in CounterRows |-> 0]
  /\ writeErrors' = [c \in CounterRows |-> 0]
  /\ writeRetries' = [c \in CounterRows |-> 0]
  /\ base' = cnt
  /\ late' = [c \in CounterRows |-> 0]
  /\ UNCHANGED <<dbVars, tenant, attempts, res, down>>

OutageBegins(g) ==
  /\ g \in FaultyRegions \ down
  /\ down' = down \cup {g}
  /\ UNCHANGED <<dbVars, tenant, pc, tx, attempts, res, orphan, metricVars, lifeVars, late>>

OutageEnds(g) ==
  /\ g \in down
  /\ down' = down \ {g}
  /\ UNCHANGED <<dbVars, tenant, pc, tx, attempts, res, orphan, metricVars, lifeVars, late>>

Next ==
  \/ \E r \in Rounds : WriteTick(r)
  \/ \E w \in Writes :
       \/ BeginTx(w) \/ BeginFails(w) \/ setTenantContext(w)
       \/ Insert(w) \/ IncrementCounter(w) \/ Release(w)
       \/ AckLost(w) \/ OrphanCommit(w) \/ OrphanAbort(w)
       \/ Retry(w) \/ StatementError(w) \/ recordWrite(w)
  \/ Crash
  \/ \E g \in AllRegions : OutageBegins(g) \/ OutageEnds(g)

Spec == Init /\ [][Next]_vars

(* What the goroutine of a write does by itself once it has a connection.  A
   conflict at RELEASE ends in a retry or, after the last one, in an error. *)
Proceed(w) ==
  \/ setTenantContext(w) \/ Insert(w) \/ IncrementCounter(w)
  \/ Release(w) \/ recordWrite(w)
  \/ pc[w] = "release" /\ ~Serializable(w) /\ (Retry(w) \/ StatementError(w))

-----------------------------------------------------------------------------

TxType == [ctx : Tenants \cup {NoTenant}, ins : SUBSET EventRow, seen : Nat]

(* Type invariant. *)
TypeOK ==
  /\ rows \subseteq EventRow
  /\ cnt \in [CounterRows -> Nat]
  /\ tenant \in [Items -> Tenants \cup {NoTenant}]
  /\ pc \in [Writes -> PCs]
  /\ tx \in [Writes -> TxType]
  /\ attempts \in [Writes -> 0 .. (MaxRetries + 1)]
  /\ res \in [Writes -> {"none", "ok", "err", "rls"}]
  /\ orphan \in [Writes -> {"no", "own", "old"}]
  /\ writesTotal \in [CounterRows -> Nat]
  /\ writeErrors \in [CounterRows -> Nat]
  /\ writeRetries \in [CounterRows -> Nat]
  /\ down \subseteq AllRegions
  /\ crashes \in Nat
  /\ base \in [CounterRows -> Nat]
  /\ late \in [CounterRows -> Nat]

(* tenantInsert "increments the write-side counter atomically": at every
   instant each row of event_counters is the number of committed rows of its
   target, whatever was retried, lost or killed half-way. *)
CountersExact ==
  \A c \in CounterRows : cnt[c] = Cardinality({r \in rows : r.target = c})

(* A write stores at most one row, although its closure may run many times and
   its RELEASE may take effect after the client gave up on it. *)
AtMostOneRow ==
  \A r1, r2 \in rows : r1.write = r2.write => r1 = r2

(* recordWrite counts a write in writesTotal only if its row is in the table,
   under the tenant of its item and in the partition of that tenant's home. *)
AckedIsStored ==
  \A w \in Writes : res[w] = "ok" =>
    \E r \in rows : r.write = w /\ r.tenant = TenantOf(w) /\ r.target = Target(w)

(* The policy never rejects a write of the workload itself: every attempt,
   retries after ROLLBACK TO SAVEPOINT included, inserts under the context of
   the tenant it writes for. *)
ContextHolds == \A w \in Writes : res[w] # "rls"

Recording(c) == Cardinality({w \in Writes : pc[w] = "record" /\ Target(w) = c})

(* What a dashboard may conclude from the metrics of one process about the
   counters since that process started: never fewer commits than writesTotal,
   and never more than the writes counted as done or failed, those about to be
   counted, and commits left over from a process that was killed. *)
MetricsBracket ==
  \A c \in CounterRows :
    /\ writesTotal[c] =< cnt[c] - base[c]
    /\ cnt[c] - base[c] =< writesTotal[c] + writeErrors[c] + Recording(c) + late[c]

(* ListTenants reports the global counter beside the sum of the regional ones.
   They agree whenever every write that was started has been acknowledged. *)
TotalsAgree ==
  (\A w \in Writes : pc[w] # "idle" => res[w] = "ok") =>
    cnt["global"] = cnt["east"] + cnt["west"] + cnt["eu"]

(* The rows and counters a reader of the database sees are the ledger; all else
   is the client side. *)
Ledger == INSTANCE EventLedger WITH
  Writes <- Writes, Attempts <- Attempts, Tenants <- Tenants, HomeRegion <- HomeRegion,
  rows <- rows, cnt <- cnt

(* The transaction-level write path implements the abstract ledger: each step
   appends one whole, counted row for a write that has none, or changes nothing
   a reader can see. *)
ImplementsLedger == Ledger!LedgerSpec

(* The write has left ExecuteTx, or the process that ran it is gone. *)
Settled == {"record", "done", "dead"}

(* A transaction that can still commit, its client waiting or not, carries the
   row of the attempt under way and nothing left over from earlier attempts;
   and it belongs to a write that has stored nothing yet. *)
TxInvOf(w) ==
  /\ pc[w] # "idle" => TenantOf(w) \in Tenants
  /\ pc[w] \in {"idle", "begin"} => attempts[w] = 0
  /\ (pc[w] \in Holding \/ orphan[w] # "no") => attempts[w] > 0
  /\ pc[w] = "insert" => tx[w].ctx = TenantOf(w)
  /\ pc[w] \in {"context", "insert"} => tx[w].ins = {}
  /\ (pc[w] \in {"count", "release"} \/ orphan[w] # "no") => tx[w].ins = {NewRow(w)}
  /\ orphan[w] # "no" => pc[w] \in Settled
  /\ res[w] = "ok" => pc[w] \in Settled

(* No attempt of tenantInsert leaves anything behind for the next one or for a
   late commit: TxInvOf holds of every write. *)
TxInv == \A w \in Writes : TxInvOf(w)

(* A write that has a committed row is through with ExecuteTx, has no RELEASE
   under way that could store a second one, and its row is under its tenant and
   in the table and partition it was meant for. *)
RowsInv ==
  /\ IsFiniteSet(rows)
  /\ \A r \in rows :
       /\ pc[r.write] \in Settled
       /\ orphan[r.write] = "no"
       /\ r.tenant = TenantOf(r.write)
       /\ r.target = Target(r.write)

(* The inductive invariant behind the theorems of WritePathProofs: no write has
   both a committed row and a transaction that can still commit one. *)
IndInv ==
  /\ TypeOK
  /\ TxInv
  /\ RowsInv
  /\ CountersExact
  /\ AtMostOneRow
  /\ AckedIsStored
  /\ ContextHolds

=============================================================================
