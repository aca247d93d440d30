# A verification project for cdbct

`cdbct` stands up a CockroachDB cluster in Docker, routes the traffic between its
nodes through Toxiproxy, runs a multi-tenant workload against it and injects
faults. This directory holds TLA+ models of the parts with state and
concurrency of their own, TLC configurations that check them on small instances,
and proofs that TLAPS checks for every instance.

## The system

| Part | State | Operations | What makes it hard |
|---|---|---|---|
| Write path (`runner.go`: `runWrites`, `tenantInsert`, `recordWrite`) | rows of `events` / `events_regional`, `event_counters`, metrics, pool connections | a round per tick, two transactions per item | rounds overlap without limit; the closure is re-executed on conflict; ambiguous commits; kills; a partition without quorum |
| Read path (`runReads`) | pool connections | a round per query tick, two reads per region, in sequence | a stuck partition holds up the rest |
| Tenant pool (`tenant.go`) | table `tenants`, in-memory pool | `SeedOrLoad`, `seed`, `load`, `distribute` | seeding is not atomic; rounding |
| Start-up (`Run`, `client.go`, `zone_configs.go`, migrations) | schema objects, goose version, zone configurations | connect, migrate, zones, seed or load, serve | every statement commits alone; the process is restarted from any intermediate state |
| gRPC `TenantService` (`grpc_server.go`) | none of its own | `ListTenants`, `VerifyRLS`, `GetTenantEvents`, `GetRegionStatus`, `ListTenantsByRegion` | several statements per call while the workload writes |
| Chaos (`chaos/client.go`, `cmd/chaos.go`, `docker/chaos.go`) | Toxiproxy's proxies and toxics, in memory only | inject, clear, clear all, regional, setup | several HTTP calls per command, concurrent commands, restarts |
| Container life cycle (`docker/cluster.go`, `manager.go`, `chaos.go`, `obs.go`, `workload.go`; `cmd/cluster.go`, `destroy.go`, `quickstart.go`, `obs.go`) | containers, volumes, the network, Toxiproxy's proxies and baselines | create, scale, rm, destroy, quickstart, workload start/stop, obs setup/teardown, chaos setup | every command is a list of Docker calls; any call may fail, the command may be interrupted between two |
| Topology and connection strings (`docker/topology.go`, `workload.go`, `cluster.go`) | labels and localities of the nodes, flags of the workload container | create, scale, workload start | the same layout is computed three times, by different commands, from different inputs |
| Retry loops (`client.go`, `zone_configs.go`) | elapsed time, backoff | `pingWithRetry`, `applyWithRetry` | the deadline is tested before an attempt only |
| Image build, dashboards, command line, generated code | none or files | | |

The workload process reads and writes the database through an admin pool (root),
an application pool (`appuser`, subject to row-level security) and one
application pool per region. The gRPC service shares the first two. Chaos
commands change the network under the database and meet the workload only
through partitioned nodes: a region with two of its three nodes cut off has no
quorum for its partition. The life cycle commands keep nothing in memory: each
reads the state of Docker afresh.

### What should hold

* Write path: counters equal row counts at every instant; a write stores at most
  one row; what is counted as written is stored where it should be; the policy
  never rejects the workload's own insert; the metrics bound the commits; one
  region's outage does not starve the others and leaves no backlog behind.
* Read path: rounds end; reads of `events` do not depend on any partition.
* The two together: they share their pools, and still a lost region holds up
  nothing but its own reads and writes; losing one node of a region is not
  noticed.
* Tenant pool and start-up: the split is exact; the pool is never empty, never
  mixed from two seed lists, and survives restarts; the process only serves on a
  complete schema; it comes up from every state an interrupted start leaves.
* gRPC service: the totals of the summaries, which count no rows, are those of the
  rows at one instant; a tenant's count is its own; `VerifyRLS` says what it is
  believed to say.
* Retry loops: none holds the start-up up for longer than its deadline, an attempt
  and a sleep; none gives up on a cluster that came back in time.
* Topology: the layout read back from the labels is the one the nodes were
  started with; partitions have the replicas they ask for; gateways are at home and
  tenants have a node to connect to, as far as the flags of the workload allow.
* Life cycle: destroy leaves nothing it could have found; what reports success is
  complete; nothing but three known obstacles makes a command fail; data is lost
  only to a purge.
* Chaos: a clear removes everything older than itself wherever its calls succeed;
  `regional` is complete when it succeeds; `setup` repairs.

`PROJECT.json` lists, under "hazards", the lines where each of these can go wrong.

## The modules

| Module | Models | Notes |
|---|---|---|
| `Geo` | region names, partitions, counter rows, `regionTarget` | shared vocabulary |
| `EventLedger` | abstract: what readers of the database may rely on | an atomic append-and-count |
| `WritePath` | the write path, statement by statement | implements `EventLedger` |
| `WritePathProofs` | theorems about `WritePath` | |
| `ReadPath` | `runReads` | a component of `Workload` |
| `Workload` | the rounds of both on the same pools, nodes cut off and healed | composes `WritePath`, `ReadPath` and `Topology` |
| `WorkloadProofs` | theorems about `Workload` | carries those of `WritePathProofs` over |
| `TenantTiers` | `distribute` and the lists `seed` builds | pure functions |
| `TenantTiersProofs` | theorems about `TenantTiers` | |
| `Topology` | `NodeRegion`, the reconstruction from labels, the DSNs | pure functions |
| `Layout` | localities, DSNs and home regions while a cluster grows | uses `Topology` and `TenantTiers` |
| `LayoutProofs` | theorems about `Topology` and `Layout` | |
| `RetryLoop` | the backoff loop against a deadline | pure functions |
| `Startup` | `Run` up to its loop, migrations, zones, seeding | uses `TenantTiers` and `RetryLoop` |
| `StartupProofs` | theorems about `Startup` | |
| `TenantService` | the gRPC methods | runs on `EventLedger` |
| `TenantServiceProofs` | theorems about `TenantService` | |
| `Chaos` | the chaos commands and Toxiproxy | |
| `ChaosProofs` | theorems about `Chaos` | |
| `Lifecycle` | the commands that build and take down the environment | |
| `LifecycleProofs` | theorems about `Lifecycle` | |
| `MC*` | instances for TLC | |

### WritePath

A write is an item of a round's batch and one of the two tables. `pc` is the
statement its goroutine executes next: `begin` (waiting for a connection),
`context` (the two `SET LOCAL`), `insert`, `count` (`IncrementCounter`),
`release` (`RELEASE SAVEPOINT`), `record` (`recordWrite`), `done`, or `dead` if
the process was killed. `tx` is what the server holds for the open transaction:
the tenant context, the uncommitted row and the counter value it has read.
`attempts` is the variable of the same name in `tenantInsert`.

CockroachDB and cockroach-go are modelled from how `tenantInsert` uses them:
a commit takes effect only if the counter still has the value the transaction
read (`Serializable`); a serialization failure may hit any statement on data, rolls
back to the savepoint and re-runs the closure (`Retry`), at most `MaxRetries`
times; any other failure ends `ExecuteTx` (`StatementError`, `BeginFails`); if the
connection breaks after `RELEASE` was sent, `ExecuteTx` returns an error at once
and the server commits or aborts on its own (`AckLost`, `OrphanCommit`,
`OrphanAbort`). `Crash` kills the process: metrics are reset, transactions are
lost, and a `RELEASE` already sent may take effect later. The QoS tier has no
effect on any of this and is left out, as are the contents of the events.

`base` (the counters when the process started) and `late` (rows committed for a
process that is gone) are history variables for `MetricsBracket`.

### EventLedger

One action, `Append`: a row and its counter, together, for a write that has none
yet. `WritePath` implements it under the identity mapping of `rows` and `cnt`: a
commit is an `Append`, everything else a stutter. `TenantService` is built
on the ledger, so its results hold over `WritePath`.

### ReadPath and Workload

A round is a place in the list of regions and a statement. A read holds one
connection from `Begin` to `Commit` or the deferred `Rollback`. `PoolRegions`
says which regions have a pool of their own. What is read is thrown away by the
code, so no data is modelled. Follower reads and strong reads differ in the
replica that serves them; both need a partition that answers.

`Workload` conjoins the steps of `WritePath` and of an instance of `ReadPath`,
one goroutine at a time, with one condition more: a connection is handed out only
while reads and writes together hold fewer than the pool has (`Busy`), because
`Run` passes the same `appPool` and `regionalPools` to both. `Isolate` is
`chaos inject partition` and `chaos clear` of one node. `down`, which `WritePath`
and `ReadPath` only look at, is computed from the nodes that are cut off: the zone
configurations put the three replicas of a partition on the nodes of its region,
and it answers while two of them are left (`Lost`).

### TenantTiers, RetryLoop and Startup

`distribute` is kept in integers: `int(float64(n)*0.20 + 0.5)` is `(2n+5) div 10`.
`Startup` executes the migrations as lists of statements, told apart by whether
they can be repeated; goose records the version in a statement of its own, after
the last one. `Fail` ends the process at any point and Docker starts it again;
`Reconfigure` is a stop and a start with other flags; `ClusterDown` and
`ClusterUp` are an outage of the database. Where the code retries (`Connect`,
`ConnectRaw`, `applyWithRetry`) an attempt that fails costs one of `AttemptCosts`
seconds and the sleep, until the deadline: then the two pings end the process and
a zone configuration is given up, which is not an error. Elsewhere a statement
that meets an outage ends the process. `first` is a history variable: the first
pool ever loaded. The order in which `LoadTenants` returns the rows plays no part
and is left out.

### Topology and Layout

A DSN is the set of nodes it names. `locality` is what each node was started with
(by `CreateCluster` or, one at a time, by `AddNode`, from a topology read back from
the labels), `wl` what the workload container was started with. `workload start`
takes `--mode` and `--nodes` from its flags (multi-geo and 9 by default) and never
looks at the cluster, so `StartWorkload` takes any mode and any number, smaller or
larger than the cluster; a workload started before the cluster was scaled is one of
those cases. `GatewaysAtHome` and `HomesConnected` state under which flags the
connection strings are right. Outside them they are wrong, as soon as the region
concerned has a tenant (see the disagreements below).

### Lifecycle

A command is the list of calls it has still to make, and every action is one call
on Docker or Toxiproxy; calls that list what is there put the removals in front of
the rest. `Error` is where the command goes when a call fails: to its end, or,
where the caller only logs the error (`Tolerated`), past the rest of the function
that failed. Containers and volumes are told apart by role and index; a volume
holds nothing or the data of the k-th cluster that was initialised. Docker's rules
are modelled from how the code relies on them: names are unique, a network in use
and a volume that is mounted cannot be removed. CockroachDB's are: `init` gives node 1 a
new cluster if its store is blank, and is accepted otherwise (`initCluster` in the
code tolerates "already been initialized"); a node that runs on a blank store keeps
trying the addresses on its join list and joins the cluster of one that answers
(`NodeJoins`, at any time after `init`, also after the command has ended).
`--advertise-addr` and `--join` both point at Toxiproxy, so only nodes with a proxy
can be joined through (`Joinable`). `join` holds how far the list of each node goes:
to `--nodes` for create, to the node itself for scale.

### TenantService

One call of each method at a time; the handlers have no state of their own.
`PolicyOn` says whether the policy filters what `appuser` sees. The summaries read
counters and never rows: `ListReads` is the one `GetCounters` statement of
`ListTenants`, and time passes before `ListReply`. `moments` collects the sets of
rows there were since the call began, so that "what counting the rows at one
instant of the call would have found" can be stated. `before` holds the rows when a
call of `VerifyRLS` or `GetTenantEvents` began.

### Chaos

A command is a record with its next HTTP call, the node it is working on, the
nodes left, and the toxics it has listed. `Abort` interrupts a command between two
calls; `CallFails` is a call that fails for a reason of its own. Most commands end
there with an error. `ClearAll` returns only the error of its first call and ignores
every other one: it goes on to the next proxy, or with an empty list of toxics, and
reports success (`Ignored`). `EnsureProxies` takes a proxy it cannot read for one
that is not there. `newer` (what was injected while the command ran), `alone`
(nothing else ran meanwhile) and `missed` (the nodes on which a failure was
ignored) are history. The container
is taken to be running: `EnsureToxiproxy` then returns at once. `setup` is given
the number of nodes there are (`--nodes`, 9 by default).

## The runs

| Run | Bounds | States | Shows |
|---|---|---|---|
| `write_retry` | 2 rounds, batch 1 (4 writes), tenants in 2 regions, pools of 2, 1 retry, one region that may fail | 2.6 M | `TypeOK`, `CountersExact`, `AckedIsStored`, `ContextHolds`, `TotalsAgree` |
| `write_crash` | the same with 1 tenant, no outage and 1 kill | 1.7 M | `AtMostOneRow`, `MetricsBracket`, `ImplementsLedger` |
| `workload` | 1 write round and 2 read rounds on pools of 1, 1 retry, 2 regions of which 1 has tenants, 2 of its 3 nodes may be cut off | 73 k | `WorkloadType`, `GlobalNeverStarves`, `GlobalReadsProceed`, `RegionDrains`, `RoundsEnd` |
| `layout` | both modes, clusters of 1 to 12 nodes, any `--mode` and `--nodes` for the workload, `--tenants` of 0 to 30 and 50 | 9.7 k | `LayoutReadsBack`, `ReplicasFit`, `GatewaysAtHome`, `HomesConnected`, `TenantsDealt` |
| `startup` | 3 configurations, 3 failures or outages, attempts of 0 or 5 seconds | 466 k | `TypeOK`, `ServesReady`, `PoolNeverEmpty`, `PoliciesStay`, `TableIsPrefix`, `PoolPersists`, `RetryWindow`, `EventuallyServes` |
| `service` | 3 writes, tenants in 2 regions | 3.4 M | `ListIsASnapshot`, `StatusIsComplete`, `GetCountsOwnRows`, `NoFalseAlarm` |
| `chaos` | 2 nodes, 4 commands, 2 at a time, 1 interrupt or failing call, 1 restart | 3.0 M | `TypeOK`, `ClearLeavesOnlyNewer`, `RegionalIsComplete`, `SetupRepairs` |
| `lifecycle` | 3 nodes, `--nodes` of 1 or 2, 5 commands, 1 fault | 1.6 M | `TypeOK`, `DestroyLeavesOnlyOrphans`, `CreateComplete`, `NoOtherObstacle`, `ChaosSetupRepairs`, `DataSurvives` |

Why the bounds are enough to be interesting: two writes to the same counter are
what a conflict needs, and two rounds give that for `global` with any tenants and
for a partition with the same tenant twice; one retry is enough to carry
something over from an attempt to the next; one kill separates two processes.
With pools of one connection a single stuck transaction exhausts a pool, and with
two read rounds and a write round one can wait behind the other on either side;
two of three nodes are what it takes to lose a partition, and one of them is what
it must survive. Twelve nodes are past the standard nine, every size in between
included, and fifty is the largest pool `--tenants` suggests; from fifteen tenants on
the tiers' blocks are at least as long as the list of regions. Attempts of 0 and 5 seconds bring a loop to its deadline from
several sides. Two nodes are the least on which a loop can stop half-way, and a
chaos command crossed by another, an interrupt or a failing call, and a restart all
fit into four commands. Five life cycle commands are enough for: an interrupted command, what
is run after it, a removal, another create on what that left, and a check; two
sizes let it be created with more or fewer nodes than there are volumes. Rounds,
writes and shells are interchangeable and are declared symmetric in the runs that
check no liveness.

Deadlock is not checked in any run: the bounds on rounds, commands and faults make
every behaviour stop, and that something does happen is what the liveness
properties say.

### Disagreements between the code and what is said about it

Four runs check a statement of the repository that the code does not satisfy.

| Run | Statement | What happens |
|---|---|---|
| `startup_seed` | "(min 1 each)" (`tenant.go:94`) | a kill during seeding leaves tiers out for good |
| `verify_vacuous` | "VerifyRLS proves Row-Level Security" (`grpc_server.go:119`) | the query filters by tenant itself, so the answer is the same without any policy |
| `chaos_regional` | "chaos regional re-applies them" (`docker/chaos.go:179`) | it stops at the first node that still has its baseline |
| `lifecycle_scale` | "Rebuild Toxiproxy proxies to include new node" (`docker/cluster.go:118`) | Toxiproxy runs, so `EnsureToxiproxy` returns at once and the new node has no proxy |

Others are settled without a run:

* For `n = 1` `distribute` makes two tenants (`SmallPoolsDiffer` is a theorem),
  although `SeedOrLoad` "seeds the tenants table with n tenant UUIDs"
  (`tenant.go:91`).
* `runReads`, "exercising every partition's read path each tick" (`runner.go:244`),
  visits the regions in sequence without a deadline, so the regions behind one
  whose query hangs wait with it; that is why `RoundsEnd` assumes that outages end.
* `VerifyRLS` reads the total before the counts: writes in between can make an
  enforced policy look unenforced. `NoFalseAlarm` says how many it takes: every
  sampled tenant must have overtaken the total on its own.
* `workload start` "infers topology from existing cluster" (`README.md:378`), but
  `cmd/workload.go:54-65` takes it from `--mode` and `--nodes` alone. Without flags on
  a single-region cluster the us-east connection string names nodes of us-west, and on
  a cluster of two nodes the eu-central one names nodes 3, 6 and 9, none of which
  exists: the tenants at home there have none to connect to. The preconditions of
  `GatewaysAtHome` and `HomesConnected` leave these cases out.
* `ClearAll` "removes all faults from every registered cdbct proxy"
  (`chaos/client.go:175`) and returns no error when it could not read, enable or
  clear one (lines 188-198): the faults of that node stay and the command reports
  success. `ClearLeavesOnlyNewer` holds for the others, the nodes not in `missed`.
* "Start Toxiproxy first so CRDB nodes can advertise through it"
  (`docker/cluster.go:58`): if Toxiproxy runs but lost its proxies, or never got them,
  `EnsureToxiproxy` returns at once (`docker/chaos.go:44`), no node can join node 1, and
  create succeeds with every other node outside the cluster. `CreateComplete` promises
  of such a node only that its store is blank; a later `chaos setup` registers the
  proxies, and then it can join.
* `destroy` is to "stop and remove everything" (`cmd/destroy.go:15`), but finds the
  data volumes through their containers: those that an earlier `rm` or an
  interrupted command left without a container stay. `DestroyLeavesOnlyOrphans`
  says that nothing else does.
* A create that finds volumes of two different clusters cannot succeed, and `obs
  setup` or `scale` after `rm --purge` find no network: the obstacles that
  `NoOtherObstacle` excepts.

### Fairness

* `Workload`: weak fairness of what a goroutine does apart from getting a
  connection (the Go scheduler and the database run what can run, the tickers
  tick), including that a conflict is reported rather than left hanging; strong
  fairness of getting a connection, because pgxpool queues its waiters. Nothing is
  assumed of lost acknowledgements, unprovoked errors or partitions.
  `RegionDrains` and `RoundsEnd` assume in their statements that in the end no
  region has more than one node cut off; `GlobalNeverStarves` and
  `GlobalReadsProceed` assume nothing.
* `Startup`: weak fairness of the process and of Docker's restart
  (`unless-stopped`), and of the end of an outage. The number of failures is bounded, so the property is "once
  nothing fails any more".

## The proofs

`WritePathProofs` proves, for all rounds, batch sizes, tenants, pools, retry
limits and numbers of kills: `TypeOK`, `CountersExact`, `AtMostOneRow`,
`AckedIsStored`, `ContextHolds`, and that `WritePath` implements `EventLedger`
(`Refinement`). They use the four named assumptions of `WritePath` on its
constants.

None of these invariants is inductive by itself. A state could satisfy
`CountersExact` with a transaction whose `ins` holds a row that is already in the
table, or two rows: its commit would raise the counter by one and the number of
rows by none or two. `IndInv` therefore adds

* `TxInv`: a transaction that can still commit, whether its client is waiting or
  not, holds exactly the row of the current attempt; in `insert` the context is
  that of the write's tenant; a write whose `RELEASE` is orphaned has left
  `ExecuteTx`;
* `RowsInv`: the writes with a committed row have left `ExecuteTx`, have no
  orphaned `RELEASE`, and the row is where it belongs.

Together they say that no write has both a row and a transaction that can still
commit one, which is why a commit adds exactly one row. `TxStep`, `RowsStep`,
`CountersStep`, `AtMostOneRowStep` and `AckedStep` are the steps; `OnlyCommits` (only
`Release` and `OrphanCommit` touch rows and counters) and `CommitEffect` (what they
do) carry the argument, and the refinement theorem uses the same two lemmas.

The metrics need an invariant of their own. `MetricsBracket` is about writes that
have ended; while they are under way, an acknowledged write is a commit that
`writesTotal` has yet to count, and a lost acknowledgement a failure that may yet
commit. `BracketOf` has both on the right sides. `Paired` says that `runWrites`
starts the two writes of an item together, and `IsFiniteSet(Started)` that only
finitely many are started, without which counting them would mean nothing: the set
of rounds may be infinite. `MetricsBracketHolds` and `TotalsAgreeHolds` follow.

`WorkloadProofs` shows that a step of `Workload` is a step of `WritePath`, a step that
leaves its variables alone, or a change of what is down, which the invariants do not
depend on. Both invariants of `WritePath` therefore hold of the whole
(`WritesBesideReads`), and with them `CountersExact`, `AtMostOneRow` and
`MetricsBracket` (`WorkloadCounters`) and the refinement of `EventLedger`
(`WorkloadLedger`). Its own
theorem is `WorkloadTypeHolds`: reads and writes together never hold more
connections of a pool than it has. The invariant for it (`ReadInv`, `PoolsInv`) says
that a round that waits is at a region of the list and that finitely many rounds
are under way, so that a connection given back lowers the count.

`TenantTiersProofs` proves for every pool of three tenants or more that the split
is exact, that `seed` inserts as many tenants as were asked for, and that every
region gets tenants of every tier once the smallest block has one for each
(`EveryCombinationArises`, because three places in a row meet every residue); below
three the split fails (`SmallPoolsDiffer`). `RegionsAlwaysBalanced` counts the
tenants of a region by a bijection with an interval (`DealtToPlace`).

`LayoutProofs` proves, for clusters of every size and every sequence of create,
scale and workload start: `LayoutReadsBack`, `ReplicasFit`, `GatewaysAtHome`,
`HomesConnected` and `TenantsDealt`; and of the functions behind them, that the zone
configurations can be satisfied from nine nodes on, or three
(`PartitionsAlwaysFit`), and that the regional DSNs divide the nodes
(`DSNsAlwaysDivide`). `NodeRegion` does not depend on the number of nodes, only on
the mode: that is why a topology read back at one size places the nodes as one of
another size did. The inductive invariant `LayoutInv` is `LayoutReadsBack` and, for
the workload, that its DSNs were made for some number of nodes in some mode, which
need not be the cluster's (`StartedFor`). Under the preconditions on the flags the
two together give `GatewaysAtHome`. `StartedInv` adds that the regions `seed` deals
out are those `StartWorkload` made DSNs for: a tenant's home then has a DSN, which
names a node of the cluster if the cluster is not smaller than `--nodes` or has a
node for each region. That is `HomesConnected`. Assumptions: `LayoutAssumption`.

`StartupProofs` proves all safety of `Startup`, for every set of attempt costs with a
largest element, every set of configurations and any number of failures:
`TypeOK`, `ServesReady`, `PoolNeverEmpty`, `PoliciesStay`, `TableIsPrefix`,
`PoolPersists` and `RetryWindow`. `IndInv` is `TypeOK` with

* `LoopInv`: the backoff is one of 1, 2, 4 and 8; from another value doubling would
  take it past the cap;
* `SchemaInv`: whatever the recorded version, the objects of the migrations before
  it exist, so that a migration repeated after a kill finds what it needs, and the
  phases after goose find all versions recorded;
* `PoolInv`: seeding appends the list of the present configuration to a table that
  was empty, and once a pool was loaded the table is not, so that no later start
  seeds again. That is why the pool persists.

`TenantServiceProofs` proves the four properties of the service for any tenants and
any writes, over the ledger and so over whatever implements it. `LedgerCounts` ties
the counters to the rows: their sums are the cardinalities of the sets a `SELECT
COUNT(*)` would count. `MomentsInv` carries this from the statement that read the
counters to the reply: some set in `moments` has the numbers the call holds, whatever
was written since. A region that `GetRegionStatus` leaves out has no tenants, so its
partition is empty (`NoTenantsNoEvents`); `GetTenantEvents` counts a set that only
grows (`OwnGrows`). For `VerifyRLS` the invariant dates what the call holds
(`DatedStays`): the total is at least the number of events at the call, each sample is
at most what its tenant owns now, and a policy in force then makes one of them smaller
unless the tenant has overtaken the total (`NotOvertaken`).

`ChaosProofs` proves `TypeOK`, `ClearLeavesOnlyNewer`, `RegionalIsComplete` and
`SetupRepairs` for any number of nodes, of concurrent commands, interrupts, failing
calls and restarts. `IndInv` says what a command owes to the nodes it is through with
(`Behind`, `DoneWith`) and, call by call, to the one it works on (`AtNode`): a clear
has listed every toxic that is not newer before it removes the listed ones. `Scope`
is the set of nodes it owes that for: once `ClearAll` ignores a failed call the node
drops out, and only that node (`IgnoredStep`).
`GoneIsBare` (a proxy that is gone has no toxics) is what a restart in the middle
needs, `AloneInv` what "undisturbed" means for two commands at once.

`LifecycleProofs` proves all six properties of `Lifecycle` for clusters of every size,
every sequence of commands and any faults. The programs are lists of any length,
which no induction is available for; the invariants therefore speak of the calls in
a list, wherever they are. `IndInv` and `SetupInv` carry `TypeOK`, `DataSurvives` and
`ChaosSetupRepairs`:

* `Good`: a command has only calls ahead that it may make, at most one of which
  initialises a cluster, and volumes collected only if it purges. With `CountInv` this
  bounds the number of clusters by the number of commands, and `DataSurvives` follows
  from the last part and from Docker's refusal to remove a mounted volume;
* `AboutToLook`: scale was begun with an index free above all nodes, and creates
  nothing before it has looked;
* `SetupInv`: the registrations of `EnsureProxies` come last, and each node is still
  to be registered or was registered since Toxiproxy was last touched. It would
  not hold if `EnsureProxies` ran before `EnsureToxiproxy`.

The other three say what a whole program achieves. Their invariants have the form
"it is there, or the call that makes it is still ahead" (`Todo`, the set of calls
ahead), and such a statement survives a step only if no call further ahead undoes
it. `OrderInv` provides that: `Follows` says which call may come after which, and
every list a command ever has ahead obeys it, also after `list` has put removals in
front and after an error has dropped the rest of a tolerated part (`CallsInOrder`).
On top of it:

* `DestroyInv`: whatever container, network or volume is there, the call that
  removes it is ahead; for a node's volume, that it was collected, or its container
  has still to be looked at, or it was an orphan from the beginning;
* `FitInv`: for a command that fits, each name it will ask Docker for is free or will
  be cleared first, the network and Toxiproxy are up or will be before they are
  needed, and the stores belong to one cluster until `waitForNodes` is through;
* `BuildInv`, `ColdInv` and `StoreInv`: each container wanted runs or its start is
  ahead; from a cold start each proxy and each baseline is there or ahead; every
  store is blank or of node 1's cluster, and node 1's is not blank once `init` was
  called;
* `ListsInv`: the container of each node is still to be created, or its join list
  names the nodes that were asked for, whose stores are those of `StoreInv`. A node
  that is still blank can therefore join node 1's cluster and no other.

Nodes join while commands run and between them, so every one of these invariants has
to survive `NodeJoins` too: it only ever turns a blank store into one that is already
there (`JoinEffect`). A first attempt at `StoreInv` failed because the model let a node
join through any proxy in sight, also that of a node it had never been told of: the
variable `join` is there for that.

Only model-checked: liveness (`GlobalNeverStarves`, `GlobalReadsProceed`, `RegionDrains`,
`RoundsEnd`, `EventuallyServes`), which is out of the prover's reach under fairness.
The four statements that the code does not satisfy have no theorem, of course.

## What is not modelled

* Durations other than those of the retry loops: histograms, the intervals of the
  tickers, the loops that poll at a fixed interval (`waitForNodes`,
  `waitForToxiproxyAPI`), which are steps that succeed or fail.
* `ListTenantsByRegion`, `chaos status`, `cluster status` and the accessors of the pool: they
  read state that does not change under them and change none.
* How the image is built (the tar stream), the dashboards and the Prometheus
  configuration: files without state. `BuildWorkloadImage` is one call of
  `Lifecycle` that succeeds or fails.
* The binding of flags and environment variables, the generated gRPC and query
  code beyond the statements the other parts use.
* Two life cycle commands at the same time: the code is a command line for one
  user, and nothing in it is prepared for that. Chaos commands, which have nothing
  to lose but their own faults, do run concurrently in `Chaos`.
* Event contents, QoS labels, log lines.

## Plan

Every safety invariant and every action property that a passing run checks is a
theorem as well. What could be added when the code changes:

1. an exact statement of when scale registers the proxy of the new node (only when
   Toxiproxy was not running before), once it is decided what scale should do;
2. two life cycle commands at once, should the command line ever be prepared for it.

## Running the checks

A run is `tlc -workers 2 -config <cfg> <module>` with the names that `PROJECT.json`
lists under "runs", for instance

    tlc -workers 2 -config MCWritePathRetry.cfg MCWritePath

and the proofs are checked with

    for m in *Proofs.tla; do tlapm $m; done
