--------------------------- MODULE StartupProofs ---------------------------
(***************************************************************************)
(* The start-up, for every set of configurations, every set of attempt      *)
(* durations that has a longest one, and any number of failures.            *)
(*                                                                          *)
(* First the retry loops: how far past its deadline a loop can run, and how *)
(* early before it the last attempt can begin.  Then what the migrations    *)
(* and the seeding leave in the database: the inductive invariant IndInv,   *)
(* and from it the safety properties of Startup.                            *)
(***************************************************************************)
EXTENDS Startup, TenantTiersProofs, TLAPS

(* A loop that has just begun is in its window. *)
LEMMA LoopStarts ==
  ASSUME NEW timeout \in Nat, timeout > 0, NEW cost \in Nat
  PROVE  LoopType(NewLoop) /\ InWindow(NewLoop, timeout, cost)
  BY DEF LoopType, InWindow, NewLoop, CanTry, BackoffCap

(* An attempt that was allowed to begin, and the sleep after it, keep the loop in
   its window; the backoff stays a power of two up to eight seconds. *)
LEMMA LoopStaysInWindow ==
  ASSUME NEW l, LoopType(l),
         NEW timeout \in Nat, CanTry(l, timeout),
         NEW cost \in Nat, NEW c \in Nat, c =< cost
  PROVE  LoopType(AfterFailure(l, c)) /\ InWindow(AfterFailure(l, c), timeout, cost)
<1> DEFINE m == AfterFailure(l, c)
<1>1. l.elapsed \in Nat /\ l.backoff \in {1, 2, 4, 8} /\ l.elapsed < timeout
  BY DEF LoopType, CanTry
<1>2. Longer(l.backoff) \in {1, 2, 4, 8}
  BY <1>1 DEF Longer, BackoffCap
<1>3. m = [elapsed |-> l.elapsed + c + l.backoff, tried |-> l.elapsed, backoff |-> Longer(l.backoff)]
  BY DEF AfterFailure
<1>4. LoopType(m)
  BY <1>1, <1>2, <1>3 DEF LoopType
<1>5. m.elapsed = l.elapsed + c + l.backoff /\ m.tried = l.elapsed
  BY <1>3
<1>6. InWindow(m, timeout, cost)
  BY <1>1, <1>5 DEF InWindow, CanTry, BackoffCap
<1>. QED  BY <1>4, <1>6

(* The loop in use is well formed in every phase, and in its window in the phases
   that wait for the cluster. *)
LoopInv == LoopType(loop) /\ RetryWindow

(* A new loop satisfies the invariant in whatever phase it is started. *)
LEMMA FreshLoop ==
  ASSUME loop' = NewLoop PROVE LoopInv'
<1>1. PICK cost \in AttemptCosts : \A c \in AttemptCosts : c =< cost
  BY CostsAssumption
<1>2. cost \in Nat /\ Timeout' \in Nat /\ Timeout' > 0
  BY CostsAssumption DEF Timeout
<1>3. LoopType(NewLoop) /\ InWindow(NewLoop, Timeout', cost)
  BY <1>2, LoopStarts
<1>. QED  BY <1>1, <1>3 DEF LoopInv, RetryWindow

(* So does a failed attempt of a loop that had not reached its deadline. *)
LEMMA FailedAttempt ==
  ASSUME LoopInv, Trying, NEW c \in AttemptCosts, TryAgain(c) PROVE LoopInv'
<1>1. PICK cost \in AttemptCosts : \A d \in AttemptCosts : d =< cost
  BY CostsAssumption
<1>2. cost \in Nat /\ c \in Nat /\ c =< cost /\ Timeout \in Nat /\ Timeout' = Timeout
  BY <1>1, CostsAssumption DEF Timeout, TryAgain
<1>3. loop' = AfterFailure(loop, c)
  BY DEF TryAgain
<1>4. LoopType(AfterFailure(loop, c)) /\ InWindow(AfterFailure(loop, c), Timeout, cost)
  BY <1>2, LoopStaysInWindow DEF LoopInv, Trying
<1>. QED  BY <1>1, <1>2, <1>3, <1>4 DEF LoopInv, RetryWindow

(* A step that leaves the loop alone matters only if it changes to a phase that
   waits. *)
LEMMA LoopAlone ==
  ASSUME LoopInv, loop' = loop,
         phase' = phase \/ phase' \notin {"connect", "zones", "pools"}
  PROVE  LoopInv'
  BY DEF LoopInv, RetryWindow, Timeout

(* The loop a process that is down has is a new one. *)
LEMMA LoopInit == Init => LoopInv
<1> SUFFICES ASSUME Init PROVE LoopInv
  OBVIOUS
<1>1. loop = NewLoop /\ phase = "down"
  BY DEF Init
<1>2. LoopType(NewLoop)
  BY DEF LoopType, NewLoop
<1>. QED  BY <1>1, <1>2 DEF LoopInv, RetryWindow

(* Every step of the start-up keeps the loop in its window. *)
LEMMA LoopStep ==
  ASSUME LoopInv, [Next]_vars PROVE LoopInv'
<1>1. CASE Start \/ PingGivesUp \/ Refused \/ MigrateDone \/ ApplyZone \/ Load \/ ConnectRaw \/ Fail
  BY <1>1, FreshLoop
     DEF Start, PingGivesUp, Refused, MigrateDone, ApplyZone, Load, ConnectRaw, Fail, Exit
<1>2. CASE PingFails
  BY <1>2, FailedAttempt DEF PingFails
<1>3. CASE ZoneFails
  BY <1>3, FailedAttempt DEF ZoneFails
<1>4. CASE MigrateStatement
  <2>1. CASE loop' = NewLoop
    BY <2>1, FreshLoop
  <2>2. CASE loop' = loop /\ phase' = phase
    BY <2>2, LoopAlone
  <2>. QED  BY <1>4, <2>1, <2>2 DEF MigrateStatement, Exit
<1>5. CASE Connect \/ MigrateRecord \/ ZonesDone \/ CountTenants \/ SeedInsert \/ SeedDone \/ Serve
  BY <1>5, LoopAlone
     DEF Connect, MigrateRecord, ZonesDone, CountTenants, SeedInsert, SeedDone, Serve
<1>6. CASE Reconfigure \/ ClusterDown \/ ClusterUp
  BY <1>6, LoopAlone DEF Reconfigure, ClusterDown, ClusterUp
<1>7. CASE UNCHANGED vars
  BY <1>7, LoopAlone DEF vars
<1>. QED
  BY <1>1, <1>2, <1>3, <1>4, <1>5, <1>6, <1>7 DEF Next, Progress

(* "retries the initial ping with exponential backoff for up to 60 seconds":
   pingWithRetry and applyWithRetry stay in their window, whatever fails, for
   however long, and however often the process is started again. *)
THEOREM RetryWindowHolds == Spec => []RetryWindow
<1>1. LoopInv => RetryWindow
  BY DEF LoopInv
<1>. QED  BY <1>1, LoopInit, LoopStep, PTL DEF Spec

-----------------------------------------------------------------------------
(* The five migrations of internal/migrations, in their order. *)
LEMMA Shape ==
  /\ Latest = 5 /\ DOMAIN Migrations = 1 .. 5
  /\ Migrations[1] = InitialSchema /\ Migrations[2] = MultiTenancy
  /\ Migrations[3] = Counters /\ Migrations[4] = HomeRegionMigration
  /\ Migrations[5] = CompositeIndex
  BY DEF Latest, Migrations

(* What each migration consists of: only MultiTenancy has statements that are not
   simply repeatable. *)
LEMMA InitialSchemaStatements ==
  /\ Len(InitialSchema) = 5 /\ DOMAIN InitialSchema = 1 .. 5
  /\ \A k \in 1 .. 5 : InitialSchema[k].op = "ensure"
<1>1. /\ InitialSchema[1].op = "ensure" /\ InitialSchema[2].op = "ensure"
      /\ InitialSchema[3].op = "ensure" /\ InitialSchema[4].op = "ensure"
      /\ InitialSchema[5].op = "ensure"
  BY DEF InitialSchema, Ensure
<1>2. Len(InitialSchema) = 5 /\ DOMAIN InitialSchema = 1 .. 5
  BY DEF InitialSchema
<1>. QED  BY <1>1, <1>2

(* MultiTenancy drops between statements that ensure and statements that create. *)
LEMMA MultiTenancyStatements ==
  /\ Len(MultiTenancy) = 8 /\ DOMAIN MultiTenancy = 1 .. 8
  /\ \A k \in 1 .. 4 : MultiTenancy[k].op = "ensure"
  /\ \A k \in 5 .. 6 : MultiTenancy[k].op = "drop"
  /\ \A k \in 7 .. 8 : MultiTenancy[k].op = "create"
<1>1. /\ MultiTenancy[1].op = "ensure" /\ MultiTenancy[2].op = "ensure"
      /\ MultiTenancy[3].op = "ensure" /\ MultiTenancy[4].op = "ensure"
  BY DEF MultiTenancy, Ensure
<1>2. MultiTenancy[5].op = "drop" /\ MultiTenancy[6].op = "drop"
  BY DEF MultiTenancy, Drop
<1>3. MultiTenancy[7].op = "create" /\ MultiTenancy[8].op = "create"
  BY DEF MultiTenancy, Create
<1>4. Len(MultiTenancy) = 8 /\ DOMAIN MultiTenancy = 1 .. 8
  BY DEF MultiTenancy
<1>5. \A k \in 1 .. 4 : MultiTenancy[k].op = "ensure"
  BY <1>1
<1>6. \A k \in 5 .. 6 : MultiTenancy[k].op = "drop"
  BY <1>2
<1>7. \A k \in 7 .. 8 : MultiTenancy[k].op = "create"
  BY <1>3
<1>. QED  BY <1>4, <1>5, <1>6, <1>7

(* It drops exactly the policies, and creates exactly what it dropped. *)
LEMMA MultiTenancyPolicies ==
  /\ \A k \in 1 .. 4 : MultiTenancy[k].obj \notin Policies
  /\ MultiTenancy[5].obj = "policy events" /\ MultiTenancy[6].obj = "policy events_regional"
  /\ MultiTenancy[7].obj = "policy events" /\ MultiTenancy[8].obj = "policy events_regional"
<1>1. /\ MultiTenancy[1].obj \notin Policies /\ MultiTenancy[2].obj \notin Policies
      /\ MultiTenancy[3].obj \notin Policies /\ MultiTenancy[4].obj \notin Policies
  BY DEF MultiTenancy, Ensure, Policies
<1>2. MultiTenancy[5].obj = "policy events" /\ MultiTenancy[6].obj = "policy events_regional"
  BY DEF MultiTenancy, Drop
<1>3. MultiTenancy[7].obj = "policy events" /\ MultiTenancy[8].obj = "policy events_regional"
  BY DEF MultiTenancy, Create
<1>4. \A k \in 1 .. 4 : MultiTenancy[k].obj \notin Policies
  BY <1>1
<1>. QED  BY <1>2, <1>3, <1>4

(* The counters only ensure. *)
LEMMA CountersStatements ==
  /\ Len(Counters) = 3 /\ DOMAIN Counters = 1 .. 3
  /\ \A k \in 1 .. 3 : Counters[k].op = "ensure"
<1>1. Counters[1].op = "ensure" /\ Counters[2].op = "ensure" /\ Counters[3].op = "ensure"
  BY DEF Counters, Ensure
<1>2. Len(Counters) = 3 /\ DOMAIN Counters = 1 .. 3
  BY DEF Counters
<1>. QED  BY <1>1, <1>2
(* So do the composite indexes. *)
LEMMA CompositeIndexStatements ==
  /\ Len(CompositeIndex) = 2 /\ DOMAIN CompositeIndex = 1 .. 2
  /\ \A k \in 1 .. 2 : CompositeIndex[k].op = "ensure"
<1>1. CompositeIndex[1].op = "ensure" /\ CompositeIndex[2].op = "ensure"
  BY DEF CompositeIndex, Ensure
<1>2. Len(CompositeIndex) = 2 /\ DOMAIN CompositeIndex = 1 .. 2
  BY DEF CompositeIndex
<1>. QED  BY <1>1, <1>2
(* SELECT 1 touches nothing. *)
LEMMA HomeRegionStatements ==
  /\ Len(HomeRegionMigration) = 0 /\ DOMAIN HomeRegionMigration = {}
  BY DEF HomeRegionMigration

\* needs: objects of migrations in 1 aren't Policies.
(* The initial schema has no policies yet. *)
LEMMA InitialSchemaNoPolicies ==
  \A k \in 1 .. 5 : InitialSchema[k].obj \notin Policies
<1>1. /\ InitialSchema[1].obj \notin Policies /\ InitialSchema[2].obj \notin Policies
      /\ InitialSchema[3].obj \notin Policies /\ InitialSchema[4].obj \notin Policies
      /\ InitialSchema[5].obj \notin Policies
  BY DEF InitialSchema, Ensure, Policies
<1>. QED  BY <1>1

(* Every migration is a finite list of statements. *)
LEMMA Statements ==
  ASSUME NEW v \in 1 .. Latest
  PROVE  Len(Migrations[v]) \in Nat /\ DOMAIN Migrations[v] = 1 .. Len(Migrations[v])
<1>1. v = 1 \/ v = 2 \/ v = 3 \/ v = 4 \/ v = 5
  BY Shape
<1>2. CASE v = 1
  BY <1>2, Shape, InitialSchemaStatements
<1>3. CASE v = 2
  BY <1>3, Shape, MultiTenancyStatements
<1>4. CASE v = 3
  BY <1>4, Shape, CountersStatements
<1>5. CASE v = 4
  BY <1>5, Shape, HomeRegionStatements
<1>6. CASE v = 5
  BY <1>6, Shape, CompositeIndexStatements
<1>. QED  BY <1>1, <1>2, <1>3, <1>4, <1>5, <1>6

(* The only statements that drop are those that drop the policies. *)
LEMMA OnlyPoliciesDropped ==
  ASSUME NEW v \in 1 .. Latest, NEW k \in DOMAIN Migrations[v], Migrations[v][k].op = "drop"
  PROVE  v = 2 /\ k \in 5 .. 6 /\ Migrations[v][k].obj \in Policies
<1>1. v = 1 \/ v = 2 \/ v = 3 \/ v = 4 \/ v = 5
  BY Shape
<1>2. v # 1
  BY Shape, InitialSchemaStatements
<1>3. v # 3
  BY Shape, CountersStatements
<1>4. v # 4
  BY Shape, HomeRegionStatements
<1>5. v # 5
  BY Shape, CompositeIndexStatements
<1>6. v = 2
  BY <1>1, <1>2, <1>3, <1>4, <1>5
<1>7. k \in 5 .. 6
  <2>1. k \in 1 .. 8 /\ MultiTenancy[k].op = "drop"
    BY <1>6, Shape, MultiTenancyStatements
  <2>2. k \notin 1 .. 4 /\ k \notin 7 .. 8
    BY <2>1, MultiTenancyStatements
  <2>. QED  BY <2>1, <2>2
<1>8. Migrations[v][k].obj \in Policies
  <2>1. k = 5 \/ k = 6
    BY <1>7
  <2>. QED  BY <2>1, <1>6, Shape, MultiTenancyPolicies DEF Policies
<1>. QED  BY <1>6, <1>7, <1>8

(* Nothing that runs before those statements has created a policy: they undo no
   statement that goose has counted as done. *)
LEMMA PoliciesCreatedLast ==
  ASSUME NEW v \in 1 .. 2, NEW k \in DOMAIN Migrations[v],
         Migrations[v][k].op # "drop", Migrations[v][k].obj \in Policies
  PROVE  v = 2 /\ k > 6
<1>1. v = 1 \/ v = 2
  OBVIOUS
<1>2. v # 1
  BY Shape, InitialSchemaStatements, InitialSchemaNoPolicies
<1>3. v = 2 /\ k \in 1 .. 8
  BY <1>1, <1>2, Shape, MultiTenancyStatements
<1>4. k \notin 5 .. 6
  BY <1>3, Shape, MultiTenancyStatements
<1>5. k \notin 1 .. 4
  BY <1>3, Shape, MultiTenancyPolicies
<1>. QED  BY <1>3, <1>4, <1>5

(* Every policy is created by the migration that dropped it. *)
LEMMA PoliciesCreated ==
  ASSUME NEW o \in Policies
  PROVE  \E k \in DOMAIN Migrations[2] : Migrations[2][k].op = "create" /\ Migrations[2][k].obj = o
<1>1. Migrations[2] = MultiTenancy /\ 7 \in DOMAIN MultiTenancy /\ 8 \in DOMAIN MultiTenancy
  BY Shape, MultiTenancyStatements
<1>2. MultiTenancy[7].op = "create" /\ MultiTenancy[8].op = "create"
  BY MultiTenancyStatements
<1>3. o = "policy events" \/ o = "policy events_regional"
  BY DEF Policies
<1>4. o = MultiTenancy[7].obj \/ o = MultiTenancy[8].obj
  BY <1>3, MultiTenancyPolicies
<1>. QED  BY <1>1, <1>2, <1>4

(* seed inserts at least two tenants, whatever --tenants is: distribute never lets
   the critical and the regular tier go empty. *)
LEMMA SeedIsNotEmpty ==
  ASSUME NEW n \in Nat
  PROVE  SeedLen(n) \in Nat /\ SeedLen(n) >= 2
<1>1. CASE n >= 3
  BY <1>1, SeedsEveryTenant
<1>2. CASE n = 0 \/ n = 1 \/ n = 2
  <2>1. Fifth(n) = 1
    BY <1>2 DEF Fifth
  <2>2. distribute(n) = [critical |-> 1, regular |-> 1, background |-> 0]
    BY <1>2, <2>1 DEF distribute
  <2>. QED  BY <2>2 DEF SeedLen
<1>. QED  BY <1>1, <1>2

(* A remainder is smaller than its divisor. *)
LEMMA Remainder ==
  ASSUME NEW a \in Nat, NEW b \in Nat, b > 0
  PROVE  (a % b) + 1 \in 1 .. b
  OBVIOUS

(* The rows of the seed list: as many as SeedLen says, each with a tier and with a
   region of the configuration. *)
LEMMA SeedRows ==
  ASSUME NEW c \in Configs
  PROVE  LET s == SeedList(c.count, c.regions)
         IN  /\ DOMAIN s = 1 .. SeedLen(c.count)
             /\ Len(s) = SeedLen(c.count) /\ SeedLen(c.count) \in Nat /\ SeedLen(c.count) >= 2
             /\ \A i \in 1 .. SeedLen(c.count) : s[i] \in TenantRow
<1> DEFINE s == SeedList(c.count, c.regions)
           n == SeedLen(c.count)
<1>1. n \in Nat /\ n >= 2
  BY SeedIsNotEmpty, ConfigsAssumption
<1>2. ASSUME NEW i \in 1 .. n PROVE s[i] \in TenantRow
  <2>1. s[i] = [tier |-> TierAt(c.count, i), region |-> RegionAt(c.regions, i)]
    BY DEF SeedList
  <2>2. TierAt(c.count, i) \in Tiers
    BY DEF TierAt, Tiers
  <2>3. RegionAt(c.regions, i) \in AllRegions
    <3>1. c.regions \in Seq(AllRegions) /\ Len(c.regions) \in Nat /\ Len(c.regions) > 0
      BY ConfigsAssumption
    <3>2. ((i - 1) % Len(c.regions)) + 1 \in 1 .. Len(c.regions)
      <4>1. i - 1 \in Nat
        BY <1>1
      <4>. QED  BY <4>1, <3>1, Remainder
    <3>. QED  BY <3>1, <3>2 DEF RegionAt
  <2>. QED  BY <2>1, <2>2, <2>3 DEF TenantRow
<1>3. s = [i \in 1 .. n |-> s[i]]
  BY DEF SeedList
<1>4. DOMAIN s = 1 .. n /\ Len(s) = n
  BY <1>1, <1>3
<1>. QED  BY <1>1, <1>2, <1>4

-----------------------------------------------------------------------------
(* The phases that come after goose.Up has returned. *)
Ready == {"zones", "tenants", "seed", "load", "pools", "serving"}

(* Every statement counted as done has its effect in the database: those of the
   recorded migrations, and those the running process has got through. A drop
   counts for nothing, its object may have been created again. *)
SchemaSoFar ==
  \A v \in 1 .. Latest : \A k \in DOMAIN Migrations[v] :
    /\ v =< version \/ (phase = "migrate" /\ v = mig /\ k < stmt)
    /\ Migrations[v][k].op # "drop"
    => Migrations[v][k].obj \in objs

(* goose is at the first migration that is not recorded, and the phases after it
   find all of them recorded. *)
SchemaInv ==
  /\ SchemaSoFar
  /\ phase = "migrate" => mig = version + 1
  /\ phase \in Ready => version = Latest

(* The table during and after seeding.  The last conjunct is the reason why the
   pool persists: once a process has loaded it the table is not empty, so that
   SeedOrLoad never seeds again. *)
PoolInv ==
  /\ TableIsPrefix
  /\ phase = "seed" => pos = Len(table) + 1 /\ IsPrefixOf(table, SeedList(cfg.count, cfg.regions))
  /\ phase \in {"load", "pools", "serving"} => table # << >>
  /\ phase \in {"pools", "serving"} => pool = table
  /\ first # << >> => version = Latest /\ table = first /\ phase # "seed"

(* The inductive invariant: TypeOK needs SchemaInv for mig and PoolInv for the seed
   row at pos, PoolInv needs SchemaInv when load records what it found. *)
IndInv == TypeOK /\ LoopInv /\ SchemaInv /\ PoolInv

(* An empty database satisfies it. *)
LEMMA StartInit == Init => IndInv
<1> SUFFICES ASSUME Init PROVE IndInv
  OBVIOUS
<1>1. LoopInv
  BY LoopInit
<1>2. TypeOK
  BY <1>1, FaultsAssumption, Shape DEF Init, TypeOK, LoopInv, Phases
<1>3. SchemaInv
  BY <1>2, Shape DEF Init, SchemaInv, SchemaSoFar, Ready
<1>4. PoolInv
  <2>1. PICK c \in Configs : TRUE
    BY ConfigsAssumption
  <2>2. IsPrefixOf(<< >>, SeedList(c.count, c.regions))
    BY SeedRows DEF IsPrefixOf
  <2>. QED  BY <2>2 DEF Init, PoolInv, TableIsPrefix
<1>. QED  BY <1>1, <1>2, <1>3, <1>4 DEF IndInv

(* Every step keeps the types. *)
LEMMA TypeStep ==
  ASSUME IndInv, [Next]_vars PROVE TypeOK'
<1>1. LoopType(loop)'
  BY LoopStep DEF IndInv, LoopInv
<1> USE <1>1 DEF IndInv
<1>2. CASE UNCHANGED vars
  BY <1>2 DEF TypeOK, vars
<1>a. << >> \in Seq(TenantRow)
  OBVIOUS
<1>3. CASE Start \/ Connect \/ ZonesDone \/ ConnectRaw \/ Serve \/ SeedDone \/ MigrateDone
  BY <1>3, Shape DEF TypeOK, Phases, dbVars, Start, Connect, ZonesDone, ConnectRaw, Serve,
                     SeedDone, MigrateDone
<1>4. CASE PingGivesUp \/ Refused \/ Fail
  <2>1. /\ phase' = "down" /\ mig' = 1 /\ stmt' = 1 /\ pos' = 1 /\ pool' = << >>
        /\ UNCHANGED <<version, objs, zones, table, cfg, up, first>>
    BY <1>4 DEF PingGivesUp, Refused, Fail, Exit, dbVars
  <2>2. faults' \in 0 .. MaxFaults
    BY <1>4, FaultsAssumption DEF PingGivesUp, Refused, Fail, TypeOK
  <2>. QED  BY <2>1, <2>2, <1>a, Shape DEF TypeOK, Phases
<1>5. CASE PingFails \/ ZoneFails
  BY <1>5 DEF TypeOK, dbVars, PingFails, ZoneFails, TryAgain
<1>6. CASE MigrateStatement
  <2>1. mig \in 1 .. Latest /\ stmt \in DOMAIN Migrations[mig]
    BY <1>6, Statements, Shape DEF MigrateStatement, TypeOK
  <2>2. Migrations[mig][stmt].obj \in Objects
    BY <2>1, Shape DEF Objects
  <2>3. objs' \subseteq Objects
    BY <1>6, <2>2 DEF MigrateStatement, TypeOK
  <2>4. stmt' \in Nat \ {0} /\ mig' \in 1 .. (Latest + 1) /\ phase' \in Phases /\ pos' \in Nat
    BY <1>6, Shape DEF MigrateStatement, TypeOK, Exit, Phases
  <2>5. pool' \in Seq(TenantRow)
    BY <1>6, <1>a DEF MigrateStatement, TypeOK, Exit
  <2>. QED  BY <1>6, <2>3, <2>4, <2>5 DEF MigrateStatement, TypeOK
<1>7. CASE MigrateRecord
  BY <1>7, Shape DEF TypeOK, MigrateRecord
<1>8. CASE ApplyZone
  <2>1. zones' \subseteq AllRegions
    BY <1>8, ConfigsAssumption DEF ApplyZone, Active, TypeOK
  <2>. QED  BY <1>8, <2>1 DEF ApplyZone, TypeOK
<1>9. CASE CountTenants
  BY <1>9 DEF CountTenants, TypeOK, dbVars, Phases
<1>10. CASE SeedInsert
  <2>1. pos \in 1 .. SeedLen(cfg.count)
    BY <1>10, SeedRows DEF SeedInsert, PoolInv, TypeOK
  <2>2. SeedList(cfg.count, cfg.regions)[pos] \in TenantRow
    BY <2>1, SeedRows DEF TypeOK
  <2>3. table' \in Seq(TenantRow)
    BY <1>10, <2>2 DEF SeedInsert, TypeOK
  <2>. QED  BY <1>10, <2>3 DEF SeedInsert, TypeOK
<1>11. CASE Load
  BY <1>11 DEF Load, TypeOK, dbVars, Phases
<1>12. CASE Reconfigure \/ ClusterDown \/ ClusterUp
  <2>1. UNCHANGED <<version, objs, zones, table, phase, mig, stmt, pos, pool, first>>
    BY <1>12 DEF Reconfigure, ClusterDown, ClusterUp, dbVars
  <2>2. faults' \in 0 .. MaxFaults /\ cfg' \in Configs
    BY <1>12, FaultsAssumption DEF Reconfigure, ClusterDown, ClusterUp, TypeOK
  <2>3. up' \in BOOLEAN
    BY <1>12 DEF Reconfigure, ClusterDown, ClusterUp, TypeOK
  <2>. QED  BY <2>1, <2>2, <2>3 DEF TypeOK
<1>. QED
  BY <1>2, <1>3, <1>4, <1>5, <1>6, <1>7, <1>8, <1>9, <1>10, <1>11, <1>12 DEF Next, Progress

(* Every step keeps the schema: the interesting one is a DROP POLICY, which may
   only take away what no statement before it has created. *)
LEMMA SchemaStep ==
  ASSUME IndInv, [Next]_vars PROVE SchemaInv'
<1> USE DEF IndInv
<1>1. CASE MigrateStatement
  <2> DEFINE s == Migrations[mig][stmt]
  <2>1. mig \in 1 .. Latest /\ stmt \in DOMAIN Migrations[mig] /\ mig = version + 1
    BY <1>1, Statements, Shape DEF MigrateStatement, TypeOK, SchemaInv
  <2>2. CASE s.op = "create" /\ s.obj \in objs
    BY <1>1, <2>2 DEF MigrateStatement, Exit, SchemaInv, SchemaSoFar, Ready
  <2>3. CASE ~(s.op = "create" /\ s.obj \in objs)
    <3>1. /\ objs' = IF s.op = "drop" THEN objs \ {s.obj} ELSE objs \cup {s.obj}
          /\ stmt' = stmt + 1 /\ phase' = phase /\ mig' = mig /\ version' = version
          /\ phase = "migrate"
      BY <1>1, <2>3 DEF MigrateStatement
    <3>2. ASSUME NEW v \in 1 .. Latest, NEW k \in DOMAIN Migrations[v],
                 v =< version \/ (v = mig /\ k < stmt + 1),
                 Migrations[v][k].op # "drop"
          PROVE  Migrations[v][k].obj \in objs'
      <4>1. k \in Nat /\ stmt \in Nat /\ version \in Nat
        BY Statements DEF TypeOK
      <4>2. CASE v = mig /\ k = stmt
        BY <4>2, <3>1, <3>2
      <4>3. CASE v =< version \/ (v = mig /\ k < stmt)
        <5>1. Migrations[v][k].obj \in objs
          BY <4>3, <3>1, <3>2 DEF SchemaInv, SchemaSoFar
        <5>2. CASE s.op # "drop"
          BY <5>1, <5>2, <3>1
        <5>3. CASE s.op = "drop"
          <6>1. mig = 2 /\ stmt \in 5 .. 6 /\ s.obj \in Policies
            BY <2>1, <5>3, OnlyPoliciesDropped
          <6>2. v \in 1 .. 2 /\ (v = 2 => k < 6)
            BY <6>1, <4>3, <4>1, <2>1
          <6>3. Migrations[v][k].obj \notin Policies
            BY <6>2, <4>1, <3>2, PoliciesCreatedLast
          <6>. QED  BY <5>1, <6>1, <6>3, <3>1
        <5>. QED  BY <5>2, <5>3
      <4>. QED  BY <4>1, <4>2, <4>3, <3>2
    <3>3. SchemaSoFar'
      BY <3>1, <3>2 DEF SchemaSoFar
    <3>. QED  BY <3>1, <3>3 DEF SchemaInv, Ready
  <2>. QED  BY <2>2, <2>3
<1>2. CASE MigrateRecord
  <2>1. /\ phase = "migrate" /\ mig \in 1 .. Latest /\ stmt > Len(Migrations[mig])
        /\ version' = mig /\ mig' = mig + 1 /\ stmt' = 1 /\ mig = version + 1
        /\ objs' = objs /\ phase' = phase
    BY <1>2, Shape DEF MigrateRecord, TypeOK, SchemaInv
  <2>2. ASSUME NEW v \in 1 .. Latest, NEW k \in DOMAIN Migrations[v],
               v =< mig \/ (v = mig + 1 /\ k < 1),
               Migrations[v][k].op # "drop"
        PROVE  Migrations[v][k].obj \in objs
    <3>1. k \in 1 .. Len(Migrations[v]) /\ Len(Migrations[v]) \in Nat /\ stmt \in Nat /\ version \in Nat
      BY Statements DEF TypeOK
    <3>2. v =< version \/ (v = mig /\ k < stmt)
      BY <2>1, <2>2, <3>1
    <3>. QED  BY <2>1, <2>2, <3>2 DEF SchemaInv, SchemaSoFar
  <2>3. SchemaSoFar'
    BY <2>1, <2>2 DEF SchemaSoFar
  <2>. QED  BY <2>1, <2>3 DEF SchemaInv, Ready
<1>3. CASE MigrateDone
  BY <1>3, Shape DEF MigrateDone, SchemaInv, SchemaSoFar, Ready, TypeOK, dbVars
<1>4. CASE Connect
  <2>1. /\ mig' = version + 1 /\ stmt' = 1 /\ phase' = "migrate"
        /\ version' = version /\ objs' = objs
    BY <1>4 DEF Connect, dbVars
  <2>2. \A v \in 1 .. Latest : \A k \in DOMAIN Migrations[v] : ~(k < 1)
    BY Statements
  <2>3. SchemaSoFar'
    BY <2>1, <2>2 DEF SchemaInv, SchemaSoFar
  <2>. QED  BY <2>1, <2>3 DEF SchemaInv, Ready
<1>5. CASE Start \/ PingGivesUp \/ Refused \/ Fail
  BY <1>5 DEF Start, PingGivesUp, Refused, Fail, Exit, SchemaInv, SchemaSoFar, Ready, dbVars
<1>6. CASE PingFails \/ ZoneFails
  BY <1>6 DEF PingFails, ZoneFails, TryAgain, SchemaInv, SchemaSoFar, dbVars
<1>7. CASE ApplyZone \/ ZonesDone \/ CountTenants
  BY <1>7 DEF ApplyZone, InZones, ZonesDone, CountTenants, SchemaInv, SchemaSoFar, Ready, dbVars
<1>8. CASE SeedInsert \/ SeedDone \/ Load \/ ConnectRaw \/ Serve
  BY <1>8 DEF SeedInsert, SeedDone, Load, ConnectRaw, Serve, SchemaInv, SchemaSoFar, Ready, dbVars
<1>9. CASE Reconfigure \/ ClusterDown \/ ClusterUp \/ UNCHANGED vars
  BY <1>9 DEF Reconfigure, ClusterDown, ClusterUp, vars, SchemaInv, SchemaSoFar, dbVars
<1>. QED
  BY <1>1, <1>2, <1>3, <1>4, <1>5, <1>6, <1>7, <1>8, <1>9 DEF Next, Progress

(* Every step keeps the table: the interesting ones are the insert of a tenant and
   the start after a seeding that was cut short. *)
LEMMA PoolStep ==
  ASSUME IndInv, [Next]_vars PROVE PoolInv'
<1> USE DEF IndInv
<1>1. CASE SeedInsert
  <2> DEFINE s == SeedList(cfg.count, cfg.regions)
  <2>1. /\ phase = "seed" /\ phase' = phase /\ pos =< SeedLen(cfg.count) /\ pos' = pos + 1
        /\ table' = Append(table, s[pos]) /\ UNCHANGED <<cfg, version, first>>
    BY <1>1 DEF SeedInsert
  <2>2. pos = Len(table) + 1 /\ IsPrefixOf(table, s) /\ table \in Seq(TenantRow) /\ cfg \in Configs
    BY <2>1 DEF PoolInv, TypeOK
  <2>3. Len(table') = Len(table) + 1 /\ DOMAIN table' = 1 .. (Len(table) + 1)
    BY <2>1, <2>2
  <2>4. Len(s) = SeedLen(cfg.count) /\ SeedLen(cfg.count) \in Nat
    BY <2>2, SeedRows
  <2>5. ASSUME NEW i \in DOMAIN table' PROVE table'[i] = s[i]
    <3>1. CASE i = Len(table) + 1
      BY <3>1, <2>1, <2>2
    <3>2. CASE i # Len(table) + 1
      <4>1. i \in DOMAIN table /\ table'[i] = table[i]
        BY <3>2, <2>1, <2>2, <2>3
      <4>. QED  BY <4>1, <2>2 DEF IsPrefixOf
    <3>. QED  BY <3>1, <3>2
  <2>6. IsPrefixOf(table', s)
    BY <2>1, <2>2, <2>3, <2>4, <2>5 DEF IsPrefixOf
  <2>7. TableIsPrefix'
    BY <2>2, <2>6 DEF TableIsPrefix
  <2>8. first' = << >>
    BY <2>1 DEF PoolInv
  <2>. QED  BY <2>1, <2>2, <2>3, <2>6, <2>7, <2>8 DEF PoolInv
<1>2. CASE SeedDone
  <2>1. pos = Len(table) + 1 /\ pos > SeedLen(cfg.count) /\ cfg \in Configs /\ table \in Seq(TenantRow)
    BY <1>2 DEF SeedDone, PoolInv, TypeOK
  <2>2. table # << >>
    BY <2>1, SeedRows
  <2>. QED  BY <1>2, <2>2 DEF SeedDone, dbVars, PoolInv, TableIsPrefix
<1>3. CASE CountTenants
  <2>1. IsPrefixOf(<< >>, SeedList(cfg.count, cfg.regions))
    BY SeedRows DEF IsPrefixOf, TypeOK
  <2>2. /\ phase' = IF table = << >> THEN "seed" ELSE "load"
        /\ pos' = 1 /\ UNCHANGED <<version, table, cfg, pool, first>>
    BY <1>3 DEF CountTenants, dbVars
  <2>3. CASE table = << >>
    BY <2>1, <2>2, <2>3 DEF PoolInv, TableIsPrefix
  <2>4. CASE table # << >>
    BY <2>2, <2>4 DEF PoolInv, TableIsPrefix
  <2>. QED  BY <2>3, <2>4
<1>4. CASE Load
  <2>1. phase = "load" /\ version = Latest
    BY <1>4 DEF Load, SchemaInv, Ready
  <2>2. first' = table
    BY <1>4, <2>1 DEF Load, PoolInv
  <2>. QED  BY <1>4, <2>1, <2>2 DEF Load, dbVars, PoolInv, TableIsPrefix
<1>5. CASE MigrateStatement
  <2>1. UNCHANGED <<version, table, cfg, first>> /\ phase' \in {"down", "migrate"}
    BY <1>5 DEF MigrateStatement, Exit
  <2>. QED  BY <2>1 DEF PoolInv, TableIsPrefix
<1>6. CASE MigrateRecord
  <2>1. first = << >>
    BY <1>6, Shape DEF MigrateRecord, PoolInv, SchemaInv, TypeOK
  <2>. QED  BY <1>6, <2>1 DEF MigrateRecord, PoolInv, TableIsPrefix
<1>7. CASE Start \/ Connect \/ MigrateDone \/ ApplyZone \/ ZonesDone
  <2>1. UNCHANGED <<version, table, cfg, first>> /\ phase' \in {"connect", "migrate", "zones", "tenants"}
    BY <1>7 DEF Start, Connect, MigrateDone, ApplyZone, InZones, ZonesDone, dbVars
  <2>. QED  BY <2>1 DEF PoolInv, TableIsPrefix
<1>8. CASE PingGivesUp \/ Refused \/ Fail
  <2>1. UNCHANGED <<version, table, cfg, first>> /\ phase' = "down"
    BY <1>8 DEF PingGivesUp, Refused, Fail, Exit, dbVars
  <2>. QED  BY <2>1 DEF PoolInv, TableIsPrefix
<1>9. CASE PingFails \/ ZoneFails
  BY <1>9 DEF PingFails, ZoneFails, TryAgain, dbVars, PoolInv, TableIsPrefix
<1>10. CASE ConnectRaw \/ Serve
  BY <1>10 DEF ConnectRaw, Serve, dbVars, PoolInv, TableIsPrefix
<1>11. CASE Reconfigure
  <2>1. UNCHANGED <<version, table, first, phase, pool>> /\ phase = "down"
    BY <1>11 DEF Reconfigure, dbVars
  <2>. QED  BY <2>1 DEF PoolInv, TableIsPrefix
<1>12. CASE ClusterDown \/ ClusterUp \/ UNCHANGED vars
  BY <1>12 DEF ClusterDown, ClusterUp, vars, dbVars, PoolInv, TableIsPrefix
<1>. QED
  BY <1>1, <1>2, <1>3, <1>4, <1>5, <1>6, <1>7, <1>8, <1>9, <1>10, <1>11, <1>12 DEF Next, Progress

(* From any database a sequence of failed starts can leave behind, the invariant
   holds. *)
THEOREM StartupInductive == Spec => []IndInv
<1>1. IndInv /\ [Next]_vars => IndInv'
  BY LoopStep, TypeStep, SchemaStep, PoolStep DEF IndInv
<1>. QED  BY <1>1, StartInit, PTL DEF Spec

(* The type invariant of the start-up. *)
THEOREM TypeCorrect == Spec => []TypeOK
<1>1. IndInv => TypeOK
  BY DEF IndInv
<1>. QED  BY <1>1, StartupInductive, PTL

(* When all migrations are recorded, all objects exist, the policies among them:
   what a migration has dropped it has created again before it was recorded. *)
LEMMA LatestSchema ==
  ASSUME IndInv, version = Latest
  PROVE  objs = Objects /\ Policies \subseteq objs
<1>1. \A v \in 1 .. Latest : \A k \in DOMAIN Migrations[v] :
        Migrations[v][k].op # "drop" => Migrations[v][k].obj \in objs
  BY Shape DEF IndInv, SchemaInv, SchemaSoFar
<1>2. Policies \subseteq objs
  <2> SUFFICES ASSUME NEW o \in Policies PROVE o \in objs
    OBVIOUS
  <2>1. PICK k \in DOMAIN Migrations[2] : Migrations[2][k].op = "create" /\ Migrations[2][k].obj = o
    BY PoliciesCreated
  <2>. QED  BY <1>1, <2>1, Shape
<1>3. Objects \subseteq objs
  <2> SUFFICES ASSUME NEW o \in Objects PROVE o \in objs
    OBVIOUS
  <2>1. PICK v \in 1 .. Latest : \E k \in DOMAIN Migrations[v] : o = Migrations[v][k].obj
    BY Shape DEF Objects
  <2>2. PICK k \in DOMAIN Migrations[v] : o = Migrations[v][k].obj
    BY <2>1
  <2>3. CASE Migrations[v][k].op = "drop"
    BY <2>2, <2>3, <1>2, OnlyPoliciesDropped
  <2>. QED  BY <2>2, <2>3, <1>1
<1>4. objs \subseteq Objects
  BY DEF IndInv, TypeOK
<1>. QED  BY <1>2, <1>3, <1>4

(* The tick loop and the gRPC service only run on a complete schema and on the
   pool that is in the table, for every set of configurations and any number of
   failures: Run leaves goose.Up only with every version recorded, and a version
   is recorded only after the last statement of its migration. *)
THEOREM ServesReadyHolds == Spec => []ServesReady
<1>1. IndInv => ServesReady
  BY LatestSchema DEF IndInv, SchemaInv, PoolInv, Ready, ServesReady
<1>. QED  BY <1>1, StartupInductive, PTL

(* rand.IntN is never called with 0: load finds at least one row, because seed is
   left for load only after SeedLen rows, and a table cut short still has one. *)
THEOREM PoolNeverEmptyHolds == Spec => []PoolNeverEmpty
<1>1. IndInv => PoolNeverEmpty
  BY DEF IndInv, PoolInv, PoolNeverEmpty
<1>. QED  BY <1>1, StartupInductive, PTL

(* Row-level security stays in force from the first loaded pool on: the process
   that loaded it had all migrations recorded, and no later one repeats them. *)
THEOREM PoliciesStayHolds == Spec => []PoliciesStay
<1>1. IndInv => PoliciesStay
  BY LatestSchema DEF IndInv, PoolInv, PoliciesStay
<1>. QED  BY <1>1, StartupInductive, PTL

(* A table left by interrupted seedings, under any flags, is the beginning of one
   seed list. *)
THEOREM TableIsPrefixHolds == Spec => []TableIsPrefix
<1>1. IndInv => TableIsPrefix
  BY DEF IndInv, PoolInv
<1>. QED  BY <1>1, StartupInductive, PTL

(* "Pool persists in the DB across restarts", for any flags of the later starts. *)
THEOREM PoolPersistsHolds == Spec => []PoolPersists
<1>1. IndInv => PoolPersists
  BY DEF IndInv, PoolInv, PoolPersists
<1>. QED  BY <1>1, StartupInductive, PTL

=============================================================================
