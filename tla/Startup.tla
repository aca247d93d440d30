------------------------------ MODULE Startup ------------------------------
(***************************************************************************)
(* How the workload process comes up: Run (internal/workload/runner.go) up  *)
(* to its tick loop, with the migrations, the zone configurations and the   *)
(* seeding of the tenant pool as the steps they are in the database.        *)
(*                                                                          *)
(* Every statement commits on its own (the migrations are NO TRANSACTION,   *)
(* the inserts of seed use the pool directly).  Any error but that of a     *)
(* zone configuration ends the process, and Docker starts it again: a       *)
(* failed statement and a killed process are the same event, Fail, and      *)
(* everything depends on what the next start makes of the state left.       *)
(***************************************************************************)
EXTENDS TenantTiers, FiniteSets, RetryLoop

CONSTANTS
  Configs,       \* [count, regions] the process may be started with
  AttemptCosts,  \* seconds an attempt to connect, or a statement, may take to fail
  MaxFaults      \* bound on failed statements, kills, outages and new flags

ASSUME ConfigsAssumption ==
  /\ Configs # {}
  /\ \A c \in Configs : c.count \in Nat /\ c.regions \in Seq(AllRegions) /\ c.regions # <<>>
ASSUME CostsAssumption  ==   \* there is a longest one
  /\ AttemptCosts \subseteq Nat
  /\ \E m \in AttemptCosts : \A c \in AttemptCosts : c =< m
ASSUME FaultsAssumption == MaxFaults \in Nat

-----------------------------------------------------------------------------
(* The migrations.  "ensure" is a statement that can be repeated (IF NOT
   EXISTS, ON CONFLICT DO NOTHING, GRANT, ALTER ... ENABLE), "drop" one with IF
   EXISTS, "create" one that fails if the object is there.  Indexes of a table
   are one object. *)
Ensure(o) == [op |-> "ensure", obj |-> o]
Drop(o)   == [op |-> "drop",   obj |-> o]
Create(o) == [op |-> "create", obj |-> o]

InitialSchema ==
  << Ensure("tenants"), Ensure("events"), Ensure("events indexes"),
     Ensure("events_regional"), Ensure("events_regional indexes") >>

(* Mutant: the policies are created without dropping them first. *)
MultiTenancyNoDrop ==
  << Ensure("appuser"), Ensure("grants"), Ensure("rls events"), Ensure("rls events_regional"),
     Create("policy events"), Create("policy events_regional") >>

MultiTenancy ==
  << Ensure("appuser"), Ensure("grants"), Ensure("rls events"), Ensure("rls events_regional"),
     Drop("policy events"), Drop("policy events_regional"),
     Create("policy events"), Create("policy events_regional") >>

Counters ==
  << Ensure("event_counters"), Ensure("counter rows"), Ensure("counter grant") >>

HomeRegionMigration == << >>   \* SELECT 1

CompositeIndex ==
  << Ensure("events tenant index"), Ensure("events_regional tenant index") >>

Migrations ==
  << InitialSchema, MultiTenancy, Counters, HomeRegionMigration, CompositeIndex >>

Latest == Len(Migrations)

Objects == UNION {{Migrations[v][k].obj : k \in DOMAIN Migrations[v]} : v \in DOMAIN Migrations}
Policies == {"policy events", "policy events_regional"}

(* The order in which ApplyZoneConfigs visits the partitions. *)
zoneConfigs == <<"us-east", "us-west", "eu-central">>

-----------------------------------------------------------------------------
VARIABLES
  \* the database
  version,   \* last migration recorded by goose
  objs,      \* schema objects that exist
  zones,     \* regions whose partition has its zone configuration
  table,     \* rows of tenants, in the order they were inserted
  \* the process
  phase,     \* where Run is
  cfg,       \* its flags
  mig, stmt, \* migration and statement being run
  pos,       \* zone configuration or seed row being worked on
  pool,      \* the TenantPool it loaded
  loop,      \* the retry loop it is in
  \* the environment
  up,        \* the cluster answers
  faults,    \* failures so far
  first      \* history: the pool the first process to get that far loaded

dbVars == <<version, objs, zones, table>>
vars   == <<version, objs, zones, table, phase, cfg, mig, stmt, pos, pool, loop, up, faults, first>>

Phases == {"down", "connect", "migrate", "zones", "tenants", "seed", "load", "pools", "serving"}

Init ==
  /\ version = 0 /\ objs = {} /\ zones = {} /\ table = << >>
  /\ phase = "down" /\ cfg \in Configs
  /\ mig = 1 /\ stmt = 1 /\ pos = 1 /\ pool = << >> /\ loop = NewLoop
  /\ up = TRUE /\ faults = 0 /\ first = << >>

(* The container starts: the flags are those of the container. *)
Start ==
  /\ phase = "down"
  /\ phase' = "connect" /\ loop' = NewLoop
  /\ UNCHANGED <<dbVars, cfg, mig, stmt, pos, pool, up, faults, first>>

(* The deadlines: Connect's ping and every zone configuration have a minute, the
   ping of ConnectRaw half of it. *)
Timeout == IF phase = "pools" THEN 30 ELSE 60
Trying  == CanTry(loop, Timeout)

(* An attempt fails and the loop sleeps. *)
TryAgain(cost) ==
  /\ loop' = AfterFailure(loop, cost)
  /\ UNCHANGED <<dbVars, phase, cfg, mig, stmt, pos, pool, up, faults, first>>

(* Mutant: goose runs every migration again on every start. *)
ConnectRerunsAll ==
  /\ phase = "connect" /\ Trying /\ up
  /\ phase' = "migrate" /\ mig' = 1 /\ stmt' = 1
  /\ UNCHANGED <<dbVars, cfg, pos, pool, loop, up, faults, first>>

(* The ping succeeds and goose.Up takes the first migration that is not
   recorded, from its first statement. *)
Connect ==
  /\ phase = "connect" /\ Trying /\ up
  /\ phase' = "migrate" /\ mig' = version + 1 /\ stmt' = 1
  /\ UNCHANGED <<dbVars, cfg, pos, pool, loop, up, faults, first>>

(* pingWithRetry, of Connect and of ConnectRaw: the ping fails. *)
PingFails ==
  /\ phase \in {"connect", "pools"} /\ Trying /\ ~up
  /\ \E cost \in AttemptCosts : TryAgain(cost)

(* Exit of Run with an error, at any point; what is in the database stays. *)
Exit ==
  /\ phase' = "down" /\ mig' = 1 /\ stmt' = 1 /\ pos' = 1 /\ pool' = << >> /\ loop' = NewLoop

(* "cluster not ready after": the deadline of the ping has passed. *)
PingGivesUp ==
  /\ phase \in {"connect", "pools"} /\ ~Trying
  /\ Exit
  /\ UNCHANGED <<dbVars, cfg, up, faults, first>>

(* A statement meets a cluster that does not answer. *)
Refused ==
  /\ phase \in {"migrate", "tenants", "seed", "load"} /\ ~up
  /\ Exit
  /\ UNCHANGED <<dbVars, cfg, up, faults, first>>

(* Mutant: an error of goose.Up is logged and the process carries on. *)
MigrateStatementCarriesOn ==
  /\ phase = "migrate" /\ up /\ mig =< Latest /\ stmt =< Len(Migrations[mig])
  /\ \/ /\ objs' = objs \cup {Migrations[mig][stmt].obj}
        /\ stmt' = stmt + 1 /\ UNCHANGED <<phase, pos>>
     \/ /\ phase' = "zones" /\ pos' = 1 /\ UNCHANGED <<objs, stmt>>
  /\ UNCHANGED <<version, zones, table, cfg, mig, pool, loop, up, faults, first>>

(* One statement of the migration. *)
MigrateStatement ==
  /\ phase = "migrate" /\ up /\ mig =< Latest /\ stmt =< Len(Migrations[mig])
  /\ LET s == Migrations[mig][stmt] IN
       IF s.op = "create" /\ s.obj \in objs
       THEN Exit /\ UNCHANGED objs
       ELSE /\ objs' = IF s.op = "drop" THEN objs \ {s.obj} ELSE objs \cup {s.obj}
            /\ stmt' = stmt + 1
            /\ UNCHANGED <<phase, mig, pos, pool, loop>>
  /\ UNCHANGED <<version, zones, table, cfg, up, faults, first>>

(* All statements have run: goose records the version in a statement of its own. *)
MigrateRecord ==
  /\ phase = "migrate" /\ up /\ mig =< Latest /\ stmt > Len(Migrations[mig])
  /\ version' = mig /\ mig' = mig + 1 /\ stmt' = 1
  /\ UNCHANGED <<objs, zones, table, phase, cfg, pos, pool, loop, up, faults, first>>

MigrateDone ==
  /\ phase = "migrate" /\ up /\ mig > Latest
  /\ phase' = "zones" /\ pos' = 1 /\ loop' = NewLoop
  /\ UNCHANGED <<dbVars, cfg, mig, stmt, pool, up, faults, first>>

InZones == phase = "zones" /\ pos =< Len(zoneConfigs)
Active  == \E k \in DOMAIN cfg.regions : cfg.regions[k] = zoneConfigs[pos]

(* The next zone configuration: applied, skipped because its region is not
   active, or given up when its minute has passed, which is not an error. *)
ApplyZone ==
  /\ InZones
  /\ \/ Active /\ Trying /\ up /\ zones' = zones \cup {zoneConfigs[pos]}
     \/ Active /\ ~Trying /\ UNCHANGED zones
     \/ ~Active /\ UNCHANGED zones
  /\ pos' = pos + 1 /\ loop' = NewLoop
  /\ UNCHANGED <<version, objs, table, phase, cfg, mig, stmt, pool, up, faults, first>>

(* applyWithRetry: the cluster is away, or rejects the statement. *)
ZoneFails ==
  /\ InZones /\ Active /\ Trying
  /\ \E cost \in AttemptCosts : TryAgain(cost)

ZonesDone ==
  /\ phase = "zones" /\ pos > Len(zoneConfigs)
  /\ phase' = "tenants"
  /\ UNCHANGED <<dbVars, cfg, mig, stmt, pos, pool, loop, up, faults, first>>

(* Mutant: a table with fewer rows than asked for is topped up. *)
CountTenantsTopsUp ==
  /\ phase = "tenants" /\ up
  /\ phase' = IF Len(table) < SeedLen(cfg.count) THEN "seed" ELSE "load"
  /\ pos' = 1
  /\ UNCHANGED <<dbVars, cfg, mig, stmt, pool, loop, up, faults, first>>

(* SeedOrLoad: seed only if the table is empty. *)
CountTenants ==
  /\ phase = "tenants" /\ up
  /\ phase' = IF table = << >> THEN "seed" ELSE "load"
  /\ pos' = 1
  /\ UNCHANGED <<dbVars, cfg, mig, stmt, pool, loop, up, faults, first>>

(* Mutant: HomeRegion is left out of InsertTenantParams. *)
SeedInsertNoRegion ==
  /\ phase = "seed" /\ up /\ pos =< SeedLen(cfg.count)
  /\ table' = Append(table, [tier |-> TierAt(cfg.count, pos), region |-> ""])
  /\ pos' = pos + 1
  /\ UNCHANGED <<version, objs, zones, phase, cfg, mig, stmt, pool, loop, up, faults, first>>

(* seed: one InsertTenant. *)
SeedInsert ==
  /\ phase = "seed" /\ up /\ pos =< SeedLen(cfg.count)
  /\ table' = Append(table, SeedList(cfg.count, cfg.regions)[pos])
  /\ pos' = pos + 1
  /\ UNCHANGED <<version, objs, zones, phase, cfg, mig, stmt, pool, loop, up, faults, first>>

SeedDone ==
  /\ phase = "seed" /\ up /\ pos > SeedLen(cfg.count)
  /\ phase' = "load"
  /\ UNCHANGED <<dbVars, cfg, mig, stmt, pos, pool, loop, up, faults, first>>

(* load: LoadTenants fills the pool. *)
Load ==
  /\ phase = "load" /\ up
  /\ pool' = table
  /\ first' = IF first = << >> THEN table ELSE first
  /\ phase' = "pools" /\ pos' = 0 /\ loop' = NewLoop
  /\ UNCHANGED <<dbVars, cfg, mig, stmt, up, faults>>

(* ConnectRaw for appPool (0) and for every region. *)
ConnectRaw ==
  /\ phase = "pools" /\ pos =< Len(cfg.regions) /\ Trying /\ up
  /\ pos' = pos + 1 /\ loop' = NewLoop
  /\ UNCHANGED <<dbVars, phase, cfg, mig, stmt, pool, up, faults, first>>

(* gRPC starts, the tick loop begins. *)
Serve ==
  /\ phase = "pools" /\ pos > Len(cfg.regions)
  /\ phase' = "serving"
  /\ UNCHANGED <<dbVars, cfg, mig, stmt, pos, pool, loop, up, faults, first>>

(* A statement fails for a reason of its own, or the process is killed. *)
Fail ==
  /\ phase # "down" /\ faults < MaxFaults
  /\ faults' = faults + 1
  /\ Exit
  /\ UNCHANGED <<dbVars, cfg, up, first>>

(* workload stop, then workload start with other flags: a new container on the
   database of the old one. *)
Reconfigure ==
  /\ phase = "down" /\ faults < MaxFaults
  /\ faults' = faults + 1
  /\ cfg' \in Configs \ {cfg}
  /\ UNCHANGED <<dbVars, phase, mig, stmt, pos, pool, loop, up, first>>

(* The cluster stops answering, and answers again. *)
ClusterDown ==
  /\ up /\ faults < MaxFaults
  /\ up' = FALSE /\ faults' = faults + 1
  /\ UNCHANGED <<dbVars, phase, cfg, mig, stmt, pos, pool, loop, first>>

ClusterUp ==
  /\ ~up /\ up' = TRUE
  /\ UNCHANGED <<dbVars, phase, cfg, mig, stmt, pos, pool, loop, faults, first>>

Progress ==
  \/ Start \/ Connect \/ PingFails \/ PingGivesUp \/ Refused
  \/ MigrateStatement \/ MigrateRecord \/ MigrateDone \/ ApplyZone \/ ZoneFails \/ ZonesDone
  \/ CountTenants \/ SeedInsert \/ SeedDone \/ Load \/ ConnectRaw \/ Serve

Next == Progress \/ Fail \/ Reconfigure \/ ClusterDown \/ ClusterUp

Spec == Init /\ [][Next]_vars

(* The process runs, Docker restarts it (unless-stopped) whenever it ends, and a
   cluster that is away comes back. *)
LiveSpec == Spec /\ WF_vars(Progress) /\ WF_vars(ClusterUp)

-----------------------------------------------------------------------------

TenantRow == [tier : Tiers, region : AllRegions]

(* Type invariant. *)
TypeOK ==
  /\ version \in 0 .. Latest /\ objs \subseteq Objects /\ zones \subseteq AllRegions
  /\ table \in Seq(TenantRow) /\ pool \in Seq(TenantRow) /\ first \in Seq(TenantRow)
  /\ phase \in Phases /\ cfg \in Configs
  /\ mig \in 1 .. (Latest + 1) /\ stmt \in Nat \ {0} /\ pos \in Nat
  /\ LoopType(loop) /\ up \in BOOLEAN /\ faults \in 0 .. MaxFaults

(* The tick loop and the gRPC service only ever run on a complete schema with
   row-level security in force and on the pool that is in the table. *)
ServesReady ==
  phase = "serving" =>
    /\ version = Latest /\ objs = Objects
    /\ pool = table

(* runWrites draws rand.IntN(len(p.all)), which panics on an empty pool: once
   load has run the pool is not empty, however often seeding was interrupted
   and whatever --tenants was. *)
PoolNeverEmpty == phase \in {"pools", "serving"} => pool # << >>

(* Once a process has got as far as loading tenants, the policies stay: there are
   rows to protect from then on, and no restart drops the policies again, not
   even for the length of a migration. *)
PoliciesStay == first # << >> => Policies \subseteq objs

IsPrefixOf(s, t) == Len(s) =< Len(t) /\ \A i \in DOMAIN s : s[i] = t[i]

(* However often seeding is interrupted or restarted under other flags, the
   table holds the first rows of one single seed list: no tenant is seeded
   twice and two lists are never mixed. *)
TableIsPrefix ==
  \E c \in Configs : IsPrefixOf(table, SeedList(c.count, c.regions))

(* "Pool persists in the DB across restarts": after the first process has loaded
   the pool, no later start, whatever its flags, adds to it or replaces it. *)
PoolPersists == first # << >> => table = first

(* "retries the initial ping with exponential backoff for up to 60 seconds": no
   loop of the start-up holds it up for longer than its deadline, one attempt
   and one sleep, and none gives up on a cluster that came back earlier than
   that before the deadline. *)
RetryWindow ==
  phase \in {"connect", "zones", "pools"} =>
    \E cost \in AttemptCosts : (\A c \in AttemptCosts : c =< cost) /\ InWindow(loop, Timeout, cost)

(* Once nothing fails any more the workload serves, from whatever state the
   failures left behind: every migration can be repeated from its start. *)
EventuallyServes == <>[](phase = "serving")

(* "QoS distribution: 20% critical, 60% regular, 20% background (min 1 each)":
   what the workload serves has every tier. *)
EveryTierServed ==
  phase = "serving" =>
    \A t \in Tiers : \E i \in DOMAIN pool : pool[i].tier = t

=============================================================================
