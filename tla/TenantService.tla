--------------------------- MODULE TenantService ---------------------------
(***************************************************************************)
(* The gRPC TenantService (internal/workload/grpc_server.go) over the event *)
(* ledger, while the workload keeps writing.  The handlers keep no state of *)
(* their own, so one call of each method at a time shows all there is to    *)
(* see; the statements of a call interleave with the writes and with the    *)
(* other calls.                                                             *)
(***************************************************************************)
EXTENDS EventLedger

CONSTANTS
  PolicyOn   \* the policy tenant_isolation is in force

ASSUME PolicyAssumption == PolicyOn \in BOOLEAN

VARIABLES
  verify,   \* a call of VerifyRLS
  list,     \* a call of ListTenants
  status,   \* a call of GetRegionStatus
  get,      \* a call of GetTenantEvents
  moments   \* history: the rows there were since ListTenants / GetRegionStatus was called

svars == <<rows, cnt, verify, list, status, get, moments>>

Idle == [at |-> "idle"]

Events(seen) == {r \in seen : r.target = "global"}

(* What appuser sees of the rows under SET LOCAL app.current_tenant = t. *)
VisibleTo(t) == {r \in rows : PolicyOn => r.tenant = t}

(* Mutant: the WHERE clause and SET LOCAL are dropped, as a query on the root
   pool would. *)
countWithTenantAsRoot(t) == Cardinality(Events(rows))

(* SELECT COUNT( * ) FROM events WHERE tenant_id = $1, as appuser, under t. *)
countWithTenant(t) == Cardinality({r \in Events(VisibleTo(t)) : r.tenant = t})

(* SELECT COUNT( * ) FROM events, as root: exempt from the policy. *)
CountAllEvents == Cardinality(Events(rows))

ActiveRegions == {HomeRegion[t] : t \in Tenants}
ByRegion(g) == {t \in Tenants : HomeRegion[t] = g}

Init ==
  /\ LedgerInit
  /\ verify = Idle /\ list = Idle /\ status = Idle /\ get = Idle
  /\ moments = {rows}

(* The workload commits a write. *)
Write ==
  /\ LedgerNext
  /\ moments' = moments \cup {rows'}
  /\ UNCHANGED <<verify, list, status, get>>

-----------------------------------------------------------------------------
(* VerifyRLS.                                                               *)

(* The total as root; then one tenant of each active region, the first in pool
   order, which is arbitrary. *)
VerifyBegin ==
  /\ verify.at = "idle"
  /\ \E first \in {f \in [ActiveRegions -> Tenants] : \A g \in ActiveRegions : f[g] \in ByRegion(g)} :
       LET sample == {first[g] : g \in ActiveRegions} IN
       verify' = [at |-> "sample", before |-> rows, adminTotal |-> CountAllEvents,
                  todo |-> sample, results |-> {}]
  /\ UNCHANGED <<rows, cnt, list, status, get, moments>>

(* The goroutine of a sampled tenant gets its count. *)
VerifyCount(t) ==
  /\ verify.at = "sample" /\ t \in verify.todo
  /\ verify' = [verify EXCEPT !.todo = @ \ {t},
                              !.results = @ \cup {[tenant |-> t, count |-> countWithTenant(t)]}]
  /\ UNCHANGED <<rows, cnt, list, status, get, moments>>

(* Its transaction fails: the sample is left out of the reply. *)
VerifyCountFails(t) ==
  /\ verify.at = "sample" /\ t \in verify.todo
  /\ verify' = [verify EXCEPT !.todo = @ \ {t}]
  /\ UNCHANGED <<rows, cnt, list, status, get, moments>>

(* Mutant: the comparison is the wrong way round. *)
EnforcedFlipped(adminTotal, results) ==
  adminTotal = 0 \/ \E r \in results : r.count > adminTotal

(* rls_enforced: one sample that sees fewer rows than there are is enough. *)
Enforced(adminTotal, results) ==
  adminTotal = 0 \/ \E r \in results : r.count < adminTotal

VerifyReply ==
  /\ verify.at = "sample" /\ verify.todo = {}
  /\ verify' = [at |-> "replied", before |-> verify.before, adminTotal |-> verify.adminTotal,
                results |-> verify.results,
                rlsEnforced |-> Enforced(verify.adminTotal, verify.results)]
  /\ UNCHANGED <<rows, cnt, list, status, get, moments>>

VerifyEnd ==
  /\ verify.at = "replied"
  /\ verify' = Idle
  /\ UNCHANGED <<rows, cnt, list, status, get, moments>>

-----------------------------------------------------------------------------
(* The other methods.                                                       *)

(* TotalRegionalEvents: the sum of the three partitions. *)
TotalRegional(counters) == counters["east"] + counters["west"] + counters["eu"]

(* A call of ListTenants sends two queries in parallel, LoadTenants and
   GetCounters.  The tenants do not change while the service runs, so the first
   is only the time that passes between GetCounters and the reply. *)
ListBegin ==
  /\ list.at = "idle" /\ status.at = "idle"
  /\ list' = [at |-> "counters"]
  /\ moments' = {rows}
  /\ UNCHANGED <<rows, cnt, verify, status, get>>

(* Mutant: one statement for the total, another for the partitions. *)
ListReadsTwice ==
  /\ \/ /\ list.at = "counters"
        /\ list' = [at |-> "partitions", total |-> cnt["global"]]
     \/ /\ list.at = "partitions"
        /\ list' = [at |-> "read", counters |-> [cnt EXCEPT !["global"] = list.total]]
  /\ UNCHANGED <<rows, cnt, verify, status, get, moments>>

(* GetCounters reads the four counters in one statement. *)
ListReads ==
  /\ list.at = "counters"
  /\ list' = [at |-> "read", counters |-> cnt]
  /\ UNCHANGED <<rows, cnt, verify, status, get, moments>>

(* Both queries are back. *)
ListReply ==
  /\ list.at = "read"
  /\ list' = [at |-> "replied", totalEvents |-> list.counters["global"],
              totalRegionalEvents |-> TotalRegional(list.counters)]
  /\ UNCHANGED <<rows, cnt, verify, status, get, moments>>

(* The reply is delivered; or one of the two queries failed and the error is. *)
ListEnd ==
  /\ list.at # "idle"
  /\ list' = Idle
  /\ UNCHANGED <<rows, cnt, verify, status, get, moments>>

(* GetRegionStatus reads the same counters and takes the tenants from the pool
   in memory. *)
StatusBegin ==
  /\ list.at = "idle" /\ status.at = "idle"
  /\ status' = [at |-> "counters"]
  /\ moments' = {rows}
  /\ UNCHANGED <<rows, cnt, verify, list, get>>

(* Mutant: a region is missing from regionTargetMap, and a missing key of a Go
   map reads as zero. *)
EventCountShort(g) == IF g = "us-west" THEN 0 ELSE cnt[regionTarget(g)]

(* EventCount of a region: regionTargetMap, then the counter of that target. *)
EventCount(g) == cnt[regionTarget(g)]

(* One entry per region that has tenants. *)
StatusReply ==
  /\ status.at = "counters"
  /\ status' = [at |-> "replied",
                regions |-> [g \in ActiveRegions |->
                               [tenants |-> Cardinality(ByRegion(g)), events |-> EventCount(g)]]]
  /\ UNCHANGED <<rows, cnt, verify, list, get, moments>>

StatusEnd ==
  /\ status.at # "idle"
  /\ status' = Idle
  /\ UNCHANGED <<rows, cnt, verify, list, get, moments>>

(* GetTenantEvents of a tenant of the pool. *)
GetBegin(t) ==
  /\ get.at = "idle"
  /\ get' = [at |-> "count", tenant |-> t, before |-> rows]
  /\ UNCHANGED <<rows, cnt, verify, list, status, moments>>

GetReply ==
  /\ get.at = "count"
  /\ get' = [at |-> "replied", tenant |-> get.tenant, before |-> get.before,
             visibleRows |-> countWithTenant(get.tenant)]
  /\ UNCHANGED <<rows, cnt, verify, list, status, moments>>

GetEnd ==
  /\ get.at # "idle"
  /\ get' = Idle
  /\ UNCHANGED <<rows, cnt, verify, list, status, moments>>

Next ==
  \/ Write
  \/ VerifyBegin \/ (\E t \in Tenants : VerifyCount(t) \/ VerifyCountFails(t)) \/ VerifyReply \/ VerifyEnd
  \/ ListBegin \/ ListReads \/ ListReply \/ ListEnd
  \/ StatusBegin \/ StatusReply \/ StatusEnd
  \/ (\E t \in Tenants : GetBegin(t)) \/ GetReply \/ GetEnd

Spec == Init /\ [][Next]_svars

-----------------------------------------------------------------------------

(* ListTenants counts no row: it reports the counters, which others change while
   the call is under way.  Its two totals are nevertheless what two SELECT
   COUNT( * ), one on events and one on events_regional, would have found at one
   and the same instant of the call. *)
ListIsASnapshot ==
  list.at = "replied" =>
    \E seen \in moments : /\ list.totalEvents = Cardinality(Events(seen))
                          /\ list.totalRegionalEvents = Cardinality(seen \ Events(seen))

(* The events the reply of GetRegionStatus gives for a region: none if the region
   is not in it. *)
ReportedEvents(g) == IF g \in DOMAIN status.regions THEN status.regions[g].events ELSE 0

(* GetRegionStatus leaves out the regions that have no tenants and reports
   counters for the others: for every region that is what a count of the rows of
   its partition would have found, at one instant for all three, so no row is in
   a partition the reply leaves out. *)
StatusIsComplete ==
  status.at = "replied" =>
    \E seen \in moments : \A g \in AllRegions :
      ReportedEvents(g) = Cardinality({r \in seen : r.target = regionTarget(g)})

(* GetTenantEvents counts rows of its tenant and of no other: never fewer than
   there were when it was called, never more than there are now. *)
GetCountsOwnRows ==
  get.at = "replied" =>
    LET own(seen) == Cardinality({r \in Events(seen) : r.tenant = get.tenant})
    IN  own(get.before) =< get.visibleRows /\ get.visibleRows =< own(rows)

(* VerifyRLS reads its total first and its samples later, while the workload
   writes.  The race alone makes it deny a policy that is in force only when every
   tenant it has a sample of owns by now at least as many events as there were of
   all tenants when it was called. *)
NoFalseAlarm ==
  (/\ PolicyOn /\ verify.at = "replied"
   /\ \E r \in verify.results :
        Cardinality({e \in Events(rows) : e.tenant = r.tenant}) < Cardinality(Events(verify.before)))
    => verify.rlsEnforced

(* "VerifyRLS proves Row-Level Security": with events in the table it says
   rls_enforced only if the policy is in force. *)
EnforcedMeansPolicy ==
  (verify.at = "replied" /\ verify.adminTotal > 0 /\ verify.rlsEnforced) => PolicyOn

=============================================================================
