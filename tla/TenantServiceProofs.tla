------------------------ MODULE TenantServiceProofs ------------------------
(***************************************************************************)
(* Proofs about the gRPC TenantService: what its four methods may answer    *)
(* while the workload keeps writing.                                        *)
(***************************************************************************)
EXTENDS TenantService, FiniteSetTheorems, TLAPS

(* The rows a counter counts. *)
Counted(c) == {r \in rows : r.target = c}

(* The ledger: finitely many rows, each in a home of its tenant, and counters
   that are exact. *)
LedgerInv ==
  /\ rows \subseteq EventRow /\ IsFiniteSet(rows)
  /\ cnt \in [CounterRows -> Nat]
  /\ \A c \in CounterRows : cnt[c] = Cardinality(Counted(c))
  /\ \A r \in rows : r.target \in Homes(r.tenant)

(* A region has its partition. *)
LEMMA PartitionOf ==
  /\ regionTarget("us-east") = "east" /\ regionTarget("us-west") = "west"
  /\ regionTarget("eu-central") = "eu"
  BY DEF regionTarget

(* Nothing has been written. *)
LEMMA LedgerInitially == LedgerInit => LedgerInv
<1> SUFFICES ASSUME LedgerInit PROVE LedgerInv
  OBVIOUS
<1>1. rows \subseteq EventRow /\ IsFiniteSet(rows)
  BY FS_EmptySet DEF LedgerInit
<1>2. ASSUME NEW c \in CounterRows PROVE cnt[c] = Cardinality(Counted(c))
  <2>1. Counted(c) = {}
    BY DEF LedgerInit, Counted
  <2>. QED  BY <2>1, FS_EmptySet DEF LedgerInit
<1>. QED  BY <1>1, <1>2 DEF LedgerInv, LedgerInit

(* A committed write adds one row and one to the counter of its target. *)
LEMMA LedgerWrites ==
  ASSUME LedgerInv, LedgerNext
  PROVE  LedgerInv' /\ rows \subseteq rows'
<1>1. PICK w \in Writes, n \in Attempts, t \in Tenants, target \in CounterRows :
        Append(w, n, t, target)
  BY DEF LedgerNext
<1> DEFINE new == [write |-> w, attempt |-> n, tenant |-> t, target |-> target]
<1>2. new \in EventRow /\ new.write = w /\ new.target = target /\ new.tenant = t
  BY DEF EventRow
<1> HIDE DEF new
<1>3. rows' = rows \cup {new} /\ cnt' = [cnt EXCEPT ![target] = @ + 1] /\ target \in Homes(t)
  BY <1>1 DEF Append, new
<1>4. new \notin rows
  BY <1>1, <1>2 DEF Append, RowsOf
<1>5. rows' \subseteq EventRow /\ IsFiniteSet(rows')
  BY <1>2, <1>3, FS_AddElement DEF LedgerInv
<1>6. cnt' \in [CounterRows -> Nat]
  BY <1>3 DEF LedgerInv
<1>7. ASSUME NEW c \in CounterRows PROVE cnt'[c] = Cardinality(Counted(c)')
  <2>1. IsFiniteSet(Counted(c)) /\ new \notin Counted(c) /\ Cardinality(Counted(c)) \in Nat
    BY <1>4, FS_Subset, FS_CardinalityType DEF LedgerInv, Counted
  <2>2. CASE c = target
    <3>1. Counted(c)' = Counted(c) \cup {new}
      BY <1>2, <1>3, <2>2 DEF Counted
    <3>2. Cardinality(Counted(c) \cup {new}) = Cardinality(Counted(c)) + 1
      BY <2>1, FS_AddElement
    <3>. QED  BY <1>3, <2>2, <3>1, <3>2 DEF LedgerInv
  <2>3. CASE c # target
    <3>1. Counted(c)' = Counted(c)
      BY <1>2, <1>3, <2>3 DEF Counted
    <3>. QED  BY <1>3, <2>3, <3>1 DEF LedgerInv
  <2>. QED  BY <2>2, <2>3
<1>8. \A r \in rows' : r.target \in Homes(r.tenant)
  BY <1>2, <1>3 DEF LedgerInv
<1>. QED  BY <1>3, <1>5, <1>6, <1>7, <1>8 DEF LedgerInv, Homes

(* A partition whose region has no tenant is empty: HomeRegion decides where a
   regional row goes. *)
LEMMA NoTenantsNoEvents ==
  ASSUME LedgerInv, NEW g \in AllRegions, g \notin ActiveRegions
  PROVE  cnt[regionTarget(g)] = 0
<1>1. regionTarget(g) \in CounterRows \ {"global"}
  BY PartitionOf DEF AllRegions, CounterRows, Partitions
<1>2. ASSUME NEW r \in rows PROVE r.target # regionTarget(g)
  <2>1. r.tenant \in Tenants /\ r.target \in {"global", regionTarget(HomeRegion[r.tenant])}
    BY DEF LedgerInv, EventRow, Homes
  <2>2. HomeRegion[r.tenant] \in AllRegions /\ HomeRegion[r.tenant] # g
    BY <2>1, HomeRegionAssumption DEF ActiveRegions
  <2>3. regionTarget(HomeRegion[r.tenant]) # regionTarget(g)
    BY <2>2, PartitionOf DEF AllRegions
  <2>. QED  BY <1>1, <2>1, <2>3
<1>3. Counted(regionTarget(g)) = {}
  BY <1>2 DEF Counted
<1>. QED  BY <1>1, <1>3, FS_EmptySet DEF LedgerInv

(* The rows of events that belong to a tenant. *)
Own(t, seen) == {r \in Events(seen) : r.tenant = t}

(* The policy hides no row that the WHERE clause asks for, so the count is that
   of the tenant's rows with the policy in force and without. *)
LEMMA CountsOwn == \A t : countWithTenant(t) = Cardinality(Own(t, rows))
<1> SUFFICES ASSUME NEW t PROVE countWithTenant(t) = Cardinality(Own(t, rows))
  OBVIOUS
<1>1. {r \in Events(VisibleTo(t)) : r.tenant = t} = Own(t, rows)
  BY DEF Events, VisibleTo, Own
<1>. QED  BY <1>1 DEF countWithTenant

(* More rows, no smaller count. *)
LEMMA OwnGrows ==
  ASSUME NEW t, NEW old, NEW new, old \subseteq new, IsFiniteSet(new)
  PROVE  Cardinality(Own(t, old)) =< Cardinality(Own(t, new))
<1>1. Own(t, old) \subseteq Own(t, new) /\ Own(t, new) \subseteq new
  BY DEF Own, Events
<1>. QED  BY <1>1, FS_Subset

-----------------------------------------------------------------------------
(* VerifyRLS.                                                               *)

(* The rows have grown since the total was read, and each sample counted no more
   of them than its tenant has now. *)
Dated(call) ==
  /\ call.before \subseteq rows /\ call.adminTotal = Cardinality(Events(call.before))
  /\ \A r \in call.results : r.count \in Nat /\ r.count =< Cardinality(Own(r.tenant, rows))

(* What a call of VerifyRLS knows. *)
VerifyInv ==
  \/ verify.at = "idle"
  \/ /\ {"at", "before", "adminTotal", "todo", "results"} \subseteq DOMAIN verify
     /\ verify.at = "sample" /\ Dated(verify)
  \/ /\ verify.at = "replied" /\ Dated(verify)
     /\ Enforced(verify.adminTotal, verify.results) => verify.rlsEnforced

(* How many rows a tenant has is a number. *)
LEMMA OwnType ==
  ASSUME IsFiniteSet(rows)
  PROVE  /\ IsFiniteSet(Events(rows))
         /\ \A t : IsFiniteSet(Own(t, rows)) /\ Cardinality(Own(t, rows)) \in Nat
<1>1. IsFiniteSet(Events(rows))
  BY FS_Subset DEF Events
<1>2. \A t : Own(t, rows) \subseteq rows
  BY DEF Own, Events
<1>. QED  BY <1>1, <1>2, FS_Subset, FS_CardinalityType

(* A write makes the total and the samples older, and leaves them true. *)
LEMMA DatedStays ==
  ASSUME NEW call, NEW callnext, Dated(call), rows \subseteq rows', IsFiniteSet(rows), IsFiniteSet(rows'),
         callnext.before = call.before, callnext.adminTotal = call.adminTotal,
         callnext.results = call.results
  PROVE  Dated(callnext)'
<1>1. callnext.before \subseteq rows' /\ callnext.adminTotal = Cardinality(Events(callnext.before))
  BY DEF Dated
<1>2. ASSUME NEW r \in call.results
      PROVE  r.count \in Nat /\ r.count =< Cardinality(Own(r.tenant, rows'))
  <2>1. r.count \in Nat /\ r.count =< Cardinality(Own(r.tenant, rows))
    BY DEF Dated
  <2>2. Cardinality(Own(r.tenant, rows)) =< Cardinality(Own(r.tenant, rows'))
    BY OwnGrows
  <2>3. Cardinality(Own(r.tenant, rows)) \in Nat
    BY OwnType
  <2>4. IsFiniteSet(Own(r.tenant, rows')) /\ Cardinality(Own(r.tenant, rows')) \in Nat
    BY FS_Subset, FS_CardinalityType DEF Own, Events
  <2>. QED  BY <2>1, <2>2, <2>3, <2>4
<1>. QED  BY <1>1, <1>2 DEF Dated, Own, Events

LEMMA VerifyStep ==
  ASSUME IsFiniteSet(rows), IsFiniteSet(rows'), rows \subseteq rows', VerifyInv, [Next]_svars
  PROVE  VerifyInv'
<1>1. ASSUME verify' = verify PROVE VerifyInv'
  <2>1. ASSUME Dated(verify) PROVE Dated(verify)'
    BY <1>1, <2>1, DatedStays
  <2>. QED  BY <1>1, <2>1 DEF VerifyInv, Enforced
<1>2. CASE VerifyBegin
  <2>1. PICK sample : verify' = [at |-> "sample", before |-> rows, adminTotal |-> CountAllEvents,
                                 todo |-> sample, results |-> {}]
    BY <1>2 DEF VerifyBegin
  <2>2. /\ DOMAIN verify' = {"at", "before", "adminTotal", "todo", "results"}
        /\ verify'.at = "sample" /\ verify'.before = rows
        /\ verify'.adminTotal = CountAllEvents /\ verify'.results = {}
    BY <2>1
  <2>3. Dated(verify)'
    BY <2>2 DEF Dated, CountAllEvents, Events
  <2>. QED  BY <2>2, <2>3 DEF VerifyInv
<1>3. ASSUME NEW t \in Tenants, VerifyCount(t) PROVE VerifyInv'
  <2>1. verify.at = "sample" /\ Dated(verify) /\ rows' = rows
        /\ {"at", "before", "adminTotal", "todo", "results"} \subseteq DOMAIN verify
    BY <1>3 DEF VerifyCount, VerifyInv
  <2> DEFINE new == [tenant |-> t, count |-> countWithTenant(t)]
  <2>2. /\ DOMAIN verify' = DOMAIN verify /\ verify'.at = "sample"
        /\ verify'.before = verify.before /\ verify'.adminTotal = verify.adminTotal
        /\ verify'.results = verify.results \cup {new}
    BY <1>3, <2>1 DEF VerifyCount
  <2>3. new.count \in Nat /\ new.count =< Cardinality(Own(new.tenant, rows))
    BY CountsOwn, OwnType
  <2>4. ASSUME NEW r \in verify'.results
        PROVE  r.count \in Nat /\ r.count =< Cardinality(Own(r.tenant, rows))
    <3> HIDE DEF new
    <3>. QED  BY <2>1, <2>2, <2>3 DEF Dated
  <2>5. Dated(verify)'
    BY <2>1, <2>2, <2>4 DEF Dated, Own, Events
  <2>. QED  BY <2>1, <2>2, <2>5 DEF VerifyInv
<1>4. ASSUME NEW t \in Tenants, VerifyCountFails(t) PROVE VerifyInv'
  <2>1. verify.at = "sample" /\ Dated(verify) /\ rows' = rows
        /\ {"at", "before", "adminTotal", "todo", "results"} \subseteq DOMAIN verify
    BY <1>4 DEF VerifyCountFails, VerifyInv
  <2>2. /\ DOMAIN verify' = DOMAIN verify /\ verify'.at = "sample"
        /\ verify'.before = verify.before /\ verify'.adminTotal = verify.adminTotal
        /\ verify'.results = verify.results
    BY <1>4, <2>1 DEF VerifyCountFails
  <2>3. Dated(verify)'
    BY <2>1, <2>2, DatedStays
  <2>. QED  BY <2>1, <2>2, <2>3 DEF VerifyInv
<1>5. CASE VerifyReply
  <2>1. verify.at = "sample" /\ Dated(verify)
    BY <1>5 DEF VerifyReply, VerifyInv
  <2> DEFINE flag == Enforced(verify.adminTotal, verify.results)
  <2>2. verify' = [at |-> "replied", before |-> verify.before, adminTotal |-> verify.adminTotal,
                   results |-> verify.results, rlsEnforced |-> flag]
    BY <1>5 DEF VerifyReply
  <2> HIDE DEF flag
  <2>3. /\ verify'.at = "replied" /\ verify'.before = verify.before
        /\ verify'.adminTotal = verify.adminTotal
        /\ verify'.results = verify.results /\ verify'.rlsEnforced = flag
    BY <2>2
  <2>4. Dated(verify)'
    BY <2>1, <2>3, DatedStays
  <2>5. Enforced(verify.adminTotal, verify.results)' => verify'.rlsEnforced
    BY <2>3 DEF Enforced, flag
  <2>. QED  BY <2>3, <2>4, <2>5 DEF VerifyInv
<1>6. CASE VerifyEnd
  BY <1>6 DEF VerifyEnd, VerifyInv, Idle
<1>. QED  BY <1>1, <1>2, <1>3, <1>4, <1>5, <1>6
            DEF Next, svars, Write, ListBegin, ListReads, ListReply, ListEnd, StatusBegin, StatusReply,
                StatusEnd, GetBegin, GetReply, GetEnd

(* A sampled tenant that has fewer rows now than there were at the call had fewer
   when it was counted. *)
LEMMA NotOvertaken == LedgerInv /\ VerifyInv => NoFalseAlarm
<1> SUFFICES ASSUME LedgerInv, VerifyInv, verify.at = "replied", NEW r \in verify.results,
                    Cardinality(Own(r.tenant, rows)) < Cardinality(Events(verify.before))
             PROVE  verify.rlsEnforced
  BY DEF NoFalseAlarm, Own
<1>1. Dated(verify) /\ (Enforced(verify.adminTotal, verify.results) => verify.rlsEnforced)
  BY DEF VerifyInv
<1>2. r.count \in Nat /\ r.count =< Cardinality(Own(r.tenant, rows))
  BY <1>1 DEF Dated
<1>3. verify.adminTotal = Cardinality(Events(verify.before))
  BY <1>1 DEF Dated
<1>4. verify.adminTotal \in Nat
  <2>1. Events(verify.before) \subseteq rows
    BY <1>1 DEF Dated, Events
  <2>. QED  BY <1>3, <2>1, FS_Subset, FS_CardinalityType DEF LedgerInv
<1>5. Cardinality(Own(r.tenant, rows)) \in Nat
  BY OwnType DEF LedgerInv
<1>6. r.count < verify.adminTotal
  BY <1>2, <1>3, <1>4, <1>5
<1>. QED  BY <1>1, <1>6 DEF Enforced

-----------------------------------------------------------------------------
(* ListTenants, GetRegionStatus and GetTenantEvents.                        *)

(* The counters c are the counts of the rows there were at one moment of the
   call. *)
CountsAt(c, seen) ==
  /\ c["global"] = Cardinality(Events(seen))
  /\ \A g \in AllRegions : c[regionTarget(g)] = Cardinality({r \in seen : r.target = regionTarget(g)})
  /\ TotalRegional(c) = Cardinality(seen \ Events(seen))

(* The moments of a call of ListTenants or GetRegionStatus end with the present
   one, and what GetCounters has read was true at one of them. *)
MomentsInv ==
  /\ rows \in moments
  /\ \/ list.at \in {"idle", "counters", "replied"}
     \/ list.at = "read" /\ \E seen \in moments : CountsAt(list.counters, seen)

(* Two sets that share nothing. *)
LEMMA DisjointUnion ==
  ASSUME NEW S, NEW T, IsFiniteSet(S), IsFiniteSet(T), S \cap T = {}
  PROVE  IsFiniteSet(S \cup T) /\ Cardinality(S \cup T) = Cardinality(S) + Cardinality(T)
<1>1. /\ IsFiniteSet(S \cup T)
      /\ Cardinality(S \cup T) = Cardinality(S) + Cardinality(T) - Cardinality(S \cap T)
  BY FS_Union
<1>2. Cardinality(S \cap T) = 0
  BY FS_EmptySet
<1>3. Cardinality(S) \in Nat /\ Cardinality(T) \in Nat
  BY FS_CardinalityType
<1>. QED  BY <1>1, <1>2, <1>3

(* While the ledger is exact its counters are three counts of its partitions,
   which share no row. *)
LEMMA LedgerCounts == LedgerInv => CountsAt(cnt, rows)
<1> SUFFICES ASSUME LedgerInv PROVE CountsAt(cnt, rows)
  OBVIOUS
<1> DEFINE E == Counted("east")
           W == Counted("west")
           U == Counted("eu")
<1>1. /\ cnt["global"] = Cardinality(Counted("global"))
      /\ cnt["east"] = Cardinality(E) /\ cnt["west"] = Cardinality(W) /\ cnt["eu"] = Cardinality(U)
  BY DEF LedgerInv, CounterRows, Partitions
<1>2. Counted("global") = Events(rows)
  BY DEF Counted, Events
<1>3. IsFiniteSet(E) /\ IsFiniteSet(W) /\ IsFiniteSet(U)
  BY FS_Subset DEF Counted, LedgerInv
<1>4. rows \ Events(rows) = (E \cup W) \cup U
  BY DEF LedgerInv, EventRow, CounterRows, Partitions, Counted, Events
<1>5. E \cap W = {} /\ (E \cup W) \cap U = {}
  BY DEF Counted
<1> HIDE DEF E, W, U
<1>6. IsFiniteSet(E \cup W) /\ Cardinality(E \cup W) = Cardinality(E) + Cardinality(W)
  BY <1>3, <1>5, DisjointUnion
<1>7. Cardinality((E \cup W) \cup U) = Cardinality(E \cup W) + Cardinality(U)
  BY <1>3, <1>5, <1>6, DisjointUnion
<1>8. TotalRegional(cnt) = Cardinality(rows \ Events(rows))
  BY <1>1, <1>4, <1>6, <1>7 DEF TotalRegional
<1>9. ASSUME NEW g \in AllRegions
      PROVE  cnt[regionTarget(g)] = Cardinality({r \in rows : r.target = regionTarget(g)})
  <2>1. regionTarget(g) \in CounterRows
    BY PartitionOf DEF AllRegions, CounterRows, Partitions
  <2>. QED  BY <2>1 DEF LedgerInv, Counted
<1>. QED  BY <1>1, <1>2, <1>8, <1>9 DEF CountsAt

(* A call of GetTenantEvents saw the rows grow. *)
GetInv ==
  \/ get.at = "idle"
  \/ get.at = "count" /\ get.before \subseteq rows
  \/ /\ get.at = "replied"
     /\ Cardinality(Own(get.tenant, get.before)) =< get.visibleRows
     /\ get.visibleRows =< Cardinality(Own(get.tenant, rows))
     /\ get.visibleRows \in Nat

(* Every write adds the rows it leaves to the moments. *)
LEMMA MomentsStep ==
  ASSUME LedgerInv, MomentsInv, [Next]_svars PROVE MomentsInv'
<1>1. ASSUME list' = list, moments \subseteq moments', rows' \in moments' PROVE MomentsInv'
  <2>1. CASE list.at = "read"
    <3>1. PICK seen \in moments : CountsAt(list.counters, seen)
      BY <2>1 DEF MomentsInv
    <3>2. seen \in moments' /\ CountsAt(list'.counters, seen)
      BY <1>1, <3>1
    <3>. QED  BY <1>1, <2>1, <3>2 DEF MomentsInv, CountsAt, Events, TotalRegional
  <2>2. CASE list.at # "read"
    BY <1>1, <2>2 DEF MomentsInv
  <2>. QED  BY <2>1, <2>2
<1>2. CASE Write
  BY <1>1, <1>2 DEF Write, MomentsInv
<1>3. CASE ListBegin \/ ListReply \/ ListEnd
  BY <1>3 DEF ListBegin, ListReply, ListEnd, Idle, MomentsInv
<1>4. CASE ListReads
  <2>1. list' = [at |-> "read", counters |-> cnt] /\ rows' = rows /\ moments' = moments
    BY <1>4 DEF ListReads
  <2>2. CountsAt(cnt, rows)
    BY LedgerCounts
  <2>3. CountsAt(list'.counters, rows)
    BY <2>1, <2>2
  <2>4. list'.at = "read" /\ rows' = rows /\ rows \in moments'
    BY <2>1 DEF MomentsInv
  <2>. QED  BY <2>3, <2>4 DEF MomentsInv, CountsAt, Events, TotalRegional
<1>5. CASE StatusBegin
  BY <1>5 DEF StatusBegin, MomentsInv
<1>6. ASSUME UNCHANGED <<rows, moments, list>> PROVE MomentsInv'
  BY <1>1, <1>6 DEF MomentsInv
<1>. QED  BY <1>2, <1>3, <1>4, <1>5, <1>6
            DEF Next, svars, VerifyBegin, VerifyCount, VerifyCountFails, VerifyReply, VerifyEnd,
                StatusReply, StatusEnd, GetBegin, GetReply, GetEnd

(* The counters were read in one statement, whose instant is a moment of the
   call; later writes leave the reply as it is. *)
LEMMA ListStep ==
  ASSUME MomentsInv, ListIsASnapshot, [Next]_svars PROVE ListIsASnapshot'
<1>1. ASSUME list' = list, moments \subseteq moments' PROVE ListIsASnapshot'
  <2>1. \A seen : Events(seen)' = Events(seen)
    BY DEF Events
  <2>. QED  BY <1>1, <2>1 DEF ListIsASnapshot, Events
<1>2. CASE ListBegin \/ ListReads \/ ListEnd
  BY <1>2 DEF ListBegin, ListReads, ListEnd, ListIsASnapshot, Idle
<1>3. CASE StatusBegin
  BY <1>3 DEF StatusBegin, ListIsASnapshot
<1>4. CASE ListReply
  <2>1. PICK seen \in moments : CountsAt(list.counters, seen)
    BY <1>4 DEF ListReply, MomentsInv
  <2>2. /\ list'.totalEvents = list.counters["global"]
        /\ list'.totalRegionalEvents = TotalRegional(list.counters)
        /\ moments' = moments
    BY <1>4 DEF ListReply
  <2>3. /\ list'.totalEvents = Cardinality(Events(seen))
        /\ list'.totalRegionalEvents = Cardinality(seen \ Events(seen))
    BY <2>1, <2>2 DEF CountsAt
  <2>. QED  BY <2>2, <2>3 DEF ListIsASnapshot, Events
<1>. QED  BY <1>1, <1>2, <1>3, <1>4
            DEF Next, svars, Write, VerifyBegin, VerifyCount, VerifyCountFails, VerifyReply, VerifyEnd,
                StatusReply, StatusEnd, GetBegin, GetReply, GetEnd

(* A region the reply leaves out has no tenants, so its partition is empty. *)
LEMMA StatusStep ==
  ASSUME LedgerInv, MomentsInv, StatusIsComplete, [Next]_svars PROVE StatusIsComplete'
<1>1. ASSUME status' = status, moments \subseteq moments' PROVE StatusIsComplete'
  BY <1>1 DEF StatusIsComplete, ReportedEvents
<1>2. CASE StatusBegin \/ StatusEnd
  BY <1>2 DEF StatusBegin, StatusEnd, StatusIsComplete, Idle
<1>3. CASE ListBegin
  BY <1>3 DEF ListBegin, StatusIsComplete
<1>4. CASE StatusReply
  <2>1. status'.regions = [g \in ActiveRegions |->
                             [tenants |-> Cardinality(ByRegion(g)), events |-> EventCount(g)]]
    BY <1>4 DEF StatusReply
  <2>2. ASSUME NEW g \in AllRegions PROVE ReportedEvents(g)' = cnt[regionTarget(g)]
    <3>1. CASE g \in ActiveRegions
      BY <2>1, <3>1 DEF ReportedEvents, EventCount
    <3>2. CASE g \notin ActiveRegions
      BY <2>1, <3>2, NoTenantsNoEvents DEF ReportedEvents
    <3>. QED  BY <3>1, <3>2
  <2>3. CountsAt(cnt, rows)
    BY LedgerCounts
  <2>4. \A g \in AllRegions : ReportedEvents(g)' = Cardinality({r \in rows : r.target = regionTarget(g)})
    BY <2>2, <2>3 DEF CountsAt
  <2>5. rows \in moments'
    BY <1>4 DEF StatusReply, MomentsInv
  <2>. QED  BY <2>4, <2>5 DEF StatusIsComplete
<1>. QED  BY <1>1, <1>2, <1>3, <1>4
            DEF Next, svars, Write, VerifyBegin, VerifyCount, VerifyCountFails, VerifyReply, VerifyEnd,
                ListReads, ListReply, ListEnd, GetBegin, GetReply, GetEnd

(* Rows are only ever added, so the count lies between the one at the call and
   the one after the reply. *)
LEMMA GetStep ==
  ASSUME LedgerInv, LedgerInv', rows \subseteq rows', GetInv, [Next]_svars PROVE GetInv'
<1>0. IsFiniteSet(rows) /\ IsFiniteSet(rows')
  BY DEF LedgerInv
<1>1. ASSUME get' = get PROVE GetInv'
  <2>1. CASE get.at # "replied"
    BY <1>1, <2>1 DEF GetInv
  <2>2. CASE get.at = "replied"
    <3>1. \A t : Cardinality(Own(t, rows)) =< Cardinality(Own(t, rows'))
      BY <1>0, OwnGrows
    <3>2. \A t : Cardinality(Own(t, rows)) \in Nat /\ Cardinality(Own(t, rows')) \in Nat
      BY <1>0, FS_Subset, FS_CardinalityType DEF Own, Events
    <3>3. /\ Cardinality(Own(get.tenant, get.before)) =< get.visibleRows
          /\ get.visibleRows =< Cardinality(Own(get.tenant, rows)) /\ get.visibleRows \in Nat
      BY <2>2 DEF GetInv
    <3>4. get.visibleRows =< Cardinality(Own(get.tenant, rows'))
      BY <3>1, <3>2, <3>3
    <3>. QED  BY <1>1, <2>2, <3>3, <3>4 DEF GetInv, Own, Events
  <2>. QED  BY <2>1, <2>2
<1>2. ASSUME NEW t \in Tenants, GetBegin(t) PROVE GetInv'
  BY <1>2 DEF GetBegin, GetInv
<1>3. CASE GetReply
  <2>1. get.at = "count" /\ get.before \subseteq rows
    BY <1>3 DEF GetReply, GetInv
  <2> DEFINE t == get.tenant
             old == get.before
  <2>2. /\ get'.at = "replied" /\ get'.tenant = t /\ get'.before = old /\ rows' = rows
        /\ get'.visibleRows = Cardinality(Own(t, rows))
    BY <1>3, CountsOwn DEF GetReply
  <2>3. Cardinality(Own(t, old)) =< Cardinality(Own(t, rows))
    BY <1>0, <2>1, OwnGrows
  <2>4. Cardinality(Own(t, rows)) \in Nat
    BY <1>0, FS_Subset, FS_CardinalityType DEF Own, Events
  <2>. QED  BY <2>2, <2>3, <2>4 DEF GetInv, Own, Events
<1>4. CASE GetEnd
  BY <1>4 DEF GetEnd, GetInv, Idle
<1>. QED  BY <1>1, <1>2, <1>3, <1>4
            DEF Next, svars, Write, VerifyBegin, VerifyCount, VerifyCountFails, VerifyReply, VerifyEnd,
                ListBegin, ListReads, ListReply, ListEnd, StatusBegin, StatusReply, StatusEnd

-----------------------------------------------------------------------------

(* The inductive invariant of the service over a ledger that grows. *)
ServiceInv ==
  LedgerInv /\ VerifyInv /\ MomentsInv /\ GetInv /\ ListIsASnapshot /\ StatusIsComplete

(* The service only reads: whatever its handlers do, the ledger stays exact, and
   what each call knows of it stays true. *)
THEOREM ServiceInductive == Spec => []ServiceInv
<1>1. Init => ServiceInv
  <2> SUFFICES ASSUME Init PROVE ServiceInv
    OBVIOUS
  <2>1. verify.at = "idle" /\ list.at = "idle" /\ status.at = "idle" /\ get.at = "idle"
    BY DEF Init, Idle
  <2>2. LedgerInv
    BY LedgerInitially DEF Init
  <2>3. VerifyInv /\ GetInv /\ ListIsASnapshot /\ StatusIsComplete
    BY <2>1 DEF VerifyInv, GetInv, ListIsASnapshot, StatusIsComplete
  <2>4. MomentsInv
    BY <2>1 DEF Init, MomentsInv
  <2>. QED  BY <2>2, <2>3, <2>4 DEF ServiceInv
<1>2. ServiceInv /\ [Next]_svars => ServiceInv'
  <2> SUFFICES ASSUME ServiceInv, [Next]_svars PROVE ServiceInv'
    OBVIOUS
  <2>1. LedgerInv' /\ rows \subseteq rows'
    <3>1. CASE Write
      BY <3>1, LedgerWrites DEF Write, ServiceInv
    <3>2. CASE ~ Write
      <4>1. rows' = rows /\ cnt' = cnt
        BY <3>2 DEF Next, svars, VerifyBegin, VerifyCount, VerifyCountFails, VerifyReply, VerifyEnd,
             ListBegin, ListReads, ListReply, ListEnd, StatusBegin, StatusReply, StatusEnd, GetBegin, GetReply, GetEnd
      <4>. QED  BY <4>1 DEF ServiceInv, LedgerInv, Counted
    <3>. QED  BY <3>1, <3>2
  <2>2. VerifyInv'
    BY <2>1, VerifyStep DEF ServiceInv, LedgerInv
  <2>3. MomentsInv' /\ ListIsASnapshot'
    BY MomentsStep, ListStep DEF ServiceInv
  <2>4. StatusIsComplete'
    BY StatusStep DEF ServiceInv
  <2>5. GetInv'
    BY <2>1, GetStep DEF ServiceInv
  <2>. QED  BY <2>1, <2>2, <2>3, <2>4, <2>5 DEF ServiceInv
<1>. QED  BY <1>1, <1>2, PTL DEF Spec

(* ListTenants answers with the numbers of rows of both tables at one instant of
   the call, although it counts none of them and the workload goes on writing. *)
THEOREM ListIsASnapshotHolds == Spec => []ListIsASnapshot
<1>1. ServiceInv => ListIsASnapshot
  BY DEF ServiceInv
<1>. QED  BY <1>1, ServiceInductive, PTL

(* GetRegionStatus gives every region the number of its rows, of one instant for
   all, for any pool and any homes. *)
THEOREM StatusIsCompleteHolds == Spec => []StatusIsComplete
<1>1. ServiceInv => StatusIsComplete
  BY DEF ServiceInv
<1>. QED  BY <1>1, ServiceInductive, PTL

(* GetTenantEvents counts its tenant's rows, with the policy and without. *)
THEOREM GetCountsOwnRowsHolds == Spec => []GetCountsOwnRows
<1>1. ServiceInv => GetCountsOwnRows
  BY DEF ServiceInv, GetInv, GetCountsOwnRows, Own
<1>. QED  BY <1>1, ServiceInductive, PTL

(* VerifyRLS raises no alarm over a policy in force unless each tenant it sampled
   has overtaken the total, whichever tenants it samples and whichever samples
   fail. *)
THEOREM NoFalseAlarmHolds == Spec => []NoFalseAlarm
<1>1. ServiceInv => NoFalseAlarm
  BY NotOvertaken DEF ServiceInv
<1>. QED  BY <1>1, ServiceInductive, PTL

=============================================================================
