---------------------------- MODULE EventLedger ----------------------------
(***************************************************************************)
(* What the write side of the workload promises to everything that reads    *)
(* the database: a ledger of event rows and, beside it, four counters that  *)
(* are changed in the same instant as the rows they count.  A write appends *)
(* at most one row in its life, however often it was retried, and nothing   *)
(* is ever removed or rewritten.                                            *)
(*                                                                          *)
(* WritePath, the transaction-level model of runWrites, implements this     *)
(* specification; the gRPC service is modelled on top of it.                *)
(***************************************************************************)
EXTENDS Geo, Integers, FiniteSets

CONSTANTS
  Writes,      \* identities of the writes the workload may issue
  Attempts,    \* numbers of the executions of one write's closure
  Tenants,     \* the tenant pool
  HomeRegion   \* tenants.home_region

ASSUME HomeRegionAssumption == HomeRegion \in [Tenants -> AllRegions]

VARIABLES
  rows,  \* committed rows of events and events_regional
  cnt    \* event_counters: target -> cnt

lvars == <<rows, cnt>>

(* One committed event.  "target" tells the table apart: "global" rows are in
   events, the others in that partition of events_regional.  "attempt" stands
   for the id that every execution of the INSERT draws afresh. *)
EventRow == [write : Writes, attempt : Attempts, tenant : Tenants, target : CounterRows]

RowsOf(w) == {r \in rows : r.write = w}

LedgerInit ==
  /\ rows = {}
  /\ cnt = [c \in CounterRows |-> 0]

(* A row may be stored in events or in the partition of its tenant's home
   region, nowhere else. *)
Homes(t) == {"global", regionTarget(HomeRegion[t])}

Append(w, n, t, target) ==
  /\ RowsOf(w) = {}
  /\ target \in Homes(t)
  /\ rows' = rows \cup {[write |-> w, attempt |-> n, tenant |-> t, target |-> target]}
  /\ cnt' = [cnt EXCEPT ![target] = @ + 1]

LedgerNext ==
  \E w \in Writes, n \in Attempts, t \in Tenants, target \in CounterRows :
    Append(w, n, t, target)

LedgerSpec == LedgerInit /\ [][LedgerNext]_lvars

=============================================================================
