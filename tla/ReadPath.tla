------------------------------ MODULE ReadPath ------------------------------
(***************************************************************************)
(* The read side of the workload: runReads (internal/workload/runner.go).   *)
(* A tick starts a round in a goroutine of its own; the round goes through  *)
(* the regions one after the other and makes two reads for each, one of     *)
(* events and one of the region's partition of events_regional, both in a   *)
(* transaction under the context of a tenant of the region.  What a read    *)
(* returns is thrown away, and the metrics it is recorded in are read by     *)
(* nobody here: the model keeps who waits for what.  The module says what a  *)
(* round does; Workload puts the rounds beside the writes they share the     *)
(* pools with, and changes down.                                             *)
(***************************************************************************)
EXTENDS Geo, Integers, Sequences, FiniteSets

CONSTANTS
  Rounds,         \* read rounds that can be under way at a time
  Regions,        \* cfg.Regions, in order
  Populated,      \* regions that have tenants
  PoolRegions,    \* regions with a pool of their own
  MaxConns        \* pool size

VARIABLES
  at,    \* round -> [pc, i]: its statement and its place in Regions
  down   \* regions whose partition has no quorum now

Off == [pc |-> "off", i |-> 1]
Region(r) == Regions[at[r].i]

(* Mutant: the regional reads go through appPool too. *)
PoolShared(r) == "app"

(* rpool of the region, or appPool where there is none. *)
RegionPool(r) == IF Region(r) \in PoolRegions THEN Region(r) ELSE "app"

(* The connection a round holds: one for each of its two transactions. *)
HeldBy(r) ==
  CASE at[r].pc = "global query"   -> "app"
    [] at[r].pc = "regional query" -> RegionPool(r)
    [] OTHER -> "none"

InUse(p) == Cardinality({r \in Rounds : HeldBy(r) = p})

Init == at = [r \in Rounds |-> Off]

Goto(r, pc) == at' = [at EXCEPT ![r].pc = pc]

(* queryTicker: a new round, whatever the rounds before it are doing. *)
ReadTick(r) ==
  /\ at[r].pc = "off"
  /\ at' = [at EXCEPT ![r] = [pc |-> "region", i |-> 1]]

(* Mutant: a region without tenants is not left behind. *)
NextRegionSpins(r) ==
  /\ at[r].pc = "region"
  /\ at' = [at EXCEPT ![r] =
              IF @.i > Len(Regions) THEN Off
              ELSE IF Region(r) \in Populated THEN [@ EXCEPT !.pc = "global begin"]
              ELSE @]

(* The head of the loop over cfg.Regions; a region without tenants is skipped. *)
NextRegion(r) ==
  /\ at[r].pc = "region"
  /\ at' = [at EXCEPT ![r] =
              IF @.i > Len(Regions) THEN Off
              ELSE IF Region(r) \in Populated THEN [@ EXCEPT !.pc = "global begin"]
              ELSE [pc |-> "region", i |-> @.i + 1]]

(* The pool of the connection a round waits for. *)
Wanted(r) ==
  CASE at[r].pc = "global begin"   -> "app"
    [] at[r].pc = "regional begin" -> RegionPool(r)
    [] OTHER -> "none"

(* pool.Begin waits for a connection. *)
Begin(r) ==
  /\ Wanted(r) # "none"
  /\ InUse(Wanted(r)) < MaxConns
  /\ Goto(r, IF at[r].pc = "global begin" THEN "global query" ELSE "regional query")

(* One of the two read() calls is over: on to the other one, or to the next
   region. *)
AfterRead(r) ==
  IF at[r].pc \in {"global begin", "global query"} THEN Goto(r, "regional begin")
  ELSE at' = [at EXCEPT ![r] = [pc |-> "region", i |-> @.i + 1]]

(* The query (strong, or at the follower timestamp for background tenants) and
   COMMIT; the partition answers only while it has a quorum. *)
ReadDone(r) ==
  /\ \/ at[r].pc = "global query"
     \/ at[r].pc = "regional query" /\ Region(r) \notin down
  /\ AfterRead(r)

(* Begin, SET LOCAL, the query or COMMIT fails; the deferred Rollback gives the
   connection back. *)
ReadFails(r) ==
  /\ at[r].pc \in {"global begin", "global query", "regional begin", "regional query"}
  /\ AfterRead(r)

Step(r) == ReadTick(r) \/ NextRegion(r) \/ Begin(r) \/ ReadDone(r) \/ ReadFails(r)

Next == \E r \in Rounds : Step(r)

Spec == Init /\ [][Next]_at

-----------------------------------------------------------------------------

(* Type invariant. *)
TypeOK ==
  \A r \in Rounds :
    /\ at[r].pc \in {"off", "region", "global begin", "global query", "regional begin", "regional query"}
    /\ at[r].i \in 1 .. (Len(Regions) + 1)

=============================================================================
