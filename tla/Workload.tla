------------------------------ MODULE Workload ------------------------------
(***************************************************************************)
(* The running workload as a whole: the rounds of runWrites and of runReads *)
(* side by side in one process, on the same pools, while nodes of the       *)
(* cluster are partitioned from the others and healed.  Nobody waits for a  *)
(* round to end before the next one starts, and no statement has a timeout  *)
(* of its own: what keeps a lost region from stopping the rest is which     *)
(* pool each transaction takes its connection from.  Kills of the process    *)
(* are left to WritePath: they end the rounds, and free every connection.    *)
(***************************************************************************)
EXTENDS WritePath, Topology

CONSTANTS
  ReadRounds,   \* read rounds that can be under way at a time
  Regions,      \* cfg.Regions, in order
  Populated,    \* regions that have tenants
  CutNodes      \* nodes that may be partitioned

Cluster == MultiGeoTopology(num_replicas * 3)

ASSUME RegionsAssumption == Regions \in Seq(AllRegions) /\ Populated \subseteq AllRegions
ASSUME CutAssumption     == CutNodes \subseteq 1 .. Cluster.nodes

VARIABLES
  at,   \* where the read rounds are
  cut   \* nodes partitioned from the rest

R == INSTANCE ReadPath WITH
  Rounds <- ReadRounds, Regions <- Regions, Populated <- Populated,
  PoolRegions <- PoolRegions, MaxConns <- MaxConns, at <- at, down <- down

wvars == <<vars, at, cut>>

WorkloadInit == Init /\ R!Init /\ cut = {}

(* Mutant: the reads have pools of their own. *)
BusyWritesOnly(p) == InUse(p)

(* appPool and regionalPools are handed to runWrites and runReads alike. *)
Busy(p) == InUse(p) + R!InUse(p)

-----------------------------------------------------------------------------

(* A write asks for a connection; the other steps of a write need none. *)
WriteBegins(w) ==
  /\ BeginTx(w)
  /\ Busy(Pool(w)) < MaxConns
  /\ UNCHANGED <<at, cut>>

WriteProceeds(w) ==
  /\ Proceed(w)
  /\ UNCHANGED <<at, cut>>

(* A lost acknowledgement gives the connection back like any other error. *)
WriteFails(w) ==
  /\ BeginFails(w) \/ StatementError(w) \/ Retry(w)
  /\ UNCHANGED <<at, cut>>

WriteTicks(r) == WriteTick(r) /\ UNCHANGED <<at, cut>>

ReadBegins(r) ==
  /\ R!Begin(r)
  /\ Busy(R!Wanted(r)) < MaxConns
  /\ UNCHANGED <<vars, cut>>

ReadProceeds(r) ==
  /\ R!ReadTick(r) \/ R!NextRegion(r) \/ R!ReadDone(r)
  /\ UNCHANGED <<vars, cut>>

ReadFails(r) == R!ReadFails(r) /\ UNCHANGED <<vars, cut>>

(* Mutant: a partition is lost with the first of its replicas. *)
LostAtOnce(nodes) == {g \in AllRegions : NodesIn(Cluster, g) \cap nodes # {}}

(* The three replicas of a partition are on the three nodes of its region; it
   answers while two of them can talk to each other. *)
Lost(nodes) ==
  {g \in AllRegions : 2 * Cardinality(NodesIn(Cluster, g) \ nodes) =< num_replicas}

(* chaos partition and chaos clear of one node. *)
Isolate(i) ==
  /\ cut' = IF i \in cut THEN cut \ {i} ELSE cut \cup {i}
  /\ down' = Lost(cut')
  /\ UNCHANGED <<dbVars, tenant, pc, tx, attempts, res, orphan, metricVars, lifeVars, late, at>>

WorkloadNext ==
  \/ \E r \in Rounds : WriteTicks(r)
  \/ \E w \in Writes : WriteBegins(w) \/ WriteProceeds(w) \/ WriteFails(w)
  \/ \E r \in ReadRounds : ReadBegins(r) \/ ReadProceeds(r) \/ ReadFails(r)
  \/ \E i \in CutNodes : Isolate(i)

(* The Go scheduler and the database eventually run every goroutine and every
   statement that can run, and the tickers tick.  pgxpool hands connections out
   in the order they were asked for, so one for whom a connection is free again
   and again gets it.  Failures and partitions owe nothing to anybody. *)
WorkloadFairness ==
  /\ \A w \in Writes : WF_wvars(WriteProceeds(w)) /\ SF_wvars(WriteBegins(w))
  /\ \A r \in ReadRounds : WF_wvars(ReadProceeds(r)) /\ SF_wvars(ReadBegins(r))

WorkloadSpec == WorkloadInit /\ [][WorkloadNext]_wvars /\ WorkloadFairness

-----------------------------------------------------------------------------

(* Type invariant of the read side and of the nodes.  Reads and writes together
   never hold more connections of a pool than it has. *)
WorkloadType ==
  /\ R!TypeOK /\ cut \subseteq CutNodes /\ down \subseteq AllRegions
  /\ \A p \in {"app"} \cup PoolRegions : InUse(p) + R!InUse(p) =< MaxConns

Finished(w) == pc[w] \in {"done", "dead"}

(* A region that loses its quorum holds up its own reads and writes only: with a
   pool per region the writes to events always finish, whatever piles up behind
   the region. *)
GlobalNeverStarves ==
  \A w \in Writes : w[2] = "events" => (pc[w] = "begin" ~> Finished(w))

(* The reads of events never wait for a partition: whatever is down, a round
   that has come to its read of events makes it. *)
GlobalReadsProceed ==
  \A r \in ReadRounds : at[r].pc = "global begin" ~> at[r].pc # "global begin"

(* At most one node of each region is partitioned. *)
OneNodeLost == \A g \in AllRegions : Cardinality(NodesIn(Cluster, g) \cap cut) =< 1

(* "Losing a single node is transparent to the workload": once no region has more
   than one node cut off, every write to events_regional that was waiting
   finishes, those that piled up during an outage included. *)
RegionDrains ==
  <>[]OneNodeLost =>
    \A w \in Writes : w[2] = "events_regional" => (pc[w] = "begin" ~> Finished(w))

(* Likewise every read round comes to its end, so that no goroutine and no
   connection is lost to an outage. *)
RoundsEnd ==
  <>[]OneNodeLost => \A r \in ReadRounds : at[r].pc = "region" ~> at[r].pc = "off"

=============================================================================
