------------------------------ MODULE Topology ------------------------------
(***************************************************************************)
(* The layout of a cluster (internal/docker/topology.go): which region a    *)
(* node is in, how the layout is read back from the labels of the           *)
(* containers, and which nodes a connection string of the workload names    *)
(* (internal/docker/workload.go).  A DSN is the set of the nodes it lists.  *)
(***************************************************************************)
EXTENDS Geo, Integers, Sequences, FiniteSets

Modes == {"multi-geo", "single-region"}

MultiGeoTopology(nodes) ==
  [mode |-> "multi-geo", regions |-> <<"us-east", "us-west", "eu-central">>, nodes |-> nodes]

SingleRegionTopology ==
  [mode |-> "single-region", regions |-> <<"us-west">>, nodes |-> 3]

(* Mutant: the nodes left over are all put into the last region. *)
NodeRegionClamped(t, idx) == t.regions[IF idx =< Len(t.regions) THEN idx ELSE Len(t.regions)]

(* Regions are dealt out to the nodes cyclically. *)
NodeRegion(t, idx) == t.regions[((idx - 1) % Len(t.regions)) + 1]

(* Mutant: every cluster is taken for a multi-geo one. *)
topologyIgnoringLabel(mode, nodeCount) == MultiGeoTopology(nodeCount)

clusterTopologyFromLabels(mode, nodeCount) ==
  IF mode = "single-region" THEN [SingleRegionTopology EXCEPT !.nodes = nodeCount]
  ELSE MultiGeoTopology(nodeCount)

(* The nodes of a region, as the loop of RegionalDSN finds them. *)
NodesIn(t, region) == {i \in 1 .. t.nodes : NodeRegion(t, i) = region}

InternalDSN(nodes) == 1 .. nodes

(* Mutant: a region without nodes gets an empty list of hosts. *)
RegionalDSNBare(t, region) == NodesIn(t, region)

(* Mutant: nodes are counted from zero. *)
RegionalDSNFromZero(t, region) ==
  LET hosts == {i \in 1 .. t.nodes : NodeRegion(t, i + 1) = region}
  IN  IF hosts = {} THEN InternalDSN(t.nodes) ELSE hosts

(* All nodes where the region has none of its own. *)
RegionalDSN(t, region) ==
  IF NodesIn(t, region) = {} THEN InternalDSN(t.nodes) ELSE NodesIn(t, region)

(* The flag that carries the DSN of a region, named like its partition; the
   workload has one for each of its regions, others get none. *)
regionDSNFlag(region) ==
  CASE region = "us-east"    -> "east"
    [] region = "us-west"    -> "west"
    [] region = "eu-central" -> "eu"
    [] OTHER                 -> ""

(* num_replicas of the zone configurations, all of them in the region. *)
num_replicas == 3

-----------------------------------------------------------------------------

RegionsOf(t) == {t.regions[k] : k \in DOMAIN t.regions}

(* "9 = 3 per region": from that size on, and from three nodes on in a single
   region, the zone configuration of every region can be satisfied. *)
PartitionsFit(t) ==
  t.nodes >= num_replicas * Len(t.regions) =>
    \A g \in RegionsOf(t) : Cardinality(NodesIn(t, g)) >= num_replicas

(* Every region has a gateway to connect to; and where there is a node for every
   region, the regional DSNs divide the nodes of the global one among them. *)
DSNsDivide(t) ==
  /\ \A g \in RegionsOf(t) : RegionalDSN(t, g) # {}
  /\ t.nodes >= Len(t.regions) =>
       /\ UNION {RegionalDSN(t, g) : g \in RegionsOf(t)} = InternalDSN(t.nodes)
       /\ \A g, h \in RegionsOf(t) : g # h => RegionalDSN(t, g) \cap RegionalDSN(t, h) = {}

=============================================================================
