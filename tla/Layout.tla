------------------------------- MODULE Layout -------------------------------
(***************************************************************************)
(* Where things are placed as a cluster grows: the localities its nodes     *)
(* were started with, the connection strings the workload container was     *)
(* given, and the home regions of the tenants it seeds.  The localities     *)
(* come from the number of nodes and the mode label, the other two from the *)
(* flags of workload start; nothing in the code compares them.              *)
(***************************************************************************)
EXTENDS TenantTiers, Topology

CONSTANTS
  MaxNodes,   \* bound on the size of a cluster
  Counts      \* values of --tenants

ASSUME LayoutAssumption == MaxNodes \in Nat \ {0} /\ Counts \subseteq Nat

VARIABLES
  mode,      \* the label cluster-mode of the nodes
  locality,  \* node -> the region in its --locality
  wl         \* what the workload container was started with

vars == <<mode, locality, wl>>

NoWorkload == [topo |-> MultiGeoTopology(0), dsns |-> << >>, regions |-> << >>, count |-> 0]

Init ==
  /\ mode \in Modes
  /\ locality = << >>
  /\ wl = NoWorkload

(* cluster create or quickstart, with --nodes. *)
CreateCluster(n) ==
  /\ locality = << >>
  /\ LET topo == IF mode = "single-region" THEN [SingleRegionTopology EXCEPT !.nodes = n]
                 ELSE MultiGeoTopology(n)
     IN  locality' = [i \in 1 .. n |-> NodeRegion(topo, i)]
  /\ UNCHANGED <<mode, wl>>

(* cluster scale: the layout is read back from the label of a node. *)
AddNode ==
  /\ locality # << >> /\ Len(locality) < MaxNodes
  /\ LET idx == Len(locality) + 1
     IN  locality' = Append(locality, NodeRegion(clusterTopologyFromLabels(mode, idx), idx))
  /\ UNCHANGED <<mode, wl>>

(* The regions Run works on: those that were given a DSN, sorted, or all three. *)
ActiveRegions(t) ==
  LET given   == {g \in RegionsOf(t) : regionDSNFlag(g) # ""}
      some(g) == IF g \in given THEN <<g>> ELSE << >>
      found   == some("eu-central") \o some("us-east") \o some("us-west")
  IN  IF found = << >> THEN <<"us-east", "us-west", "eu-central">> ELSE found

(* workload start with --mode and --nodes (multi-geo and 9 unless given), or
   quickstart with those of the cluster it has just made.  The command does not
   look at the cluster: both flags may differ from what there is. *)
StartWorkload(m, n, count) ==
  /\ locality # << >>
  /\ LET topo == IF m = "single-region" THEN SingleRegionTopology ELSE MultiGeoTopology(n)
     IN  wl' = [topo    |-> topo,
                dsns    |-> [g \in RegionsOf(topo) |-> RegionalDSN(topo, g)],
                regions |-> ActiveRegions(topo),
                count   |-> IF count = 0 THEN 10 ELSE count]
  /\ UNCHANGED <<mode, locality>>

Next ==
  \/ \E n \in 1 .. MaxNodes : CreateCluster(n)
  \/ AddNode
  \/ \E m \in Modes, n \in 1 .. MaxNodes, count \in Counts : StartWorkload(m, n, count)

Spec == Init /\ [][Next]_vars

-----------------------------------------------------------------------------

GetClusterTopology == clusterTopologyFromLabels(mode, Len(locality))

(* Whatever mixture of create and scale made the cluster, the layout that later
   commands read back (chaos regional, the next scale) puts every node where it
   was really started. *)
LayoutReadsBack ==
  \A i \in DOMAIN locality : locality[i] = NodeRegion(GetClusterTopology, i)

(* "9 = 3 per region, geo-partitions survive single-node failure": at that size,
   and at every size it is scaled to, each region has the three nodes that the
   zone configurations ask for. *)
ReplicasFit == PartitionsFit(GetClusterTopology)

(* "routed through a home-region SQL gateway node": as long as --mode is that of
   the cluster and --nodes gives every region a node, every node that a regional
   DSN names is in that region, whatever the size of the cluster is and however it
   has grown since.  With the wrong --mode it is not. *)
GatewaysAtHome ==
  (wl.topo.mode = mode /\ wl.topo.nodes >= Len(wl.topo.regions)) =>
    \A g \in DOMAIN wl.dsns :
      \A i \in wl.dsns[g] \cap DOMAIN locality : locality[i] = g

(* Every tenant's home region has a pool with a node of the cluster to connect to,
   under any --mode and --nodes, as long as the cluster has a node for every
   region or is not smaller than --nodes; and the DSNs divide the nodes counted
   by --nodes.  A cluster of two nodes under the default --nodes=9 has tenants that
   cannot connect. *)
HomesConnected ==
  (wl.count > 0 /\ (Len(locality) >= wl.topo.nodes \/ Len(locality) >= Len(wl.topo.regions))) =>
    /\ \A i \in 1 .. SeedLen(wl.count) :
         LET g == RegionAt(wl.regions, i)
         IN  g \in DOMAIN wl.dsns /\ wl.dsns[g] \cap DOMAIN locality # {}
    /\ DSNsDivide(wl.topo)

(* The tenants are dealt out as promised, whatever --tenants is: evenly over the
   regions and, from three tenants on, exactly over the tiers, with every tier
   in every region once the blocks are long enough. *)
TenantsDealt ==
  wl.count > 0 =>
    /\ RegionsBalanced(wl.count, wl.regions)
    /\ wl.count >= 3 => SplitExact(wl.count) /\ EveryCombination(wl.count, wl.regions)

=============================================================================
