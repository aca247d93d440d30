---------------------------- MODULE LayoutProofs ----------------------------
(***************************************************************************)
(* The layout of clusters of every size: regions with enough nodes for the  *)
(* zone configurations, regional DSNs that divide the nodes, and nodes that *)
(* stay where the labels say while the cluster grows.                       *)
(***************************************************************************)
EXTENDS Layout, TenantTiersProofs, FiniteSetTheorems, SequenceTheorems, TLAPS

(* The layout of a cluster of n nodes in each mode. *)
Multi(n)  == MultiGeoTopology(n)
Single(n) == [SingleRegionTopology EXCEPT !.nodes = n]

(* Nodes and regions of the multi-geo layout. *)
LEMMA MultiRegions ==
  ASSUME NEW n
  PROVE  /\ Multi(n).nodes = n /\ Len(Multi(n).regions) = 3
         /\ RegionsOf(Multi(n)) = AllRegions
  BY DEF Multi, MultiGeoTopology, RegionsOf, AllRegions

(* Nodes and regions of the single-region layout. *)
LEMMA SingleRegions ==
  ASSUME NEW n
  PROVE  /\ Single(n).nodes = n /\ Len(Single(n).regions) = 1
         /\ RegionsOf(Single(n)) = {"us-west"}
  BY DEF Single, SingleRegionTopology, RegionsOf

(* NodeRegion deals out us-east, us-west, eu-central in turn. *)
LEMMA MultiNodeRegion ==
  ASSUME NEW n, NEW i \in Nat \ {0}
  PROVE  /\ (i - 1) % 3 = 0 => NodeRegion(Multi(n), i) = "us-east"
         /\ (i - 1) % 3 = 1 => NodeRegion(Multi(n), i) = "us-west"
         /\ (i - 1) % 3 = 2 => NodeRegion(Multi(n), i) = "eu-central"
  BY DEF NodeRegion, Multi, MultiGeoTopology

(* A single-region cluster has all its nodes in us-west. *)
LEMMA SingleNodeRegion ==
  ASSUME NEW n, NEW i \in Nat \ {0}
  PROVE  NodeRegion(Single(n), i) = "us-west"
<1>1. (i - 1) % 1 = 0
  OBVIOUS
<1>. QED  BY <1>1 DEF NodeRegion, Single, SingleRegionTopology

(* A finite set with three different elements has at least three. *)
LEMMA ThreeElements ==
  ASSUME NEW S, IsFiniteSet(S), NEW a \in S, NEW b \in S, NEW c \in S, a # b, a # c, b # c
  PROVE  Cardinality(S) >= 3
<1>1. IsFiniteSet({a, b}) /\ Cardinality({a, b}) = 2
  <2> DEFINE A == {a}
  <2>1. IsFiniteSet(A) /\ Cardinality(A) = 1
    BY FS_Singleton
  <2>2. {a, b} = A \cup {b} /\ b \notin A
    OBVIOUS
  <2> HIDE DEF A
  <2>. QED  BY <2>1, <2>2, FS_AddElement
<1>2. {a, b, c} = {a, b} \cup {c} /\ c \notin {a, b}
  OBVIOUS
<1>3. IsFiniteSet({a, b, c}) /\ Cardinality({a, b, c}) = 3
  BY <1>1, <1>2, FS_AddElement
<1>4. Cardinality({a, b, c}) =< Cardinality(S)
  BY FS_Subset
<1>5. Cardinality(S) \in Nat
  BY FS_CardinalityType
<1>. QED  BY <1>3, <1>4, <1>5

(* A region has finitely many nodes. *)
LEMMA NodesFinite ==
  ASSUME NEW t, t.nodes \in Nat, NEW g PROVE IsFiniteSet(NodesIn(t, g))
<1>1. IsFiniteSet(1 .. t.nodes)
  BY FS_Interval
<1>2. NodesIn(t, g) \subseteq 1 .. t.nodes
  BY DEF NodesIn
<1>. QED  BY <1>1, <1>2, FS_Subset

(* "9 = 3 per region, geo-partitions survive single-node failure" (--nodes): from
   nine nodes on, and from three in a single region, every region has the three
   nodes its zone configuration needs, whatever the size of the cluster. *)
THEOREM PartitionsAlwaysFit ==
  ASSUME NEW n \in Nat
  PROVE  PartitionsFit(Multi(n)) /\ PartitionsFit(Single(n))
<1>1. PartitionsFit(Multi(n))
  <2>r. /\ Multi(n).nodes = n /\ Len(Multi(n).regions) = 3 /\ num_replicas = 3
        /\ RegionsOf(Multi(n)) = AllRegions /\ num_replicas * 3 = 9
    BY MultiRegions DEF num_replicas
  <2> SUFFICES ASSUME n >= 9, NEW g \in AllRegions
               PROVE  Cardinality(NodesIn(Multi(n), g)) >= 3
    BY <2>r DEF PartitionsFit
  <2>f. IsFiniteSet(NodesIn(Multi(n), g))
    BY MultiRegions, NodesFinite
  <2>1. CASE g = "us-east"
    <3>1. 1 \in NodesIn(Multi(n), g) /\ 4 \in NodesIn(Multi(n), g) /\ 7 \in NodesIn(Multi(n), g)
      BY <2>1, MultiRegions, MultiNodeRegion DEF NodesIn
    <3>. QED  BY <2>f, <3>1, ThreeElements
  <2>2. CASE g = "us-west"
    <3>1. 2 \in NodesIn(Multi(n), g) /\ 5 \in NodesIn(Multi(n), g) /\ 8 \in NodesIn(Multi(n), g)
      BY <2>2, MultiRegions, MultiNodeRegion DEF NodesIn
    <3>. QED  BY <2>f, <3>1, ThreeElements
  <2>3. CASE g = "eu-central"
    <3>1. 3 \in NodesIn(Multi(n), g) /\ 6 \in NodesIn(Multi(n), g) /\ 9 \in NodesIn(Multi(n), g)
      BY <2>3, MultiRegions, MultiNodeRegion DEF NodesIn
    <3>. QED  BY <2>f, <3>1, ThreeElements
  <2>. QED  BY <2>1, <2>2, <2>3 DEF AllRegions
<1>2. PartitionsFit(Single(n))
  <2>r. /\ Single(n).nodes = n /\ Len(Single(n).regions) = 1 /\ num_replicas = 3
        /\ RegionsOf(Single(n)) = {"us-west"} /\ num_replicas * 1 = 3
    BY SingleRegions DEF num_replicas
  <2> SUFFICES ASSUME n >= 3
               PROVE  Cardinality(NodesIn(Single(n), "us-west")) >= 3
    BY <2>r DEF PartitionsFit
  <2>f. IsFiniteSet(NodesIn(Single(n), "us-west"))
    BY SingleRegions, NodesFinite
  <2>1. \A i \in 1 .. 3 : i \in NodesIn(Single(n), "us-west")
    BY SingleRegions, SingleNodeRegion DEF NodesIn
  <2>. QED  BY <2>f, <2>1, ThreeElements
<1>. QED  BY <1>1, <1>2

(* RegionalDSN: in a multi-geo cluster of any size every region has a gateway,
   and from three nodes on the regional DSNs divide the nodes among them. *)
THEOREM DSNsAlwaysDivide ==
  ASSUME NEW n \in Nat, n > 0
  PROVE  DSNsDivide(Multi(n))
<1> DEFINE t == Multi(n)
<1>r. t.nodes = n /\ Len(t.regions) = 3 /\ RegionsOf(t) = AllRegions
  BY MultiRegions
<1>1. 1 \in InternalDSN(n)
  BY DEF InternalDSN
<1>2. \A g \in AllRegions : RegionalDSN(t, g) # {}
  BY <1>r, <1>1 DEF RegionalDSN
<1>3. ASSUME n >= 3
      PROVE  /\ UNION {RegionalDSN(t, g) : g \in AllRegions} = InternalDSN(n)
             /\ \A g, h \in AllRegions : g # h => RegionalDSN(t, g) \cap RegionalDSN(t, h) = {}
  <2>1. 1 \in NodesIn(t, "us-east") /\ 2 \in NodesIn(t, "us-west") /\ 3 \in NodesIn(t, "eu-central")
    BY <1>r, <1>3, MultiNodeRegion DEF NodesIn
  <2>2. \A g \in AllRegions : RegionalDSN(t, g) = NodesIn(t, g)
    BY <2>1 DEF RegionalDSN, AllRegions
  <2>3. \A i \in 1 .. n : NodeRegion(t, i) \in AllRegions
    <3> SUFFICES ASSUME NEW i \in 1 .. n PROVE NodeRegion(t, i) \in AllRegions
      OBVIOUS
    <3>1. i \in Nat \ {0} /\ (i - 1) % 3 \in 0 .. 2
      OBVIOUS
    <3>. QED  BY <3>1, MultiNodeRegion DEF AllRegions
  <2>4. \A i \in 1 .. n : i \in NodesIn(t, NodeRegion(t, i))
    BY <1>r DEF NodesIn
  <2>5. \A g : NodesIn(t, g) \subseteq 1 .. n
    BY <1>r DEF NodesIn
  <2>6. \A g, h : g # h => NodesIn(t, g) \cap NodesIn(t, h) = {}
    BY DEF NodesIn
  <2> HIDE DEF t
  <2>7. UNION {RegionalDSN(t, g) : g \in AllRegions} = 1 .. n
    BY <2>2, <2>3, <2>4, <2>5
  <2>. QED  BY <2>2, <2>6, <2>7 DEF InternalDSN
<1>. QED  BY <1>r, <1>2, <1>3 DEF DSNsDivide

-----------------------------------------------------------------------------

(* The layout read back from the labels is one of the two. *)
LEMMA FromLabels ==
  ASSUME NEW n
  PROVE  /\ mode = "single-region" => clusterTopologyFromLabels(mode, n) = Single(n)
         /\ mode # "single-region" => clusterTopologyFromLabels(mode, n) = Multi(n)
  BY DEF clusterTopologyFromLabels, Single, Multi

(* The region of a node does not depend on the size the cluster has. *)
LEMMA RegionOfNodeStays ==
  ASSUME NEW n, NEW k, NEW i \in Nat \ {0}
  PROVE  NodeRegion(clusterTopologyFromLabels(mode, n), i)
           = NodeRegion(clusterTopologyFromLabels(mode, k), i)
<1>1. CASE mode = "single-region"
  BY <1>1, FromLabels, SingleNodeRegion
<1>2. CASE mode # "single-region"
  <2>1. Multi(n).regions = Multi(k).regions
    BY DEF Multi, MultiGeoTopology
  <2>. QED  BY <1>2, <2>1, FromLabels DEF NodeRegion
<1>. QED  BY <1>1, <1>2

(* The topology the workload was started with is the one of its flags, which need
   not be those of the cluster, and its DSNs were made from it. *)
StartedFor(k) ==
  /\ wl.topo = Single(3) \/ wl.topo = Multi(k)
  /\ wl.dsns = [g \in RegionsOf(wl.topo) |-> RegionalDSN(wl.topo, g)]

(* The inductive invariant: what the labels say of the nodes, and what the DSNs
   were made from. *)
LayoutInv ==
  /\ Len(locality) \in Nat /\ DOMAIN locality = 1 .. Len(locality)
  /\ LayoutReadsBack
  /\ wl = NoWorkload \/ \E k \in Nat : StartedFor(k)

(* CreateCluster, AddNode and StartWorkload keep the layout, its labels and the
   DSNs of the workload consistent with one another. *)
THEOREM LayoutInductive == Spec => []LayoutInv
<1>1. Init => LayoutInv
  BY DEF Init, LayoutInv, LayoutReadsBack
<1>2. LayoutInv /\ [Next]_vars => LayoutInv'
  <2> SUFFICES ASSUME LayoutInv, [Next]_vars PROVE LayoutInv'
    OBVIOUS
  <2>1. ASSUME NEW n \in 1 .. MaxNodes, CreateCluster(n) PROVE LayoutInv'
    <3>1. locality' = [i \in 1 .. n |-> NodeRegion(clusterTopologyFromLabels(mode, n), i)]
      BY <2>1 DEF CreateCluster, clusterTopologyFromLabels
    <3>2. Len(locality') = n /\ n \in Nat /\ DOMAIN locality' = 1 .. n
      BY <3>1, LayoutAssumption
    <3>3. mode' = mode /\ wl' = wl
      BY <2>1 DEF CreateCluster
    <3>4. LayoutReadsBack'
      BY <3>1, <3>2, <3>3 DEF LayoutReadsBack, GetClusterTopology
    <3>5. (wl = NoWorkload \/ \E k \in Nat : StartedFor(k))'
      BY <3>3 DEF LayoutInv, StartedFor
    <3>. QED  BY <3>2, <3>4, <3>5 DEF LayoutInv
  <2>2. CASE AddNode
    <3> DEFINE idx == Len(locality) + 1
    <3>1. /\ locality' = Append(locality, NodeRegion(clusterTopologyFromLabels(mode, idx), idx))
          /\ mode' = mode /\ wl' = wl
      BY <2>2 DEF AddNode
    <3>2. idx \in Nat \ {0} /\ Len(locality') = idx /\ DOMAIN locality' = 1 .. idx
      BY <3>1 DEF LayoutInv
    <3>3. /\ \A i \in 1 .. Len(locality) : locality'[i] = locality[i]
          /\ locality'[idx] = NodeRegion(clusterTopologyFromLabels(mode, idx), idx)
      BY <3>1 DEF LayoutInv
    <3>4. ASSUME NEW i \in 1 .. idx
          PROVE  locality'[i] = NodeRegion(clusterTopologyFromLabels(mode, idx), i)
      <4>1. CASE i = idx
        BY <3>3, <4>1
      <4>2. CASE i # idx
        <5>1. i \in 1 .. Len(locality) /\ i \in Nat \ {0}
          BY <3>2, <4>2 DEF LayoutInv
        <5>2. locality[i] = NodeRegion(clusterTopologyFromLabels(mode, Len(locality)), i)
          BY <5>1 DEF LayoutInv, LayoutReadsBack, GetClusterTopology
        <5>. QED  BY <3>3, <5>1, <5>2, RegionOfNodeStays
      <4>. QED  BY <4>1, <4>2
    <3>5. LayoutReadsBack'
      BY <3>1, <3>2, <3>4 DEF LayoutReadsBack, GetClusterTopology
    <3>6. (wl = NoWorkload \/ \E k \in Nat : StartedFor(k))'
      BY <3>1 DEF LayoutInv, StartedFor
    <3>. QED  BY <3>2, <3>5, <3>6 DEF LayoutInv
  <2>3. ASSUME NEW m \in Modes, NEW n \in 1 .. MaxNodes, NEW count \in Counts, StartWorkload(m, n, count)
        PROVE  LayoutInv'
    <3> DEFINE topo == IF m = "single-region" THEN SingleRegionTopology ELSE MultiGeoTopology(n)
    <3>1. /\ wl'.topo = topo
          /\ wl'.dsns = [g \in RegionsOf(topo) |-> RegionalDSN(topo, g)]
          /\ mode' = mode /\ locality' = locality
      BY <2>3 DEF StartWorkload
    <3>2. (topo = Single(3) \/ topo = Multi(n)) /\ n \in Nat
      BY LayoutAssumption DEF Single, Multi, SingleRegionTopology
    <3> HIDE DEF topo
    <3>3. \E k \in Nat : StartedFor(k)'
      BY <3>1, <3>2 DEF StartedFor
    <3>. QED  BY <3>1, <3>3 DEF LayoutInv, LayoutReadsBack, GetClusterTopology
  <2>4. CASE UNCHANGED vars
    BY <2>4 DEF vars, LayoutInv, LayoutReadsBack, GetClusterTopology, StartedFor
  <2>. QED  BY <2>1, <2>2, <2>3, <2>4 DEF Next
<1>. QED  BY <1>1, <1>2, PTL DEF Spec

(* clusterTopologyFromLabels gives every node the region it was started in,
   whatever mixture of create and scale made the cluster. *)
THEOREM LayoutIsReadBack == Spec => []LayoutReadsBack
  BY LayoutInductive, PTL DEF LayoutInv

(* Scaling never leaves a region without the nodes for its replicas once the
   cluster has three for each. *)
THEOREM ReplicasAlwaysFit == Spec => []ReplicasFit
<1>1. LayoutInv => ReplicasFit
  BY FromLabels, PartitionsAlwaysFit DEF LayoutInv, ReplicasFit, GetClusterTopology
<1>. QED  BY <1>1, LayoutInductive, PTL

(* Each region has a node of its own once there are as many nodes as regions. *)
LEMMA RegionHasNode ==
  ASSUME NEW k \in Nat, NEW t, t = clusterTopologyFromLabels(mode, k),
         t.nodes >= Len(t.regions), NEW g \in RegionsOf(t)
  PROVE  NodesIn(t, g) # {}
<1>1. CASE mode = "single-region"
  <2>1. t.nodes = k /\ Len(t.regions) = 1 /\ g = "us-west" /\ t = Single(k)
    BY <1>1, FromLabels, SingleRegions
  <2>2. 1 \in NodesIn(t, g)
    BY <2>1, SingleNodeRegion DEF NodesIn
  <2>. QED  BY <2>2
<1>2. CASE mode # "single-region"
  <2>1. t.nodes = k /\ Len(t.regions) = 3 /\ g \in AllRegions /\ t = Multi(k)
    BY <1>2, FromLabels, MultiRegions
  <2>2. 1 \in NodesIn(t, "us-east") /\ 2 \in NodesIn(t, "us-west") /\ 3 \in NodesIn(t, "eu-central")
    BY <2>1, MultiNodeRegion DEF NodesIn
  <2>. QED  BY <2>1, <2>2 DEF AllRegions
<1>. QED  BY <1>1, <1>2

(* "routed through a home-region SQL gateway node" (RegionalDSN): under the --mode of
   the cluster the nodes a regional pool connects to are in the region, whatever
   --nodes was given, and also after the cluster has grown. *)
THEOREM GatewaysStayAtHome == Spec => []GatewaysAtHome
<1>1. LayoutInv => GatewaysAtHome
  <2> SUFFICES ASSUME LayoutInv, wl.topo.mode = mode, wl.topo.nodes >= Len(wl.topo.regions),
                      NEW g \in DOMAIN wl.dsns,
                      NEW i \in wl.dsns[g] \cap DOMAIN locality
               PROVE  locality[i] = g
    BY DEF GatewaysAtHome
  <2>1. wl # NoWorkload
    BY DEF NoWorkload, MultiGeoTopology
  <2>a. PICK k \in Nat : StartedFor(k)
    BY <2>1 DEF LayoutInv
  <2>b. Single(3).mode = "single-region" /\ Multi(k).mode = "multi-geo"
    BY DEF Single, SingleRegionTopology, Multi, MultiGeoTopology
  <2>2. PICK l \in Nat : wl.topo = clusterTopologyFromLabels(mode, l)
    <3>1. CASE wl.topo = Single(3)
      BY <2>b, <3>1, FromLabels
    <3>2. CASE wl.topo = Multi(k)
      BY <2>b, <3>2, FromLabels
    <3>. QED  BY <2>a, <3>1, <3>2 DEF StartedFor
  <2>3. g \in RegionsOf(wl.topo) /\ i \in RegionalDSN(wl.topo, g)
    BY <2>a DEF StartedFor
  <2>4. i \in NodesIn(wl.topo, g)
    BY <2>2, <2>3, RegionHasNode DEF RegionalDSN
  <2>5. NodeRegion(wl.topo, i) = g /\ i \in Nat \ {0}
    BY <2>4 DEF NodesIn, LayoutInv
  <2>6. locality[i] = NodeRegion(clusterTopologyFromLabels(mode, Len(locality)), i)
    BY DEF LayoutInv, LayoutReadsBack, GetClusterTopology
  <2>. QED  BY <2>2, <2>5, <2>6, RegionOfNodeStays
<1>. QED  BY <1>1, LayoutInductive, PTL

-----------------------------------------------------------------------------
(* The tenants of the workload that was started.                            *)

(* Short lists put together. *)
LEMMA ConcatTuples ==
  ASSUME NEW a, NEW b, NEW c
  PROVE  <<a>> \o <<b>> \o <<c>> = <<a, b, c>> /\ << >> \o << >> \o <<c>> = <<c>>
<1> DEFINE S == {a, b, c}
<1>1. <<a>> \in Seq(S) /\ <<b>> \in Seq(S) /\ <<c>> \in Seq(S) /\ <<a, b, c>> \in Seq(S) /\ << >> \in Seq(S)
  OBVIOUS
<1>2. << >> \o << >> = << >> /\ << >> \o <<c>> = <<c>>
  BY <1>1, ConcatEmptySeq
<1> DEFINE ab == <<a>> \o <<b>>
           last == <<c>>
           abc == ab \o last
<1>3. ab \in Seq(S) /\ Len(ab) = 2 /\ ab[1] = a /\ ab[2] = b
  BY <1>1, ConcatProperties
<1> HIDE DEF ab
<1>4. abc \in Seq(S) /\ Len(abc) = 3 /\ abc[1] = a /\ abc[2] = b /\ abc[3] = c
  <2>1. last \in Seq(S) /\ Len(last) = 1 /\ last[1] = c
    BY <1>1
  <2> HIDE DEF last, S
  <2>2. /\ abc \in Seq(S) /\ Len(abc) = Len(ab) + Len(last)
        /\ \A i \in 1 .. Len(ab) + Len(last) : abc[i] = IF i <= Len(ab) THEN ab[i] ELSE last[i - Len(ab)]
    BY <1>3, <2>1, ConcatProperties
  <2> HIDE DEF abc
  <2>. QED  BY <1>3, <2>1, <2>2
<1> HIDE DEF abc
<1>5. abc = <<a, b, c>>
  BY <1>1, <1>4, SeqEqual
<1>. QED  BY <1>2, <1>5 DEF ab, last, abc

(* All regions of a layout have a DSN flag: Run works on all of them, sorted. *)
LEMMA ActiveRegionsAre ==
  ASSUME NEW n
  PROVE  /\ ActiveRegions(Multi(n)) = <<"eu-central", "us-east", "us-west">>
         /\ ActiveRegions(Single(n)) = <<"us-west">>
<1>1. \A g \in AllRegions : regionDSNFlag(g) # ""
  BY DEF regionDSNFlag, AllRegions
<1>2. {g \in RegionsOf(Multi(n)) : regionDSNFlag(g) # ""} = {"us-east", "us-west", "eu-central"}
  BY <1>1, MultiRegions DEF AllRegions
<1>3. {g \in RegionsOf(Single(n)) : regionDSNFlag(g) # ""} = {"us-west"}
  BY <1>1, SingleRegions DEF AllRegions
<1>4. /\ <<"eu-central">> \o <<"us-east">> \o <<"us-west">> = <<"eu-central", "us-east", "us-west">>
      /\ << >> \o << >> \o <<"us-west">> = <<"us-west">>
  BY ConcatTuples
<1>a. <<"eu-central", "us-east", "us-west">> # << >> /\ <<"us-west">> # << >>
  OBVIOUS
<1>5. ActiveRegions(Multi(n)) = <<"eu-central", "us-east", "us-west">>
  <2> DEFINE given == {g \in RegionsOf(Multi(n)) : regionDSNFlag(g) # ""}
             some(g) == IF g \in given THEN <<g>> ELSE << >>
  <2>1. "eu-central" \in given /\ "us-east" \in given /\ "us-west" \in given
    BY <1>2
  <2>2. some("eu-central") = <<"eu-central">> /\ some("us-east") = <<"us-east">> /\ some("us-west") = <<"us-west">>
    BY <2>1
  <2>3. some("eu-central") \o some("us-east") \o some("us-west") = <<"eu-central", "us-east", "us-west">>
    BY <1>4, <2>2, Zenon
  <2>. QED  BY <1>a, <2>3, Zenon DEF ActiveRegions
<1>6. ActiveRegions(Single(n)) = <<"us-west">>
  <2> DEFINE given == {g \in RegionsOf(Single(n)) : regionDSNFlag(g) # ""}
             some(g) == IF g \in given THEN <<g>> ELSE << >>
  <2>1. "eu-central" \notin given /\ "us-east" \notin given /\ "us-west" \in given
    BY <1>3
  <2>2. some("eu-central") = << >> /\ some("us-east") = << >> /\ some("us-west") = <<"us-west">>
    BY <2>1
  <2>3. some("eu-central") \o some("us-east") \o some("us-west") = <<"us-west">>
    BY <1>4, <2>2, Zenon
  <2>. QED  BY <1>a, <2>3, Zenon DEF ActiveRegions
<1>. QED  BY <1>5, <1>6

(* What a workload was started with: the layout its flags describe, the regions of
   that, and a number of tenants, on a cluster with a node at least. *)
OneRegion == wl.topo = Single(3) /\ wl.regions = <<"us-west">>

ThreeRegions ==
  \E n \in 1 .. MaxNodes :
    wl.topo = Multi(n) /\ wl.regions = <<"eu-central", "us-east", "us-west">>

StartedInv ==
  /\ Len(locality) \in Nat /\ DOMAIN locality = 1 .. Len(locality)
  /\ wl.count \in Nat
  /\ wl.count > 0 =>
       /\ Len(locality) >= 1
       /\ OneRegion \/ ThreeRegions
       /\ wl.dsns = [g \in RegionsOf(wl.topo) |-> RegionalDSN(wl.topo, g)]

(* StartWorkload makes DSNs and regions from one layout, that of the flags, whatever
   the cluster is; CreateCluster and AddNode only ever add nodes. *)
THEOREM StartedInductive == Spec => []StartedInv
<1>1. Init => StartedInv
  BY DEF Init, StartedInv, NoWorkload
<1>2. StartedInv /\ [Next]_vars => StartedInv'
  <2> SUFFICES ASSUME StartedInv, [Next]_vars PROVE StartedInv'
    OBVIOUS
  <2>0. ASSUME wl' = wl, Len(locality) =< Len(locality'), Len(locality') \in Nat,
               DOMAIN locality' = 1 .. Len(locality')
        PROVE  StartedInv'
    <3>1. OneRegion => OneRegion'
      BY <2>0 DEF OneRegion
    <3>2. ThreeRegions => ThreeRegions'
      BY <2>0 DEF ThreeRegions, StartedInv
    <3>3. Len(locality) >= 1 => Len(locality') >= 1
      BY <2>0 DEF StartedInv
    <3>. QED  BY <2>0, <3>1, <3>2, <3>3 DEF StartedInv
  <2>1. ASSUME NEW n \in 1 .. MaxNodes, CreateCluster(n) PROVE StartedInv'
    <3>1. Len(locality) = 0 /\ wl' = wl
      BY <2>1 DEF CreateCluster
    <3>2. n \in Nat /\ Len(locality') = n /\ DOMAIN locality' = 1 .. n
      BY <2>1, LayoutAssumption DEF CreateCluster
    <3>. QED  BY <2>0, <3>1, <3>2
  <2>2. CASE AddNode
    <3>1. wl' = wl /\ Len(locality') = Len(locality) + 1 /\ DOMAIN locality' = 1 .. Len(locality')
      BY <2>2 DEF AddNode, StartedInv
    <3>. QED  BY <2>0, <3>1 DEF StartedInv
  <2>3. ASSUME NEW m \in Modes, NEW n \in 1 .. MaxNodes, NEW count \in Counts, StartWorkload(m, n, count)
        PROVE  StartedInv'
    <3> DEFINE topo == IF m = "single-region" THEN SingleRegionTopology ELSE MultiGeoTopology(n)
    <3>1. /\ wl'.topo = topo
          /\ wl'.dsns = [g \in RegionsOf(topo) |-> RegionalDSN(topo, g)]
          /\ wl'.regions = ActiveRegions(topo)
          /\ wl'.count = IF count = 0 THEN 10 ELSE count
          /\ locality' = locality /\ locality # << >>
      BY <2>3 DEF StartWorkload
    <3>2. wl'.count \in Nat /\ Len(locality) \in Nat /\ DOMAIN locality = 1 .. Len(locality)
      BY <3>1, LayoutAssumption DEF StartedInv
    <3>4. Len(locality) >= 1
      <4>1. Len(locality) # 0
        BY <3>1 DEF StartedInv
      <4>. QED  BY <3>2, <4>1
    <3>3. OneRegion' \/ ThreeRegions'
      <4>1. CASE m = "single-region"
        <5>1. topo = Single(3)
          BY <4>1 DEF Single, SingleRegionTopology
        <5>. QED  BY <3>1, <5>1, ActiveRegionsAre DEF OneRegion
      <4>2. CASE m # "single-region"
        <5>1. topo = Multi(n)
          BY <4>2 DEF Multi
        <5>. QED  BY <3>1, <5>1, ActiveRegionsAre DEF ThreeRegions
      <4>. QED  BY <4>1, <4>2
    <3> HIDE DEF topo
    <3>. QED  BY <3>1, <3>2, <3>3, <3>4 DEF StartedInv
  <2>4. CASE UNCHANGED vars
    BY <2>0, <2>4 DEF vars, StartedInv
  <2>. QED  BY <2>1, <2>2, <2>3, <2>4 DEF Next
<1>. QED  BY <1>1, <1>2, PTL DEF Spec

(* RegionalDSN in a cluster with one region: the DSN of that region is the global one. *)
LEMMA SingleDSN ==
  ASSUME NEW n \in Nat, n > 0
  PROVE  /\ RegionalDSN(Single(n), "us-west") = 1 .. n
         /\ DSNsDivide(Single(n))
<1> DEFINE t == Single(n)
<1>1. t.nodes = n /\ Len(t.regions) = 1 /\ RegionsOf(t) = {"us-west"}
  BY SingleRegions
<1>2. NodesIn(t, "us-west") = 1 .. n
  BY <1>1, SingleNodeRegion DEF NodesIn
<1> HIDE DEF t
<1>3. RegionalDSN(t, "us-west") = 1 .. n
  BY <1>1, <1>2 DEF RegionalDSN, InternalDSN
<1>4. UNION {RegionalDSN(t, g) : g \in {"us-west"}} = 1 .. n
  BY <1>3
<1>5. 1 .. n # {}
  OBVIOUS
<1>6. DSNsDivide(t)
  BY <1>1, <1>3, <1>4, <1>5 DEF DSNsDivide, InternalDSN
<1>. QED  BY <1>3, <1>6 DEF t

(* The pool of every tenant's home region exists and has a node of the cluster to
   connect to, whatever --mode and --nodes say, if only the cluster has a node for
   every region or as many as --nodes: the regions seed deals out are those
   StartWorkload made DSNs for. *)
THEOREM HomesAreConnected == Spec => []HomesConnected
<1>1. StartedInv => HomesConnected
  <2> SUFFICES ASSUME StartedInv, wl.count > 0,
                      Len(locality) >= wl.topo.nodes \/ Len(locality) >= Len(wl.topo.regions)
               PROVE  /\ \A i \in 1 .. SeedLen(wl.count) :
                           LET g == RegionAt(wl.regions, i)
                           IN  g \in DOMAIN wl.dsns /\ wl.dsns[g] \cap DOMAIN locality # {}
                      /\ DSNsDivide(wl.topo)
    BY DEF HomesConnected
  <2>0. /\ wl.dsns = [g \in RegionsOf(wl.topo) |-> RegionalDSN(wl.topo, g)]
        /\ Len(locality) \in Nat /\ Len(locality) >= 1 /\ DOMAIN locality = 1 .. Len(locality)
        /\ wl.count \in Nat /\ wl.count >= 1
    BY DEF StartedInv
  <2>1. SeedLen(wl.count) \in Nat
    BY <2>0, SeedLenIsNatural
  <2>2. CASE OneRegion
    <3>1. \A i \in 1 .. SeedLen(wl.count) : RegionAt(wl.regions, i) = "us-west"
      <4> SUFFICES ASSUME NEW i \in 1 .. SeedLen(wl.count) PROVE RegionAt(wl.regions, i) = "us-west"
        OBVIOUS
      <4>1. i \in Nat /\ (i - 1) % 1 = 0
        BY <2>1
      <4>2. Len(wl.regions) = 1 /\ wl.regions[1] = "us-west"
        BY <2>2 DEF OneRegion
      <4>. QED  BY <4>1, <4>2 DEF RegionAt
    <3>2. RegionsOf(wl.topo) = {"us-west"} /\ RegionalDSN(wl.topo, "us-west") = 1 .. 3 /\ DSNsDivide(wl.topo)
      BY <2>2, SingleRegions, SingleDSN DEF OneRegion
    <3>3. 1 \in (1 .. 3) \cap DOMAIN locality
      BY <2>0
    <3>. QED  BY <2>0, <3>1, <3>2, <3>3
  <2>3. CASE ThreeRegions
    <3>1. PICK n \in 1 .. MaxNodes :
            wl.topo = Multi(n) /\ wl.regions = <<"eu-central", "us-east", "us-west">>
      BY <2>3 DEF ThreeRegions
    <3>2. n \in Nat /\ n > 0 /\ RegionsOf(wl.topo) = AllRegions /\ wl.topo.nodes = n
          /\ Len(wl.topo.regions) = 3
      BY <3>1, MultiRegions, LayoutAssumption
    <3>3. DSNsDivide(wl.topo)
      BY <3>1, <3>2, DSNsAlwaysDivide
    <3>4. \A i \in 1 .. SeedLen(wl.count) : RegionAt(wl.regions, i) \in AllRegions
      <4> SUFFICES ASSUME NEW i \in 1 .. SeedLen(wl.count) PROVE RegionAt(wl.regions, i) \in AllRegions
        OBVIOUS
      <4>1. (i - 1) % 3 \in 0 .. 2
        BY <2>1
      <4>2. Len(wl.regions) = 3 /\ \A k \in 1 .. 3 : wl.regions[k] \in AllRegions
        BY <3>1 DEF AllRegions
      <4>. QED  BY <4>1, <4>2 DEF RegionAt
    <3>5. ASSUME NEW g \in AllRegions PROVE RegionalDSN(wl.topo, g) \cap 1 .. Len(locality) # {}
      <4>1. CASE Len(locality) >= n
        <5>1. RegionalDSN(wl.topo, g) # {} /\ RegionalDSN(wl.topo, g) \subseteq 1 .. n
          BY <3>2, <3>3 DEF DSNsDivide, RegionalDSN, NodesIn, InternalDSN
        <5>2. 1 .. n \subseteq 1 .. Len(locality)
          BY <2>0, <3>2, <4>1
        <5>. QED  BY <5>1, <5>2
      <4>2. CASE ~ (Len(locality) >= n)
        <5>1. Len(locality) >= 3 /\ n >= 3
          BY <2>0, <3>2, <4>2
        <5>2. 1 \in NodesIn(Multi(n), "us-east") /\ 2 \in NodesIn(Multi(n), "us-west")
              /\ 3 \in NodesIn(Multi(n), "eu-central")
          BY <3>2, <5>1, MultiRegions, MultiNodeRegion DEF NodesIn
        <5>3. PICK i \in 1 .. 3 : i \in NodesIn(wl.topo, g)
          BY <3>1, <5>2 DEF AllRegions
        <5>4. i \in RegionalDSN(wl.topo, g) /\ i \in 1 .. Len(locality)
          BY <2>0, <5>1, <5>3 DEF RegionalDSN
        <5>. QED  BY <5>4
      <4>. QED  BY <4>1, <4>2
    <3>7. \A g \in AllRegions : g \in DOMAIN wl.dsns /\ wl.dsns[g] \cap DOMAIN locality # {}
      <4>1. \A g \in AllRegions : g \in DOMAIN wl.dsns /\ wl.dsns[g] = RegionalDSN(wl.topo, g)
        BY <2>0, <3>2
      <4>. QED  BY <2>0, <3>5, <4>1
    <3>. QED  BY <3>3, <3>4, <3>7
  <2>. QED  BY <2>2, <2>3 DEF StartedInv
<1>. QED  BY <1>1, StartedInductive, PTL

(* Whatever --tenants is and however the cluster was built, the pool is dealt out
   evenly over the regions and, from three tenants on, exactly over the tiers,
   every tier in every region once the blocks are long enough. *)
THEOREM TenantsAlwaysDealt == Spec => []TenantsDealt
<1>1. StartedInv => TenantsDealt
  <2> SUFFICES ASSUME StartedInv, wl.count > 0
               PROVE  /\ RegionsBalanced(wl.count, wl.regions)
                      /\ wl.count >= 3 => SplitExact(wl.count) /\ EveryCombination(wl.count, wl.regions)
    BY DEF TenantsDealt
  <2>0. wl.count \in Nat /\ wl.count >= 1
    BY DEF StartedInv
  <2>1. wl.count >= 3 => SplitExact(wl.count)
    BY <2>0, SplitIsExact
  <2>2. wl.regions = <<"us-west">> \/ wl.regions = <<"eu-central", "us-east", "us-west">>
    BY DEF StartedInv, OneRegion, ThreeRegions
  <2>3. "eu-central" # "us-east" /\ "eu-central" # "us-west" /\ "us-east" # "us-west"
    OBVIOUS
  <2>4. RegionsBalanced(wl.count, wl.regions)
    <3>1. RegionsBalanced(wl.count, <<"eu-central", "us-east", "us-west">>)
      BY <2>0, <2>3, RegionsAlwaysBalanced
    <3>2. RegionsBalanced(wl.count, <<"us-west">>)
      BY <2>0, <2>3, RegionsAlwaysBalanced
    <3>. QED  BY <2>2, <3>1, <3>2
  <2>5. wl.count >= 3 => EveryCombination(wl.count, wl.regions)
    <3> SUFFICES ASSUME wl.count >= 3 PROVE EveryCombination(wl.count, wl.regions)
      OBVIOUS
    <3>1. /\ EveryCombination(wl.count, <<"eu-central", "us-east", "us-west">>)
          /\ EveryCombination(wl.count, <<"us-west">>)
      BY <2>0, EveryCombinationArises
    <3>. QED  BY <2>2, <3>1
  <2>. QED  BY <2>1, <2>4, <2>5
<1>. QED  BY <1>1, StartedInductive, PTL

=============================================================================
