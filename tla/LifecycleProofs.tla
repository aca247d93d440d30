-------------------------- MODULE LifecycleProofs --------------------------
(***************************************************************************)
(* Proofs about the commands that build and take down the environment, for  *)
(* clusters of every size and every sequence of commands, whatever fails,   *)
(* is interrupted or restarted in between.                                  *)
(*                                                                          *)
(* IndInv carries types, bounds and DataSurvives, JoinLists the type of the *)
(* join lists; SetupInv is about chaos setup.  The rest is about lists of   *)
(* calls as sets (Todo) in an order (Follows, OrderInv): DestroyInv,        *)
(* BuildInv, ListsInv, ColdInv, StoreInv and FitInv say what is there or    *)
(* still ahead, and the order is what makes each of them inductive.         *)
(***************************************************************************)
EXTENDS Lifecycle, FiniteSetTheorems, SequenceTheorems, WellFoundedInduction, TLAPS

(* The calls, and what each may be made on. *)
Dos == {"volume", "create", "start", "network", "toxiproxy", "ready", "init", "list", "register",
        "collect", "volumes", "up", "down", "obs-volume", "image", "remove-network", "remove"}

(* The functions calls belong to. *)
Parts == {"nodes", "network", "toxiproxy", "collect", "cluster", "baseline", "obs", "image",
          "existing", "workload", "proxies", "scale"}

(* The calls a command may have ahead of it, but for the one with which scale looks
   for its nodes.  Only a command that purges collects volumes. *)
Calls(k, flag) ==
  {x \in [do : Dos, part : Parts, on : Containers, set : SUBSET Containers] :
     /\ x.do = "volume" => x.on \in Volumes
     /\ x.do \in {"register", "up", "down"} => x.on \in Nodes
     /\ x.do = "obs-volume" => x.on \in {Prometheus, Grafana}
     /\ x.do = "collect" => Purging(k, flag)}

(* The calls other than the one that initialises a cluster. *)
Tame(k, flag) == {x \in Calls(k, flag) : x.do # "init"}

(* A list of calls that initialises at most one cluster. *)
Once(list) == \A i, j \in 1 .. Len(list) : (list[i].do = "init" /\ list[j].do = "init") => i = j
(* A list with an initialisation still ahead. *)
Pending(list) == \E i \in 1 .. Len(list) : list[i].do = "init"

(* The one call of scale before it knows what there is. *)
Looks == OnAll("existing", "scale")

(* The calls of all commands. *)
AnyCall == [do : Dos \cup {"existing"}, part : Parts, on : Containers, set : SUBSET Containers]

(* The records that stand for a command. *)
Commands ==
  [kind : Kinds \cup {"none"}, n : 0 .. MaxNodes, flag : BOOLEAN, at : {"run", "ok", "err"},
   todo : Seq(AnyCall),
   vols : SUBSET Nodes, faulty : BOOLEAN, orphans : SUBSET Nodes, fit : BOOLEAN, oneStore : BOOLEAN,
   cold : BOOLEAN]

-----------------------------------------------------------------------------
(* Lists of calls.                                                          *)

(* The calls of one command are calls. *)
LEMMA CallsAreCalls ==
  ASSUME NEW k, NEW flag, NEW list \in Seq(Calls(k, flag)) PROVE list \in Seq(AnyCall)
<1>1. Calls(k, flag) \subseteq AnyCall
  BY DEF Calls, AnyCall
<1>. QED  BY <1>1, SeqMonotonic

(* A list with something in it has a first call and a tail. *)
LEMMA NonEmpty ==
  ASSUME NEW S, NEW list \in Seq(S), list # << >>
  PROVE  /\ Len(list) \in Nat /\ Len(list) # 0 /\ 1 \in 1 .. Len(list) /\ list[1] \in S
         /\ Tail(list) \in Seq(S) /\ Len(Tail(list)) = Len(list) - 1
         /\ \A i \in 1 .. Len(Tail(list)) : Tail(list)[i] = list[i + 1]
<1>1. Len(list) \in Nat /\ Len(list) # 0
  BY EmptySeq, LenProperties
<1>2. 1 \in 1 .. Len(list)
  BY <1>1
<1>3. list[1] \in S
  BY <1>2, ElementOfSeq
<1>. QED  BY <1>1, <1>2, <1>3, HeadTailProperties

(* Dropping the first call of a list leaves at most one initialisation. *)
LEMMA TailOnce ==
  ASSUME NEW S, NEW list \in Seq(S), list # << >>, Once(list)
  PROVE  Tail(list) \in Seq(S) /\ Once(Tail(list)) /\ (Pending(Tail(list)) => Pending(list))
<1>1. /\ Tail(list) \in Seq(S) /\ Len(Tail(list)) = Len(list) - 1 /\ Len(list) \in Nat
      /\ \A i \in 1 .. Len(Tail(list)) : Tail(list)[i] = list[i + 1]
  BY HeadTailProperties, LenProperties
<1>2. \A i \in 1 .. Len(Tail(list)) : i + 1 \in 1 .. Len(list) /\ i \in Nat
  BY <1>1
<1>3. Once(Tail(list))
  <2> SUFFICES ASSUME NEW i \in 1 .. Len(Tail(list)), NEW j \in 1 .. Len(Tail(list)),
                      Tail(list)[i].do = "init", Tail(list)[j].do = "init"
               PROVE  i = j
    BY DEF Once
  <2>1. i + 1 = j + 1
    BY <1>1, <1>2 DEF Once
  <2>. QED  BY <1>2, <2>1
<1>4. Pending(Tail(list)) => Pending(list)
  BY <1>1, <1>2 DEF Pending
<1>. QED  BY <1>1, <1>3, <1>4

(* So does skipping a function's remaining calls. *)
LEMMA SubSeqOnce ==
  ASSUME NEW S, NEW list \in Seq(S), Once(list), NEW m \in 1 .. (Len(list) + 1)
  PROVE  LET rest == SubSeq(list, m, Len(list)) IN
         rest \in Seq(S) /\ Once(rest) /\ (Pending(rest) => Pending(list))
<1> DEFINE rest == SubSeq(list, m, Len(list))
<1>1. Len(list) \in Nat /\ \A i \in 1 .. Len(list) : list[i] \in S
  BY LenProperties
<1>2. m \in Int /\ Len(list) \in Int /\ \A i \in m .. Len(list) : list[i] \in S
  BY <1>1
<1>3. /\ rest \in Seq(S)
      /\ Len(rest) = IF m <= Len(list) THEN Len(list) - m + 1 ELSE 0
      /\ \A i \in 1 .. Len(list) - m + 1 : rest[i] = list[m + i - 1]
  BY <1>2, SubSeqProperties
<1> HIDE DEF rest
<1>4. \A i \in 1 .. Len(rest) : rest[i] = list[m + i - 1] /\ m + i - 1 \in 1 .. Len(list) /\ i \in Nat
  BY <1>1, <1>2, <1>3
<1>5. Once(rest)
  <2> SUFFICES ASSUME NEW i \in 1 .. Len(rest), NEW j \in 1 .. Len(rest),
                      rest[i].do = "init", rest[j].do = "init"
               PROVE  i = j
    BY DEF Once
  <2>1. m + i - 1 = m + j - 1
    BY <1>4 DEF Once
  <2>. QED  BY <1>2, <1>4, <2>1
<1>6. Pending(rest) => Pending(list)
  BY <1>4 DEF Pending
<1>. QED  BY <1>3, <1>5, <1>6 DEF rest

(* Two lists of which at most one initialises make a list that does so at most once. *)
LEMMA ConcatOnce ==
  ASSUME NEW S, NEW a \in Seq(S), NEW b \in Seq(S), Once(a), Once(b), ~(Pending(a) /\ Pending(b))
  PROVE  a \o b \in Seq(S) /\ Once(a \o b) /\ (Pending(a \o b) => Pending(a) \/ Pending(b))
<1>1. Len(a) \in Nat /\ Len(b) \in Nat
  BY LenProperties
<1>2. /\ a \o b \in Seq(S) /\ Len(a \o b) = Len(a) + Len(b)
      /\ \A i \in 1 .. Len(a) + Len(b) : (a \o b)[i] = IF i <= Len(a) THEN a[i] ELSE b[i - Len(a)]
  BY ConcatProperties
<1> DEFINE c == a \o b
<1> HIDE DEF c
<1>3. ASSUME NEW i \in 1 .. Len(c), c[i].do = "init"
      PROVE  \/ i \in 1 .. Len(a) /\ a[i].do = "init" /\ Pending(a)
             \/ i - Len(a) \in 1 .. Len(b) /\ b[i - Len(a)].do = "init" /\ Pending(b) /\ i > Len(a)
  <2>1. CASE i <= Len(a)
    <3>1. c[i] = a[i] /\ i \in 1 .. Len(a)
      BY <1>1, <1>2, <2>1 DEF c
    <3>. QED  BY <1>3, <3>1 DEF Pending
  <2>2. CASE i > Len(a)
    <3>1. c[i] = b[i - Len(a)] /\ i - Len(a) \in 1 .. Len(b)
      BY <1>1, <1>2, <2>2 DEF c
    <3>. QED  BY <1>3, <2>2, <3>1 DEF Pending
  <2>. QED  BY <1>1, <2>1, <2>2
<1>4. Once(c)
  <2> SUFFICES ASSUME NEW i \in 1 .. Len(c), NEW j \in 1 .. Len(c), c[i].do = "init", c[j].do = "init"
               PROVE  i = j
    BY DEF Once
  <2>1. CASE Pending(a)
    <3>1. i \in 1 .. Len(a) /\ a[i].do = "init" /\ j \in 1 .. Len(a) /\ a[j].do = "init"
      BY <1>3, <2>1
    <3>. QED  BY <3>1 DEF Once
  <2>2. CASE ~Pending(a)
    <3>1. /\ i - Len(a) \in 1 .. Len(b) /\ b[i - Len(a)].do = "init"
          /\ j - Len(a) \in 1 .. Len(b) /\ b[j - Len(a)].do = "init"
      BY <1>3, <2>2
    <3>2. i - Len(a) = j - Len(a)
      BY <3>1 DEF Once
    <3>. QED  BY <1>1, <3>2
  <2>. QED  BY <2>1, <2>2
<1>5. Pending(c) => Pending(a) \/ Pending(b)
  <2>1. ASSUME Pending(c) PROVE Pending(a) \/ Pending(b)
    <3>1. PICK i \in 1 .. Len(c) : c[i].do = "init"
      BY <2>1 DEF Pending
    <3>. QED  BY <1>3, <3>1
  <2>. QED  BY <2>1
<1>. QED  BY <1>2, <1>4, <1>5 DEF c

(* A list of calls none of which initialises. *)
LEMMA TameOnce ==
  ASSUME NEW k, NEW flag, NEW list \in Seq(Tame(k, flag))
  PROVE  list \in Seq(Calls(k, flag)) /\ Once(list) /\ ~Pending(list)
<1>1. \A i \in 1 .. Len(list) : list[i] \in Tame(k, flag)
  BY ElementOfSeq
<1>2. Tame(k, flag) \subseteq Calls(k, flag)
  BY DEF Tame
<1>3. list \in Seq(Calls(k, flag))
  BY <1>2, SeqMonotonic
<1>. QED  BY <1>1, <1>3 DEF Once, Pending, Tame

-----------------------------------------------------------------------------
(* The programs.                                                            *)

(* Names of containers and volumes are told apart by their role. *)
LEMMA Names ==
  /\ \A i \in 1 .. MaxNodes : Node(i) \in Nodes
  /\ \A v \in Nodes : v[2] \in 1 .. MaxNodes /\ v[1] = "crdb" /\ v = Node(v[2])
  /\ {Toxiproxy, Prometheus, Grafana, Workload} \subseteq Containers
  /\ Nodes \subseteq Containers /\ Nodes \subseteq Volumes /\ Volumes \subseteq Containers
  /\ {Prometheus, Grafana} \subseteq Volumes
  /\ Prometheus \notin Nodes /\ Grafana \notin Nodes /\ Toxiproxy \notin Nodes /\ Workload \notin Nodes
  /\ Prometheus # Toxiproxy /\ Grafana # Toxiproxy
<1>1. \A i \in 1 .. MaxNodes : Node(i) \in Nodes
  BY DEF Nodes
<1>2. \A v \in Nodes : v[2] \in 1 .. MaxNodes /\ v[1] = "crdb" /\ v = Node(v[2])
  BY DEF Nodes, Node
<1>3. /\ {Toxiproxy, Prometheus, Grafana, Workload} \subseteq Containers
      /\ Nodes \subseteq Containers /\ Nodes \subseteq Volumes /\ Volumes \subseteq Containers
      /\ {Prometheus, Grafana} \subseteq Volumes
  BY DEF Containers, Volumes
<1>4. Prometheus[1] # "crdb" /\ Grafana[1] # "crdb" /\ Toxiproxy[1] # "crdb" /\ Workload[1] # "crdb"
  BY DEF Prometheus, Grafana, Toxiproxy, Workload
<1>5. Prometheus # Toxiproxy /\ Grafana # Toxiproxy
  BY DEF Prometheus, Grafana, Toxiproxy
<1>. QED  BY <1>1, <1>2, <1>3, <1>4, <1>5

(* The fields of a call. *)
LEMMA CallIs ==
  ASSUME NEW do, NEW part, NEW on
  PROVE  LET x == Call(do, part, on) IN x.do = do /\ x.part = part /\ x.on = on /\ x.set = {}
BY DEF Call

(* Calls built by the programs are calls a command may make; only the collection of
   volumes asks what command it is. *)
LEMMA TameCalls ==
  ASSUME NEW k, NEW flag
  PROVE  /\ \A v \in Volumes, p \in Parts : Call("volume", p, v) \in Tame(k, flag)
         /\ \A c \in Containers, p \in Parts, d \in {"create", "start", "list"} :
              Call(d, p, c) \in Tame(k, flag)
         /\ \A c \in Nodes, p \in Parts, d \in {"register", "up", "down"} : Call(d, p, c) \in Tame(k, flag)
         /\ \A v \in {Prometheus, Grafana}, p \in Parts : Call("obs-volume", p, v) \in Tame(k, flag)
         /\ \A p \in Parts, d \in {"network", "toxiproxy", "ready", "volumes", "image", "remove-network"} :
              OnAll(d, p) \in Tame(k, flag)
         /\ Purging(k, flag) => \A p \in Parts : OnAll("collect", p) \in Tame(k, flag)
         /\ \A p \in Parts : OnAll("init", p) \in Calls(k, flag)
<1>1. \A v \in Volumes, p \in Parts : Call("volume", p, v) \in Tame(k, flag)
  BY Names DEF Call, Tame, Calls, Dos
<1>2. \A c \in Containers, p \in Parts, d \in {"create", "start", "list"} :
        Call(d, p, c) \in Tame(k, flag)
  BY Names DEF Call, Tame, Calls, Dos
<1>3. \A c \in Nodes, p \in Parts, d \in {"register", "up", "down"} : Call(d, p, c) \in Tame(k, flag)
  BY Names DEF Call, Tame, Calls, Dos
<1>4. \A v \in {Prometheus, Grafana}, p \in Parts : Call("obs-volume", p, v) \in Tame(k, flag)
  BY Names DEF Call, Tame, Calls, Dos
<1>5. \A p \in Parts, d \in {"network", "toxiproxy", "ready", "volumes", "image", "remove-network"} :
        OnAll(d, p) \in Tame(k, flag)
  BY Names DEF OnAll, Call, Tame, Calls, Dos
<1>6. Purging(k, flag) => \A p \in Parts : OnAll("collect", p) \in Tame(k, flag)
  BY Names DEF OnAll, Call, Tame, Calls, Dos
<1>7. \A p \in Parts : OnAll("init", p) \in Calls(k, flag)
  BY Names DEF OnAll, Call, Calls, Dos
<1>. QED  BY <1>1, <1>2, <1>3, <1>4, <1>5, <1>6, <1>7

(* The parts the programs name. *)
LEMMA PartNames ==
  /\ "nodes" \in Parts /\ "network" \in Parts /\ "toxiproxy" \in Parts /\ "collect" \in Parts
  /\ "cluster" \in Parts /\ "baseline" \in Parts /\ "obs" \in Parts /\ "image" \in Parts
  /\ "existing" \in Parts /\ "workload" \in Parts /\ "proxies" \in Parts /\ "scale" \in Parts
BY DEF Parts

(* Lists written out, and lists joined. *)
LEMMA TuplesAreLists ==
  ASSUME NEW S
  PROVE  /\ << >> \in Seq(S)
         /\ \A a \in S : <<a>> \in Seq(S)
         /\ \A a, b \in S : <<a, b>> \in Seq(S)
         /\ \A a, b, c \in S : <<a, b, c>> \in Seq(S)
         /\ \A a, b, c, d \in S : <<a, b, c, d>> \in Seq(S)
         /\ \A a, b, c, d, e, f \in S : <<a, b, c, d, e, f>> \in Seq(S)
         /\ \A p, q \in Seq(S) : p \o q \in Seq(S)
OBVIOUS

(* The calls that start one node. *)
LEMMA NodeCalls ==
  ASSUME NEW k, NEW flag, NEW i \in 1 .. MaxNodes
  PROVE  startCRDBNode(i) \in Seq(Tame(k, flag)) /\ \A j \in 1 .. 3 : startCRDBNode(i)[j] \in Tame(k, flag)
<1>1. Node(i) \in Volumes /\ Node(i) \in Containers
  BY Names
<1>2. /\ Call("volume", "nodes", Node(i)) \in Tame(k, flag)
      /\ Call("create", "nodes", Node(i)) \in Tame(k, flag)
      /\ Call("start", "nodes", Node(i)) \in Tame(k, flag)
  BY <1>1, TameCalls, PartNames
<1>. QED  BY <1>2 DEF startCRDBNode

(* The calls of the loop over the nodes. *)
LEMMA StartNodes ==
  ASSUME NEW k, NEW flag, NEW n \in 1 .. MaxNodes
  PROVE  startNodes(n) \in Seq(Tame(k, flag))
<1>1. n \in Nat /\ 3 * n \in Nat
  BY NodesAssumption
<1>2. ASSUME NEW j \in 1 .. (3 * n)
      PROVE  startCRDBNode(1 + ((j - 1) \div 3))[1 + ((j - 1) % 3)] \in Tame(k, flag)
  <2>1. 1 + ((j - 1) \div 3) \in 1 .. MaxNodes /\ 1 + ((j - 1) % 3) \in 1 .. 3
    BY <1>1, NodesAssumption
  <2>. QED  BY <2>1, NodeCalls
<1>. QED  BY <1>1, <1>2 DEF startNodes

(* The calls of ApplyRegionalLatencies. *)
LEMMA Latencies ==
  ASSUME NEW k, NEW flag, NEW n \in 1 .. MaxNodes
  PROVE  ApplyRegionalLatencies(n) \in Seq(Tame(k, flag))
<1>1. n \in Nat /\ 2 * n \in Nat
  BY NodesAssumption
<1>2. ASSUME NEW j \in 1 .. (2 * n)
      PROVE  Call(IF j % 2 = 1 THEN "up" ELSE "down", "baseline", Node((j + 1) \div 2)) \in Tame(k, flag)
  <2>1. (j + 1) \div 2 \in 1 .. MaxNodes
    BY <1>1, NodesAssumption
  <2>2. Node((j + 1) \div 2) \in Nodes
    BY <2>1, Names
  <2>. QED  BY <2>2, TameCalls, PartNames
<1>. QED  BY <1>1, <1>2 DEF ApplyRegionalLatencies

(* The calls of EnsureProxies and EnsureToxiproxy. *)
LEMMA Proxies ==
  ASSUME NEW k, NEW flag, NEW n \in 0 .. MaxNodes
  PROVE  EnsureProxies(n) \in Seq(Tame(k, flag)) /\ NewToxiproxy(n) \in Seq(Tame(k, flag))
<1>1. n \in Nat /\ \A i \in 1 .. n : Node(i) \in Nodes
  BY NodesAssumption, Names
<1>2. EnsureProxies(n) \in Seq(Tame(k, flag))
  <2>1. \A i \in 1 .. n : Call("register", "proxies", Node(i)) \in Tame(k, flag)
    BY <1>1, TameCalls, PartNames
  <2>. QED  BY <1>1, <2>1 DEF EnsureProxies
<1>3. [i \in 1 .. n |-> Call("register", "toxiproxy", Node(i))] \in Seq(Tame(k, flag))
  <2>1. \A i \in 1 .. n : Call("register", "toxiproxy", Node(i)) \in Tame(k, flag)
    BY <1>1, TameCalls, PartNames
  <2>. QED  BY <1>1, <2>1
<1>4. << Call("list", "toxiproxy", Toxiproxy), Call("create", "toxiproxy", Toxiproxy),
         Call("start", "toxiproxy", Toxiproxy) >> \in Seq(Tame(k, flag))
  BY Names, TameCalls, PartNames, TuplesAreLists
<1>. QED  BY <1>2, <1>3, <1>4, TuplesAreLists DEF NewToxiproxy

(* The programs that do not depend on the number of nodes.  DestroyCluster collects
   volumes only when it purges. *)
LEMMA FixedPrograms ==
  ASSUME NEW k, NEW flag
  PROVE  /\ SetupObs \in Seq(Tame(k, flag)) /\ TeardownObs \in Seq(Tame(k, flag))
         /\ StartWorkload \in Seq(Tame(k, flag)) /\ StopWorkload \in Seq(Tame(k, flag))
         /\ DestroyCluster(Purging(k, flag)) \in Seq(Tame(k, flag))
         /\ <<OnAll("remove-network", "network")>> \in Seq(Tame(k, flag))
         /\ <<OnAll("toxiproxy", "toxiproxy")>> \in Seq(Tame(k, flag))
<1> USE PartNames
<1>0. Prometheus \in Containers /\ Grafana \in Containers /\ Workload \in Containers
      /\ Toxiproxy \in Containers /\ Node(1) \in Containers /\ Prometheus \in Volumes /\ Grafana \in Volumes
  BY Names, NodesAssumption
<1>1. SetupObs \in Seq(Tame(k, flag))
  BY <1>0, TameCalls, TuplesAreLists DEF SetupObs
<1>2. TeardownObs \in Seq(Tame(k, flag))
  BY <1>0, TameCalls, TuplesAreLists DEF TeardownObs
<1>3. StartWorkload \in Seq(Tame(k, flag))
  BY <1>0, TameCalls, TuplesAreLists DEF StartWorkload
<1>4. StopWorkload \in Seq(Tame(k, flag))
  BY <1>0, TameCalls, TuplesAreLists DEF StopWorkload
<1>5. DestroyCluster(Purging(k, flag)) \in Seq(Tame(k, flag))
  <2>1. <<Call("list", "cluster", Node(1)), Call("list", "cluster", Toxiproxy), OnAll("volumes", "cluster")>>
          \in Seq(Tame(k, flag))
    BY <1>0, TameCalls, TuplesAreLists
  <2>2. (IF Purging(k, flag) THEN <<OnAll("collect", "collect")>> ELSE << >>) \in Seq(Tame(k, flag))
    BY TameCalls, TuplesAreLists
  <2>. QED  BY <2>1, <2>2, TuplesAreLists DEF DestroyCluster
<1>6. <<OnAll("remove-network", "network")>> \in Seq(Tame(k, flag))
      /\ <<OnAll("toxiproxy", "toxiproxy")>> \in Seq(Tame(k, flag))
  BY TameCalls, TuplesAreLists
<1>. QED  BY <1>1, <1>2, <1>3, <1>4, <1>5, <1>6

(* CreateCluster initialises once. *)
LEMMA CreateCalls ==
  ASSUME NEW k, NEW flag, NEW n \in 1 .. MaxNodes
  PROVE  CreateCluster(n) \in Seq(Calls(k, flag)) /\ Once(CreateCluster(n))
<1> DEFINE a == <<OnAll("network", "network"), OnAll("toxiproxy", "toxiproxy")>> \o startNodes(n)
           b == <<OnAll("ready", "nodes"), OnAll("init", "nodes")>>
<1>1. a \in Seq(Tame(k, flag))
  BY TameCalls, PartNames, TuplesAreLists, StartNodes
<1>2. a \in Seq(Calls(k, flag)) /\ Once(a) /\ ~Pending(a)
  BY <1>1, TameOnce
<1>3. b \in Seq(Calls(k, flag))
  <2>1. OnAll("ready", "nodes") \in Calls(k, flag) /\ OnAll("init", "nodes") \in Calls(k, flag)
    BY TameCalls, PartNames DEF Tame
  <2>. QED  BY <2>1
<1>4. Once(b)
  <2>1. Len(b) = 2 /\ b[1].do = "ready" /\ b[2].do = "init"
    BY CallIs DEF OnAll
  <2> HIDE DEF b
  <2>. QED  BY <2>1 DEF Once
<1>5. CreateCluster(n) = a \o b
  BY DEF CreateCluster
<1> HIDE DEF a, b
<1>. QED  BY <1>2, <1>3, <1>4, <1>5, ConcatOnce

(* Every command's program is made of calls it may make, with at most one
   initialisation. *)
LEMMA ProgramCalls ==
  ASSUME NEW k \in Kinds, NEW n \in 1 .. MaxNodes, NEW flag \in BOOLEAN, k # "scale"
  PROVE  Program(k, n, flag) \in Seq(Calls(k, flag)) /\ Once(Program(k, n, flag))
<1>a. n \in 0 .. MaxNodes
  BY NodesAssumption
<1> USE FixedPrograms, TuplesAreLists
<1>0. SUFFICES ASSUME k \notin {"create", "quickstart"}
               PROVE  Program(k, n, flag) \in Seq(Tame(k, flag))
  <2>1. CASE k \notin {"create", "quickstart"}
    BY <1>0, <2>1, TameOnce
  <2>2. CASE k = "create"
    BY <2>2, CreateCalls DEF Program
  <2>3. CASE k = "quickstart"
    <3> DEFINE lat == IF flag THEN ApplyRegionalLatencies(n) ELSE << >>
    <3>1. lat \in Seq(Tame(k, flag))
      BY Latencies
    <3>2. /\ SetupObs \in Seq(Tame(k, flag)) /\ StartWorkload \in Seq(Tame(k, flag))
      OBVIOUS
    <3>3. /\ lat \in Seq(Calls(k, flag)) /\ Once(lat) /\ ~Pending(lat)
          /\ SetupObs \in Seq(Calls(k, flag)) /\ Once(SetupObs) /\ ~Pending(SetupObs)
          /\ StartWorkload \in Seq(Calls(k, flag)) /\ Once(StartWorkload) /\ ~Pending(StartWorkload)
      BY <3>1, <3>2, TameOnce
    <3>4. CreateCluster(n) \in Seq(Calls(k, flag)) /\ Once(CreateCluster(n))
      BY CreateCalls
    <3>5. Program(k, n, flag) = ((CreateCluster(n) \o lat) \o SetupObs) \o StartWorkload
      BY <2>3 DEF Program
    <3> HIDE DEF lat
    <3>6. CreateCluster(n) \o lat \in Seq(Calls(k, flag)) /\ Once(CreateCluster(n) \o lat)
      BY <3>3, <3>4, ConcatOnce
    <3>7. /\ (CreateCluster(n) \o lat) \o SetupObs \in Seq(Calls(k, flag))
          /\ Once((CreateCluster(n) \o lat) \o SetupObs)
      BY <3>3, <3>6, ConcatOnce
    <3>8. /\ ((CreateCluster(n) \o lat) \o SetupObs) \o StartWorkload \in Seq(Calls(k, flag))
          /\ Once(((CreateCluster(n) \o lat) \o SetupObs) \o StartWorkload)
      BY <3>3, <3>7, ConcatOnce
    <3>. QED  BY <3>5, <3>8
  <2>. QED  BY <2>1, <2>2, <2>3
<1>1. CASE k = "rm"
  BY <1>1 DEF Program
<1>2. CASE k = "destroy"
  BY <1>2 DEF Program
<1>3. CASE k \in {"workload-start", "workload-stop", "obs-setup", "obs-teardown"}
  BY <1>3 DEF Program
<1>4. CASE k = "chaos-setup"
  <2>1. EnsureProxies(n) \in Seq(Tame(k, flag))
    BY <1>a, Proxies
  <2>. QED  BY <1>4, <2>1 DEF Program
<1>. QED  BY <1>0, <1>1, <1>2, <1>3, <1>4 DEF Kinds

-----------------------------------------------------------------------------
(* The invariant.                                                           *)

(* A command and the calls it has still to make, but for scale before it has
   looked.  Volumes are collected by a command that purges and by no other. *)
Good(c) ==
  /\ c \in Commands
  /\ c.todo \in Seq(Calls(c.kind, c.flag)) /\ Once(c.todo)
  /\ c.vols # {} => Purging(c.kind, c.flag)

(* scale before it has looked: there is room for the node it will add. *)
AboutToLook(c) ==
  c \in Commands /\ c.kind = "scale" /\ c.todo = <<Looks>> /\ c.vols = {}

(* The command that runs or ran last. *)
CommandInv == Good(cmd) \/ (AboutToLook(cmd) /\ ct[Node(MaxNodes)] = "none")

(* A cluster is initialised at most once by a command. *)
CountInv ==
  /\ used \in [commands : Nat, faults : Nat] /\ used.commands =< MaxCommands
  /\ inits \in Nat /\ inits =< used.commands
  /\ Pending(cmd.todo) => inits < used.commands

(* What Docker holds; a volume never holds data of a cluster not yet initialised. *)
DockerInv ==
  /\ ct \in [Containers -> {"none", "stopped", "running"}]
  /\ vol \in [Volumes -> NoVolume .. inits]
  /\ net \in BOOLEAN
  /\ base \subseteq proxies \X Directions /\ proxies \subseteq 1 .. MaxNodes

(* The inductive invariant. *)
IndInv == DockerInv /\ CountInv /\ CommandInv

-----------------------------------------------------------------------------
(* What the updates of the record that stands for a command leave as it was.     *)

LEMMA NewList ==
  ASSUME NEW c, Good(c), NEW list \in Seq(Calls(c.kind, c.flag)), Once(list)
  PROVE  LET d == [c EXCEPT !.todo = list] IN Good(d) /\ d.todo = list /\ d.kind = c.kind /\ d.flag = c.flag
<1> DEFINE d == [c EXCEPT !.todo = list]
<1>1. c \in Commands
  BY DEF Good
<1>2. /\ d.todo = list /\ d.kind = c.kind /\ d.flag = c.flag /\ d.vols = c.vols
  BY <1>1 DEF Commands
<1>3. list \in Seq(AnyCall)
  BY CallsAreCalls
<1>4. d \in Commands
  BY <1>1, <1>3 DEF Commands
<1> HIDE DEF d
<1>5. Good(d)
  BY <1>2, <1>4 DEF Good
<1>. QED  BY <1>2, <1>5 DEF d

(* Collecting or crossing off volumes, which only a purging command does. *)
LEMMA NewVols ==
  ASSUME NEW c, Good(c), NEW S \in SUBSET Nodes, S # {} => Purging(c.kind, c.flag)
  PROVE  LET d == [c EXCEPT !.vols = S] IN Good(d) /\ d.todo = c.todo
<1> DEFINE d == [c EXCEPT !.vols = S]
<1>1. c \in Commands
  BY DEF Good
<1>2. /\ d.todo = c.todo /\ d.kind = c.kind /\ d.flag = c.flag /\ d.vols = S
  BY <1>1 DEF Commands
<1>4. d \in Commands
  BY <1>1 DEF Commands
<1> HIDE DEF d
<1>5. Good(d)
  BY <1>2, <1>4 DEF Good
<1>. QED  BY <1>2, <1>5 DEF d

(* Noting a fault. *)
LEMMA NewFaulty ==
  ASSUME NEW c
  PROVE  LET d == [c EXCEPT !.faulty = TRUE] IN
         /\ Good(c) => Good(d)
         /\ AboutToLook(c) => AboutToLook(d)
         /\ c \in Commands => d.todo = c.todo
<1> DEFINE d == [c EXCEPT !.faulty = TRUE]
<1>1. ASSUME c \in Commands
      PROVE  /\ d.todo = c.todo /\ d.kind = c.kind /\ d.flag = c.flag /\ d.vols = c.vols
             /\ d \in Commands
  BY <1>1 DEF Commands
<1> HIDE DEF d
<1>2. Good(c) => Good(d)
  BY <1>1 DEF Good
<1>3. AboutToLook(c) => AboutToLook(d)
  BY <1>1 DEF AboutToLook
<1>. QED  BY <1>1, <1>2, <1>3 DEF d

(* Ending a command. *)
LEMMA NewAt ==
  ASSUME NEW c, Good(c), NEW a \in {"run", "ok", "err"}
  PROVE  LET d == [c EXCEPT !.at = a] IN Good(d) /\ d.todo = c.todo
<1> DEFINE d == [c EXCEPT !.at = a]
<1>1. c \in Commands
  BY DEF Good
<1>2. /\ d.todo = c.todo /\ d.kind = c.kind /\ d.flag = c.flag /\ d.vols = c.vols
  BY <1>1 DEF Commands
<1>3. d \in Commands
  BY <1>1 DEF Commands
<1> HIDE DEF d
<1>4. Good(d)
  BY <1>2, <1>3 DEF Good
<1>. QED  BY <1>2, <1>4 DEF d

(* Giving up with an error, whatever was ahead. *)
LEMMA Abandoned ==
  ASSUME NEW c, Good(c) \/ AboutToLook(c)
  PROVE  LET d == [c EXCEPT !.at = "err", !.todo = << >>] IN Good(d) /\ d.todo = << >>
<1> DEFINE d == [c EXCEPT !.at = "err", !.todo = << >>]
<1>1. c \in Commands /\ (c.vols # {} => Purging(c.kind, c.flag))
  BY DEF Good, AboutToLook
<1>2. /\ d.todo = << >> /\ d.kind = c.kind /\ d.flag = c.flag /\ d.vols = c.vols
  BY <1>1 DEF Commands
<1>3. d \in Commands
  <2>1. << >> \in Seq(AnyCall)
    OBVIOUS
  <2>. QED  BY <1>1, <2>1 DEF Commands
<1>4. << >> \in Seq(Calls(c.kind, c.flag)) /\ Once(<< >>)
  BY DEF Once
<1> HIDE DEF d
<1>5. Good(d)
  BY <1>1, <1>2, <1>3, <1>4 DEF Good
<1>. QED  BY <1>2, <1>5 DEF d

(* Nothing is ahead of a command that has ended. *)
LEMMA EmptyIsNotPending == ~Pending(<< >>)
BY DEF Pending

(* Going on to the next call. *)
LEMMA Shorter ==
  ASSUME NEW c, Good(c), c.todo # << >>
  PROVE  LET d == [c EXCEPT !.todo = Tail(c.todo)] IN
         Good(d) /\ d.todo = Tail(c.todo) /\ d.kind = c.kind /\ d.flag = c.flag
         /\ (Pending(d.todo) => Pending(c.todo))
<1>1. c.todo \in Seq(Calls(c.kind, c.flag)) /\ Once(c.todo)
  BY DEF Good
<1>2. Tail(c.todo) \in Seq(Calls(c.kind, c.flag)) /\ Once(Tail(c.todo))
      /\ (Pending(Tail(c.todo)) => Pending(c.todo))
  BY <1>1, TailOnce
<1>. QED  BY <1>2, NewList

(* A call is replaced by another that initialises nothing, or by several. *)
LEMMA Replaced ==
  ASSUME NEW c, Good(c), c.todo # << >>, NEW list \in Seq(Tame(c.kind, c.flag))
  PROVE  LET d == [c EXCEPT !.todo = list \o Tail(c.todo)] IN
         Good(d) /\ d.todo = list \o Tail(c.todo) /\ (Pending(d.todo) => Pending(c.todo))
<1>1. c.todo \in Seq(Calls(c.kind, c.flag)) /\ Once(c.todo)
  BY DEF Good
<1>2. Tail(c.todo) \in Seq(Calls(c.kind, c.flag)) /\ Once(Tail(c.todo))
      /\ (Pending(Tail(c.todo)) => Pending(c.todo))
  BY <1>1, TailOnce
<1>3. list \in Seq(Calls(c.kind, c.flag)) /\ Once(list) /\ ~Pending(list)
  BY TameOnce
<1>4. list \o Tail(c.todo) \in Seq(Calls(c.kind, c.flag)) /\ Once(list \o Tail(c.todo))
      /\ (Pending(list \o Tail(c.todo)) => Pending(c.todo))
  BY <1>2, <1>3, ConcatOnce
<1>. QED  BY <1>4, NewList

(* A set of numbers up to m has a largest. *)
LEMMA MaxIn ==
  ASSUME NEW m \in Nat, NEW T \in SUBSET (0 .. m), T # {}
  PROVE  Max(T) \in T /\ \A y \in T : Max(T) >= y
<1>1. \E R : IsWellFoundedOn(R, Nat) /\ R = {x \in Nat \X Nat : x[1] < x[2]}
  BY NatLessThanWellFounded, Zenon DEF OpToRel
<1>2. PICK R : IsWellFoundedOn(R, Nat) /\ R = {x \in Nat \X Nat : x[1] < x[2]}
  BY <1>1
<1> DEFINE U == {m - i : i \in T}
<1>3. U \subseteq Nat /\ U # {}
  <2>1. \A i \in T : i \in 0 .. m /\ m - i \in Nat
    OBVIOUS
  <2>. QED  BY <2>1
<1>4. PICK u \in U : \A y \in U : ~(<<y, u>> \in R)
  BY <1>2, <1>3, WFMin
<1>5. PICK x \in T : u = m - x
  OBVIOUS
<1>6. \A y \in T : x >= y
  <2> SUFFICES ASSUME NEW y \in T PROVE x >= y
    OBVIOUS
  <2>1. m - y \in U /\ m - y \in Nat /\ m - x \in Nat
    OBVIOUS
  <2>2. ~(m - y < m - x)
    BY <1>2, <1>4, <1>5, <2>1
  <2>. QED  BY <2>2
<1>. QED  BY <1>6 DEF Max

(* After an error the command gives up, or skips the calls of a function whose
   error its caller tolerates: either way it has only calls ahead that it had. *)
LEMMA AfterError ==
  ASSUME Good(cmd), cmd.todo # << >>
  PROVE  Good(Error) /\ (Pending(Error.todo) => Pending(cmd.todo))
<1> DEFINE part == cmd.todo[1].part
           same == {i \in DOMAIN cmd.todo : \A j \in 1 .. i : cmd.todo[j].part = part}
<1>1. CASE part \in Tolerated(cmd.kind)
  <2>1. cmd.todo \in Seq(Calls(cmd.kind, cmd.flag)) /\ Once(cmd.todo)
    BY DEF Good
  <2>2. Len(cmd.todo) \in Nat /\ DOMAIN cmd.todo = 1 .. Len(cmd.todo) /\ 1 \in DOMAIN cmd.todo
    BY <2>1, LenProperties, EmptySeq
  <2>3. 1 \in same /\ same \in SUBSET (0 .. Len(cmd.todo)) /\ same \subseteq 1 .. Len(cmd.todo)
    BY <2>2
  <2>4. Max(same) \in 1 .. Len(cmd.todo)
    <3> HIDE DEF same
    <3>1. Max(same) \in same
      BY <2>2, <2>3, MaxIn
    <3>. QED  BY <2>3, <3>1
  <2> DEFINE m == 1 + Max(same)
  <2>5. m \in 1 .. (Len(cmd.todo) + 1)
    BY <2>2, <2>4
  <2>6. Error = [cmd EXCEPT !.todo = SubSeq(cmd.todo, m, Len(cmd.todo))]
    BY <1>1 DEF Error, Now
  <2> HIDE DEF m
  <2>7. /\ SubSeq(cmd.todo, m, Len(cmd.todo)) \in Seq(Calls(cmd.kind, cmd.flag))
        /\ Once(SubSeq(cmd.todo, m, Len(cmd.todo)))
        /\ Pending(SubSeq(cmd.todo, m, Len(cmd.todo))) => Pending(cmd.todo)
    BY <2>1, <2>5, SubSeqOnce
  <2>. QED  BY <2>6, <2>7, NewList
<1>2. CASE part \notin Tolerated(cmd.kind)
  <2>1. Error = [cmd EXCEPT !.at = "err", !.todo = << >>]
    BY <1>2 DEF Error
  <2>. QED  BY <2>1, Abandoned, EmptyIsNotPending
<1>. QED  BY <1>1, <1>2

-----------------------------------------------------------------------------
(* What a call finds when it is made.                                       *)

LEMMA AtHead ==
  ASSUME CommandInv, NEW d, d # "existing", Doing(d)
  PROVE  /\ Good(cmd) /\ cmd \in Commands /\ cmd.todo # << >>
         /\ cmd.todo[1] \in Calls(cmd.kind, cmd.flag) /\ cmd.todo[1].do = d
         /\ cmd.todo[1].set \subseteq Containers /\ On \in Containers
         /\ d = "volume" => On \in Volumes
         /\ d \in {"register", "up", "down"} => On \in Nodes
         /\ d = "obs-volume" => On \in {Prometheus, Grafana}
         /\ d = "collect" => Purging(cmd.kind, cmd.flag)
         /\ d = "init" => Pending(cmd.todo) /\ ~Pending(Tail(cmd.todo))
<1>1. cmd.todo # << >> /\ cmd.todo[1].do = d
  BY DEF Doing
<1>2. Good(cmd)
  <2>1. ASSUME AboutToLook(cmd) PROVE FALSE
    <3>1. cmd.todo[1] = Looks
      BY <2>1 DEF AboutToLook
    <3>2. Looks.do = "existing"
      BY CallIs DEF Looks, OnAll
    <3>. QED  BY <1>1, <3>1, <3>2
  <2>. QED  BY <2>1 DEF CommandInv
<1>3. cmd \in Commands /\ cmd.todo \in Seq(Calls(cmd.kind, cmd.flag)) /\ Once(cmd.todo)
  BY <1>2 DEF Good
<1>4. Len(cmd.todo) \in Nat /\ 1 \in 1 .. Len(cmd.todo) /\ cmd.todo[1] \in Calls(cmd.kind, cmd.flag)
  BY <1>1, <1>3, NonEmpty
<1>5. ASSUME d = "init" PROVE Pending(cmd.todo) /\ ~Pending(Tail(cmd.todo))
  <2>1. Pending(cmd.todo)
    BY <1>1, <1>4, <1>5 DEF Pending
  <2>2. ASSUME NEW i \in 1 .. Len(Tail(cmd.todo)), Tail(cmd.todo)[i].do = "init" PROVE FALSE
    <3>1. /\ Len(Tail(cmd.todo)) = Len(cmd.todo) - 1
          /\ Tail(cmd.todo)[i] = cmd.todo[i + 1]
      BY <1>1, <1>3, HeadTailProperties
    <3>2. i + 1 \in 1 .. Len(cmd.todo) /\ i + 1 # 1
      BY <1>4, <3>1
    <3>. QED  BY <1>1, <1>3, <1>4, <1>5, <2>2, <3>1, <3>2 DEF Once
  <2>. QED  BY <2>1, <2>2 DEF Pending
<1>6. /\ cmd.todo[1].set \subseteq Containers /\ On \in Containers
      /\ d = "volume" => On \in Volumes
      /\ d \in {"register", "up", "down"} => On \in Nodes
      /\ d = "obs-volume" => On \in {Prometheus, Grafana}
      /\ d = "collect" => Purging(cmd.kind, cmd.flag)
  BY <1>1, <1>4 DEF Calls, On
<1>. QED  BY <1>1, <1>2, <1>3, <1>4, <1>5, <1>6

(* The command after a call that did what it should. *)
LEMMA AfterRest ==
  ASSUME Good(cmd), cmd.todo # << >>
  PROVE  Good(Rest) /\ Rest.todo = Tail(cmd.todo) /\ Rest.kind = cmd.kind /\ Rest.flag = cmd.flag
         /\ (Pending(Rest.todo) => Pending(cmd.todo))
BY Shorter DEF Rest, Now

(* The command after one of the containers listed is crossed off. *)
LEMMA AfterWithout ==
  ASSUME CommandInv, Doing("remove"), NEW c
  PROVE  Good(Without(c)) /\ (Pending(Without(c).todo) => Pending(cmd.todo))
<1>1. Good(cmd) /\ cmd.todo # << >> /\ cmd.todo[1] \in Calls(cmd.kind, cmd.flag) /\ cmd.todo[1].do = "remove"
  BY AtHead
<1> DEFINE x == [cmd.todo[1] EXCEPT !.set = @ \ {c}]
<1>2. x \in Tame(cmd.kind, cmd.flag)
  BY <1>1 DEF Tame, Calls
<1>3. <<x>> \in Seq(Tame(cmd.kind, cmd.flag))
  BY <1>2, TuplesAreLists
<1>4. Without(c) = [cmd EXCEPT !.todo = <<x>> \o Tail(cmd.todo)]
  BY DEF Without, Now
<1> HIDE DEF x
<1>. QED  BY <1>1, <1>3, <1>4, Replaced

(* A step that initialises nothing and leaves the command with calls it may make. *)
LEMMA Keeps ==
  ASSUME IndInv, Good(cmd'), Pending(cmd'.todo) => Pending(cmd.todo),
         inits' = inits, used' = used \/ Fault, DockerInv'
  PROVE  IndInv'
<1>1. used' \in [commands : Nat, faults : Nat] /\ used'.commands = used.commands
  BY DEF IndInv, CountInv, Fault
<1>2. CountInv'
  BY <1>1 DEF IndInv, CountInv
<1>3. CommandInv'
  BY DEF CommandInv
<1>. QED  BY <1>2, <1>3 DEF IndInv

(* A step that leaves Docker alone. *)
LEMMA SameDocker ==
  ASSUME DockerInv, UNCHANGED dockerVars PROVE DockerInv'
BY DEF DockerInv, dockerVars

-----------------------------------------------------------------------------
(* The steps.                                                               *)

(* Nothing exists at first. *)
LEMMA InitHolds == Init => IndInv
<1> SUFFICES ASSUME Init PROVE IndInv
  OBVIOUS
<1> USE DEF Init
<1>1. DockerInv
  <2>1. inits = 0 /\ NoVolume \in NoVolume .. 0
    BY DEF NoVolume
  <2>2. vol \in [Volumes -> NoVolume .. inits]
    BY <2>1
  <2>. QED  BY <2>2 DEF DockerInv
<1>2. NoCommand \in Commands /\ NoCommand.todo = << >> /\ NoCommand.vols = {}
  BY NodesAssumption DEF NoCommand, Commands
<1>3. CountInv
  BY <1>2, EmptyIsNotPending, BoundsAssumption DEF CountInv
<1>4. Good(cmd)
  BY <1>2 DEF Good, Once
<1>. QED  BY <1>1, <1>3, <1>4 DEF IndInv, CommandInv

(* Calls that touch the network or nothing at all. *)
LEMMA PlainCalls ==
  ASSUME IndInv, waitForNodes \/ BuildWorkloadImage \/ Removed \/ EnsureNetwork \/ RemoveNetwork
  PROVE  IndInv'
<1>1. DockerInv'
  BY DEF IndInv, DockerInv, waitForNodes, BuildWorkloadImage, Removed, EnsureNetwork, RemoveNetwork, dockerVars
<1>2. /\ inits' = inits /\ used' = used
      /\ cmd' = Rest \/ cmd' = Error
      /\ \E d \in Dos : Doing(d)
  BY DEF waitForNodes, BuildWorkloadImage, Removed, EnsureNetwork, RemoveNetwork, dockerVars, Dos
<1>3. Good(cmd) /\ cmd.todo # << >>
  BY <1>2, AtHead DEF IndInv, Dos
<1>4. Good(cmd') /\ (Pending(cmd'.todo) => Pending(cmd.todo))
  BY <1>2, <1>3, AfterRest, AfterError
<1>. QED  BY <1>1, <1>2, <1>4, Keeps

(* EnsureToxiproxy puts the calls that start it in front. *)
LEMMA EnsureToxiproxyHolds ==
  ASSUME IndInv, EnsureToxiproxy PROVE IndInv'
<1>1. DockerInv' /\ inits' = inits /\ used' = used
  BY SameDocker DEF IndInv, EnsureToxiproxy, dockerVars
<1>2. Good(cmd) /\ cmd \in Commands /\ cmd.todo # << >>
  BY AtHead DEF IndInv, EnsureToxiproxy
<1> DEFINE list == IF ct[Toxiproxy] = "running" THEN << >> ELSE NewToxiproxy(cmd.n)
<1>3. list \in Seq(Tame(cmd.kind, cmd.flag))
  <2>1. cmd.n \in 0 .. MaxNodes
    BY <1>2 DEF Commands
  <2>2. NewToxiproxy(cmd.n) \in Seq(Tame(cmd.kind, cmd.flag))
    BY <2>1, Proxies
  <2>. QED  BY <2>2, TuplesAreLists
<1>4. cmd' = [cmd EXCEPT !.todo = list \o Tail(cmd.todo)]
  BY DEF EnsureToxiproxy, Now
<1> HIDE DEF list
<1>5. Good(cmd') /\ (Pending(cmd'.todo) => Pending(cmd.todo))
  BY <1>2, <1>3, <1>4, Replaced
<1>. QED  BY <1>1, <1>5, Keeps

(* ContainerCreate. *)
LEMMA ContainerCreateHolds ==
  ASSUME IndInv, ContainerCreate PROVE IndInv'
<1>1. Good(cmd) /\ cmd.todo # << >> /\ On \in Containers
  BY AtHead DEF IndInv, ContainerCreate
<1>2. DockerInv'
  BY <1>1 DEF IndInv, DockerInv, ContainerCreate
<1>3. inits' = inits /\ used' = used /\ (cmd' = Rest \/ cmd' = Error)
  BY DEF ContainerCreate
<1>4. Good(cmd') /\ (Pending(cmd'.todo) => Pending(cmd.todo))
  BY <1>1, <1>3, AfterRest, AfterError
<1>. QED  BY <1>2, <1>3, <1>4, Keeps

(* ContainerStart: Toxiproxy starts with neither proxies nor toxics. *)
LEMMA ContainerStartHolds ==
  ASSUME IndInv, ContainerStart PROVE IndInv'
<1>1. Good(cmd) /\ cmd.todo # << >> /\ On \in Containers
  BY AtHead DEF IndInv, ContainerStart
<1>2. DockerInv'
  BY <1>1 DEF IndInv, DockerInv, ContainerStart
<1>3. inits' = inits /\ used' = used /\ (cmd' = Rest \/ cmd' = Error)
  BY DEF ContainerStart
<1>4. Good(cmd') /\ (Pending(cmd'.todo) => Pending(cmd.todo))
  BY <1>1, <1>3, AfterRest, AfterError
<1>. QED  BY <1>2, <1>3, <1>4, Keeps

(* RegisterProxy registers only nodes. *)
LEMMA RegisterHolds ==
  ASSUME IndInv, RegisterProxy PROVE IndInv'
<1>1. Good(cmd) /\ cmd.todo # << >> /\ On \in Nodes
  BY AtHead DEF IndInv, RegisterProxy
<1>2. On[2] \in 1 .. MaxNodes
  BY <1>1, Names
<1>3. DockerInv'
  BY <1>2 DEF IndInv, DockerInv, RegisterProxy
<1>4. inits' = inits /\ used' = used /\ (cmd' = Rest \/ cmd' = Error)
  BY DEF RegisterProxy
<1>5. Good(cmd') /\ (Pending(cmd'.todo) => Pending(cmd.todo))
  BY <1>1, <1>4, AfterRest, AfterError
<1>. QED  BY <1>3, <1>4, <1>5, Keeps

(* InjectBaseline adds a toxic only to a proxy that is there. *)
LEMMA InjectHolds ==
  ASSUME IndInv, NEW d \in Directions, InjectBaseline(d) PROVE IndInv'
<1>1. Good(cmd) /\ cmd.todo # << >> /\ On \in Nodes
  BY AtHead DEF IndInv, InjectBaseline, Directions
<1>2. DockerInv'
  BY DEF IndInv, DockerInv, InjectBaseline
<1>3. inits' = inits /\ used' = used /\ (cmd' = Rest \/ cmd' = Error)
  BY DEF InjectBaseline
<1>4. Good(cmd') /\ (Pending(cmd'.todo) => Pending(cmd.todo))
  BY <1>1, <1>3, AfterRest, AfterError
<1>. QED  BY <1>2, <1>3, <1>4, Keeps

(* EnsureVolume. *)
LEMMA EnsureVolumeHolds ==
  ASSUME IndInv, EnsureVolume PROVE IndInv'
<1>1. Good(cmd) /\ cmd.todo # << >> /\ On \in Volumes
  BY AtHead DEF IndInv, EnsureVolume
<1>2. DockerInv'
  BY <1>1 DEF IndInv, DockerInv, CountInv, EnsureVolume, NoVolume, Blank
<1>3. inits' = inits /\ used' = used /\ cmd' = Rest
  BY DEF EnsureVolume
<1>4. Good(cmd') /\ (Pending(cmd'.todo) => Pending(cmd.todo))
  BY <1>1, <1>3, AfterRest
<1>. QED  BY <1>2, <1>3, <1>4, Keeps

(* initCluster: the command had no other initialisation ahead, so the number of
   clusters does not pass that of commands. *)
LEMMA InitClusterHolds ==
  ASSUME IndInv, initCluster PROVE IndInv'
<1>1. /\ Good(cmd) /\ cmd \in Commands /\ cmd.todo # << >>
      /\ Pending(cmd.todo) /\ ~Pending(Tail(cmd.todo))
  BY AtHead DEF IndInv, initCluster
<1>2. inits \in Nat /\ inits < used.commands /\ vol \in [Volumes -> NoVolume .. inits]
  BY <1>1 DEF IndInv, CountInv, DockerInv
<1>3. inits' \in {inits, inits + 1} /\ vol' \in [Volumes -> NoVolume .. inits']
  <2>1. CASE vol' = vol /\ inits' = inits
    BY <1>2, <2>1
  <2>2. CASE vol' = [vol EXCEPT ![Node(1)] = inits + 1] /\ inits' = inits + 1
    <3>1. inits + 1 \in NoVolume .. (inits + 1) /\ \A v \in Volumes : vol[v] \in NoVolume .. (inits + 1)
      BY <1>2 DEF NoVolume
    <3>. QED  BY <1>2, <2>2, <3>1
  <2>. QED  BY <2>1, <2>2 DEF initCluster
<1>4. used' = used /\ cmd' = Rest /\ ct' = ct /\ net' = net /\ proxies' = proxies /\ base' = base
  BY DEF initCluster
<1>5. Good(cmd') /\ ~Pending(cmd'.todo)
  BY <1>1, <1>4, AfterRest
<1>6. CountInv'
  BY <1>2, <1>3, <1>4, <1>5 DEF IndInv, CountInv
<1>7. DockerInv'
  BY <1>3, <1>4 DEF IndInv, DockerInv
<1>. QED  BY <1>5, <1>6, <1>7 DEF IndInv, CommandInv

(* NodeJoins: a node that joins takes the data of a cluster that was there. *)
LEMMA NodeJoinsHolds ==
  ASSUME IndInv, NEW c \in Nodes, NodeJoins(c) PROVE IndInv'
<1>1. PICK k \in Joinable(c) : vol' = [vol EXCEPT ![c] = k]
  BY DEF NodeJoins
<1>2. UNCHANGED <<ct, net, proxies, base, inits, cmd, used>>
  BY DEF NodeJoins
<1>3. k \in NoVolume .. inits
  BY Names DEF IndInv, DockerInv, Joinable
<1>4. DockerInv'
  BY <1>1, <1>2, <1>3 DEF IndInv, DockerInv
<1>. QED  BY <1>2, <1>4 DEF IndInv, CountInv, CommandInv

(* A node that joins takes the store of a cluster it can reach, and nothing else changes. *)
LEMMA JoinEffect ==
  ASSUME IndInv, NEW c \in Nodes, NodeJoins(c)
  PROVE  /\ UNCHANGED <<ct, net, proxies, base, join, inits, cmd>>
         /\ ct[c] = "running" /\ vol[c] = Blank
         /\ vol'[c] \in Joinable(c) /\ \A v : v # c => vol'[v] = vol[v]
<1>1. PICK k \in Joinable(c) : vol' = [vol EXCEPT ![c] = k]
  BY DEF NodeJoins
<1>2. c \in DOMAIN vol
  BY DEF IndInv, DockerInv, Volumes
<1>. QED  BY <1>1, <1>2 DEF NodeJoins

(* scale finds room for the node it adds. *)
LEMMA AddNodeHolds ==
  ASSUME IndInv, AddNode PROVE IndInv'
<1> DEFINE found == ListContainersByRole("crdb")
           idx   == 1 + Max({0} \cup {c[2] : c \in found})
           list  == <<OnAll("toxiproxy", "toxiproxy")>> \o startCRDBNode(idx)
<1>1. DockerInv' /\ inits' = inits /\ used' = used
  BY SameDocker DEF IndInv, AddNode, dockerVars
<1>2. AboutToLook(cmd) /\ ct[Node(MaxNodes)] = "none"
  <2>1. cmd.todo # << >> /\ cmd.todo[1].do = "existing"
    BY DEF AddNode, Doing
  <2>2. ASSUME Good(cmd) PROVE FALSE
    <3>1. cmd.todo \in Seq(Calls(cmd.kind, cmd.flag))
      BY <2>2 DEF Good
    <3>2. cmd.todo[1] \in Calls(cmd.kind, cmd.flag)
      BY <2>1, <3>1, NonEmpty
    <3>. QED  BY <2>1, <3>2 DEF Calls, Dos
  <2>. QED  BY <2>2 DEF IndInv, CommandInv
<1>3. cmd \in Commands /\ cmd.vols = {} /\ cmd.todo = <<Looks>> /\ cmd.kind = "scale"
  BY <1>2 DEF AboutToLook
<1>4. CASE found = {}
  <2>1. cmd' = Error
    BY <1>4 DEF AddNode
  <2>2. cmd.todo[1].part = "scale"
    BY <1>3, CallIs DEF Looks, OnAll
  <2>3. "scale" \notin Tolerated("scale")
    BY DEF Tolerated
  <2>4. Error = [cmd EXCEPT !.at = "err", !.todo = << >>]
    BY <1>3, <2>2, <2>3 DEF Error
  <2>5. Good(cmd') /\ cmd'.todo = << >>
    BY <1>2, <2>1, <2>4, Abandoned
  <2>. QED  BY <1>1, <2>5, EmptyIsNotPending, Keeps
<1>5. CASE found # {}
  <2>1. cmd' = [cmd EXCEPT !.n = idx, !.todo = list]
    BY <1>5 DEF AddNode
  <2>2. idx \in 1 .. MaxNodes
    <3> DEFINE T == {0} \cup {c[2] : c \in found}
    <3>1. \A c \in found : c[2] \in 1 .. (MaxNodes - 1)
      <4> SUFFICES ASSUME NEW c \in found PROVE c[2] \in 1 .. (MaxNodes - 1)
        OBVIOUS
      <4>1. c \in Containers /\ c[1] = "crdb" /\ ct[c] # "none"
        BY DEF ListContainersByRole
      <4>2. c \in Nodes
        BY <4>1 DEF Containers, Toxiproxy, Prometheus, Grafana, Workload
      <4>3. c[2] \in 1 .. MaxNodes /\ c = Node(c[2])
        BY <4>2, Names
      <4>4. c[2] # MaxNodes
        BY <1>2, <4>1, <4>3
      <4>. QED  BY <4>3, <4>4, NodesAssumption
    <3>2. T \in SUBSET (0 .. (MaxNodes - 1)) /\ T # {} /\ MaxNodes - 1 \in Nat
      BY <3>1, NodesAssumption
    <3>3. Max(T) \in T
      <4> HIDE DEF T
      <4>. QED  BY <3>2, MaxIn
    <3>. QED  BY <3>2, <3>3, NodesAssumption
  <2> HIDE DEF idx
  <2>3. list \in Seq(Tame(cmd.kind, cmd.flag))
    BY <2>2, NodeCalls, FixedPrograms, TuplesAreLists
  <2>4. list \in Seq(Calls(cmd.kind, cmd.flag)) /\ Once(list) /\ ~Pending(list)
    BY <2>3, TameOnce
  <2>5. list \in Seq(AnyCall)
    BY <2>4, CallsAreCalls
  <2> HIDE DEF list
  <2>6. idx \in 0 .. MaxNodes
    BY <2>2, NodesAssumption
  <2>7. /\ cmd' \in Commands /\ cmd'.todo = list /\ cmd'.kind = cmd.kind /\ cmd'.flag = cmd.flag
        /\ cmd'.vols = {}
    BY <1>3, <2>1, <2>5, <2>6 DEF Commands
  <2>8. Good(cmd')
    BY <2>4, <2>7 DEF Good
  <2>9. ~Pending(cmd'.todo)
    BY <2>4, <2>7
  <2>. QED  BY <1>1, <2>8, <2>9, Keeps
<1>. QED  BY <1>4, <1>5

-----------------------------------------------------------------------------
(* CollectVolumes. *)
LEMMA CollectHolds ==
  ASSUME IndInv, CollectVolumes PROVE IndInv'
<1>1. DockerInv' /\ inits' = inits /\ used' = used
  BY SameDocker DEF IndInv, CollectVolumes, dockerVars
<1>2. Good(cmd) /\ cmd.todo # << >> /\ Purging(cmd.kind, cmd.flag)
  BY AtHead DEF IndInv, CollectVolumes
<1> DEFINE S == ListContainersByRole("crdb")
<1>3. S \in SUBSET Nodes
  BY DEF ListContainersByRole, Containers, Toxiproxy, Prometheus, Grafana, Workload
<1>4. cmd' = [Rest EXCEPT !.vols = S]
  BY DEF CollectVolumes
<1> HIDE DEF S
<1>5. Good(Rest) /\ Rest.kind = cmd.kind /\ Rest.flag = cmd.flag /\ (Pending(Rest.todo) => Pending(cmd.todo))
  BY <1>2, AfterRest
<1>6. Good(cmd') /\ cmd'.todo = Rest.todo
  BY <1>2, <1>3, <1>4, <1>5, NewVols
<1>. QED  BY <1>1, <1>5, <1>6, Keeps

(* ListForRemoval. *)
LEMMA ListHolds ==
  ASSUME IndInv, ListForRemoval PROVE IndInv'
<1>1. DockerInv' /\ inits' = inits /\ used' = used
  BY SameDocker DEF IndInv, ListForRemoval, dockerVars
<1>2. Good(cmd) /\ cmd.todo # << >> /\ cmd.todo[1] \in Calls(cmd.kind, cmd.flag)
  BY AtHead DEF IndInv, ListForRemoval
<1> DEFINE x == [cmd.todo[1] EXCEPT !.do = "remove", !.set = ListContainersByRole(On[1])]
<1>3. x \in Tame(cmd.kind, cmd.flag)
  <2>1. ListContainersByRole(On[1]) \subseteq Containers
    BY DEF ListContainersByRole
  <2>. QED  BY <1>2, <2>1 DEF Tame, Calls, Dos
<1>4. <<x>> \in Seq(Tame(cmd.kind, cmd.flag))
  BY <1>3, TuplesAreLists
<1>5. cmd' = [cmd EXCEPT !.todo = <<x>> \o Tail(cmd.todo)]
  BY DEF ListForRemoval, Now
<1> HIDE DEF x
<1>6. Good(cmd') /\ (Pending(cmd'.todo) => Pending(cmd.todo))
  BY <1>2, <1>4, <1>5, Replaced
<1>. QED  BY <1>1, <1>6, Keeps

(* StopAndRemove: without Toxiproxy there are neither proxies nor toxics. *)
LEMMA StopAndRemoveHolds ==
  ASSUME IndInv, StopAndRemove PROVE IndInv'
<1>1. PICK c \in cmd.todo[1].set :
        /\ ct' = [ct EXCEPT ![c] = "none"]
        /\ IF c = Toxiproxy THEN proxies' = {} /\ base' = {} ELSE UNCHANGED <<proxies, base>>
        /\ cmd' = Without(c)
  BY DEF StopAndRemove
<1>2. vol' = vol /\ net' = net /\ inits' = inits /\ used' = used /\ Doing("remove")
  BY DEF StopAndRemove
<1>3. c \in Containers
  BY <1>2, AtHead DEF IndInv
<1>4. DockerInv'
  BY <1>1, <1>2, <1>3 DEF IndInv, DockerInv
<1>5. Good(cmd') /\ (Pending(cmd'.todo) => Pending(cmd.todo))
  BY <1>1, <1>2, AfterWithout DEF IndInv
<1>. QED  BY <1>2, <1>4, <1>5, Keeps

(* Removing one volume leaves the others. *)
LEMMA DropHolds ==
  ASSUME DockerInv, inits \in Nat, NEW v \in Volumes, Drop(v)
  PROVE  vol' \in [Volumes -> NoVolume .. inits] /\ \A w \in Volumes \ {v} : vol'[w] = vol[w]
<1>1. NoVolume \in NoVolume .. inits /\ vol[v] \in NoVolume .. inits
  BY DEF DockerInv, NoVolume
<1>2. \E x \in NoVolume .. inits : vol' = [vol EXCEPT ![v] = x]
  BY <1>1 DEF Drop
<1>. QED  BY <1>2 DEF DockerInv

(* RemoveVolume. *)
LEMMA RemoveVolumeHolds ==
  ASSUME IndInv, RemoveVolume PROVE IndInv'
<1>1. /\ ct' = ct /\ net' = net /\ proxies' = proxies /\ base' = base /\ inits' = inits /\ used' = used
      /\ Doing("volumes")
  BY DEF RemoveVolume
<1>2. Good(cmd) /\ cmd \in Commands /\ cmd.todo # << >>
  BY <1>1, AtHead DEF IndInv
<1>3. CASE cmd.vols = {}
  <2>1. cmd' = Rest /\ vol' = vol
    BY <1>3 DEF RemoveVolume
  <2>2. DockerInv'
    BY <1>1, <2>1 DEF IndInv, DockerInv
  <2>3. Good(cmd') /\ (Pending(cmd'.todo) => Pending(cmd.todo))
    BY <1>2, <2>1, AfterRest
  <2>. QED  BY <1>1, <2>2, <2>3, Keeps
<1>4. CASE cmd.vols # {}
  <2>1. PICK v \in cmd.vols : Drop(v) /\ cmd' = [cmd EXCEPT !.vols = @ \ {v}]
    BY <1>4 DEF RemoveVolume
  <2>2. v \in Nodes /\ cmd.vols \ {v} \in SUBSET Nodes /\ Purging(cmd.kind, cmd.flag)
    BY <1>2, <1>4, <2>1 DEF Good, Commands
  <2>3. Good(cmd') /\ cmd'.todo = cmd.todo
    BY <1>2, <2>1, <2>2, NewVols
  <2>4. inits \in Nat
    BY DEF IndInv, CountInv
  <2>5. vol' \in [Volumes -> NoVolume .. inits]
    BY <2>1, <2>2, <2>4, Names, DropHolds DEF IndInv
  <2>6. DockerInv'
    BY <1>1, <2>5 DEF IndInv, DockerInv
  <2>. QED  BY <1>1, <2>3, <2>6, Keeps
<1>. QED  BY <1>3, <1>4

(* RemoveObsVolume. *)
LEMMA RemoveObsVolumeHolds ==
  ASSUME IndInv, RemoveObsVolume PROVE IndInv'
<1>1. /\ ct' = ct /\ net' = net /\ proxies' = proxies /\ base' = base /\ inits' = inits /\ used' = used
      /\ Doing("obs-volume") /\ Drop(On) /\ cmd' = Rest
  BY DEF RemoveObsVolume
<1>2. Good(cmd) /\ cmd.todo # << >>
  BY <1>1, AtHead DEF IndInv
<1>3. inits \in Nat
  BY DEF IndInv, CountInv
<1>4. vol' \in [Volumes -> NoVolume .. inits]
  <2>1. On \in Volumes
    BY <1>1, AtHead, Names DEF IndInv
  <2>. QED  BY <1>1, <1>3, <2>1, DropHolds DEF IndInv
<1>5. DockerInv'
  BY <1>1, <1>4 DEF IndInv, DockerInv
<1>6. Good(cmd') /\ (Pending(cmd'.todo) => Pending(cmd.todo))
  BY <1>1, <1>2, AfterRest
<1>. QED  BY <1>1, <1>5, <1>6, Keeps

(* Finish. *)
LEMMA FinishHolds ==
  ASSUME IndInv, Finish PROVE IndInv'
<1>1. DockerInv' /\ inits' = inits /\ used' = used
  BY SameDocker DEF IndInv, Finish, dockerVars
<1>2. Good(cmd)
  <2>1. cmd.todo = << >> /\ <<Looks>> # << >>
    BY DEF Finish
  <2>. QED  BY <2>1 DEF IndInv, CommandInv, AboutToLook
<1>3. cmd' = [cmd EXCEPT !.at = "ok"]
  BY DEF Finish
<1>4. Good(cmd') /\ cmd'.todo = cmd.todo
  BY <1>2, <1>3, NewAt
<1>. QED  BY <1>1, <1>4, Keeps

(* Begin: a command counts before it initialises. *)
LEMMA BeginHolds ==
  ASSUME IndInv, Begin PROVE IndInv'
<1>1. DockerInv' /\ inits' = inits /\ ct' = ct
  BY SameDocker DEF IndInv, Begin, dockerVars
<1>2. PICK k \in Kinds, n \in Sizes, flag \in BOOLEAN :
        /\ k \notin {"create", "quickstart", "chaos-setup"} => n = Max(Sizes)
        /\ k \notin {"rm", "destroy", "quickstart"} => ~flag
        /\ k = "scale" => Node(MaxNodes) \notin ListContainersByRole("crdb")
        /\ cmd' = [NoCommand EXCEPT
                     !.kind = k, !.n = n, !.flag = flag, !.at = "run", !.todo = Program(k, n, flag),
                     !.orphans  = {v \in Nodes : vol[v] # NoVolume /\ ct[v] = "none"},
                     !.fit      = Fit(k, n),
                     !.oneStore = Stores(n) \subseteq {vol[Node(1)]},
                     !.cold     = ct[Toxiproxy] # "running"]
  BY Zenon DEF Begin
<1>3. used' = [used EXCEPT !.commands = @ + 1] /\ used.commands < MaxCommands
  BY DEF Begin
<1>4. n \in 1 .. MaxNodes /\ n \in 0 .. MaxNodes
  BY NodesAssumption
<1>5. CountInv'
  <2>1. used' \in [commands : Nat, faults : Nat] /\ used'.commands = used.commands + 1
    BY <1>3 DEF IndInv, CountInv
  <2>. QED  BY <1>1, <1>3, <2>1, BoundsAssumption DEF IndInv, CountInv
<1>6. Fit(k, n) \in BOOLEAN
  <2>1. CASE k = "create" \/ k = "quickstart"
    BY <2>1 DEF Fit
  <2>2. CASE k = "obs-setup" \/ k = "scale"
    BY <2>2 DEF Fit
  <2>3. CASE k \in {"workload-start", "chaos-setup"}
    BY <2>3 DEF Fit, IndInv, DockerInv
  <2>4. CASE k \in {"rm", "destroy", "workload-stop", "obs-teardown"}
    BY <2>4 DEF Fit
  <2>. QED  BY <2>1, <2>2, <2>3, <2>4 DEF Kinds
<1>7. /\ cmd'.kind = k /\ cmd'.flag = flag /\ cmd'.todo = Program(k, n, flag) /\ cmd'.vols = {}
      /\ Program(k, n, flag)
           \in Seq(AnyCall)
         => cmd' \in Commands
  <2> DEFINE list == Program(k, n, flag)
             fit == Fit(k, n)
             orphans == {v \in Nodes : vol[v] # NoVolume /\ ct[v] = "none"}
             one == Stores(n) \subseteq {vol[Node(1)]}
             cold == ct[Toxiproxy] # "running"
  <2>1. orphans \in SUBSET Nodes /\ one \in BOOLEAN /\ cold \in BOOLEAN /\ fit \in BOOLEAN
    BY <1>6
  <2>2. cmd' = [NoCommand EXCEPT !.kind = k, !.n = n, !.flag = flag, !.at = "run", !.todo = list,
                  !.orphans = orphans, !.fit = fit, !.oneStore = one, !.cold = cold]
    BY <1>2
  <2> HIDE DEF list, fit, orphans, one, cold
  <2>3. cmd' = [kind |-> k, n |-> n, flag |-> flag, at |-> "run", todo |-> list, vols |-> {},
                faulty |-> FALSE, orphans |-> orphans, fit |-> fit, oneStore |-> one, cold |-> cold]
    BY <2>2 DEF NoCommand
  <2>. QED  BY <1>4, <2>1, <2>3 DEF Commands, list
<1>8. CASE k = "scale"
  <2>1. Program(k, n, flag) = <<Looks>>
    BY <1>8 DEF Program, Looks
  <2>2. Looks \in AnyCall
    BY Names, PartNames DEF Looks, OnAll, Call, AnyCall
  <2>3. AboutToLook(cmd')
    <3>1. <<Looks>> \in Seq(AnyCall)
      BY <2>2
    <3>. QED  BY <1>7, <1>8, <2>1, <3>1 DEF AboutToLook
  <2>4. Node(MaxNodes) \in Containers /\ Node(MaxNodes)[1] = "crdb"
    BY Names, NodesAssumption DEF Node
  <2>5. ct'[Node(MaxNodes)] = "none"
    BY <1>1, <1>2, <1>8, <2>4 DEF ListContainersByRole
  <2>. QED  BY <1>1, <1>5, <2>3, <2>5 DEF IndInv, CommandInv
<1>9. CASE k # "scale"
  <2>1. Program(k, n, flag) \in Seq(Calls(k, flag)) /\ Once(Program(k, n, flag))
    BY <1>4, <1>9, ProgramCalls
  <2>2. Program(k, n, flag) \in Seq(AnyCall)
    BY <2>1, CallsAreCalls
  <2>3. cmd' \in Commands
    BY <1>7, <2>2
  <2>4. Good(cmd')
    BY <1>7, <2>1, <2>3 DEF Good
  <2>. QED  BY <1>1, <1>5, <2>4 DEF IndInv, CommandInv
<1>. QED  BY <1>8, <1>9

-----------------------------------------------------------------------------
(* Faults.                                                                  *)

LEMMA RemovalFailsHolds ==
  ASSUME IndInv, RemovalFails PROVE IndInv'
<1>1. Fault /\ vol' = vol /\ net' = net /\ inits' = inits
  BY DEF RemovalFails
<1>2. CASE Doing("remove") /\ \E c \in cmd.todo[1].set :
             /\ cmd' = [Without(c) EXCEPT !.faulty = TRUE]
             /\ ct' \in {ct, [ct EXCEPT ![c] = "stopped"]}
             /\ IF c = Toxiproxy /\ ct'[c] = "stopped" THEN proxies' = {} /\ base' = {}
                ELSE UNCHANGED <<proxies, base>>
  <2>1. PICK c \in cmd.todo[1].set :
             /\ cmd' = [Without(c) EXCEPT !.faulty = TRUE]
             /\ ct' \in {ct, [ct EXCEPT ![c] = "stopped"]}
             /\ IF c = Toxiproxy /\ ct'[c] = "stopped" THEN proxies' = {} /\ base' = {}
                ELSE UNCHANGED <<proxies, base>>
    BY <1>2
  <2>2. c \in Containers
    BY <1>2, AtHead DEF IndInv
  <2>3. Good(Without(c)) /\ (Pending(Without(c).todo) => Pending(cmd.todo))
    BY <1>2, AfterWithout DEF IndInv
  <2>4. Good(cmd') /\ (Pending(cmd'.todo) => Pending(cmd.todo))
    <3>1. Without(c) \in Commands
      BY <2>3 DEF Good
    <3>. QED  BY <2>1, <2>3, <3>1, NewFaulty
  <2>5. DockerInv'
    BY <1>1, <2>1, <2>2 DEF IndInv, DockerInv
  <2>. QED  BY <1>1, <2>4, <2>5, Keeps
<1>3. CASE /\ Doing("volumes")
           /\ \E v \in cmd.vols : cmd' = [cmd EXCEPT !.vols = @ \ {v}, !.faulty = TRUE]
           /\ UNCHANGED <<ct, proxies, base>>
  <2>1. PICK v \in cmd.vols : cmd' = [cmd EXCEPT !.vols = @ \ {v}, !.faulty = TRUE]
    BY <1>3
  <2>2. Good(cmd) /\ cmd \in Commands
    BY <1>3, AtHead DEF IndInv
  <2>3. cmd.vols \ {v} \in SUBSET Nodes /\ Purging(cmd.kind, cmd.flag)
    BY <2>1, <2>2 DEF Good, Commands
  <2> DEFINE d == [cmd EXCEPT !.vols = cmd.vols \ {v}]
  <2>4. Good(d) /\ d.todo = cmd.todo
    BY <2>2, <2>3, NewVols
  <2>5. cmd' = [d EXCEPT !.faulty = TRUE]
    BY <2>1, <2>2 DEF Commands
  <2> HIDE DEF d
  <2>6. Good(cmd') /\ cmd'.todo = cmd.todo
    <3>1. d \in Commands
      BY <2>4 DEF Good
    <3>. QED  BY <2>4, <2>5, <3>1, NewFaulty
  <2>7. DockerInv'
    BY <1>1, <1>3 DEF IndInv, DockerInv
  <2>. QED  BY <1>1, <2>6, <2>7, Keeps
<1>4. CASE /\ Doing("obs-volume")
           /\ cmd' = [Rest EXCEPT !.faulty = TRUE]
           /\ UNCHANGED <<ct, proxies, base>>
  <2>1. Good(cmd) /\ cmd.todo # << >>
    BY <1>4, AtHead DEF IndInv
  <2>2. Good(Rest) /\ (Pending(Rest.todo) => Pending(cmd.todo)) /\ Rest \in Commands
    BY <2>1, AfterRest DEF Good
  <2>3. Good(cmd') /\ (Pending(cmd'.todo) => Pending(cmd.todo))
    BY <1>4, <2>2, NewFaulty
  <2>4. DockerInv'
    BY <1>1, <1>4 DEF IndInv, DockerInv
  <2>. QED  BY <1>1, <2>3, <2>4, Keeps
<1>. QED  BY <1>2, <1>3, <1>4 DEF RemovalFails

(* Any other call that fails. *)
LEMMA CallFailsHolds ==
  ASSUME IndInv, CallFails PROVE IndInv'
<1>1. Fault /\ UNCHANGED dockerVars /\ cmd.todo # << >> /\ cmd' = [Error EXCEPT !.faulty = TRUE]
  BY DEF CallFails
<1>2. DockerInv' /\ inits' = inits
  BY <1>1, SameDocker DEF IndInv, dockerVars
<1>3. Good(Error) /\ (Pending(Error.todo) => Pending(cmd.todo))
  <2>1. CASE Good(cmd)
    BY <1>1, <2>1, AfterError
  <2>2. CASE AboutToLook(cmd)
    <3>1. cmd.todo[1].part = "scale" /\ cmd.kind = "scale"
      BY <2>2, CallIs DEF AboutToLook, Looks, OnAll
    <3>2. "scale" \notin Tolerated("scale")
      BY DEF Tolerated
    <3>3. Error = [cmd EXCEPT !.at = "err", !.todo = << >>]
      BY <3>1, <3>2 DEF Error
    <3>. QED  BY <2>2, <3>3, Abandoned, EmptyIsNotPending
  <2>. QED  BY <2>1, <2>2 DEF IndInv, CommandInv
<1>4. Good(cmd') /\ (Pending(cmd'.todo) => Pending(cmd.todo))
  <2>1. Error \in Commands
    BY <1>3 DEF Good
  <2>. QED  BY <1>1, <1>3, <2>1, NewFaulty
<1>. QED  BY <1>1, <1>2, <1>4, Keeps

(* An interrupt. *)
LEMMA InterruptHolds ==
  ASSUME IndInv, Interrupt PROVE IndInv'
<1>1. /\ Fault /\ UNCHANGED dockerVars
      /\ cmd' = [cmd EXCEPT !.at = "err", !.todo = << >>, !.faulty = TRUE]
  BY DEF Interrupt
<1>2. DockerInv' /\ inits' = inits
  BY <1>1, SameDocker DEF IndInv, dockerVars
<1> DEFINE d == [cmd EXCEPT !.at = "err", !.todo = << >>]
<1>3. Good(d) /\ d.todo = << >>
  BY Abandoned DEF IndInv, CommandInv
<1>4. cmd' = [d EXCEPT !.faulty = TRUE]
  <2>1. cmd \in Commands
    BY DEF IndInv, CommandInv, Good, AboutToLook
  <2>. QED  BY <1>1, <2>1 DEF Commands
<1> HIDE DEF d
<1>5. Good(cmd') /\ cmd'.todo = << >>
  <2>1. d \in Commands
    BY <1>3 DEF Good
  <2>. QED  BY <1>3, <1>4, <2>1, NewFaulty
<1>. QED  BY <1>1, <1>2, <1>5, EmptyIsNotPending, Keeps

(* A restart of Toxiproxy by hand. *)
LEMMA ToxiproxyExitsHolds ==
  ASSUME IndInv, ToxiproxyExits PROVE IndInv'
<1>1. /\ Fault /\ vol' = vol /\ net' = net /\ inits' = inits /\ proxies' = {} /\ base' = {}
      /\ cmd' = [cmd EXCEPT !.faulty = TRUE]
  BY DEF ToxiproxyExits
<1>2. PICK x \in {"running", "stopped"} : ct' = [ct EXCEPT ![Toxiproxy] = x]
  BY DEF ToxiproxyExits
<1>3. DockerInv'
  BY <1>1, <1>2 DEF IndInv, DockerInv
<1>4. cmd \in Commands /\ cmd'.todo = cmd.todo
  <2>1. cmd \in Commands
    BY DEF IndInv, CommandInv, Good, AboutToLook
  <2>. QED  BY <1>1, <2>1, NewFaulty
<1>5. CASE Good(cmd)
  <2>1. Good(cmd')
    BY <1>1, <1>5, NewFaulty
  <2>. QED  BY <1>1, <1>3, <1>4, <2>1, Keeps
<1>6. CASE AboutToLook(cmd) /\ ct[Node(MaxNodes)] = "none"
  <2>1. AboutToLook(cmd')
    BY <1>1, <1>6, NewFaulty
  <2>2. ct'[Node(MaxNodes)] = "none"
    BY <1>2, <1>6, Names, NodesAssumption DEF IndInv, DockerInv
  <2>3. used' \in [commands : Nat, faults : Nat] /\ used'.commands = used.commands
    BY <1>1 DEF IndInv, CountInv, Fault
  <2>4. CountInv'
    BY <1>1, <1>4, <2>3 DEF IndInv, CountInv
  <2>. QED  BY <1>3, <2>1, <2>2, <2>4 DEF IndInv, CommandInv
<1>. QED  BY <1>5, <1>6 DEF IndInv, CommandInv

-----------------------------------------------------------------------------
(* Every step keeps the invariant. *)
LEMMA NextHolds == IndInv /\ [Next]_vars => IndInv'
<1> SUFFICES ASSUME IndInv, [Next]_vars PROVE IndInv'
  OBVIOUS
<1>1. CASE Begin
  BY <1>1, BeginHolds
<1>2. CASE waitForNodes \/ BuildWorkloadImage \/ Removed \/ EnsureNetwork \/ RemoveNetwork
  BY <1>2, PlainCalls
<1>3. CASE EnsureToxiproxy
  BY <1>3, EnsureToxiproxyHolds
<1>4. CASE ContainerCreate
  BY <1>4, ContainerCreateHolds
<1>5. CASE ContainerStart
  BY <1>5, ContainerStartHolds
<1>6. CASE RegisterProxy
  BY <1>6, RegisterHolds
<1>7. CASE EnsureVolume
  BY <1>7, EnsureVolumeHolds
<1>8. CASE initCluster
  BY <1>8, InitClusterHolds
<1>9. CASE AddNode
  BY <1>9, AddNodeHolds
<1>10. CASE CollectVolumes
  BY <1>10, CollectHolds
<1>11. CASE ListForRemoval
  BY <1>11, ListHolds
<1>12. CASE StopAndRemove
  BY <1>12, StopAndRemoveHolds
<1>13. CASE RemoveVolume
  BY <1>13, RemoveVolumeHolds
<1>14. CASE RemoveObsVolume
  BY <1>14, RemoveObsVolumeHolds
<1>15. CASE Finish
  BY <1>15, FinishHolds
<1>16. CASE \E d \in Directions : InjectBaseline(d)
  BY <1>16, InjectHolds
<1>17. CASE RemovalFails
  BY <1>17, RemovalFailsHolds
<1>18. CASE CallFails
  BY <1>18, CallFailsHolds
<1>19. CASE Interrupt
  BY <1>19, InterruptHolds
<1>20. CASE ToxiproxyExits
  BY <1>20, ToxiproxyExitsHolds
<1>21. CASE UNCHANGED vars
  BY <1>21 DEF vars, IndInv, DockerInv, CountInv, CommandInv
<1>22. CASE \E c \in Nodes : NodeJoins(c)
  BY <1>22, NodeJoinsHolds
<1>. QED  BY <1>1, <1>2, <1>3, <1>4, <1>5, <1>6, <1>7, <1>8, <1>9, <1>10, <1>11, <1>12, <1>13, <1>14,
             <1>15, <1>16, <1>17, <1>18, <1>19, <1>20, <1>21, <1>22 DEF Next, Step

(* The inductive invariant holds throughout: in every sequence of commands, whatever
   fails, a command initialises at most one cluster, collects volumes only if it was
   told to purge, and (scale) asks for an index that names a node. *)
THEOREM LifecycleInductive == Spec => []IndInv
BY InitHolds, NextHolds, PTL DEF Spec

(* A join list names nodes there can be. *)
JoinLists == join \in [Nodes -> 0 .. MaxNodes]

(* A node gets its list when its container is created, and loses it with that. *)
LEMMA JoinListsHold == IndInv /\ JoinLists /\ [Next]_vars => JoinLists'
<1> SUFFICES ASSUME IndInv, JoinLists, [Next]_vars PROVE JoinLists'
  OBVIOUS
<1>1. CASE ContainerCreate
  <2>1. cmd.n \in 0 .. MaxNodes
    BY <1>1, AtHead DEF IndInv, ContainerCreate, Commands
  <2>. QED  BY <1>1, <2>1 DEF ContainerCreate, JoinLists
<1>2. CASE StopAndRemove
  <2>1. 0 \in 0 .. MaxNodes
    BY NodesAssumption
  <2>. QED  BY <1>2, <2>1 DEF StopAndRemove, JoinLists
<1>3. CASE join' = join
  BY <1>3 DEF JoinLists
<1>4. ContainerCreate \/ StopAndRemove \/ join' = join
  BY DEF Next, Step, Begin, EnsureNetwork, EnsureToxiproxy, ContainerStart, RegisterProxy, EnsureVolume,
         waitForNodes, initCluster, AddNode, BuildWorkloadImage, CollectVolumes, ListForRemoval, Removed,
         RemoveVolume, RemoveObsVolume, RemoveNetwork, Finish, InjectBaseline, RemovalFails, CallFails,
         Interrupt, ToxiproxyExits, NodeJoins, dockerVars, vars
<1>. QED  BY <1>1, <1>2, <1>3, <1>4

(* Type correctness of the life cycle: Docker's state and Toxiproxy's stay in their
   types; in particular baseline toxics only sit on proxies that exist, through every
   restart and removal of Toxiproxy. *)
THEOREM TypeCorrect == Spec => []TypeOK
<1>1. IndInv /\ JoinLists => TypeOK
  <2> SUFFICES ASSUME IndInv, JoinLists PROVE TypeOK
    OBVIOUS
  <2>1. cmd \in Commands
    BY DEF IndInv, CommandInv, Good, AboutToLook
  <2>2. inits \in 0 .. MaxCommands
    BY BoundsAssumption DEF IndInv, CountInv
  <2>3. vol \in [Volumes -> NoVolume .. MaxCommands]
    BY <2>2, BoundsAssumption DEF IndInv, DockerInv, NoVolume
  <2>. QED  BY <2>1, <2>2, <2>3 DEF IndInv, DockerInv, JoinLists, TypeOK, Commands
<1>2. Init => JoinLists
  BY NodesAssumption DEF Init, JoinLists
<1>. QED  BY <1>1, <1>2, JoinListsHold, LifecycleInductive, PTL DEF Spec

(* The two commands that purge. *)
LEMMA PurgingIs ==
  ASSUME NEW k, NEW flag \in BOOLEAN, Purging(k, flag)
  PROVE  \/ k = "rm" /\ flag
         \/ k = "destroy" /\ ~flag
BY DEF Purging

(* No step takes the data of a cluster from its volume unless the volume's container
   is gone and the command is rm --purge or destroy without --retain-data-volumes:
   create, scale, quickstart, the observability and workload commands and commands
   that failed or were interrupted half way never do. *)
THEOREM DataSurvivesHolds == Spec => DataSurvives
<1> DEFINE Kept == \A v \in Nodes : (vol[v] > Blank /\ vol'[v] # vol[v]) =>
                     /\ ct[v] = "none"
                     /\ \/ cmd.kind = "rm" /\ cmd.flag
                        \/ cmd.kind = "destroy" /\ ~cmd.flag
<1>1. ASSUME IndInv, [Next]_vars PROVE Kept
  <2> SUFFICES ASSUME NEW v \in Nodes, vol[v] > Blank, vol'[v] # vol[v]
               PROVE  /\ ct[v] = "none"
                      /\ \/ cmd.kind = "rm" /\ cmd.flag
                         \/ cmd.kind = "destroy" /\ ~cmd.flag
    OBVIOUS
  <2>0. /\ v \in Volumes /\ vol \in [Volumes -> NoVolume .. inits] /\ inits \in Nat
        /\ vol[v] # Blank /\ vol[v] # NoVolume
    BY <1>1, Names DEF IndInv, DockerInv, CountInv, Blank, NoVolume
  <2>1. CASE EnsureVolume
    BY <2>0, <2>1 DEF EnsureVolume
  <2>2. CASE \E c \in Nodes : NodeJoins(c)
    BY <2>0, <2>2 DEF NodeJoins
  <2>3. CASE initCluster
    BY <2>0, <2>3 DEF initCluster
  <2>4. CASE RemoveVolume
    <3>1. cmd.vols # {} /\ Doing("volumes")
      BY <2>4 DEF RemoveVolume
    <3>2. PICK w \in cmd.vols : Drop(w)
      BY <2>4, <3>1 DEF RemoveVolume
    <3>3. Good(cmd) /\ cmd.vols \subseteq Nodes
      BY <1>1, <3>1, AtHead DEF IndInv, Commands
    <3>4. w = v
      BY <1>1, <2>0, <3>2, <3>3, Names, DropHolds DEF IndInv
    <3>5. ct[v] = "none"
      BY <2>0, <3>2, <3>4 DEF Drop
    <3>6. Purging(cmd.kind, cmd.flag)
      BY <3>1, <3>3 DEF Good
    <3>7. cmd.flag \in BOOLEAN
      BY <3>3 DEF Good, Commands
    <3>. QED  BY <3>5, <3>6, <3>7, PurgingIs
  <2>5. CASE RemoveObsVolume
    <3>1. On \in {Prometheus, Grafana} /\ Drop(On)
      BY <1>1, <2>5, AtHead DEF IndInv, RemoveObsVolume
    <3>2. On \in Volumes /\ On # v
      BY <3>1, Names
    <3>. QED  BY <1>1, <2>0, <3>1, <3>2, DropHolds DEF IndInv
  <2>6. CASE UNCHANGED vol
    BY <2>6
  <2>7. [Next]_vars => \/ EnsureVolume \/ initCluster \/ RemoveVolume \/ RemoveObsVolume
                       \/ (\E c \in Nodes : NodeJoins(c)) \/ UNCHANGED vol
    BY DEF Next, Step, Begin, EnsureNetwork, EnsureToxiproxy, ContainerCreate, ContainerStart, RegisterProxy, waitForNodes,
           AddNode, BuildWorkloadImage, CollectVolumes, ListForRemoval, StopAndRemove, Removed,
           RemoveNetwork, Finish, InjectBaseline, RemovalFails, CallFails, Interrupt, ToxiproxyExits,
           dockerVars, vars
  <2>. QED  BY <1>1, <2>1, <2>2, <2>3, <2>4, <2>5, <2>6, <2>7
<1>2. IndInv /\ [Next]_vars => [Kept]_vars
  BY <1>1
<1>. QED  BY <1>2, LifecycleInductive, PTL DEF Spec, DataSurvives

-----------------------------------------------------------------------------
(* chaos setup.                                                             *)

(* The calls of chaos setup: those of EnsureToxiproxy first, then those of
   EnsureProxies, which do nothing but register. *)
SetupList(list) ==
  /\ \A i \in 1 .. Len(list) :
       /\ list[i].part \in {"toxiproxy", "proxies"}
       /\ list[i].part = "proxies" => list[i].do = "register"
  /\ \A i, j \in 1 .. Len(list) : (i < j /\ list[i].part = "proxies") => list[j].part = "proxies"

(* Nothing is ahead but the registrations of EnsureProxies. *)
OnlyProxies(list) == \A i \in 1 .. Len(list) : list[i].part = "proxies"

(* EnsureProxies has still to register node k. *)
Ahead(list, k) == \E i \in 1 .. Len(list) : list[i] = Call("register", "proxies", Node(k))

(* A chaos setup that has met no error so far. *)
SettingUp(c) == c.kind = "chaos-setup" /\ ~c.faulty /\ c.at # "err"

(* Each node's proxy is still to be registered by EnsureProxies, or has been since
   Toxiproxy was last touched. *)
SetupInv ==
  SettingUp(cmd) =>
    /\ SetupList(cmd.todo)
    /\ \A k \in 1 .. cmd.n :
         \/ Ahead(cmd.todo, k)
         \/ k \in proxies /\ ct[Toxiproxy] = "running" /\ OnlyProxies(cmd.todo)
    /\ cmd.n \in 1 .. MaxNodes
    /\ cmd.at = "ok" => cmd.todo = << >>

(* Whether a command is such a chaos setup depends on three fields. *)
LEMMA SameSetup ==
  ASSUME NEW c, NEW d, d.kind = c.kind, d.faulty = c.faulty, d.at = c.at
  PROVE  SettingUp(d) <=> SettingUp(c)
BY DEF SettingUp

(* Putting calls of EnsureToxiproxy in front leaves the registrations last. *)
LEMMA SetupConcat ==
  ASSUME NEW list \in Seq(AnyCall), list # << >>, SetupList(list), list[1].part # "proxies",
         NEW front \in Seq(AnyCall), \A i \in 1 .. Len(front) : front[i].part = "toxiproxy"
  PROVE  /\ SetupList(front \o Tail(list))
         /\ \A k : Ahead(list, k) => Ahead(front \o Tail(list), k)
<1> DEFINE tail == Tail(list)
           new == front \o tail
<1>1. /\ tail \in Seq(AnyCall) /\ Len(list) \in Nat /\ Len(tail) = Len(list) - 1 /\ Len(front) \in Nat
      /\ \A i \in 1 .. Len(tail) : tail[i] = list[i + 1]
  BY HeadTailProperties, LenProperties
<1> HIDE DEF tail
<1>2. /\ new \in Seq(AnyCall) /\ Len(new) = Len(front) + Len(tail)
      /\ \A i \in 1 .. Len(front) + Len(tail) : new[i] = IF i <= Len(front) THEN front[i] ELSE tail[i - Len(front)]
  BY <1>1, ConcatProperties
<1> HIDE DEF new
<1>3. ASSUME NEW i \in 1 .. Len(new)
      PROVE  \/ i \in 1 .. Len(front) /\ new[i].part = "toxiproxy"
             \/ /\ i > Len(front) /\ i - Len(front) + 1 \in 2 .. Len(list)
                /\ new[i] = list[i - Len(front) + 1]
  <2>1. CASE i <= Len(front)
    <3>1. i \in 1 .. Len(front) /\ i \in 1 .. Len(front) + Len(tail)
      BY <1>1, <1>2, <2>1
    <3>2. new[i] = front[i]
      BY <1>2, <2>1, <3>1
    <3>. QED  BY <3>1, <3>2
  <2>2. CASE i > Len(front)
    <3>1. i - Len(front) \in 1 .. Len(tail)
      BY <1>1, <1>2, <2>2
    <3>2. new[i] = tail[i - Len(front)]
      BY <1>1, <1>2, <2>2
    <3>3. tail[i - Len(front)] = list[i - Len(front) + 1]
      BY <1>1, <3>1
    <3>. QED  BY <1>1, <2>2, <3>1, <3>2, <3>3
  <2>. QED  BY <1>1, <2>1, <2>2
<1>4. ASSUME NEW i \in 1 .. Len(new)
      PROVE  new[i].part \in {"toxiproxy", "proxies"} /\ (new[i].part = "proxies" => new[i].do = "register")
  <2>1. CASE new[i].part = "toxiproxy"
    BY <2>1
  <2>2. CASE i - Len(front) + 1 \in 2 .. Len(list) /\ new[i] = list[i - Len(front) + 1]
    <3>1. i - Len(front) + 1 \in 1 .. Len(list)
      BY <1>1, <2>2
    <3>. QED  BY <2>2, <3>1 DEF SetupList
  <2>. QED  BY <1>3, <2>1, <2>2
<1>5. ASSUME NEW i \in 1 .. Len(new), NEW j \in 1 .. Len(new), i < j, new[i].part = "proxies"
      PROVE  new[j].part = "proxies"
  <2>1. i > Len(front) /\ i - Len(front) + 1 \in 2 .. Len(list) /\ new[i] = list[i - Len(front) + 1]
    BY <1>3, <1>5
  <2>2. j > Len(front) /\ j - Len(front) + 1 \in 2 .. Len(list) /\ new[j] = list[j - Len(front) + 1]
    BY <1>1, <1>2, <1>3, <1>5, <2>1
  <2>3. i - Len(front) + 1 < j - Len(front) + 1
    BY <1>1, <1>5
  <2>4. list[i - Len(front) + 1].part = "proxies"
    BY <1>5, <2>1
  <2>5. i - Len(front) + 1 \in 1 .. Len(list) /\ j - Len(front) + 1 \in 1 .. Len(list)
    BY <1>1, <2>1, <2>2
  <2>6. list[j - Len(front) + 1].part = "proxies"
    BY <2>3, <2>4, <2>5 DEF SetupList
  <2>. QED  BY <2>2, <2>6
<1>6. ASSUME NEW k, Ahead(list, k) PROVE Ahead(new, k)
  <2>1. PICK i \in 1 .. Len(list) : list[i] = Call("register", "proxies", Node(k))
    BY <1>6 DEF Ahead
  <2>2. i # 1
    BY <2>1, CallIs
  <2>3. /\ i - 1 + Len(front) \in 1 .. Len(new) /\ i - 1 + Len(front) > Len(front)
        /\ i - 1 \in 1 .. Len(tail) /\ (i - 1 + Len(front)) - Len(front) = i - 1 /\ (i - 1) + 1 = i
    BY <1>1, <1>2, <2>2
  <2>4. new[i - 1 + Len(front)] = list[i]
    BY <1>1, <1>2, <2>3
  <2>. QED  BY <2>1, <2>3, <2>4 DEF Ahead
<1>7. SetupList(new)
  BY <1>4, <1>5 DEF SetupList
<1>. QED  BY <1>6, <1>7 DEF new, tail

(* A call of EnsureToxiproxy, whatever it does: all of EnsureProxies is to come. *)
LEMMA SetupAdvances ==
  ASSUME SetupInv, cmd.todo \in Seq(AnyCall), cmd.todo # << >>, cmd.todo[1].part # "proxies",
         cmd'.kind = cmd.kind, cmd'.n = cmd.n, cmd'.at = cmd.at, cmd'.faulty = cmd.faulty,
         NEW front \in Seq(AnyCall), \A i \in 1 .. Len(front) : front[i].part = "toxiproxy",
         cmd'.todo = front \o Tail(cmd.todo)
  PROVE  SetupInv'
<1> SUFFICES ASSUME SettingUp(cmd)
             PROVE  /\ SetupList(cmd'.todo)
                    /\ \A k \in 1 .. cmd'.n : Ahead(cmd'.todo, k)
                    /\ cmd'.n \in 1 .. MaxNodes /\ cmd'.at # "ok"
  BY SameSetup DEF SetupInv
<1>1. SetupList(cmd.todo) /\ cmd.n \in 1 .. MaxNodes /\ cmd.at # "ok"
  BY DEF SetupInv
<1>2. ~OnlyProxies(cmd.todo)
  <2>1. Len(cmd.todo) \in Nat /\ Len(cmd.todo) # 0
    BY NonEmpty
  <2>2. 1 \in 1 .. Len(cmd.todo)
    BY <2>1
  <2>. QED  BY <2>2 DEF OnlyProxies
<1>3. \A k \in 1 .. cmd.n : Ahead(cmd.todo, k)
  BY <1>2 DEF SetupInv
<1>. QED  BY <1>1, <1>3, SetupConcat

(* The fields a new list of calls leaves alone. *)
LEMMA CommandFields ==
  ASSUME NEW c \in Commands, NEW list
  PROVE  LET d == [c EXCEPT !.todo = list] IN
         d.kind = c.kind /\ d.n = c.n /\ d.at = c.at /\ d.faulty = c.faulty /\ d.todo = list
BY DEF Commands

(* chaos setup begins with a registration ahead for every node. *)
LEMMA SetupProgram ==
  ASSUME NEW n \in 1 .. MaxNodes, NEW flag
  PROVE  LET list == Program("chaos-setup", n, flag) IN
         SetupList(list) /\ \A k \in 1 .. n : Ahead(list, k)
<1> DEFINE a == <<OnAll("toxiproxy", "toxiproxy")>>
           b == EnsureProxies(n)
           list == a \o b
<1>1. Program("chaos-setup", n, flag) = list
  BY DEF Program
<1>2. n \in Nat /\ n \in 0 .. MaxNodes
  BY NodesAssumption
<1>3. /\ a \in Seq(Tame("chaos-setup", flag)) /\ b \in Seq(Tame("chaos-setup", flag))
  BY <1>2, FixedPrograms, Proxies
<1>4. Len(a) = 1 /\ a[1].part = "toxiproxy"
  BY CallIs DEF OnAll
<1>5. Len(b) = n /\ \A i \in 1 .. n : b[i] = Call("register", "proxies", Node(i))
  BY <1>2 DEF EnsureProxies
<1> HIDE DEF a, b
<1>6. /\ Len(list) = 1 + n
      /\ \A i \in 1 .. 1 + n : list[i] = IF i <= 1 THEN a[i] ELSE b[i - 1]
  <2>1. /\ Len(list) = Len(a) + Len(b)
        /\ \A i \in 1 .. Len(a) + Len(b) : list[i] = IF i <= Len(a) THEN a[i] ELSE b[i - Len(a)]
    BY <1>3, ConcatProperties
  <2> HIDE DEF list
  <2>. QED  BY <1>2, <1>4, <1>5, <2>1
<1> HIDE DEF list
<1>7. list[1].part = "toxiproxy" /\ \A i \in 2 .. (1 + n) : list[i] = Call("register", "proxies", Node(i - 1))
  BY <1>2, <1>4, <1>5, <1>6
<1>8. \A i \in 2 .. (1 + n) : list[i].part = "proxies" /\ list[i].do = "register"
  BY <1>7, CallIs
<1>9. SetupList(list)
  <2>1. \A i \in 1 .. Len(list) : i = 1 \/ i \in 2 .. (1 + n)
    BY <1>2, <1>6
  <2>2. \A i, j \in 1 .. Len(list) : i < j => j \in 2 .. (1 + n)
    BY <1>2, <1>6
  <2>. QED  BY <1>7, <1>8, <2>1, <2>2 DEF SetupList
<1>10. ASSUME NEW k \in 1 .. n PROVE Ahead(list, k)
  <2>1. k + 1 \in 2 .. (1 + n) /\ k + 1 \in 1 .. Len(list) /\ (k + 1) - 1 = k
    BY <1>2, <1>6
  <2>2. list[k + 1] = Call("register", "proxies", Node(k))
    BY <1>7, <2>1
  <2>. QED  BY <2>1, <2>2 DEF Ahead
<1>. QED  BY <1>1, <1>9, <1>10

(* All that starts Toxiproxy belongs to EnsureToxiproxy. *)
LEMMA NewToxiproxyPart ==
  ASSUME NEW n \in 0 .. MaxNodes
  PROVE  NewToxiproxy(n) \in Seq(AnyCall) /\ \A i \in 1 .. Len(NewToxiproxy(n)) : NewToxiproxy(n)[i].part = "toxiproxy"
<1> DEFINE a == << Call("list", "toxiproxy", Toxiproxy), Call("create", "toxiproxy", Toxiproxy),
                   Call("start", "toxiproxy", Toxiproxy) >>
           b == [i \in 1 .. n |-> Call("register", "toxiproxy", Node(i))]
           T == {x \in AnyCall : x.part = "toxiproxy"}
<1>1. n \in Nat /\ \A i \in 1 .. n : Node(i) \in Containers
  BY Names, NodesAssumption
<1>2. \A c \in Containers, d \in {"list", "create", "start", "register"} : Call(d, "toxiproxy", c) \in T
  BY PartNames DEF Call, AnyCall, Dos
<1>3. a \in Seq(T)
  BY <1>2, Names, TuplesAreLists
<1>4. b \in Seq(T)
  <2>1. \A i \in 1 .. n : Call("register", "toxiproxy", Node(i)) \in T
    BY <1>1, <1>2
  <2> HIDE DEF T
  <2>. QED  BY <1>1, <2>1
<1>5. NewToxiproxy(n) = a \o b
  BY DEF NewToxiproxy
<1>6. NewToxiproxy(n) \in Seq(T)
  <2> HIDE DEF a, b, T
  <2>. QED  BY <1>3, <1>4, <1>5, TuplesAreLists
<1>7. T \subseteq AnyCall
  OBVIOUS
<1>8. NewToxiproxy(n) \in Seq(AnyCall)
  <2> HIDE DEF T
  <2>. QED  BY <1>6, <1>7, SeqMonotonic
<1>9. \A i \in 1 .. Len(NewToxiproxy(n)) : NewToxiproxy(n)[i] \in T
  <2> HIDE DEF T
  <2>. QED  BY <1>6, ElementOfSeq
<1>. QED  BY <1>8, <1>9

(* A step that counts as a fault notes it in the command, which is otherwise as it was,
   as it would be had the call been made or failed, or at its end. *)
LEMMA FaultNoted ==
  ASSUME IndInv, RemovalFails \/ CallFails \/ Interrupt \/ ToxiproxyExits
  PROVE  \E c \in Commands :
           /\ cmd'.faulty = TRUE /\ cmd'.kind = c.kind /\ cmd'.at = c.at /\ cmd'.todo = c.todo
           /\ \/ c = cmd \/ (c.at = "err" /\ c.todo = << >>)
              \/ cmd.at = "run" /\ cmd.todo # << >> /\ c \in {Rest, Error}
              \/ Doing("remove") /\ \E e : c = Without(e)
<1>c. cmd \in Commands
  BY DEF IndInv, CommandInv, Good, AboutToLook
<1>f. ASSUME NEW c \in Commands, cmd' = [c EXCEPT !.faulty = TRUE]
      PROVE  cmd'.faulty = TRUE /\ cmd'.kind = c.kind /\ cmd'.at = c.at /\ cmd'.todo = c.todo
  BY <1>f DEF Commands
<1>1. CASE RemovalFails
  <2>1. CASE Doing("remove") /\ \E c \in cmd.todo[1].set : cmd' = [Without(c) EXCEPT !.faulty = TRUE]
    <3>1. PICK e \in cmd.todo[1].set : cmd' = [Without(e) EXCEPT !.faulty = TRUE]
      BY <2>1
    <3>2. Without(e) \in Commands
      BY <2>1, AfterWithout DEF IndInv, Good
    <3>. QED  BY <1>f, <2>1, <3>1, <3>2
  <2>2. CASE Doing("volumes") /\ \E v \in cmd.vols : cmd' = [cmd EXCEPT !.vols = @ \ {v}, !.faulty = TRUE]
    <3>1. cmd'.faulty = TRUE /\ cmd'.kind = cmd.kind /\ cmd'.at = cmd.at /\ cmd'.todo = cmd.todo
      BY <1>c, <2>2 DEF Commands
    <3>. QED  BY <1>c, <3>1
  <2>3. CASE Doing("obs-volume") /\ cmd' = [Rest EXCEPT !.faulty = TRUE]
    <3>1. Rest \in Commands
      BY <2>3, AtHead, AfterRest DEF IndInv, Good
    <3>2. cmd.at = "run" /\ cmd.todo # << >>
      BY <2>3 DEF Doing
    <3>. QED  BY <1>f, <2>3, <3>1, <3>2
  <2>. QED  BY <1>1, <2>1, <2>2, <2>3 DEF RemovalFails
<1>2. CASE CallFails
  <2>1. cmd.at = "run" /\ cmd.todo # << >> /\ cmd' = [Error EXCEPT !.faulty = TRUE]
    BY <1>2 DEF CallFails
  <2>2. Error \in Commands
    <3>1. CASE Good(cmd)
      BY <2>1, <3>1, AfterError DEF Good
    <3>2. CASE AboutToLook(cmd)
      <4>1. cmd.todo[1].part = "scale" /\ cmd.kind = "scale"
        BY <3>2, CallIs DEF AboutToLook, Looks, OnAll
      <4>2. "scale" \notin Tolerated("scale")
        BY DEF Tolerated
      <4>3. Error = [cmd EXCEPT !.at = "err", !.todo = << >>]
        BY <4>1, <4>2 DEF Error
      <4>. QED  BY <3>2, <4>3, Abandoned DEF Good
    <3>. QED  BY <3>1, <3>2 DEF IndInv, CommandInv
  <2>. QED  BY <1>f, <2>1, <2>2
<1>3. CASE Interrupt
  <2> DEFINE c == [cmd EXCEPT !.at = "err", !.todo = << >>]
  <2>1. c \in Commands /\ c.at = "err" /\ c.todo = << >>
    <3>1. << >> \in Seq(AnyCall)
      OBVIOUS
    <3>. QED  BY <1>c, <3>1 DEF Commands
  <2>2. cmd'.faulty = TRUE /\ cmd'.kind = c.kind /\ cmd'.at = c.at /\ cmd'.todo = c.todo
    BY <1>c, <1>3 DEF Interrupt, Commands
  <2> HIDE DEF c
  <2>. QED  BY <2>1, <2>2
<1>4. CASE ToxiproxyExits
  <2>1. cmd' = [cmd EXCEPT !.faulty = TRUE]
    BY <1>4 DEF ToxiproxyExits
  <2>. QED  BY <1>c, <1>f, <2>1
<1>. QED  BY <1>1, <1>2, <1>3, <1>4

(* Every step keeps the invariant of chaos setup. *)
LEMMA SetupStep ==
  ASSUME IndInv, SetupInv, [Next]_vars PROVE SetupInv'
<1> SUFFICES ASSUME SettingUp(cmd') PROVE SetupInv'
  BY DEF SetupInv
<1>c. cmd \in Commands /\ (cmd.kind # "scale" => Good(cmd))
  BY DEF IndInv, CommandInv, Good, AboutToLook
<1>t. cmd.todo \in Seq(AnyCall)
  BY <1>c DEF Commands
<1>e. << >> \in Seq(AnyCall) /\ \A i \in 1 .. Len(<< >>) : << >>[i].part = "toxiproxy"
  <2>1. << >> \in Seq(AnyCall) /\ Len(<< >>) = 0
    BY EmptySeq
  <2>2. \A i \in 1 .. 0 : FALSE
    OBVIOUS
  <2>. QED  BY <2>1, <2>2
<1>k. Tolerated("chaos-setup") = {"collect", "existing"}
  BY DEF Tolerated
(* A call that fails ends the command. *)
<1>1. ASSUME cmd.todo # << >>, cmd' = Error PROVE FALSE
  <2> DEFINE part == cmd.todo[1].part
  <2>1. CASE part \in Tolerated(cmd.kind)
    <3> DEFINE same == {i \in DOMAIN cmd.todo : \A j \in 1 .. i : cmd.todo[j].part = part}
    <3>0. cmd' = [cmd EXCEPT !.todo = SubSeq(cmd.todo, 1 + Max(same), Len(cmd.todo))]
      BY <1>1, <2>1 DEF Error, Now
    <3>1. \E list : cmd' = [cmd EXCEPT !.todo = list]
      BY <3>0, Zenon
    <3>2. SettingUp(cmd)
      BY <1>c, <3>1, CommandFields, SameSetup
    <3>3. SetupList(cmd.todo)
      BY <3>2 DEF SetupInv
    <3>4. Len(cmd.todo) \in Nat /\ Len(cmd.todo) # 0
      BY <1>1, <1>t, NonEmpty
    <3>5. 1 \in 1 .. Len(cmd.todo)
      BY <3>4
    <3>6. part \in {"toxiproxy", "proxies"}
      BY <3>3, <3>5 DEF SetupList
    <3>. QED  BY <1>k, <2>1, <3>2, <3>6 DEF SettingUp
  <2>2. CASE part \notin Tolerated(cmd.kind)
    <3>1. cmd' = [cmd EXCEPT !.at = "err", !.todo = << >>]
      BY <1>1, <2>2 DEF Error
    <3>2. cmd'.at = "err"
      BY <1>c, <3>1 DEF Commands
    <3>. QED  BY <3>2 DEF SettingUp
  <2>. QED  BY <2>1, <2>2
(* The part of a call that is not a registration is not EnsureProxies. *)
<1>2. ASSUME cmd.todo # << >>, cmd.todo[1].do # "register",
             SettingUp(cmd)
      PROVE  cmd.todo[1].part = "toxiproxy"
  <2>1. Len(cmd.todo) \in Nat /\ Len(cmd.todo) # 0
    BY <1>2, <1>t, NonEmpty
  <2>2. 1 \in 1 .. Len(cmd.todo)
    BY <2>1
  <2>. QED  BY <1>2, <2>2 DEF SetupInv, SetupList
<1>3. ASSUME cmd.todo # << >>, cmd.todo[1].part # "proxies", cmd' = Rest PROVE SetupInv'
  <2>1. cmd' = [cmd EXCEPT !.todo = Tail(cmd.todo)]
    BY <1>3 DEF Rest, Now
  <2>2. /\ cmd'.kind = cmd.kind /\ cmd'.n = cmd.n /\ cmd'.at = cmd.at /\ cmd'.faulty = cmd.faulty
        /\ cmd'.todo = Tail(cmd.todo)
    BY <1>c, <2>1, CommandFields
  <2>3. Tail(cmd.todo) \in Seq(AnyCall)
    BY <1>3, <1>t, HeadTailProperties
  <2>4. << >> \o Tail(cmd.todo) = Tail(cmd.todo)
    BY <2>3, ConcatEmptySeq
  <2>. QED  BY <1>3, <1>e, <1>t, <2>2, <2>4, SetupAdvances
<1>4. ASSUME cmd.todo # << >>, cmd.todo[1].do # "register", cmd' = Rest PROVE SetupInv'
  <2>0. cmd'.kind = cmd.kind /\ cmd'.at = cmd.at /\ cmd'.faulty = cmd.faulty
    BY <1>4, <1>c, CommandFields DEF Rest, Now
  <2>1. SettingUp(cmd)
    BY <2>0, SameSetup
  <2>. QED  BY <1>2, <1>3, <1>4, <2>1
<1>5. ASSUME NEW front \in Seq(AnyCall), cmd.todo # << >>, cmd.todo[1].do # "register",
             \A i \in 1 .. Len(front) : front[i].part \in {"toxiproxy", cmd.todo[1].part},
             cmd' = [cmd EXCEPT !.todo = front \o Tail(cmd.todo)]
      PROVE  SetupInv'
  <2>1. /\ cmd'.kind = cmd.kind /\ cmd'.n = cmd.n /\ cmd'.at = cmd.at /\ cmd'.faulty = cmd.faulty
        /\ cmd'.todo = front \o Tail(cmd.todo)
    BY <1>5, <1>c, CommandFields
  <2>2. cmd.todo[1].part = "toxiproxy"
    BY <1>2, <1>5, <2>1, SameSetup
  <2>. QED  BY <1>5, <1>t, <2>1, <2>2, SetupAdvances
<1>6. CASE Begin
  <2>1. PICK k \in Kinds, n \in Sizes, flag \in BOOLEAN :
       /\ k \notin {"create", "quickstart", "chaos-setup"} => n = Max(Sizes)
       /\ k \notin {"rm", "destroy", "quickstart"} => ~flag
       /\ k = "scale" => Node(MaxNodes) \notin ListContainersByRole("crdb")
       /\ cmd' = [NoCommand EXCEPT
                    !.kind = k, !.n = n, !.flag = flag, !.at = "run", !.todo = Program(k, n, flag),
                    !.orphans  = {v \in Nodes : vol[v] # NoVolume /\ ct[v] = "none"},
                    !.fit      = Fit(k, n),
                    !.oneStore = Stores(n) \subseteq {vol[Node(1)]},
                    !.cold     = ct[Toxiproxy] # "running"]
    BY <1>6, Zenon DEF Begin
  <2>2. cmd'.kind = k /\ cmd'.n = n /\ cmd'.at = "run" /\ cmd'.todo = Program(k, n, flag)
    BY <2>1 DEF NoCommand
  <2>3. n \in 1 .. MaxNodes
    BY NodesAssumption
  <2>4. SetupList(cmd'.todo) /\ \A i \in 1 .. n : Ahead(cmd'.todo, i)
    <3>1. k = "chaos-setup"
      BY <2>2 DEF SettingUp
    <3>. QED  BY <2>2, <2>3, <3>1, SetupProgram
  <2>. QED  BY <2>2, <2>3, <2>4 DEF SetupInv
<1>7. CASE EnsureNetwork \/ waitForNodes \/ BuildWorkloadImage \/ Removed \/ RemoveNetwork \/ ContainerCreate
           \/ ContainerStart \/ EnsureVolume \/ initCluster \/ RemoveObsVolume
  <2>1. /\ cmd.todo # << >> /\ cmd.todo[1].do # "register"
        /\ cmd' = Rest \/ cmd' = Error
    BY <1>7 DEF EnsureNetwork, waitForNodes, BuildWorkloadImage, Removed, RemoveNetwork, ContainerCreate,
         ContainerStart, EnsureVolume, initCluster, RemoveObsVolume, Doing
  <2>. QED  BY <1>1, <1>4, <2>1
<1>8. CASE \E d \in Directions : InjectBaseline(d)
  <2>1. /\ cmd.todo # << >> /\ cmd.todo[1].do # "register"
        /\ cmd' = Rest \/ cmd' = Error
    BY <1>8 DEF InjectBaseline, Directions, Doing
  <2>. QED  BY <1>1, <1>4, <2>1
<1>9. CASE EnsureToxiproxy
  <2> DEFINE front == IF ct[Toxiproxy] = "running" THEN << >> ELSE NewToxiproxy(cmd.n)
  <2>1. cmd.todo # << >> /\ cmd.todo[1].do # "register"
        /\ cmd' = [cmd EXCEPT !.todo = front \o Tail(cmd.todo)]
    BY <1>9 DEF EnsureToxiproxy, Doing, Now
  <2>2. cmd.n \in 0 .. MaxNodes
    BY <1>c DEF Commands
  <2>3. front \in Seq(AnyCall) /\ \A i \in 1 .. Len(front) : front[i].part = "toxiproxy"
    <3>1. CASE ct[Toxiproxy] = "running"
      BY <1>e, <3>1
    <3>2. CASE ct[Toxiproxy] # "running"
      BY <2>2, <3>2, NewToxiproxyPart
    <3>. QED  BY <3>1, <3>2
  <2> HIDE DEF front
  <2>. QED  BY <1>5, <2>1, <2>3
<1>10. CASE ListForRemoval \/ StopAndRemove
  <2>1. \E do, set : LET x == [cmd.todo[1] EXCEPT !.do = do, !.set = set] IN
          /\ cmd.todo # << >> /\ cmd.todo[1].do # "register" /\ do \in Dos /\ set \subseteq Containers
          /\ cmd' = [cmd EXCEPT !.todo = <<x>> \o Tail(cmd.todo)]
    <3>1. CASE ListForRemoval
      <4>1. ListContainersByRole(On[1]) \subseteq Containers /\ "remove" \in Dos
        BY DEF ListContainersByRole, Dos
      <4>2. /\ cmd.todo # << >> /\ cmd.todo[1].do # "register"
            /\ cmd' = [cmd EXCEPT !.todo =
                 <<[cmd.todo[1] EXCEPT !.do = "remove", !.set = ListContainersByRole(On[1])]>> \o Tail(cmd.todo)]
        BY <3>1 DEF ListForRemoval, Doing, Now
      <4>. QED  BY <4>1, <4>2
    <3>2. CASE StopAndRemove
      <4>1. PICK c \in cmd.todo[1].set : cmd' = Without(c)
        BY <3>2 DEF StopAndRemove
      <4>2. Doing("remove")
        BY <3>2 DEF StopAndRemove
      <4>3. /\ cmd.todo # << >> /\ cmd.todo[1].do = "remove" /\ cmd.todo[1].set \subseteq Containers
            /\ cmd.todo[1] \in Calls(cmd.kind, cmd.flag)
        BY <4>2, AtHead DEF IndInv
      <4> DEFINE y == [cmd.todo[1] EXCEPT !.set = cmd.todo[1].set \ {c}]
                 x == [cmd.todo[1] EXCEPT !.do = "remove", !.set = cmd.todo[1].set \ {c}]
      <4>4. x = y
        BY <4>3 DEF Calls
      <4>5. cmd' = [cmd EXCEPT !.todo = <<y>> \o Tail(cmd.todo)]
        BY <4>1 DEF Without, Now
      <4>6. cmd.todo[1].set \ {c} \subseteq Containers /\ "remove" \in Dos /\ "remove" # "register"
        BY <4>3 DEF Dos
      <4>. QED  BY <4>3, <4>4, <4>5, <4>6
    <3>. QED  BY <1>10, <3>1, <3>2
  <2>2. PICK do, set : LET x == [cmd.todo[1] EXCEPT !.do = do, !.set = set] IN
          /\ cmd.todo # << >> /\ cmd.todo[1].do # "register" /\ do \in Dos /\ set \subseteq Containers
          /\ cmd' = [cmd EXCEPT !.todo = <<x>> \o Tail(cmd.todo)]
    BY <2>1
  <2> DEFINE x == [cmd.todo[1] EXCEPT !.do = do, !.set = set]
  <2>3. cmd.todo[1] \in AnyCall
    <3>1. Len(cmd.todo) \in Nat /\ Len(cmd.todo) # 0
      BY <1>t, <2>2, NonEmpty
    <3>. QED  BY <1>t, <3>1, ElementOfSeq
  <2>4. x \in AnyCall /\ x.part = cmd.todo[1].part
    BY <2>2, <2>3 DEF AnyCall
  <2> HIDE DEF x
  <2>5. /\ <<x>> \in Seq(AnyCall)
        /\ \A i \in 1 .. Len(<<x>>) : <<x>>[i].part \in {"toxiproxy", cmd.todo[1].part}
    BY <2>4
  <2>6. cmd' = [cmd EXCEPT !.todo = <<x>> \o Tail(cmd.todo)]
    BY <2>2 DEF x
  <2>. QED  BY <1>5, <2>2, <2>5, <2>6
<1>11. CASE RegisterProxy
  <2>1. /\ cmd.todo # << >> /\ cmd.todo[1].do = "register" /\ Doing("register")
        /\ cmd' = Rest \/ cmd' = Error
    BY <1>11 DEF RegisterProxy, Doing
  <2>2. CASE cmd.todo[1].part # "proxies"
    BY <1>1, <1>3, <2>1, <2>2
  <2>3. CASE cmd.todo[1].part = "proxies"
    <3>1. cmd' = Rest
      BY <1>1, <2>1
    <3>2. ct[Toxiproxy] = "running" /\ proxies' = proxies \cup {On[2]} /\ ct' = ct
      <4>1. ct[Toxiproxy] # "running" => cmd' = Error
        BY <1>11 DEF RegisterProxy
      <4>. QED  BY <1>1, <1>11, <2>1, <4>1 DEF RegisterProxy
    <3>3. /\ cmd'.kind = cmd.kind /\ cmd'.n = cmd.n /\ cmd'.at = cmd.at /\ cmd'.faulty = cmd.faulty
          /\ cmd'.todo = Tail(cmd.todo)
      BY <1>c, <3>1, CommandFields DEF Rest, Now
    <3>4. SetupList(cmd.todo) /\ cmd.n \in 1 .. MaxNodes /\ cmd.at # "ok"
      BY <2>1, <3>3, SameSetup DEF SetupInv
    <3>5. /\ Len(cmd.todo) \in Nat /\ Len(cmd.todo) # 0
          /\ Len(Tail(cmd.todo)) = Len(cmd.todo) - 1
          /\ \A i \in 1 .. Len(Tail(cmd.todo)) : Tail(cmd.todo)[i] = cmd.todo[i + 1]
      BY <1>t, <2>1, NonEmpty
    <3>6. \A i \in 1 .. Len(Tail(cmd.todo)) : i + 1 \in 1 .. Len(cmd.todo) /\ 1 < i + 1 /\ i \in Nat
      BY <3>5
    <3>7. \A i \in 1 .. Len(cmd.todo) : cmd.todo[i].part = "proxies" /\ cmd.todo[i].do = "register"
      <4>1. 1 \in 1 .. Len(cmd.todo) /\ \A i \in 1 .. Len(cmd.todo) : i = 1 \/ 1 < i
        BY <3>5
      <4>. QED  BY <2>3, <3>4, <4>1 DEF SetupList
    <3>8. \A i \in 1 .. Len(Tail(cmd.todo)) : Tail(cmd.todo)[i].part = "proxies" /\ Tail(cmd.todo)[i].do = "register"
      BY <3>5, <3>6, <3>7
    <3>9. SetupList(cmd'.todo) /\ OnlyProxies(cmd'.todo)
      BY <3>3, <3>8 DEF SetupList, OnlyProxies
    <3>10. ASSUME NEW k \in 1 .. cmd.n, ~Ahead(cmd'.todo, k) PROVE k \in proxies'
      <4>1. CASE k \in proxies
        BY <3>2, <4>1
      <4>2. CASE k \notin proxies
        <5>1. Ahead(cmd.todo, k)
          BY <3>3, <4>2, SameSetup DEF SetupInv
        <5>2. PICK i \in 1 .. Len(cmd.todo) : cmd.todo[i] = Call("register", "proxies", Node(k))
          BY <5>1 DEF Ahead
        <5>3. i = 1
          <6>1. ASSUME i # 1 PROVE FALSE
            <7>1. i - 1 \in 1 .. Len(Tail(cmd.todo)) /\ (i - 1) + 1 = i
              BY <3>5, <6>1
            <7>2. Tail(cmd.todo)[i - 1] = cmd.todo[i]
              BY <3>5, <7>1
            <7>. QED  BY <3>3, <3>10, <5>2, <7>1, <7>2 DEF Ahead
          <6>. QED  BY <6>1
        <5>4. On = Node(k)
          BY <5>2, <5>3, CallIs DEF On
        <5>. QED  BY <3>2, <5>4 DEF Node
      <4>. QED  BY <4>1, <4>2
    <3>11. \A k \in 1 .. cmd'.n : Ahead(cmd'.todo, k) \/ k \in proxies'
      BY <3>3, <3>10
    <3>. QED  BY <3>2, <3>3, <3>4, <3>9, <3>11 DEF SetupInv
  <2>. QED  BY <2>2, <2>3
<1>12. CASE AddNode
  <2>1. cmd.todo # << >> /\ cmd.todo[1].do = "existing"
    BY <1>12 DEF AddNode, Doing
  <2>2. cmd.kind = "chaos-setup"
    <3>1. cmd' = Error \/ \E k, list : cmd' = [cmd EXCEPT !.n = k, !.todo = list]
      BY <1>12 DEF AddNode
    <3>2. cmd'.kind = cmd.kind
      BY <1>1, <1>c, <2>1, <3>1 DEF Commands
    <3>. QED  BY <3>2 DEF SettingUp
  <2>3. cmd.todo \in Seq(Calls(cmd.kind, cmd.flag))
    BY <1>c, <2>2 DEF Good
  <2>4. Len(cmd.todo) \in Nat /\ Len(cmd.todo) # 0
    BY <2>1, <2>3, NonEmpty
  <2>5. cmd.todo[1] \in Calls(cmd.kind, cmd.flag)
    BY <2>3, <2>4, ElementOfSeq
  <2>. QED  BY <2>1, <2>5 DEF Calls, Dos
<1>13. CASE CollectVolumes
  <2>1. cmd.todo # << >> /\ cmd.todo[1].do # "register" /\ cmd' = [Rest EXCEPT !.vols = ListContainersByRole("crdb")]
    BY <1>13 DEF CollectVolumes, Doing
  <2>2. /\ Rest \in Commands /\ Rest.kind = cmd.kind /\ Rest.n = cmd.n /\ Rest.at = cmd.at
        /\ Rest.faulty = cmd.faulty /\ Rest.todo = Tail(cmd.todo)
    <3>1. Tail(cmd.todo) \in Seq(AnyCall)
      BY <1>t, <2>1, HeadTailProperties
    <3>. QED  BY <1>c, <3>1, CommandFields DEF Rest, Now, Commands
  <2>3. /\ cmd'.kind = cmd.kind /\ cmd'.n = cmd.n /\ cmd'.at = cmd.at
        /\ cmd'.faulty = cmd.faulty /\ cmd'.todo = Tail(cmd.todo)
    BY <2>1, <2>2 DEF Commands
  <2>4. cmd.todo[1].part # "proxies"
    BY <1>2, <2>1, <2>3, SameSetup
  <2>5. << >> \o Tail(cmd.todo) = Tail(cmd.todo)
    BY <1>t, <2>1, HeadTailProperties, ConcatEmptySeq
  <2>. QED  BY <1>e, <1>t, <2>1, <2>3, <2>4, <2>5, SetupAdvances
<1>14. CASE RemoveVolume
  <2>1. cmd.todo # << >> /\ cmd.todo[1].do # "register" /\ ct' = ct /\ proxies' = proxies
    BY <1>14 DEF RemoveVolume, Doing
  <2>2. CASE cmd' = Rest
    BY <1>4, <2>1, <2>2
  <2>3. CASE \E v : cmd' = [cmd EXCEPT !.vols = @ \ {v}]
    <3>1. /\ cmd'.kind = cmd.kind /\ cmd'.n = cmd.n /\ cmd'.at = cmd.at
          /\ cmd'.faulty = cmd.faulty /\ cmd'.todo = cmd.todo
      BY <1>c, <2>3 DEF Commands
    <3>. QED  BY <2>1, <3>1, SameSetup DEF SetupInv
  <2>4. cmd' = Rest \/ \E v : cmd' = [cmd EXCEPT !.vols = @ \ {v}]
    BY <1>14 DEF RemoveVolume
  <2>. QED  BY <2>2, <2>3, <2>4
<1>15. CASE Finish
  <2>1. cmd' = [cmd EXCEPT !.at = "ok"] /\ cmd.at = "run" /\ cmd.todo = << >> /\ ct' = ct /\ proxies' = proxies
    BY <1>15 DEF Finish, dockerVars
  <2>2. cmd'.kind = cmd.kind /\ cmd'.n = cmd.n /\ cmd'.faulty = cmd.faulty /\ cmd'.todo = cmd.todo
    BY <1>c, <2>1 DEF Commands
  <2>3. SettingUp(cmd)
    BY <2>1, <2>2 DEF SettingUp
  <2>. QED  BY <2>1, <2>2, <2>3 DEF SetupInv
<1>16. CASE RemovalFails \/ CallFails \/ Interrupt \/ ToxiproxyExits
  BY <1>16, FaultNoted DEF SettingUp
<1>17. CASE UNCHANGED vars
  BY <1>17 DEF vars, SetupInv
<1>18. CASE \E c \in Nodes : NodeJoins(c)
  BY <1>18, JoinEffect DEF SetupInv
<1>. QED  BY <1>6, <1>7, <1>8, <1>9, <1>10, <1>11, <1>12, <1>13, <1>14, <1>15, <1>16, <1>17, <1>18 DEF Next, Step

(* A chaos setup that succeeds without a fault leaves Toxiproxy running with a proxy
   for every node of the topology, whatever state it found: running, stopped, removed,
   or running with its proxies lost.  EnsureProxies comes after EnsureToxiproxy, which
   is what makes it so. *)
THEOREM ChaosSetupAlwaysRepairs == Spec => []ChaosSetupRepairs
<1>1. Init => SetupInv
  BY DEF Init, NoCommand, SetupInv, SettingUp
<1>2. IndInv /\ SetupInv /\ [Next]_vars => SetupInv'
  BY SetupStep
<1>3. SetupInv => ChaosSetupRepairs
  <2>0. SUFFICES ASSUME SetupInv, Succeeded({"chaos-setup"})
               PROVE  ct[Toxiproxy] = "running" /\ 1 .. cmd.n \subseteq proxies
    BY DEF ChaosSetupRepairs
  <2>1. SettingUp(cmd) /\ cmd.at = "ok"
    BY <2>0 DEF Succeeded, SettingUp
  <2>2. cmd.todo = << >> /\ cmd.n \in 1 .. MaxNodes
    BY <2>0, <2>1 DEF SetupInv
  <2>3. \A k : ~Ahead(<< >>, k)
    BY DEF Ahead
  <2>4. \A k \in 1 .. cmd.n : k \in proxies /\ ct[Toxiproxy] = "running"
    BY <2>0, <2>1, <2>2, <2>3 DEF SetupInv
  <2>5. 1 \in 1 .. cmd.n
    BY <2>2, NodesAssumption
  <2>. QED  BY <2>4, <2>5
<1>. QED  BY <1>1, <1>2, <1>3, LifecycleInductive, PTL DEF Spec

-----------------------------------------------------------------------------
(* The calls ahead of a command, as a set, and the order they come in.      *)

(* The calls of a list. *)
Left(list) == {list[i] : i \in 1 .. Len(list)}

Todo == Left(cmd.todo)

(* Among the calls of T there is one that does d, or does it to c. *)
Any(T, d)     == \E x \in T : x.do = d
Will(T, d, c) == \E x \in T : x.do = d /\ x.on = c

(* A removal of containers: before it has listed them, and after. *)
Removal == {"list", "remove"}
Clears(x, c) ==
  \/ x.do = "list" /\ x.on[1] = c[1]
  \/ x.do = "remove" /\ c \in x.set

(* Call y may come after call x.  A container is removed before it is created and
   created before it is started, once; what stands in for the start of Toxiproxy
   comes before the proxies and those before the toxics; the network is there first
   and goes last; volumes go after the containers that mount them, and are looked
   up while those are there. *)
Follows(x, y) ==
  /\ x.do \in {"create", "start"} =>
       ~(y.do \in Removal /\ y.on[1] = x.on[1]) /\ ~(y.do = "create" /\ y.on = x.on)
  /\ x.do = "toxiproxy" => ~(y.do \in {"list", "remove", "create", "start"} /\ y.on = Toxiproxy)
  /\ x.do \in {"start", "toxiproxy"} => y.do # "network"
  /\ x.do \in {"register", "up", "down"} => ~(y.do = "start" /\ y.on = Toxiproxy)
  /\ (x.do \in {"register", "up", "down", "toxiproxy"} \/ (x.do = "start" /\ x.on = Toxiproxy))
       => y.do # "toxiproxy"
  /\ x.do = "init" => y.do # "ready" /\ ~(y.do = "volume" /\ y.on \in Nodes)
  /\ x.do # "remove-network"
  /\ x.do \in {"up", "down"} => y.do # "register" /\ ~(y.do = x.do /\ y.on = x.on)
  /\ (x.do = "collect" \/ (x.do \in Removal /\ x.on \in Nodes)) => y.do # "collect"
  /\ x.do = "volumes" => ~(y.do \in Removal /\ y.on \in Nodes)
  /\ x.do = "obs-volume" => ~(y.do \in Removal /\ y.on = x.on)

Ordered(list) == \A i, j \in 1 .. Len(list) : i < j => Follows(list[i], list[j])

(* The calls of an empty list, and of one with a head and a tail. *)
LEMMA LeftEmpty == Left(<< >>) = {} /\ Ordered(<< >>)
BY DEF Left, Ordered

(* The calls of a list are its head and those of its tail. *)
LEMMA LeftHead ==
  ASSUME NEW S, NEW list \in Seq(S), list # << >>
  PROVE  Left(list) = {list[1]} \cup Left(Tail(list)) /\ Left(list) \subseteq S
<1>1. /\ Len(list) \in Nat /\ Len(list) # 0 /\ 1 \in 1 .. Len(list)
      /\ Tail(list) \in Seq(S) /\ Len(Tail(list)) = Len(list) - 1
      /\ \A i \in 1 .. Len(Tail(list)) : Tail(list)[i] = list[i + 1]
  BY NonEmpty
<1>2. \A i \in 1 .. Len(Tail(list)) : i + 1 \in 1 .. Len(list)
  BY <1>1
<1>3. \A i \in 1 .. Len(list) : i = 1 \/ (i - 1 \in 1 .. Len(Tail(list)) /\ (i - 1) + 1 = i)
  BY <1>1
<1>4. Left(list) \subseteq {list[1]} \cup Left(Tail(list))
  <2> SUFFICES ASSUME NEW i \in 1 .. Len(list), i # 1
               PROVE  list[i] \in Left(Tail(list))
    BY DEF Left
  <2>1. i - 1 \in 1 .. Len(Tail(list)) /\ Tail(list)[i - 1] = list[i]
    BY <1>1, <1>3
  <2>. QED  BY <2>1 DEF Left
<1>5. {list[1]} \cup Left(Tail(list)) \subseteq Left(list)
  BY <1>1, <1>2 DEF Left
<1>6. Left(list) \subseteq S
  BY <1>1, ElementOfSeq DEF Left
<1>. QED  BY <1>4, <1>5, <1>6

(* The order holds of the rest of a list, and its head comes before the rest. *)
LEMMA OrderedTail ==
  ASSUME NEW S, NEW list \in Seq(S), list # << >>, Ordered(list)
  PROVE  Ordered(Tail(list)) /\ \A y \in Left(Tail(list)) : Follows(list[1], y)
<1>1. /\ Len(list) \in Nat /\ Len(list) # 0 /\ 1 \in 1 .. Len(list)
      /\ Tail(list) \in Seq(S) /\ Len(Tail(list)) = Len(list) - 1
      /\ \A i \in 1 .. Len(Tail(list)) : Tail(list)[i] = list[i + 1]
  BY NonEmpty
<1>2. \A i \in 1 .. Len(Tail(list)) : i + 1 \in 1 .. Len(list) /\ 1 < i + 1 /\ i \in Int
  BY <1>1
<1>3. Ordered(Tail(list))
  <2> SUFFICES ASSUME NEW i \in 1 .. Len(Tail(list)), NEW j \in 1 .. Len(Tail(list)), i < j
               PROVE  Follows(Tail(list)[i], Tail(list)[j])
    BY DEF Ordered
  <2>1. i + 1 < j + 1
    BY <1>2
  <2>. QED  BY <1>1, <1>2, <2>1 DEF Ordered
<1>4. ASSUME NEW y \in Left(Tail(list)) PROVE Follows(list[1], y)
  <2>1. PICK i \in 1 .. Len(Tail(list)) : y = Tail(list)[i]
    BY <1>4 DEF Left
  <2>. QED  BY <1>1, <1>2, <2>1 DEF Ordered
<1>. QED  BY <1>3, <1>4

(* Skipping calls from the front leaves the order; what is skipped is in the front. *)
LEMMA OrderedSuffix ==
  ASSUME NEW S, NEW list \in Seq(S), Ordered(list), NEW m \in 1 .. (Len(list) + 1)
  PROVE  LET rest == SubSeq(list, m, Len(list)) IN
         /\ Ordered(rest) /\ Left(rest) \subseteq Left(list)
         /\ \A i \in 1 .. Len(list) : i < m \/ list[i] \in Left(rest)
<1> DEFINE rest == SubSeq(list, m, Len(list))
<1>1. Len(list) \in Nat /\ \A i \in 1 .. Len(list) : list[i] \in S
  BY LenProperties
<1>2. m \in Int /\ Len(list) \in Int /\ \A i \in m .. Len(list) : list[i] \in S
  BY <1>1
<1>3. /\ rest \in Seq(S)
      /\ Len(rest) = IF m <= Len(list) THEN Len(list) - m + 1 ELSE 0
      /\ \A i \in 1 .. Len(list) - m + 1 : rest[i] = list[m + i - 1]
  BY <1>2, SubSeqProperties
<1> HIDE DEF rest
<1>4. \A i \in 1 .. Len(rest) : rest[i] = list[m + i - 1] /\ m + i - 1 \in 1 .. Len(list) /\ i \in Int
  BY <1>1, <1>2, <1>3
<1>5. Ordered(rest)
  <2> SUFFICES ASSUME NEW i \in 1 .. Len(rest), NEW j \in 1 .. Len(rest), i < j
               PROVE  Follows(rest[i], rest[j])
    BY DEF Ordered
  <2>1. m + i - 1 < m + j - 1
    BY <1>2, <1>4
  <2>. QED  BY <1>4, <2>1 DEF Ordered
<1>6. Left(rest) \subseteq Left(list)
  BY <1>4 DEF Left
<1>7. ASSUME NEW i \in 1 .. Len(list), ~(i < m) PROVE list[i] \in Left(rest)
  <2>1. i - m + 1 \in 1 .. Len(rest) /\ m + (i - m + 1) - 1 = i
    BY <1>1, <1>2, <1>3, <1>7
  <2>2. rest[i - m + 1] = list[i]
    BY <1>4, <2>1
  <2>. QED  BY <2>1, <2>2 DEF Left
<1>. QED  BY <1>5, <1>6, <1>7 DEF rest

(* Two ordered lists make one if all of the second may come after all of the first. *)
LEMMA OrderedConcat ==
  ASSUME NEW S, NEW a \in Seq(S), NEW b \in Seq(S), Ordered(a), Ordered(b),
         \A x \in Left(a), y \in Left(b) : Follows(x, y)
  PROVE  Ordered(a \o b) /\ Left(a \o b) = Left(a) \cup Left(b) /\ a \o b \in Seq(S)
<1>1. Len(a) \in Nat /\ Len(b) \in Nat
  BY LenProperties
<1>2. /\ a \o b \in Seq(S) /\ Len(a \o b) = Len(a) + Len(b)
      /\ \A i \in 1 .. Len(a) + Len(b) : (a \o b)[i] = IF i <= Len(a) THEN a[i] ELSE b[i - Len(a)]
  BY ConcatProperties
<1> DEFINE c == a \o b
<1> HIDE DEF c
<1>3. ASSUME NEW i \in 1 .. Len(c)
      PROVE  \/ i \in 1 .. Len(a) /\ c[i] = a[i] /\ i =< Len(a)
             \/ i - Len(a) \in 1 .. Len(b) /\ c[i] = b[i - Len(a)] /\ i > Len(a)
  BY <1>1, <1>2 DEF c
<1>4. \A i \in 1 .. Len(c) : i \in Int
  BY <1>1, <1>2 DEF c
<1>5. Ordered(c)
  <2> SUFFICES ASSUME NEW i \in 1 .. Len(c), NEW j \in 1 .. Len(c), i < j
               PROVE  Follows(c[i], c[j])
    BY DEF Ordered
  <2>1. CASE i =< Len(a) /\ j =< Len(a)
    <3>1. i \in 1 .. Len(a) /\ j \in 1 .. Len(a) /\ c[i] = a[i] /\ c[j] = a[j]
      BY <1>1, <1>3, <1>4, <2>1
    <3>. QED  BY <3>1 DEF Ordered
  <2>2. CASE i =< Len(a) /\ j > Len(a)
    <3>1. i \in 1 .. Len(a) /\ c[i] = a[i] /\ j - Len(a) \in 1 .. Len(b) /\ c[j] = b[j - Len(a)]
      BY <1>1, <1>3, <1>4, <2>2
    <3>. QED  BY <3>1 DEF Left
  <2>3. CASE i > Len(a)
    <3>1. /\ i - Len(a) \in 1 .. Len(b) /\ c[i] = b[i - Len(a)]
          /\ j - Len(a) \in 1 .. Len(b) /\ c[j] = b[j - Len(a)] /\ i - Len(a) < j - Len(a)
      BY <1>1, <1>3, <1>4, <2>3
    <3>. QED  BY <3>1 DEF Ordered
  <2>. QED  BY <1>1, <1>4, <2>1, <2>2, <2>3
<1>6. Left(c) = Left(a) \cup Left(b)
  <2>1. Left(c) \subseteq Left(a) \cup Left(b)
    BY <1>3 DEF Left
  <2>2. ASSUME NEW i \in 1 .. Len(a) PROVE a[i] \in Left(c)
    <3>1. i \in 1 .. Len(c) /\ c[i] = a[i]
      BY <1>1, <1>2 DEF c
    <3>. QED  BY <3>1 DEF Left
  <2>3. ASSUME NEW i \in 1 .. Len(b) PROVE b[i] \in Left(c)
    <3>1. i + Len(a) \in 1 .. Len(c) /\ ~(i + Len(a) <= Len(a)) /\ (i + Len(a)) - Len(a) = i
      BY <1>1, <1>2 DEF c
    <3>2. c[i + Len(a)] = b[i]
      BY <1>2, <3>1 DEF c
    <3>. QED  BY <3>1, <3>2 DEF Left
  <2>. QED  BY <2>1, <2>2, <2>3 DEF Left
<1>. QED  BY <1>2, <1>5, <1>6 DEF c

(* A list with one call. *)
LEMMA OrderedOne ==
  ASSUME NEW S, NEW x \in S
  PROVE  Left(<<x>>) = {x} /\ Ordered(<<x>>) /\ <<x>> \in Seq(S)
<1>1. Len(<<x>>) = 1 /\ <<x>>[1] = x /\ <<x>> \in Seq(S)
  OBVIOUS
<1>2. \A i \in 1 .. 1 : i = 1
  OBVIOUS
<1>. QED  BY <1>1, <1>2 DEF Left, Ordered

(* Lists written out. *)
LEMMA OrderedPair ==
  ASSUME NEW S, NEW a \in S, NEW b \in S,
         Follows(a, b)
  PROVE  <<a, b>> \in Seq(S) /\ Left(<<a, b>>) = {a, b} /\ Ordered(<<a, b>>)
<1>1. 1 .. 2 = {1, 2}
  OBVIOUS
<1>2. <<a, b>> \in Seq(S)
  OBVIOUS
<1>3. Left(<<a, b>>) = {a, b}
  BY <1>1 DEF Left
<1>4. Ordered(<<a, b>>)
  BY <1>1 DEF Ordered
<1>. QED  BY <1>2, <1>3, <1>4

(* Three calls. *)
LEMMA OrderedTriple ==
  ASSUME NEW S, NEW a \in S, NEW b \in S, NEW c \in S,
         Follows(a, b), Follows(a, c), Follows(b, c)
  PROVE  <<a, b, c>> \in Seq(S) /\ Left(<<a, b, c>>) = {a, b, c} /\ Ordered(<<a, b, c>>)
<1>1. 1 .. 3 = {1, 2, 3}
  OBVIOUS
<1>2. <<a, b, c>> \in Seq(S)
  OBVIOUS
<1>3. Left(<<a, b, c>>) = {a, b, c}
  BY <1>1 DEF Left
<1>4. Ordered(<<a, b, c>>)
  BY <1>1 DEF Ordered
<1>. QED  BY <1>2, <1>3, <1>4

(* Four calls. *)
LEMMA OrderedFour ==
  ASSUME NEW S, NEW a \in S, NEW b \in S, NEW c \in S, NEW d \in S,
         Follows(a, b), Follows(a, c), Follows(a, d), Follows(b, c), Follows(b, d),
         Follows(c, d)
  PROVE  <<a, b, c, d>> \in Seq(S) /\ Left(<<a, b, c, d>>) = {a, b, c, d} /\ Ordered(<<a, b, c, d>>)
<1>1. 1 .. 4 = {1, 2, 3, 4}
  OBVIOUS
<1>2. <<a, b, c, d>> \in Seq(S)
  OBVIOUS
<1>3. Left(<<a, b, c, d>>) = {a, b, c, d}
  BY <1>1 DEF Left
<1>4. Ordered(<<a, b, c, d>>)
  BY <1>1 DEF Ordered
<1>. QED  BY <1>2, <1>3, <1>4

(* Six calls. *)
LEMMA OrderedSix ==
  ASSUME NEW S, NEW a \in S, NEW b \in S, NEW c \in S, NEW d \in S, NEW e \in S, NEW f \in S,
         Follows(a, b), Follows(a, c), Follows(a, d), Follows(a, e), Follows(a, f),
         Follows(b, c), Follows(b, d), Follows(b, e), Follows(b, f), Follows(c, d),
         Follows(c, e), Follows(c, f), Follows(d, e), Follows(d, f), Follows(e, f)
  PROVE  <<a, b, c, d, e, f>> \in Seq(S) /\ Left(<<a, b, c, d, e, f>>) = {a, b, c, d, e, f} /\ Ordered(<<a, b, c, d, e, f>>)
<1>1. 1 .. 6 = {1, 2, 3, 4, 5, 6}
  OBVIOUS
<1>2. <<a, b, c, d, e, f>> \in Seq(S)
  OBVIOUS
<1>3. Left(<<a, b, c, d, e, f>>) = {a, b, c, d, e, f}
  BY <1>1 DEF Left
<1>4. Ordered(<<a, b, c, d, e, f>>)
  BY <1>1 DEF Ordered
<1>. QED  BY <1>2, <1>3, <1>4

-----------------------------------------------------------------------------
(* The programs, piece by piece: which calls a piece has.                   *)

OfNodes(x, n) ==
  x.do \in {"volume", "create", "start"} /\ x.part = "nodes" /\ \E i \in 1 .. n : x.on = Node(i)
OfCreate(x, n) ==
  \/ OfNodes(x, n)
  \/ /\ x.do \in {"network", "toxiproxy", "ready", "init"} /\ x.on = Toxiproxy
     /\ x.part \notin {"baseline", "collect", "existing"}
OfLatency(x, n) == x.do \in {"up", "down"} /\ x.part = "baseline" /\ \E i \in 1 .. n : x.on = Node(i)
OfToxiproxy(x, n) ==
  /\ x.part = "toxiproxy"
  /\ \/ x.do \in {"list", "create", "start"} /\ x.on = Toxiproxy
     \/ x.do = "register" /\ \E i \in 1 .. n : x.on = Node(i)
OfProxies(x, n) == x.do = "register" /\ x.part = "proxies" /\ \E i \in 1 .. n : x.on = Node(i)
OfObs(x) == x.do \in {"volume", "create", "start"} /\ x.part = "obs" /\ x.on \in {Prometheus, Grafana}
OfTeardown(x) == x.do \in {"list", "obs-volume"} /\ x.part = "obs" /\ x.on \in {Prometheus, Grafana}
OfWorkload(x) ==
  /\ x.part # "baseline" /\ (x.part \in {"collect", "existing"} => x.do = "list")
  /\ x.do = "image" \/ (x.do \in {"list", "create", "start"} /\ x.on = Workload)
OfDestroy(x) ==
  /\ x.part # "baseline"
  /\ \/ x.do \in {"collect", "volumes"} /\ x.on = Toxiproxy
     \/ x.do = "list" /\ x.on \in {Node(1), Toxiproxy}

(* Roles, once more: what the order of calls asks about. *)
LEMMA Roles ==
  /\ \A i \in 1 .. MaxNodes : /\ Node(i) \in Nodes /\ Node(i)[1] = "crdb" /\ Node(i)[2] = i
                              /\ Node(i) \notin {Toxiproxy, Prometheus, Grafana, Workload}
  /\ \A i, j : Node(i) = Node(j) => i = j
  /\ Toxiproxy[1] = "toxiproxy" /\ Prometheus[1] = "prometheus" /\ Grafana[1] = "grafana"
  /\ Workload[1] = "workload" /\ Toxiproxy \notin Nodes /\ Prometheus \notin Nodes
  /\ Grafana \notin Nodes /\ Workload \notin Nodes
  /\ Toxiproxy \notin {Prometheus, Grafana, Workload} /\ Prometheus \notin {Grafana, Workload}
  /\ Grafana # Workload
<1>1. /\ Toxiproxy[1] = "toxiproxy" /\ Prometheus[1] = "prometheus" /\ Grafana[1] = "grafana"
      /\ Workload[1] = "workload"
  BY DEF Toxiproxy, Prometheus, Grafana, Workload
<1>2. \A i : Node(i)[1] = "crdb" /\ Node(i)[2] = i
  BY DEF Node
<1>. QED  BY <1>1, <1>2, Names

(* The loop over startCRDBNode: volume, create and start of each node, in that order. *)
LEMMA NodesPiece ==
  ASSUME NEW n \in 1 .. MaxNodes
  PROVE  /\ startNodes(n) \in Seq(AnyCall) /\ Ordered(startNodes(n))
         /\ \A x \in Left(startNodes(n)) : OfNodes(x, n)
         /\ \A i \in 1 .. n, d \in {"volume", "create", "start"} : Will(Left(startNodes(n)), d, Node(i))
<1> DEFINE s == startNodes(n)
           at(j) == 1 + ((j - 1) \div 3)
           kd(j) == 1 + ((j - 1) % 3)
<1>1. n \in Nat /\ 3 * n \in Nat /\ n =< MaxNodes /\ MaxNodes \in Nat
  BY NodesAssumption
<1>2. /\ Len(s) = 3 * n /\ \A j \in 1 .. (3 * n) : s[j] = startCRDBNode(at(j))[kd(j)]
  BY <1>1 DEF startNodes
<1>3. s \in Seq(AnyCall)
  <2>1. s \in Seq(Tame("create", FALSE))
    BY StartNodes
  <2>2. s \in Seq(Calls("create", FALSE))
    BY <2>1, TameOnce
  <2>. QED  BY <2>2, CallsAreCalls
<1> HIDE DEF s
<1>4. \A j \in 1 .. (3 * n) : at(j) \in 1 .. n /\ kd(j) \in {1, 2, 3} /\ j = 3 * at(j) + kd(j) - 3
  BY <1>1
<1>5. \A i : LET q == startCRDBNode(i) IN
        /\ q[1].do = "volume" /\ q[2].do = "create" /\ q[3].do = "start"
        /\ \A k \in {1, 2, 3} : q[k].on = Node(i) /\ q[k].part = "nodes"
  <2> SUFFICES ASSUME NEW i
               PROVE LET q == startCRDBNode(i) IN
        /\ q[1].do = "volume" /\ q[2].do = "create" /\ q[3].do = "start"
        /\ \A k \in {1, 2, 3} : q[k].on = Node(i) /\ q[k].part = "nodes"
    OBVIOUS
  <2>. QED  BY CallIs DEF startCRDBNode
<1>6. ASSUME NEW j \in 1 .. Len(s)
      PROVE  /\ s[j].on = Node(at(j)) /\ s[j].part = "nodes"
             /\ s[j].do = IF kd(j) = 1 THEN "volume" ELSE IF kd(j) = 2 THEN "create" ELSE "start"
  <2>1. j \in 1 .. (3 * n)
    BY <1>2
  <2>2. kd(j) \in {1, 2, 3} /\ s[j] = startCRDBNode(at(j))[kd(j)]
    BY <1>2, <1>4, <2>1
  <2> HIDE DEF at, kd
  <2>3. CASE kd(j) = 1
    BY <1>5, <2>2, <2>3
  <2>4. CASE kd(j) = 2
    BY <1>5, <2>2, <2>4
  <2>5. CASE kd(j) = 3
    BY <1>5, <2>2, <2>5
  <2>. QED  BY <2>2, <2>3, <2>4, <2>5
<1>7. ASSUME NEW j \in 1 .. Len(s) PROVE OfNodes(s[j], n)
  <2>1. at(j) \in 1 .. n /\ kd(j) \in {1, 2, 3}
    BY <1>2, <1>4
  <2> HIDE DEF at, kd
  <2>. QED  BY <1>6, <2>1 DEF OfNodes
<1>8. \A x \in Left(s) : OfNodes(x, n)
  BY <1>7 DEF Left
<1>9. Ordered(s)
  <2> SUFFICES ASSUME NEW i \in 1 .. Len(s), NEW j \in 1 .. Len(s), i < j
               PROVE  Follows(s[i], s[j])
    BY DEF Ordered
  <2>1. /\ at(i) \in 1 .. n /\ kd(i) \in {1, 2, 3} /\ i = 3 * at(i) + kd(i) - 3
        /\ at(j) \in 1 .. n /\ kd(j) \in {1, 2, 3} /\ j = 3 * at(j) + kd(j) - 3
    BY <1>2, <1>4
  <2>2. at(i) = at(j) => kd(i) < kd(j)
    BY <2>1
  <2>3. at(i) \in 1 .. MaxNodes /\ at(j) \in 1 .. MaxNodes
    BY <1>1, <2>1
  <2>4. (s[i].do \in {"create", "start"} /\ s[j].do = "create") => s[i].on # s[j].on
    <3>1. ASSUME s[i].do \in {"create", "start"}, s[j].do = "create", s[i].on = s[j].on PROVE FALSE
      <4>1. kd(j) = 2 /\ kd(i) # 1
        BY <1>6, <2>1, <3>1
      <4>2. at(i) = at(j)
        BY <1>6, <3>1, Roles
      <4>. QED  BY <2>1, <2>2, <4>1, <4>2
    <3>. QED  BY <3>1
  <2> HIDE DEF at, kd
  <2>5. /\ s[i].on \in Nodes /\ s[i].on # Toxiproxy /\ s[j].on # Toxiproxy
    BY <1>6, <2>3, Roles
  <2>. QED  BY <1>6, <2>4, <2>5 DEF Follows, Removal
<1>10. ASSUME NEW i \in 1 .. n, NEW d \in {"volume", "create", "start"} PROVE Will(Left(s), d, Node(i))
  <2> DEFINE k == IF d = "volume" THEN 1 ELSE IF d = "create" THEN 2 ELSE 3
             j == 3 * i + k - 3
  <2>1. k \in {1, 2, 3}
    OBVIOUS
  <2>2. j \in 1 .. (3 * n) /\ at(j) = i /\ kd(j) = k
    <3>1. i \in Int /\ i >= 1 /\ i =< n /\ n \in Int
      BY <1>1
    <3>2. \A m \in Int : (3 * m) \div 3 = m /\ (3 * m + 1) \div 3 = m /\ (3 * m + 2) \div 3 = m
                         /\ (3 * m) % 3 = 0 /\ (3 * m + 1) % 3 = 1 /\ (3 * m + 2) % 3 = 2
      OBVIOUS
    <3> HIDE DEF k
    <3>3. j \in 1 .. (3 * n) /\ j - 1 = 3 * (i - 1) + (k - 1) /\ i - 1 \in Int
      BY <2>1, <3>1
    <3>4. (3 * (i - 1) + (k - 1)) \div 3 = i - 1 /\ (3 * (i - 1) + (k - 1)) % 3 = k - 1
      BY <2>1, <3>2, <3>3
    <3>. QED  BY <2>1, <3>1, <3>3, <3>4
  <2>3. j \in 1 .. Len(s)
    BY <1>2, <2>2
  <2>4. s[j].on = Node(i) /\ s[j].do = d
    BY <1>6, <2>2, <2>3
  <2> HIDE DEF j
  <2>. QED  BY <2>3, <2>4 DEF Will, Left
<1>. QED  BY <1>3, <1>8, <1>9, <1>10 DEF s

(* A list made of one call for each of a range of numbers. *)
LEMMA LatencyPiece ==
  ASSUME NEW n \in 1 .. MaxNodes
  PROVE  LET s == ApplyRegionalLatencies(n) IN
         /\ s \in Seq(AnyCall) /\ Ordered(s)
         /\ \A x \in Left(s) : OfLatency(x, n)
         /\ \A i \in 1 .. n, d \in {"up", "down"} : Will(Left(s), d, Node(i))
<1> DEFINE s == ApplyRegionalLatencies(n)
           at(j) == (j + 1) \div 2
           dir(j) == IF j % 2 = 1 THEN "up" ELSE "down"
<1>1. n \in Nat /\ 2 * n \in Nat /\ n =< MaxNodes /\ MaxNodes \in Nat
  BY NodesAssumption
<1>2. Len(s) = 2 * n /\ \A j \in 1 .. (2 * n) : s[j] = Call(dir(j), "baseline", Node(at(j)))
  BY <1>1 DEF ApplyRegionalLatencies
<1>3. s \in Seq(AnyCall)
  <2>1. s \in Seq(Tame("quickstart", FALSE))
    BY Latencies
  <2>2. s \in Seq(Calls("quickstart", FALSE))
    BY <2>1, TameOnce
  <2>. QED  BY <2>2, CallsAreCalls
<1> HIDE DEF s
<1>4. \A j \in 1 .. (2 * n) : at(j) \in 1 .. n /\ j \in Int /\ (j = 2 * at(j) - 1 \/ j = 2 * at(j))
                              /\ (dir(j) = "up" <=> j = 2 * at(j) - 1)
  BY <1>1
<1>5. ASSUME NEW j \in 1 .. Len(s)
      PROVE  /\ s[j].on = Node(at(j)) /\ s[j].part = "baseline" /\ s[j].do = dir(j)
             /\ at(j) \in 1 .. n /\ at(j) \in 1 .. MaxNodes /\ dir(j) \in {"up", "down"}
  <2>1. at(j) \in 1 .. n /\ s[j] = Call(dir(j), "baseline", Node(at(j)))
    BY <1>2, <1>4
  <2>2. at(j) \in 1 .. MaxNodes
    BY <1>1, <2>1
  <2>3. dir(j) \in {"up", "down"}
    OBVIOUS
  <2> HIDE DEF at, dir
  <2>. QED  BY <2>1, <2>2, <2>3, CallIs
<1>6. \A x \in Left(s) : OfLatency(x, n)
  <2> HIDE DEF at, dir
  <2>. QED  BY <1>5 DEF Left, OfLatency
<1>7. Ordered(s)
  <2> SUFFICES ASSUME NEW i \in 1 .. Len(s), NEW j \in 1 .. Len(s), i < j
               PROVE  Follows(s[i], s[j])
    BY DEF Ordered
  <2>1. ASSUME at(i) = at(j), dir(i) = dir(j) PROVE FALSE
    <3>1. i \in 1 .. (2 * n) /\ j \in 1 .. (2 * n)
      BY <1>2
    <3>2. /\ i \in Int /\ (i = 2 * at(i) - 1 \/ i = 2 * at(i)) /\ (dir(i) = "up" <=> i = 2 * at(i) - 1)
          /\ j \in Int /\ (j = 2 * at(j) - 1 \/ j = 2 * at(j)) /\ (dir(j) = "up" <=> j = 2 * at(j) - 1)
          /\ at(j) \in 1 .. n
      BY <1>4, <3>1
    <3> HIDE DEF at, dir
    <3>. QED  BY <2>1, <3>2
  <2> HIDE DEF at, dir
  <2>2. /\ s[i].on = Node(at(i)) /\ s[i].do \in {"up", "down"} /\ s[i].on \in Nodes
        /\ s[j].on = Node(at(j)) /\ s[j].do \in {"up", "down"} /\ s[i].do = dir(i) /\ s[j].do = dir(j)
    BY <1>5, Roles
  <2>3. ~(s[j].do = s[i].do /\ s[j].on = s[i].on)
    BY <2>1, <2>2, Roles
  <2>. QED  BY <2>2, <2>3 DEF Follows, Removal
<1>8. ASSUME NEW i \in 1 .. n, NEW d \in {"up", "down"} PROVE Will(Left(s), d, Node(i))
  <2> DEFINE j == IF d = "up" THEN 2 * i - 1 ELSE 2 * i
  <2>1. j \in 1 .. (2 * n) /\ at(j) = i /\ dir(j) = d
    <3>1. i \in Int /\ i >= 1 /\ i =< n /\ n \in Int
      BY <1>1
    <3>2. \A m \in Int : (2 * m) \div 2 = m /\ (2 * m + 1) \div 2 = m /\ (2 * m) % 2 = 0 /\ (2 * m - 1) % 2 = 1
      OBVIOUS
    <3>3. CASE d = "up"
      <4>1. j = 2 * i - 1 /\ j + 1 = 2 * i
        BY <3>1, <3>3
      <4> HIDE DEF j
      <4>. QED  BY <3>1, <3>2, <3>3, <4>1
    <3>4. CASE d = "down"
      <4>1. j = 2 * i
        BY <3>1, <3>4
      <4> HIDE DEF j
      <4>. QED  BY <3>1, <3>2, <3>4, <4>1
    <3>. QED  BY <3>3, <3>4
  <2>2. j \in 1 .. Len(s)
    BY <1>2, <2>1
  <2> HIDE DEF j
  <2>3. s[j].on = Node(i) /\ s[j].do = d
    BY <1>5, <2>1, <2>2
  <2>. QED  BY <2>2, <2>3 DEF Will, Left
<1>. QED  BY <1>3, <1>6, <1>7, <1>8 DEF s

(* The registrations of a part. *)
LEMMA RegisterPiece ==
  ASSUME NEW n \in 0 .. MaxNodes, NEW p \in Parts
  PROVE  LET s == [i \in 1 .. n |-> Call("register", p, Node(i))] IN
         /\ s \in Seq(AnyCall) /\ Ordered(s)
         /\ \A x \in Left(s) : x.do = "register" /\ x.part = p /\ x.set = {} /\ \E i \in 1 .. n : x.on = Node(i)
         /\ \A i \in 1 .. n : Will(Left(s), "register", Node(i))
<1> DEFINE s == [i \in 1 .. n |-> Call("register", p, Node(i))]
<1>1. n \in Nat /\ n =< MaxNodes /\ MaxNodes \in Nat
  BY NodesAssumption
<1>2. \A i \in 1 .. n : Call("register", p, Node(i)) \in AnyCall
  <2>1. \A i \in 1 .. n : Node(i) \in Nodes /\ Node(i) \in Containers
    BY <1>1, Names
  <2>. QED  BY <2>1 DEF Call, AnyCall, Dos
<1>3. s \in Seq(AnyCall) /\ Len(s) = n /\ \A i \in 1 .. n : s[i] = Call("register", p, Node(i))
  BY <1>1, <1>2
<1> HIDE DEF s
<1>4. \A i \in 1 .. n : s[i].do = "register" /\ s[i].part = p /\ s[i].on = Node(i) /\ s[i].set = {}
  BY <1>3, CallIs
<1>5. \A x \in Left(s) : x.do = "register" /\ x.part = p /\ x.set = {} /\ \E i \in 1 .. n : x.on = Node(i)
  BY <1>3, <1>4 DEF Left
<1>6. Ordered(s)
  BY <1>3, <1>4 DEF Ordered, Follows, Removal
<1>7. \A i \in 1 .. n : Will(Left(s), "register", Node(i))
  BY <1>3, <1>4 DEF Will, Left
<1>. QED  BY <1>3, <1>5, <1>6, <1>7 DEF s

(* EnsureProxies registers every node. *)
LEMMA ProxiesPiece ==
  ASSUME NEW n \in 1 .. MaxNodes
  PROVE  LET s == EnsureProxies(n) IN
         /\ s \in Seq(AnyCall) /\ Ordered(s)
         /\ \A x \in Left(s) : OfProxies(x, n)
         /\ \A i \in 1 .. n : Will(Left(s), "register", Node(i))
<1>1. n \in 0 .. MaxNodes
  BY NodesAssumption
<1>. QED  BY <1>1, RegisterPiece, PartNames DEF EnsureProxies, OfProxies

(* A call of the programs, taken as a call. *)
LEMMA CallsMade ==
  ASSUME NEW d \in Dos, NEW p \in Parts, NEW c \in Containers
  PROVE  LET x == Call(d, p, c) IN x \in AnyCall /\ x.do = d /\ x.part = p /\ x.on = c /\ x.set = {}
BY DEF Call, AnyCall

(* The calls that make a new Toxiproxy: it is removed, created, started, and gets its proxies. *)
LEMMA ToxiproxyPiece ==
  ASSUME NEW n \in 0 .. MaxNodes
  PROVE  LET s == NewToxiproxy(n) IN
         /\ s \in Seq(AnyCall) /\ Ordered(s)
         /\ \A x \in Left(s) : OfToxiproxy(x, n)
         /\ \A i \in 1 .. n : Will(Left(s), "register", Node(i))
         /\ Will(Left(s), "list", Toxiproxy) /\ Will(Left(s), "start", Toxiproxy)
<1> DEFINE x == Call("list", "toxiproxy", Toxiproxy)
           y == Call("create", "toxiproxy", Toxiproxy)
           z == Call("start", "toxiproxy", Toxiproxy)
           a == <<x, y, z>>
           b == [i \in 1 .. n |-> Call("register", "toxiproxy", Node(i))]
<1>1. /\ x \in AnyCall /\ x.do = "list" /\ x.part = "toxiproxy" /\ x.on = Toxiproxy
      /\ y \in AnyCall /\ y.do = "create" /\ y.part = "toxiproxy" /\ y.on = Toxiproxy
      /\ z \in AnyCall /\ z.do = "start" /\ z.part = "toxiproxy" /\ z.on = Toxiproxy
  <2>1. "list" \in Dos /\ "create" \in Dos /\ "start" \in Dos /\ Toxiproxy \in Containers
    BY Names DEF Dos
  <2>. QED  BY <2>1, CallsMade, PartNames
<1>2. NewToxiproxy(n) = a \o b
  BY DEF NewToxiproxy
<1>3. /\ b \in Seq(AnyCall) /\ Ordered(b)
      /\ \A w \in Left(b) : w.do = "register" /\ w.part = "toxiproxy" /\ \E i \in 1 .. n : w.on = Node(i)
      /\ \A i \in 1 .. n : Will(Left(b), "register", Node(i))
  BY RegisterPiece, PartNames
<1> HIDE DEF x, y, z, b
<1>4. Follows(x, y) /\ Follows(x, z) /\ Follows(y, z)
  BY <1>1, Roles DEF Follows, Removal
<1>5. a \in Seq(AnyCall) /\ Left(a) = {x, y, z} /\ Ordered(a)
  BY <1>1, <1>4, OrderedTriple
<1> HIDE DEF a
<1>6. \A v \in Left(a), w \in Left(b) : Follows(v, w)
  <2> SUFFICES ASSUME NEW v \in {x, y, z}, NEW w \in Left(b) PROVE Follows(v, w)
    BY <1>5
  <2>1. w.do = "register"
    BY <1>3
  <2>2. v.do \in {"list", "create", "start"} /\ v.on \notin Nodes
    BY <1>1, Roles
  <2>. QED  BY <2>1, <2>2 DEF Follows, Removal
<1>7. Ordered(a \o b) /\ Left(a \o b) = Left(a) \cup Left(b) /\ a \o b \in Seq(AnyCall)
  BY <1>3, <1>5, <1>6, OrderedConcat
<1>8. \A w \in Left(a) \cup Left(b) : OfToxiproxy(w, n)
  BY <1>1, <1>3, <1>5 DEF OfToxiproxy
<1>9. /\ \A i \in 1 .. n : Will(Left(a) \cup Left(b), "register", Node(i))
      /\ Will(Left(a) \cup Left(b), "list", Toxiproxy) /\ Will(Left(a) \cup Left(b), "start", Toxiproxy)
  BY <1>1, <1>3, <1>5 DEF Will
<1>. QED  BY <1>2, <1>7, <1>8, <1>9

(* The calls of the observability stack. *)
LEMMA ObsPiece ==
  /\ SetupObs \in Seq(AnyCall) /\ Ordered(SetupObs)
  /\ \A x \in Left(SetupObs) : OfObs(x)
  /\ \A c \in {Prometheus, Grafana}, d \in {"volume", "create", "start"} : Will(Left(SetupObs), d, c)
<1> DEFINE a == Call("volume", "obs", Prometheus)
           b == Call("create", "obs", Prometheus)
           c == Call("start", "obs", Prometheus)
           d == Call("volume", "obs", Grafana)
           e == Call("create", "obs", Grafana)
           f == Call("start", "obs", Grafana)
<1>1. "volume" \in Dos /\ "create" \in Dos /\ "start" \in Dos /\ Prometheus \in Containers /\ Grafana \in Containers
  BY Names DEF Dos
<1>2. /\ a \in AnyCall /\ a.do = "volume" /\ a.part = "obs" /\ a.on = Prometheus
      /\ b \in AnyCall /\ b.do = "create" /\ b.part = "obs" /\ b.on = Prometheus
      /\ c \in AnyCall /\ c.do = "start" /\ c.part = "obs" /\ c.on = Prometheus
  BY <1>1, CallsMade, PartNames
<1>3. /\ d \in AnyCall /\ d.do = "volume" /\ d.part = "obs" /\ d.on = Grafana
      /\ e \in AnyCall /\ e.do = "create" /\ e.part = "obs" /\ e.on = Grafana
      /\ f \in AnyCall /\ f.do = "start" /\ f.part = "obs" /\ f.on = Grafana
  BY <1>1, CallsMade, PartNames
<1>4. SetupObs = <<a, b, c, d, e, f>>
  BY DEF SetupObs
<1> HIDE DEF a, b, c, d, e, f
<1>5. /\ Follows(a, b) /\ Follows(a, c) /\ Follows(a, d) /\ Follows(a, e) /\ Follows(a, f)
      /\ Follows(b, c) /\ Follows(b, d) /\ Follows(b, e) /\ Follows(b, f) /\ Follows(c, d)
      /\ Follows(c, e) /\ Follows(c, f) /\ Follows(d, e) /\ Follows(d, f) /\ Follows(e, f)
  BY <1>2, <1>3, Roles DEF Follows, Removal
<1>6. SetupObs \in Seq(AnyCall) /\ Left(SetupObs) = {a, b, c, d, e, f} /\ Ordered(SetupObs)
  BY <1>2, <1>3, <1>4, <1>5, OrderedSix
<1>7. \A x \in Left(SetupObs) : OfObs(x)
  BY <1>2, <1>3, <1>6 DEF OfObs
<1>8. \A g \in {Prometheus, Grafana}, h \in {"volume", "create", "start"} : Will(Left(SetupObs), h, g)
  BY <1>2, <1>3, <1>6 DEF Will
<1>. QED  BY <1>6, <1>7, <1>8

(* The calls that take it down. *)
LEMMA TeardownPiece ==
  /\ TeardownObs \in Seq(AnyCall) /\ Ordered(TeardownObs)
  /\ \A x \in Left(TeardownObs) : OfTeardown(x)
  /\ \A c \in {Prometheus, Grafana}, d \in {"list", "obs-volume"} : Will(Left(TeardownObs), d, c)
<1> DEFINE a == Call("list", "obs", Prometheus)
           b == Call("list", "obs", Grafana)
           c == Call("obs-volume", "obs", Prometheus)
           d == Call("obs-volume", "obs", Grafana)
<1>1. Prometheus \in Containers /\ Grafana \in Containers
  BY Names
<1>0. "list" \in Dos /\ "obs-volume" \in Dos
  BY DEF Dos
<1>2. /\ a \in AnyCall /\ a.do = "list" /\ a.part = "obs" /\ a.on = Prometheus
      /\ b \in AnyCall /\ b.do = "list" /\ b.part = "obs" /\ b.on = Grafana
  BY <1>0, <1>1, CallsMade, PartNames
<1>8. /\ c \in AnyCall /\ c.do = "obs-volume" /\ c.part = "obs" /\ c.on = Prometheus
      /\ d \in AnyCall /\ d.do = "obs-volume" /\ d.part = "obs" /\ d.on = Grafana
  BY <1>0, <1>1, CallsMade, PartNames
<1>3. TeardownObs = <<a, b, c, d>>
  BY DEF TeardownObs
<1> HIDE DEF a, b, c, d
<1>4. /\ Follows(a, b) /\ Follows(a, c) /\ Follows(a, d) /\ Follows(b, c) /\ Follows(b, d)
      /\ Follows(c, d)
  BY <1>2, <1>8, Roles DEF Follows, Removal
<1>5. TeardownObs \in Seq(AnyCall) /\ Left(TeardownObs) = {a, b, c, d} /\ Ordered(TeardownObs)
  BY <1>2, <1>8, <1>3, <1>4, OrderedFour
<1>6. \A x \in Left(TeardownObs) : OfTeardown(x)
  BY <1>2, <1>8, <1>5 DEF OfTeardown
<1>7. \A g \in {Prometheus, Grafana}, h \in {"list", "obs-volume"} : Will(Left(TeardownObs), h, g)
  BY <1>2, <1>8, <1>5 DEF Will
<1>. QED  BY <1>5, <1>6, <1>7

(* The calls that start the workload and those that stop it. *)
LEMMA WorkloadPiece ==
  /\ StartWorkload \in Seq(AnyCall) /\ Ordered(StartWorkload)
  /\ \A x \in Left(StartWorkload) : OfWorkload(x)
  /\ Will(Left(StartWorkload), "list", Workload) /\ Will(Left(StartWorkload), "start", Workload)
<1> DEFINE a == OnAll("image", "image")
           b == Call("list", "existing", Workload)
           c == Call("create", "workload", Workload)
           d == Call("start", "workload", Workload)
<1>1. /\ "list" \in Dos /\ "create" \in Dos /\ "start" \in Dos /\ "image" \in Dos
      /\ Workload \in Containers /\ Toxiproxy \in Containers
  BY Names DEF Dos
<1>2. /\ a \in AnyCall /\ a.do = "image" /\ a.part = "image" /\ a.on = Toxiproxy
      /\ b \in AnyCall /\ b.do = "list" /\ b.part = "existing" /\ b.on = Workload
      /\ c \in AnyCall /\ c.do = "create" /\ c.part = "workload" /\ c.on = Workload
      /\ d \in AnyCall /\ d.do = "start" /\ d.part = "workload" /\ d.on = Workload
  BY <1>1, CallsMade, PartNames DEF OnAll
<1>3. StartWorkload = <<a, b, c, d>>
  BY DEF StartWorkload
<1> HIDE DEF a, b, c, d
<1>4. /\ Follows(a, b) /\ Follows(a, c) /\ Follows(a, d) /\ Follows(b, c) /\ Follows(b, d)
      /\ Follows(c, d)
  BY <1>2, Roles DEF Follows, Removal
<1>5. StartWorkload \in Seq(AnyCall) /\ Left(StartWorkload) = {a, b, c, d} /\ Ordered(StartWorkload)
  BY <1>2, <1>3, <1>4, OrderedFour
<1>6. \A x \in Left(StartWorkload) : OfWorkload(x)
  BY <1>2, <1>5 DEF OfWorkload
<1>. QED  BY <1>2, <1>5, <1>6 DEF Will

(* StopWorkload is one removal. *)
LEMMA StopPiece ==
  /\ StopWorkload \in Seq(AnyCall) /\ Ordered(StopWorkload)
  /\ \A x \in Left(StopWorkload) : x.do = "list" /\ x.on = Workload /\ x.part # "baseline"
  /\ Will(Left(StopWorkload), "list", Workload)
<1> DEFINE a == Call("list", "workload", Workload)
<1>1. "list" \in Dos /\ Workload \in Containers
  BY Names DEF Dos
<1>2. a \in AnyCall /\ a.do = "list" /\ a.part = "workload" /\ a.on = Workload
  BY <1>1, CallsMade, PartNames
<1>3. StopWorkload = <<a>>
  BY DEF StopWorkload
<1> HIDE DEF a
<1>4. StopWorkload \in Seq(AnyCall) /\ Left(StopWorkload) = {a} /\ Ordered(StopWorkload)
  BY <1>2, <1>3, OrderedOne
<1>. QED  BY <1>2, <1>4 DEF Will

(* The calls that take the cluster down. *)
LEMMA DestroyPiece ==
  ASSUME NEW purge \in BOOLEAN
  PROVE  LET s == DestroyCluster(purge) IN
         /\ s \in Seq(AnyCall) /\ Ordered(s)
         /\ \A x \in Left(s) : OfDestroy(x)
         /\ Will(Left(s), "list", Node(1)) /\ Will(Left(s), "list", Toxiproxy) /\ Any(Left(s), "volumes")
         /\ purge => Any(Left(s), "collect")
<1> DEFINE w == OnAll("collect", "collect")
           x == Call("list", "cluster", Node(1))
           y == Call("list", "cluster", Toxiproxy)
           z == OnAll("volumes", "cluster")
           a == IF purge THEN <<w>> ELSE << >>
           b == <<x, y, z>>
<1>0. 1 \in 1 .. MaxNodes
  BY NodesAssumption
<1>1. /\ "list" \in Dos /\ "collect" \in Dos /\ "volumes" \in Dos
      /\ Toxiproxy \in Containers /\ Node(1) \in Containers
  BY <1>0, Names DEF Dos
<1>2. /\ w \in AnyCall /\ w.do = "collect" /\ w.part = "collect" /\ w.on = Toxiproxy
      /\ x \in AnyCall /\ x.do = "list" /\ x.part = "cluster" /\ x.on = Node(1)
      /\ y \in AnyCall /\ y.do = "list" /\ y.part = "cluster" /\ y.on = Toxiproxy
      /\ z \in AnyCall /\ z.do = "volumes" /\ z.part = "cluster" /\ z.on = Toxiproxy
  BY <1>1, CallsMade, PartNames DEF OnAll
<1>3. DestroyCluster(purge) = a \o b
  BY DEF DestroyCluster
<1> HIDE DEF w, x, y, z
<1>4. Follows(x, y) /\ Follows(x, z) /\ Follows(y, z)
  BY <1>2, Roles DEF Follows, Removal
<1>5. b \in Seq(AnyCall) /\ Left(b) = {x, y, z} /\ Ordered(b)
  BY <1>2, <1>4, OrderedTriple
<1>6. a \in Seq(AnyCall) /\ Ordered(a) /\ Left(a) = IF purge THEN {w} ELSE {}
  <2>1. CASE purge
    BY <1>2, <2>1, OrderedOne
  <2>2. CASE ~purge
    BY <2>2, LeftEmpty, TuplesAreLists
  <2>. QED  BY <2>1, <2>2
<1>7. Follows(w, x) /\ Follows(w, y) /\ Follows(w, z)
  BY <1>2, Roles DEF Follows, Removal
<1> HIDE DEF a, b
<1>8. \A u \in Left(a), v \in Left(b) : Follows(u, v)
  BY <1>5, <1>6, <1>7
<1>9. Ordered(a \o b) /\ Left(a \o b) = Left(a) \cup Left(b) /\ a \o b \in Seq(AnyCall)
  BY <1>5, <1>6, <1>8, OrderedConcat
<1>10. \A u \in Left(a) \cup Left(b) : OfDestroy(u)
  BY <1>2, <1>5, <1>6 DEF OfDestroy
<1>11. /\ Will(Left(a) \cup Left(b), "list", Node(1)) /\ Will(Left(a) \cup Left(b), "list", Toxiproxy)
       /\ Any(Left(a) \cup Left(b), "volumes") /\ (purge => Any(Left(a) \cup Left(b), "collect"))
  BY <1>2, <1>5, <1>6 DEF Will, Any
<1>. QED  BY <1>3, <1>9, <1>10, <1>11

(* The calls that make a cluster. *)
LEMMA CreatePiece ==
  ASSUME NEW n \in 1 .. MaxNodes
  PROVE  LET s == CreateCluster(n) IN
         /\ s \in Seq(AnyCall) /\ Ordered(s)
         /\ \A x \in Left(s) : OfCreate(x, n)
         /\ \A i \in 1 .. n, d \in {"volume", "create", "start"} : Will(Left(s), d, Node(i))
         /\ Any(Left(s), "network") /\ Any(Left(s), "toxiproxy") /\ Any(Left(s), "ready") /\ Any(Left(s), "init")
<1> DEFINE w == OnAll("network", "network")
           x == OnAll("toxiproxy", "toxiproxy")
           y == OnAll("ready", "nodes")
           z == OnAll("init", "nodes")
           a == <<w, x>>
           m == startNodes(n)
           b == <<y, z>>
<1>1. /\ "network" \in Dos /\ "toxiproxy" \in Dos /\ "ready" \in Dos /\ "init" \in Dos
      /\ Toxiproxy \in Containers
  BY Names DEF Dos
<1>2. /\ w \in AnyCall /\ w.do = "network" /\ w.part = "network" /\ w.on = Toxiproxy
      /\ x \in AnyCall /\ x.do = "toxiproxy" /\ x.part = "toxiproxy" /\ x.on = Toxiproxy
      /\ y \in AnyCall /\ y.do = "ready" /\ y.part = "nodes" /\ y.on = Toxiproxy
      /\ z \in AnyCall /\ z.do = "init" /\ z.part = "nodes" /\ z.on = Toxiproxy
  BY <1>1, CallsMade, PartNames DEF OnAll
<1>3. CreateCluster(n) = (a \o m) \o b
  BY DEF CreateCluster
<1>4. /\ m \in Seq(AnyCall) /\ Ordered(m) /\ \A v \in Left(m) : OfNodes(v, n)
      /\ \A i \in 1 .. n, d \in {"volume", "create", "start"} : Will(Left(m), d, Node(i))
  BY NodesPiece
<1> HIDE DEF w, x, y, z, m
<1>5. Follows(w, x) /\ Follows(y, z)
  BY <1>2, Roles DEF Follows, Removal
<1>6. /\ a \in Seq(AnyCall) /\ Left(a) = {w, x} /\ Ordered(a)
      /\ b \in Seq(AnyCall) /\ Left(b) = {y, z} /\ Ordered(b)
  BY <1>2, <1>5, OrderedPair
<1> HIDE DEF a, b
<1>7. \A v \in Left(m) : v.do \in {"volume", "create", "start"} /\ v.on \in Nodes /\ v.on # Toxiproxy
  <2>1. \A i \in 1 .. n : i \in 1 .. MaxNodes
    BY NodesAssumption
  <2>. QED  BY <1>4, <2>1, Roles DEF OfNodes
<1>8. \A u \in Left(a), v \in Left(m) : Follows(u, v)
  BY <1>2, <1>6, <1>7 DEF Follows, Removal
<1>9. Ordered(a \o m) /\ Left(a \o m) = Left(a) \cup Left(m) /\ a \o m \in Seq(AnyCall)
  BY <1>4, <1>6, <1>8, OrderedConcat
<1>10. \A u \in Left(a) \cup Left(m), v \in Left(b) : Follows(u, v)
  BY <1>2, <1>6, <1>7 DEF Follows, Removal
<1> DEFINE am == a \o m
<1> HIDE DEF am
<1>11. Ordered(am \o b) /\ Left(am \o b) = Left(am) \cup Left(b) /\ am \o b \in Seq(AnyCall)
  BY <1>6, <1>9, <1>10, OrderedConcat DEF am
<1> DEFINE all == Left(a) \cup Left(m) \cup Left(b)
<1>12. Left(am \o b) = all
  BY <1>9, <1>11 DEF am
<1>13. \A v \in all : OfCreate(v, n)
  BY <1>2, <1>4, <1>6 DEF OfCreate
<1>14. \A i \in 1 .. n, d \in {"volume", "create", "start"} : Will(all, d, Node(i))
  BY <1>4 DEF Will
<1>15. Any(all, "network") /\ Any(all, "toxiproxy") /\ Any(all, "ready") /\ Any(all, "init")
  BY <1>2, <1>6 DEF Any
<1> HIDE DEF all
<1>. QED  BY <1>3, <1>11, <1>12, <1>13, <1>14, <1>15 DEF am

(* What a call tells of the command it belongs to. *)
Shaped(k, x) ==
  /\ x.do \in Directions => x.part = "baseline" /\ k = "quickstart"
  /\ x.part = "baseline" => x.do \in Directions
  /\ x.do = "remove" => \A c \in x.set : c[1] = x.on[1]
  /\ x.do = "remove-network" => x.part = "network" /\ k \in {"rm", "destroy"}
  /\ x.do = "existing" => k = "scale"
  /\ x.do = "ready" => k \in {"create", "quickstart"}

(* The calls of one piece may come after those of another. *)
LEMMA PiecesInOrder ==
  ASSUME NEW n \in 1 .. MaxNodes, NEW x, NEW y
  PROVE  /\ (OfCreate(x, n) /\ OfLatency(y, n)) => Follows(x, y)
         /\ ((OfCreate(x, n) \/ OfLatency(x, n)) /\ OfObs(y)) => Follows(x, y)
         /\ ((OfCreate(x, n) \/ OfLatency(x, n) \/ OfObs(x)) /\ OfWorkload(y)) => Follows(x, y)
         /\ (x.do = "list" /\ x.on = Workload /\ OfDestroy(y)) => Follows(x, y)
         /\ (((x.do = "list" /\ x.on = Workload) \/ OfDestroy(x)) /\ OfTeardown(y)) => Follows(x, y)
         /\ (((x.do = "list" /\ x.on = Workload) \/ OfDestroy(x) \/ OfTeardown(x)) /\ y.do = "remove-network")
              => Follows(x, y)
         /\ (x.do = "toxiproxy" /\ OfProxies(y, n)) => Follows(x, y)
<1>0. \A i \in 1 .. n : i \in 1 .. MaxNodes
  BY NodesAssumption
<1>1. /\ \A w : OfNodes(w, n) => w.do \in {"volume", "create", "start"} /\ w.on \in Nodes /\ w.on[1] = "crdb"
      /\ \A w : OfLatency(w, n) => w.do \in {"up", "down"} /\ w.on \in Nodes
      /\ \A w : OfProxies(w, n) => w.do = "register" /\ w.on \in Nodes
  BY <1>0, Roles DEF OfNodes, OfLatency, OfProxies
<1>2. 1 \in 1 .. MaxNodes
  BY NodesAssumption
<1>3. Node(1) \in Nodes /\ Node(1)[1] = "crdb"
  BY <1>2, Roles
<1>4. (OfCreate(x, n) /\ OfLatency(y, n)) => Follows(x, y)
  BY <1>1, Roles DEF OfCreate, Follows, Removal
<1>5. ((OfCreate(x, n) \/ OfLatency(x, n)) /\ OfObs(y)) => Follows(x, y)
  BY <1>1, Roles DEF OfCreate, OfObs, Follows, Removal
<1>6. ((OfCreate(x, n) \/ OfLatency(x, n) \/ OfObs(x)) /\ OfWorkload(y)) => Follows(x, y)
  BY <1>1, Roles DEF OfCreate, OfObs, OfWorkload, Follows, Removal
<1>7. (x.do = "list" /\ x.on = Workload /\ OfDestroy(y)) => Follows(x, y)
  BY <1>3, Roles DEF OfDestroy, Follows, Removal
<1>8. (((x.do = "list" /\ x.on = Workload) \/ OfDestroy(x)) /\ OfTeardown(y)) => Follows(x, y)
  BY <1>3, Roles DEF OfDestroy, OfTeardown, Follows, Removal
<1>9. (((x.do = "list" /\ x.on = Workload) \/ OfDestroy(x) \/ OfTeardown(x)) /\ y.do = "remove-network")
              => Follows(x, y)
  BY <1>3, Roles DEF OfDestroy, OfTeardown, Follows, Removal
<1>10. (x.do = "toxiproxy" /\ OfProxies(y, n)) => Follows(x, y)
  BY <1>1, Roles DEF Follows, Removal
<1>. QED  BY <1>4, <1>5, <1>6, <1>7, <1>8, <1>9, <1>10

(* What a call of a piece tells of its command. *)
LEMMA PiecesShaped ==
  ASSUME NEW n \in 1 .. MaxNodes, NEW k, NEW x
  PROVE  /\ (OfObs(x) \/ OfWorkload(x) \/ OfDestroy(x) \/ OfTeardown(x)
             \/ OfProxies(x, n) \/ OfToxiproxy(x, n) \/ OfNodes(x, n)) => Shaped(k, x)
         /\ (OfCreate(x, n) /\ k \in {"create", "quickstart"}) => Shaped(k, x)
         /\ (OfLatency(x, n) /\ k = "quickstart") => Shaped(k, x)
         /\ (x.do = "list" /\ x.part # "baseline") => Shaped(k, x)
         /\ (x.do = "remove-network" /\ x.part = "network" /\ k \in {"rm", "destroy"}) => Shaped(k, x)
         /\ (x.do = "toxiproxy" /\ x.part = "toxiproxy") => Shaped(k, x)
         /\ (x.do = "existing" /\ x.part = "scale" /\ k = "scale") => Shaped(k, x)
<1>1. ((OfCreate(x, n) /\ k \in {"create", "quickstart"}) \/ OfNodes(x, n)) => Shaped(k, x)
  BY DEF Shaped, Directions, OfCreate, OfNodes
<1>2. (OfObs(x) \/ OfWorkload(x)) => Shaped(k, x)
  BY DEF Shaped, Directions, OfObs, OfWorkload
<1>3. (OfDestroy(x) \/ OfTeardown(x)) => Shaped(k, x)
  BY DEF Shaped, Directions, OfDestroy, OfTeardown
<1>4. (OfProxies(x, n) \/ OfToxiproxy(x, n)) => Shaped(k, x)
  BY DEF Shaped, Directions, OfProxies, OfToxiproxy
<1>5. (OfLatency(x, n) /\ k = "quickstart") => Shaped(k, x)
  BY DEF Shaped, Directions, OfLatency
<1>6. /\ (x.do = "list" /\ x.part # "baseline") => Shaped(k, x)
      /\ (x.do = "remove-network" /\ x.part = "network" /\ k \in {"rm", "destroy"}) => Shaped(k, x)
      /\ (x.do = "toxiproxy" /\ x.part = "toxiproxy") => Shaped(k, x)
      /\ (x.do = "existing" /\ x.part = "scale" /\ k = "scale") => Shaped(k, x)
  BY DEF Shaped, Directions
<1>. QED  BY <1>1, <1>2, <1>3, <1>4, <1>5, <1>6

(* The single calls of the programs. *)
LEMMA SinglePieces ==
  /\ LET x == OnAll("remove-network", "network") IN
       /\ x \in AnyCall /\ x.do = "remove-network" /\ x.part = "network" /\ x.on = Toxiproxy
  /\ LET x == OnAll("toxiproxy", "toxiproxy") IN
       /\ x \in AnyCall /\ x.do = "toxiproxy" /\ x.part = "toxiproxy" /\ x.on = Toxiproxy
  /\ LET x == OnAll("existing", "scale") IN
       /\ x \in AnyCall /\ x.do = "existing" /\ x.part = "scale" /\ x.on = Toxiproxy
<1>1. "remove-network" \in Dos /\ "toxiproxy" \in Dos /\ Toxiproxy \in Containers
  BY Names DEF Dos
<1>2. OnAll("existing", "scale") \in AnyCall
  BY <1>1, PartNames DEF OnAll, Call, AnyCall
<1>. QED  BY <1>1, <1>2, CallsMade, CallIs, PartNames DEF OnAll

(* The program of quickstart. *)
LEMMA QuickstartProgram ==
  ASSUME NEW n \in 1 .. MaxNodes, NEW flag \in BOOLEAN
  PROVE  LET s == Program("quickstart", n, flag) IN
         /\ s \in Seq(AnyCall) /\ Ordered(s)
         /\ Left(s) = Left(CreateCluster(n)) \cup (IF flag THEN Left(ApplyRegionalLatencies(n)) ELSE {})
                      \cup Left(SetupObs) \cup Left(StartWorkload)
<1> DEFINE a == CreateCluster(n)
           b == IF flag THEN ApplyRegionalLatencies(n) ELSE << >>
           c == SetupObs
           d == StartWorkload
<1>1. Program("quickstart", n, flag) = ((a \o b) \o c) \o d
  BY DEF Program
<1>2. a \in Seq(AnyCall) /\ Ordered(a) /\ \A x \in Left(a) : OfCreate(x, n)
  BY CreatePiece
<1>3. /\ b \in Seq(AnyCall) /\ Ordered(b) /\ \A x \in Left(b) : OfLatency(x, n)
      /\ Left(b) = IF flag THEN Left(ApplyRegionalLatencies(n)) ELSE {}
  <2>1. CASE flag
    BY <2>1, LatencyPiece
  <2>2. CASE ~flag
    BY <2>2, LeftEmpty, TuplesAreLists
  <2>. QED  BY <2>1, <2>2
<1>4. c \in Seq(AnyCall) /\ Ordered(c) /\ \A x \in Left(c) : OfObs(x)
  BY ObsPiece
<1>5. d \in Seq(AnyCall) /\ Ordered(d) /\ \A x \in Left(d) : OfWorkload(x)
  BY WorkloadPiece
<1> HIDE DEF a, b, c, d
<1>6. \A x \in Left(a), y \in Left(b) : Follows(x, y)
  BY <1>2, <1>3, PiecesInOrder
<1>7. Ordered(a \o b) /\ Left(a \o b) = Left(a) \cup Left(b) /\ a \o b \in Seq(AnyCall)
  BY <1>2, <1>3, <1>6, OrderedConcat
<1> DEFINE ab == a \o b
<1> HIDE DEF ab
<1>8. \A x \in Left(ab), y \in Left(c) : Follows(x, y)
  BY <1>2, <1>3, <1>4, <1>7, PiecesInOrder DEF ab
<1>9. Ordered(ab \o c) /\ Left(ab \o c) = Left(ab) \cup Left(c) /\ ab \o c \in Seq(AnyCall)
  BY <1>4, <1>7, <1>8, OrderedConcat DEF ab
<1> DEFINE abc == ab \o c
<1> HIDE DEF abc
<1>10. \A x \in Left(abc), y \in Left(d) : Follows(x, y)
  BY <1>2, <1>3, <1>4, <1>5, <1>7, <1>9, PiecesInOrder DEF ab, abc
<1>11. Ordered(abc \o d) /\ Left(abc \o d) = Left(abc) \cup Left(d) /\ abc \o d \in Seq(AnyCall)
  BY <1>5, <1>9, <1>10, OrderedConcat DEF abc
<1>12. Left(abc \o d) = ((Left(a) \cup Left(b)) \cup Left(c)) \cup Left(d)
  BY <1>7, <1>9, <1>11 DEF ab, abc
<1>. QED  BY <1>1, <1>3, <1>11, <1>12 DEF a, c, d, ab, abc

(* The programs of rm and destroy, which end with the network. *)
LEMMA RemovalPrograms ==
  ASSUME NEW n \in 1 .. MaxNodes, NEW flag \in BOOLEAN, NEW k \in {"rm", "destroy"}
  PROVE  LET s == Program(k, n, flag) IN
         /\ s \in Seq(AnyCall) /\ Ordered(s)
         /\ Left(s) = (IF k = "destroy" THEN Left(StopWorkload) ELSE {})
                      \cup Left(DestroyCluster(Purging(k, flag))) \cup Left(TeardownObs)
                      \cup (IF flag \/ k = "destroy" THEN {OnAll("remove-network", "network")} ELSE {})
<1> DEFINE a == IF k = "destroy" THEN StopWorkload ELSE << >>
           b == DestroyCluster(Purging(k, flag))
           c == TeardownObs
           d == IF flag \/ k = "destroy" THEN <<OnAll("remove-network", "network")>> ELSE << >>
<1>2. /\ a \in Seq(AnyCall) /\ Ordered(a)
      /\ Left(a) = IF k = "destroy" THEN Left(StopWorkload) ELSE {}
      /\ \A x \in Left(a) : x.do = "list" /\ x.on = Workload
  <2>1. CASE k = "destroy"
    BY <2>1, StopPiece
  <2>2. CASE k # "destroy"
    BY <2>2, LeftEmpty, TuplesAreLists
  <2>. QED  BY <2>1, <2>2
<1>3. b \in Seq(AnyCall) /\ Ordered(b) /\ \A x \in Left(b) : OfDestroy(x)
  <2>1. Purging(k, flag) \in BOOLEAN
    BY Zenon DEF Purging
  <2>. QED  BY <2>1, DestroyPiece
<1>4. c \in Seq(AnyCall) /\ Ordered(c) /\ \A x \in Left(c) : OfTeardown(x)
  BY TeardownPiece
<1>5. /\ d \in Seq(AnyCall) /\ Ordered(d)
      /\ Left(d) = IF flag \/ k = "destroy" THEN {OnAll("remove-network", "network")} ELSE {}
      /\ \A x \in Left(d) : x.do = "remove-network"
  <2>1. CASE flag \/ k = "destroy"
    <3> DEFINE r == OnAll("remove-network", "network")
    <3>1. r \in AnyCall /\ r.do = "remove-network"
      BY SinglePieces
    <3> HIDE DEF r
    <3>2. <<r>> \in Seq(AnyCall) /\ Ordered(<<r>>) /\ Left(<<r>>) = {r}
      BY <3>1, OrderedOne
    <3>3. d = <<r>>
      BY <2>1 DEF r
    <3> HIDE DEF d
    <3>. QED  BY <2>1, <3>1, <3>2, <3>3 DEF r
  <2>2. CASE ~(flag \/ k = "destroy")
    BY <2>2, LeftEmpty, TuplesAreLists
  <2>. QED  BY <2>1, <2>2
<1>1. Program(k, n, flag) = ((a \o b) \o c) \o d
  <2>1. CASE k = "destroy"
    BY <2>1 DEF Program
  <2>2. CASE k = "rm"
    <3>1. Program(k, n, flag) = (b \o c) \o d
      BY <2>2 DEF Program
    <3>2. a = << >> /\ << >> \o b = b
      BY <1>3, <2>2, ConcatEmptySeq
    <3>. QED  BY <3>1, <3>2
  <2>. QED  BY <2>1, <2>2
<1> HIDE DEF a, b, c, d
<1>6. \A x \in Left(a), y \in Left(b) : Follows(x, y)
  BY <1>2, <1>3, PiecesInOrder
<1>7. Ordered(a \o b) /\ Left(a \o b) = Left(a) \cup Left(b) /\ a \o b \in Seq(AnyCall)
  BY <1>2, <1>3, <1>6, OrderedConcat
<1> DEFINE ab == a \o b
<1> HIDE DEF ab
<1>8. \A x \in Left(ab), y \in Left(c) : Follows(x, y)
  BY <1>2, <1>3, <1>4, <1>7, PiecesInOrder DEF ab
<1>9. Ordered(ab \o c) /\ Left(ab \o c) = Left(ab) \cup Left(c) /\ ab \o c \in Seq(AnyCall)
  BY <1>4, <1>7, <1>8, OrderedConcat DEF ab
<1> DEFINE abc == ab \o c
<1> HIDE DEF abc
<1>10. \A x \in Left(abc), y \in Left(d) : Follows(x, y)
  BY <1>2, <1>3, <1>4, <1>5, <1>7, <1>9, PiecesInOrder DEF ab, abc
<1>11. Ordered(abc \o d) /\ Left(abc \o d) = Left(abc) \cup Left(d) /\ abc \o d \in Seq(AnyCall)
  BY <1>5, <1>9, <1>10, OrderedConcat DEF abc
<1>12. Left(abc \o d) = ((Left(a) \cup Left(b)) \cup Left(c)) \cup Left(d)
  BY <1>7, <1>9, <1>11 DEF ab, abc
<1>. QED  BY <1>1, <1>2, <1>5, <1>11, <1>12 DEF b, c, ab, abc

(* The program of chaos setup. *)
LEMMA ChaosProgram ==
  ASSUME NEW n \in 1 .. MaxNodes, NEW flag \in BOOLEAN
  PROVE  LET s == Program("chaos-setup", n, flag) IN
         /\ s \in Seq(AnyCall) /\ Ordered(s)
         /\ Left(s) = {OnAll("toxiproxy", "toxiproxy")} \cup Left(EnsureProxies(n))
<1> DEFINE a == <<OnAll("toxiproxy", "toxiproxy")>>
           b == EnsureProxies(n)
<1>1. Program("chaos-setup", n, flag) = a \o b
  BY DEF Program
<1>2. a \in Seq(AnyCall) /\ Ordered(a) /\ Left(a) = {OnAll("toxiproxy", "toxiproxy")}
  BY SinglePieces, OrderedOne
<1>3. b \in Seq(AnyCall) /\ Ordered(b) /\ \A x \in Left(b) : OfProxies(x, n)
  BY ProxiesPiece
<1> HIDE DEF a, b
<1>4. \A x \in Left(a), y \in Left(b) : Follows(x, y)
  BY <1>2, <1>3, PiecesInOrder, SinglePieces
<1>5. Ordered(a \o b) /\ Left(a \o b) = Left(a) \cup Left(b) /\ a \o b \in Seq(AnyCall)
  BY <1>2, <1>3, <1>4, OrderedConcat
<1>. QED  BY <1>1, <1>2, <1>5 DEF b

(* The programs that are one piece. *)
LEMMA PlainPrograms ==
  ASSUME NEW n \in 1 .. MaxNodes, NEW flag \in BOOLEAN
  PROVE  /\ Program("create", n, flag) = CreateCluster(n)
         /\ Program("scale", n, flag) = <<OnAll("existing", "scale")>>
         /\ Program("workload-start", n, flag) = StartWorkload
         /\ Program("workload-stop", n, flag) = StopWorkload
         /\ Program("obs-setup", n, flag) = SetupObs
         /\ Program("obs-teardown", n, flag) = TeardownObs
BY DEF Program

(* All programs are in order, and their calls tell of the command they belong to. *)
LEMMA ProgramOrdered ==
  ASSUME NEW k \in Kinds, NEW n \in 1 .. MaxNodes, NEW flag \in BOOLEAN
  PROVE  LET s == Program(k, n, flag) IN s \in Seq(AnyCall) /\ Ordered(s) /\ \A x \in Left(s) : Shaped(k, x)
<1>1. CASE k = "create"
  BY <1>1, PlainPrograms, CreatePiece, PiecesShaped
<1>2. CASE k = "scale"
  <2> DEFINE e == OnAll("existing", "scale")
  <2>1. e \in AnyCall /\ Shaped(k, e)
    BY <1>2, SinglePieces, PiecesShaped
  <2>2. Program(k, n, flag) = <<e>>
    BY <1>2, PlainPrograms
  <2> HIDE DEF e
  <2>3. <<e>> \in Seq(AnyCall) /\ Ordered(<<e>>) /\ Left(<<e>>) = {e}
    BY <2>1, OrderedOne
  <2>. QED  BY <2>1, <2>2, <2>3
<1>3. CASE k = "workload-start"
  BY <1>3, PlainPrograms, WorkloadPiece, PiecesShaped
<1>4. CASE k = "workload-stop"
  BY <1>4, PlainPrograms, StopPiece, PiecesShaped
<1>5. CASE k = "obs-setup"
  BY <1>5, PlainPrograms, ObsPiece, PiecesShaped
<1>6. CASE k = "obs-teardown"
  BY <1>6, PlainPrograms, TeardownPiece, PiecesShaped
<1>7. CASE k = "chaos-setup"
  <2>1. \A x \in Left(EnsureProxies(n)) : Shaped(k, x)
    BY ProxiesPiece, PiecesShaped
  <2>2. Shaped(k, OnAll("toxiproxy", "toxiproxy"))
    BY SinglePieces, PiecesShaped
  <2>. QED  BY <1>7, <2>1, <2>2, ChaosProgram
<1>8. CASE k = "quickstart"
  <2>1. \A x \in Left(CreateCluster(n)) : Shaped(k, x)
    BY <1>8, CreatePiece, PiecesShaped
  <2>2. \A x \in Left(ApplyRegionalLatencies(n)) : Shaped(k, x)
    BY <1>8, LatencyPiece, PiecesShaped
  <2>3. \A x \in Left(SetupObs) \cup Left(StartWorkload) : Shaped(k, x)
    BY ObsPiece, WorkloadPiece, PiecesShaped
  <2>. QED  BY <1>8, <2>1, <2>2, <2>3, QuickstartProgram
<1>9. CASE k \in {"rm", "destroy"}
  <2>1. Purging(k, flag) \in BOOLEAN
    BY Zenon DEF Purging
  <2>2. \A x \in Left(DestroyCluster(Purging(k, flag))) : Shaped(k, x)
    BY <2>1, DestroyPiece, PiecesShaped
  <2>3. \A x \in Left(StopWorkload) \cup Left(TeardownObs) : Shaped(k, x)
    BY StopPiece, TeardownPiece, PiecesShaped
  <2>4. Shaped(k, OnAll("remove-network", "network"))
    BY <1>9, SinglePieces, PiecesShaped
  <2>. QED  BY <1>9, <2>2, <2>3, <2>4, RemovalPrograms
<1>. QED  BY <1>1, <1>2, <1>3, <1>4, <1>5, <1>6, <1>7, <1>8, <1>9 DEF Kinds

-----------------------------------------------------------------------------
(* What a call does to the list it is taken from.                           *)

(* The lists of a command are in order, and nothing is ahead of one that is done. *)
InOrder(c) ==
  /\ Ordered(c.todo) /\ \A x \in Left(c.todo) : Shaped(c.kind, x)
  /\ c.at = "ok" => c.todo = << >>

OrderInv == InOrder(cmd)

(* The calls behind the one that is made. *)
Later == Left(Tail(cmd.todo))

(* What a command was asked, and how far it is. *)
Asked(c, d) ==
  /\ d.kind = c.kind /\ d.flag = c.flag /\ d.faulty = c.faulty /\ d.orphans = c.orphans
  /\ d.fit = c.fit /\ d.oneStore = c.oneStore /\ d.cold = c.cold
Same(c, d) == Asked(c, d) /\ d.n = c.n /\ d.at = c.at

(* Setting the list of calls. *)
LEMMA SetTodo ==
  ASSUME NEW c \in Commands, NEW list
  PROVE  LET d == [c EXCEPT !.todo = list] IN Same(c, d) /\ d.vols = c.vols /\ d.todo = list
BY DEF Commands, Same, Asked

(* The command is well formed, and so are the calls it has ahead. *)
LEMMA CommandIs == IndInv => cmd \in Commands /\ cmd.todo \in Seq(AnyCall)
<1>1. IndInv => cmd \in Commands
  BY DEF IndInv, CommandInv, Good, AboutToLook
<1>. QED  BY <1>1 DEF Commands

(* The call at the head, and those behind it. *)
LEMMA HeadOf ==
  ASSUME IndInv, OrderInv, cmd.todo # << >>
  PROVE  /\ cmd \in Commands /\ cmd.todo[1] \in AnyCall /\ Tail(cmd.todo) \in Seq(AnyCall)
         /\ Todo = {cmd.todo[1]} \cup Later /\ Later \subseteq AnyCall
         /\ Ordered(Tail(cmd.todo)) /\ \A y \in Later : Follows(cmd.todo[1], y)
         /\ Shaped(cmd.kind, cmd.todo[1]) /\ \A y \in Later : Shaped(cmd.kind, y)
<1>1. cmd \in Commands /\ cmd.todo \in Seq(AnyCall)
  BY CommandIs
<1>2. cmd.todo[1] \in AnyCall /\ Tail(cmd.todo) \in Seq(AnyCall)
  BY <1>1, NonEmpty
<1>3. Todo = {cmd.todo[1]} \cup Later /\ Todo \subseteq AnyCall
  BY <1>1, LeftHead DEF Todo, Later
<1>4. Ordered(cmd.todo) /\ \A x \in Todo : Shaped(cmd.kind, x)
  BY DEF OrderInv, InOrder, Todo
<1>5. Ordered(Tail(cmd.todo)) /\ \A y \in Later : Follows(cmd.todo[1], y)
  BY <1>1, <1>4, OrderedTail DEF Later
<1>. QED  BY <1>1, <1>2, <1>3, <1>4, <1>5

(* The calls in front are replaced: by none when the call did what it should, by those
   it stands for otherwise. *)
LEMMA PushEffect ==
  ASSUME IndInv, OrderInv, cmd.at # "ok", cmd.todo # << >>, NEW front \in Seq(AnyCall), Ordered(front),
         \A x \in Left(front), y \in Later : Follows(x, y), \A x \in Left(front) : Shaped(cmd.kind, x)
  PROVE  LET d == [cmd EXCEPT !.todo = front \o Tail(cmd.todo)] IN
         /\ InOrder(d) /\ Same(cmd, d) /\ d.vols = cmd.vols /\ Left(d.todo) = Left(front) \cup Later
<1> DEFINE d == [cmd EXCEPT !.todo = front \o Tail(cmd.todo)]
<1>1. /\ cmd \in Commands /\ Tail(cmd.todo) \in Seq(AnyCall) /\ Ordered(Tail(cmd.todo))
      /\ \A y \in Later : Shaped(cmd.kind, y)
  BY HeadOf
<1>2. /\ Ordered(front \o Tail(cmd.todo)) /\ Left(front \o Tail(cmd.todo)) = Left(front) \cup Later
  BY <1>1, OrderedConcat DEF Later
<1>3. Same(cmd, d) /\ d.vols = cmd.vols /\ d.todo = front \o Tail(cmd.todo)
  BY <1>1, SetTodo
<1> HIDE DEF d
<1>4. d.kind = cmd.kind /\ d.at = cmd.at
  BY <1>3 DEF Same, Asked
<1>5. InOrder(d)
  BY <1>1, <1>2, <1>3, <1>4 DEF InOrder
<1>. QED  BY <1>2, <1>3, <1>5 DEF d

(* The call is done: those behind it are left, in order. *)
LEMMA RestEffect ==
  ASSUME IndInv, OrderInv, cmd.at # "ok", cmd.todo # << >>
  PROVE  /\ InOrder(Rest) /\ Same(cmd, Rest) /\ Rest.vols = cmd.vols /\ Left(Rest.todo) = Later
<1>1. cmd \in Commands /\ Tail(cmd.todo) \in Seq(AnyCall)
  BY HeadOf
<1>2. << >> \in Seq(AnyCall) /\ Ordered(<< >>) /\ Left(<< >>) = {}
  BY LeftEmpty, TuplesAreLists
<1>3. << >> \o Tail(cmd.todo) = Tail(cmd.todo)
  BY <1>1, ConcatEmptySeq
<1> DEFINE e == << >>
<1>4. /\ e \in Seq(AnyCall) /\ Ordered(e) /\ Left(e) = {}
      /\ Rest = [cmd EXCEPT !.todo = e \o Tail(cmd.todo)]
  BY <1>2, <1>3 DEF Rest, Now
<1> HIDE DEF e
<1>. QED  BY <1>4, PushEffect

(* The command gives up. *)
GaveUp(c, d) ==
  Asked(c, d) /\ d.n = c.n /\ d.at = "err" /\ d.todo = << >>

(* After an error the command gives up, or skips some of the calls behind that belong
   to the same function. *)
LEMMA ErrorEffect ==
  ASSUME IndInv, OrderInv, cmd.at # "ok", cmd.todo # << >>
  PROVE  /\ InOrder(Error)
         /\ \/ GaveUp(cmd, Error) /\ cmd.todo[1].part \notin Tolerated(cmd.kind)
            \/ /\ Same(cmd, Error) /\ Error.vols = cmd.vols /\ Left(Error.todo) \subseteq Later
               /\ cmd.todo[1].part \in Tolerated(cmd.kind)
               /\ \A y \in Later : y \in Left(Error.todo) \/ y.part = cmd.todo[1].part
<1> DEFINE part == cmd.todo[1].part
           same == {i \in DOMAIN cmd.todo : \A j \in 1 .. i : cmd.todo[j].part = part}
           t == Tail(cmd.todo)
<1>1. cmd \in Commands /\ cmd.todo \in Seq(AnyCall) /\ t \in Seq(AnyCall)
  BY CommandIs, HeadOf
<1>2. CASE part \in Tolerated(cmd.kind)
  <2>1. Len(cmd.todo) \in Nat /\ DOMAIN cmd.todo = 1 .. Len(cmd.todo) /\ 1 \in DOMAIN cmd.todo
    BY <1>1, LenProperties, EmptySeq
  <2>2. 1 \in same /\ same \in SUBSET (0 .. Len(cmd.todo)) /\ same \subseteq 1 .. Len(cmd.todo)
    BY <2>1
  <2>3. Max(same) \in same /\ Max(same) \in 1 .. Len(cmd.todo)
    <3> HIDE DEF same
    <3>1. Max(same) \in same
      BY <2>1, <2>2, MaxIn
    <3>. QED  BY <2>2, <3>1
  <2> DEFINE m == Max(same)
  <2>4. m \in 1 .. Len(cmd.todo) /\ \A j \in 1 .. m : cmd.todo[j].part = part
    BY <2>3
  <2>5. Error = [cmd EXCEPT !.todo = SubSeq(cmd.todo, 1 + m, Len(cmd.todo))]
    BY <1>2 DEF Error, Now
  <2> HIDE DEF m
  <2>6. /\ Len(t) = Len(cmd.todo) - 1 /\ \A i \in 1 .. Len(t) : t[i] = cmd.todo[i + 1]
    BY <1>1, NonEmpty
  <2>7. Ordered(t) /\ \A y \in Later : Shaped(cmd.kind, y)
    BY HeadOf
  <2> HIDE DEF t
  <2> DEFINE rest == SubSeq(t, m, Len(t))
  <2>8. SubSeq(cmd.todo, 1 + m, Len(cmd.todo)) = rest
    <3>0. m \in Int /\ Len(cmd.todo) \in Int /\ Len(t) \in Int /\ Len(t) = Len(cmd.todo) - 1
      BY <2>1, <2>4, <2>6
    <3>1. \A i \in (1 + m) .. Len(cmd.todo) : cmd.todo[i] \in AnyCall
      <4>1. \A i \in (1 + m) .. Len(cmd.todo) : i \in 1 .. Len(cmd.todo)
        BY <2>4, <3>0
      <4>. QED  BY <1>1, <4>1, ElementOfSeq
    <3>2. \A i \in m .. Len(t) : t[i] \in AnyCall
      <4>1. \A i \in m .. Len(t) : i \in 1 .. Len(t)
        BY <2>4, <3>0
      <4>. QED  BY <1>1, <4>1, ElementOfSeq
    <3>3. LET r == SubSeq(cmd.todo, 1 + m, Len(cmd.todo)) IN
          /\ r \in Seq(AnyCall) /\ Len(r) = IF 1 + m <= Len(cmd.todo) THEN Len(cmd.todo) - (1 + m) + 1 ELSE 0
          /\ \A i \in 1 .. Len(cmd.todo) - (1 + m) + 1 : r[i] = cmd.todo[(1 + m) + i - 1]
      BY <3>0, <3>1, SubSeqProperties
    <3>4. /\ rest \in Seq(AnyCall) /\ Len(rest) = IF m <= Len(t) THEN Len(t) - m + 1 ELSE 0
          /\ \A i \in 1 .. Len(t) - m + 1 : rest[i] = t[m + i - 1]
      BY <3>0, <3>2, SubSeqProperties
    <3> DEFINE r == SubSeq(cmd.todo, 1 + m, Len(cmd.todo))
    <3>5. r \in Seq(AnyCall) /\ rest \in Seq(AnyCall) /\ Len(r) = Len(rest)
      BY <2>4, <3>0, <3>3, <3>4
    <3>6. ASSUME NEW i \in 1 .. Len(r) PROVE r[i] = rest[i]
      <4>1. /\ i \in 1 .. Len(cmd.todo) - (1 + m) + 1 /\ i \in 1 .. Len(t) - m + 1
            /\ m + i - 1 \in 1 .. Len(t) /\ (m + i - 1) + 1 = (1 + m) + i - 1
        BY <2>4, <3>0, <3>3, <3>6
      <4>. QED  BY <2>6, <3>3, <3>4, <4>1
    <3> HIDE DEF r, rest
    <3>7. r = rest
      BY <3>5, <3>6, SeqEqual
    <3>. QED  BY <3>7 DEF r
  <2>9. m \in 1 .. (Len(t) + 1)
    BY <2>1, <2>4, <2>6
  <2>10. /\ Ordered(rest) /\ Left(rest) \subseteq Left(t)
         /\ \A i \in 1 .. Len(t) : i < m \/ t[i] \in Left(rest)
    BY <1>1, <2>7, <2>9, OrderedSuffix
  <2> HIDE DEF rest
  <2>11. Same(cmd, Error) /\ Error.vols = cmd.vols /\ Error.todo = rest
    BY <1>1, <2>5, <2>8, SetTodo
  <2>12. Later = Left(t)
    BY DEF Later, t
  <2>13. ASSUME NEW y \in Later, y \notin Left(rest) PROVE y.part = part
    <3>1. PICK i \in 1 .. Len(t) : y = t[i]
      BY <2>12 DEF Left
    <3>2. i < m /\ y = cmd.todo[i + 1]
      BY <2>6, <2>10, <2>13, <3>1
    <3>3. i + 1 \in 1 .. m
      BY <2>1, <2>4, <2>6, <3>2
    <3>. QED  BY <2>4, <3>2, <3>3
  <2>14. Error.kind = cmd.kind /\ Error.at = cmd.at
    BY <2>11 DEF Same, Asked
  <2>15. InOrder(Error)
    BY <2>7, <2>10, <2>11, <2>12, <2>14 DEF InOrder
  <2>. QED  BY <1>2, <2>10, <2>11, <2>12, <2>13, <2>15
<1>3. CASE part \notin Tolerated(cmd.kind)
  <2>1. Error = [cmd EXCEPT !.at = "err", !.todo = << >>]
    BY <1>3 DEF Error
  <2>2. GaveUp(cmd, Error)
    BY <1>1, <2>1 DEF Commands, GaveUp, Asked
  <2>3. InOrder(Error)
    BY <2>2, LeftEmpty DEF GaveUp, InOrder
  <2>. QED  BY <1>3, <2>2, <2>3
<1>. QED  BY <1>2, <1>3

(* The roles tell containers apart, but for the nodes. *)
LEMMA RoleOf ==
  ASSUME NEW c \in Containers
  PROVE  /\ c[1] = "toxiproxy" <=> c = Toxiproxy
         /\ c[1] = "prometheus" <=> c = Prometheus
         /\ c[1] = "grafana" <=> c = Grafana
         /\ c[1] = "workload" <=> c = Workload
         /\ c[1] = "crdb" <=> c \in Nodes
         /\ c \in Nodes \/ c \in {Toxiproxy, Prometheus, Grafana, Workload}
<1>1. c \in Nodes \/ c \in {Toxiproxy, Prometheus, Grafana, Workload}
  BY DEF Containers
<1>2. c \in Nodes => c[1] = "crdb"
  BY Names
<1>. QED  BY <1>1, <1>2, Roles

(* A removal that has listed what it finds, or has crossed off some of it. *)
LEMMA RemovalEffect ==
  ASSUME IndInv, OrderInv, cmd.at # "ok", cmd.todo # << >>, cmd.todo[1].do \in Removal,
         NEW set \in SUBSET Containers, \A c \in set : c[1] = cmd.todo[1].on[1]
  PROVE  LET x == [cmd.todo[1] EXCEPT !.do = "remove", !.set = set]
             d == [cmd EXCEPT !.todo = <<x>> \o Tail(cmd.todo)]
         IN /\ InOrder(d) /\ Same(cmd, d) /\ d.vols = cmd.vols /\ Left(d.todo) = {x} \cup Later
            /\ x.do = "remove" /\ x.set = set /\ x.on = cmd.todo[1].on /\ x.part = cmd.todo[1].part
<1> DEFINE h == cmd.todo[1]
           x == [h EXCEPT !.do = "remove", !.set = set]
<1>1. h \in AnyCall /\ (\A y \in Later : Follows(h, y)) /\ Shaped(cmd.kind, h)
  BY HeadOf
<1>2. /\ x \in AnyCall /\ x.do = "remove" /\ x.set = set /\ x.on = h.on /\ x.part = h.part
  BY <1>1 DEF AnyCall, Dos
<1>3. h.do \in Removal /\ \A c \in set : c[1] = h.on[1]
  OBVIOUS
<1> HIDE DEF x, h
<1>4. \A y \in Later : Follows(x, y)
  BY <1>1, <1>2, <1>3 DEF Follows, Removal
<1>5. Shaped(cmd.kind, x)
  BY <1>1, <1>2, <1>3 DEF Shaped, Directions, Removal
<1>6. <<x>> \in Seq(AnyCall) /\ Ordered(<<x>>) /\ Left(<<x>>) = {x}
  BY <1>2, OrderedOne
<1> DEFINE front == <<x>>
<1>7. front \in Seq(AnyCall) /\ Ordered(front) /\ Left(front) = {x}
  BY <1>6
<1> HIDE DEF front
<1>8. LET d == [cmd EXCEPT !.todo = front \o Tail(cmd.todo)] IN
      InOrder(d) /\ Same(cmd, d) /\ d.vols = cmd.vols /\ Left(d.todo) = {x} \cup Later
  BY <1>4, <1>5, <1>7, PushEffect
<1>. QED  BY <1>2, <1>8 DEF front, x, h

(* The containers of a role have been listed for removal. *)
LEMMA ListEffect ==
  ASSUME IndInv, OrderInv, ListForRemoval
  PROVE  \E x : /\ InOrder(cmd') /\ Same(cmd, cmd') /\ cmd'.vols = cmd.vols /\ Todo' = {x} \cup Later
                /\ x.do = "remove" /\ x.on = On /\ x.part = cmd.todo[1].part
                /\ x.set = ListContainersByRole(On[1])
<1> DEFINE set == ListContainersByRole(On[1])
           x == [cmd.todo[1] EXCEPT !.do = "remove", !.set = set]
<1>1. /\ cmd.at # "ok" /\ cmd.todo # << >> /\ cmd.todo[1].do \in Removal
      /\ cmd' = [cmd EXCEPT !.todo = <<x>> \o Tail(cmd.todo)]
  BY DEF ListForRemoval, Doing, Removal, Now
<1>2. set \in SUBSET Containers /\ \A c \in set : c[1] = cmd.todo[1].on[1]
  BY DEF ListContainersByRole, On
<1> HIDE DEF set
<1>3. /\ InOrder(cmd') /\ Same(cmd, cmd') /\ cmd'.vols = cmd.vols /\ Left(cmd'.todo) = {x} \cup Later
      /\ x.do = "remove" /\ x.set = set /\ x.on = cmd.todo[1].on /\ x.part = cmd.todo[1].part
  BY <1>1, <1>2, RemovalEffect
<1> HIDE DEF x
<1>. QED  BY <1>3 DEF Todo, On, set

(* One of the containers listed is crossed off. *)
LEMMA WithoutEffect ==
  ASSUME IndInv, OrderInv, Doing("remove"), NEW c
  PROVE  \E x : /\ InOrder(Without(c)) /\ Same(cmd, Without(c)) /\ Without(c).vols = cmd.vols
                /\ Left(Without(c).todo) = {x} \cup Later
                /\ x.do = "remove" /\ x.on = On /\ x.part = cmd.todo[1].part
                /\ x.set = cmd.todo[1].set \ {c}
<1> DEFINE h == cmd.todo[1]
           set == h.set \ {c}
           x == [h EXCEPT !.do = "remove", !.set = set]
           y == [h EXCEPT !.set = set]
<1>1. cmd.at # "ok" /\ cmd.todo # << >> /\ cmd.todo[1].do \in Removal /\ h.do = "remove"
  BY DEF Doing, Removal
<1>7. Without(c) = [cmd EXCEPT !.todo = <<y>> \o Tail(cmd.todo)]
  BY DEF Without, Now
<1>2. h \in AnyCall /\ Shaped(cmd.kind, h)
  BY <1>1, HeadOf
<1>3. set \in SUBSET Containers /\ \A e \in set : e[1] = cmd.todo[1].on[1]
  BY <1>1, <1>2 DEF AnyCall, Shaped
<1>4. x = y
  BY <1>1, <1>2 DEF AnyCall
<1> HIDE DEF set, y
<1>6. Without(c) = [cmd EXCEPT !.todo = <<x>> \o Tail(cmd.todo)]
  BY <1>4, <1>7
<1>8. LET d == [cmd EXCEPT !.todo = <<x>> \o Tail(cmd.todo)] IN
      /\ InOrder(d) /\ Same(cmd, d) /\ d.vols = cmd.vols /\ Left(d.todo) = {x} \cup Later
      /\ x.do = "remove" /\ x.set = set /\ x.on = h.on /\ x.part = h.part
  BY <1>1, <1>3, RemovalEffect
<1> HIDE DEF x
<1>5. /\ InOrder(Without(c)) /\ Same(cmd, Without(c)) /\ Without(c).vols = cmd.vols
      /\ Left(Without(c).todo) = {x} \cup Later
      /\ x.do = "remove" /\ x.set = set /\ x.on = h.on /\ x.part = h.part
  BY <1>6, <1>8
<1>. QED  BY <1>5 DEF On, set

(* EnsureToxiproxy puts nothing in front while Toxiproxy runs, and the calls that make
   a new one otherwise. *)
LEMMA ToxiproxyEffect ==
  ASSUME IndInv, OrderInv, EnsureToxiproxy
  PROVE  /\ InOrder(cmd') /\ Same(cmd, cmd') /\ cmd'.vols = cmd.vols
         /\ Todo' = (IF ct[Toxiproxy] = "running" THEN {} ELSE Left(NewToxiproxy(cmd.n))) \cup Later
<1> DEFINE h == cmd.todo[1]
           front == IF ct[Toxiproxy] = "running" THEN << >> ELSE NewToxiproxy(cmd.n)
<1>1. /\ cmd.at # "ok" /\ cmd.todo # << >> /\ h.do = "toxiproxy"
      /\ cmd' = [cmd EXCEPT !.todo = front \o Tail(cmd.todo)]
  BY DEF EnsureToxiproxy, Doing, Now
<1>2. cmd \in Commands /\ (\A y \in Later : Follows(h, y)) /\ Later \subseteq AnyCall
  BY <1>1, HeadOf
<1>3. cmd.n \in 0 .. MaxNodes
  BY <1>2 DEF Commands
<1>4. /\ front \in Seq(AnyCall) /\ Ordered(front)
      /\ Left(front) = IF ct[Toxiproxy] = "running" THEN {} ELSE Left(NewToxiproxy(cmd.n))
      /\ \A x \in Left(front) : OfToxiproxy(x, cmd.n)
  <2>1. CASE ct[Toxiproxy] = "running"
    BY <2>1, LeftEmpty, TuplesAreLists
  <2>2. CASE ct[Toxiproxy] # "running"
    BY <1>3, <2>2, ToxiproxyPiece
  <2>. QED  BY <2>1, <2>2
<1> HIDE DEF front
<1>5. ASSUME NEW x \in Left(front), NEW y \in Later PROVE Follows(x, y)
  <2>1. /\ ~(y.do \in {"list", "remove", "create", "start"} /\ y.on = Toxiproxy)
        /\ y.do # "network" /\ y.do # "toxiproxy"
    BY <1>1, <1>2, <1>5 DEF Follows
  <2>2. y.on \in Containers
    BY <1>2, <1>5 DEF AnyCall
  <2>3. ~(y.do \in {"list", "remove"} /\ y.on[1] = "toxiproxy")
    BY <2>1, <2>2, RoleOf
  <2>4. \/ x.do \in {"list", "create", "start"} /\ x.on = Toxiproxy
        \/ x.do = "register"
    BY <1>4, <1>5 DEF OfToxiproxy
  <2>. QED  BY <2>1, <2>3, <2>4, Roles DEF Follows, Removal
<1>6. \A x \in Left(front) : Shaped(cmd.kind, x)
  BY <1>4 DEF Shaped, OfToxiproxy, Directions
<1>7. /\ InOrder(cmd') /\ Same(cmd, cmd') /\ cmd'.vols = cmd.vols /\ Left(cmd'.todo) = Left(front) \cup Later
  BY <1>1, <1>4, <1>5, <1>6, PushEffect
<1>. QED  BY <1>4, <1>7 DEF Todo

(* scale is the only call of its command, until it has found the nodes: then those that
   add one above the highest. *)
LEMMA AddNodeEffect ==
  ASSUME IndInv, OrderInv, AddNode, ListContainersByRole("crdb") # {}
  PROVE  /\ InOrder(cmd') /\ Asked(cmd, cmd') /\ cmd'.at = cmd.at /\ cmd'.kind = "scale"
         /\ cmd'.n \in 1 .. MaxNodes /\ ct[Node(cmd'.n)] = "none"
         /\ \A x \in Todo' : \/ x.do = "toxiproxy"
                             \/ OfNodes(x, cmd'.n) /\ x.on = Node(cmd'.n)
<1> DEFINE found == ListContainersByRole("crdb")
           idx   == 1 + Max({0} \cup {c[2] : c \in found})
           e == OnAll("toxiproxy", "toxiproxy")
           list  == <<e>> \o startCRDBNode(idx)
<1>1. cmd.todo # << >> /\ cmd.todo[1].do = "existing" /\ cmd.at = "run"
      /\ cmd' = [cmd EXCEPT !.n = idx, !.todo = list]
  BY DEF AddNode, Doing
<1>2. cmd \in Commands /\ cmd.kind = "scale" /\ ct[Node(MaxNodes)] = "none"
  <2>1. ASSUME Good(cmd) PROVE FALSE
    <3>1. cmd.todo \in Seq(Calls(cmd.kind, cmd.flag))
      BY <2>1 DEF Good
    <3>2. cmd.todo[1] \in Calls(cmd.kind, cmd.flag)
      BY <1>1, <3>1, NonEmpty
    <3>. QED  BY <1>1, <3>2 DEF Calls, Dos
  <2>. QED  BY <2>1 DEF IndInv, CommandInv, AboutToLook
<1>3. idx \in 1 .. MaxNodes /\ ct[Node(idx)] = "none"
  <2> DEFINE T == {0} \cup {c[2] : c \in found}
  <2>1. \A c \in found : c[2] \in 1 .. (MaxNodes - 1)
    <3> SUFFICES ASSUME NEW c \in found PROVE c[2] \in 1 .. (MaxNodes - 1)
      OBVIOUS
    <3>1. c \in Containers /\ c[1] = "crdb" /\ ct[c] # "none"
      BY DEF ListContainersByRole
    <3>2. c \in Nodes
      BY <3>1, RoleOf
    <3>3. c[2] \in 1 .. MaxNodes /\ c = Node(c[2])
      BY <3>2, Names
    <3>4. c[2] # MaxNodes
      BY <1>2, <3>1, <3>3
    <3>. QED  BY <3>3, <3>4, NodesAssumption
  <2>2. T \in SUBSET (0 .. (MaxNodes - 1)) /\ T # {} /\ MaxNodes - 1 \in Nat
    BY <2>1, NodesAssumption
  <2>3. Max(T) \in T /\ \A j \in T : Max(T) >= j
    <3> HIDE DEF T
    <3>. QED  BY <2>2, MaxIn
  <2>4. idx \in 1 .. MaxNodes
    BY <2>2, <2>3, NodesAssumption
  <2>5. ASSUME ct[Node(idx)] # "none" PROVE FALSE
    <3> HIDE DEF idx
    <3>1. Node(idx) \in Containers /\ Node(idx)[1] = "crdb" /\ Node(idx)[2] = idx
      BY <2>4, Roles, Names
    <3>2. Node(idx) \in found
      BY <2>5, <3>1 DEF ListContainersByRole
    <3>3. idx \in T
      BY <3>1, <3>2
    <3> HIDE DEF T, found
    <3>4. Max(T) >= idx
      BY <2>3, <3>3
    <3>5. idx = 1 + Max(T) /\ Max(T) \in 0 .. (MaxNodes - 1)
      BY <2>2, <2>3 DEF idx, T
    <3>. QED  BY <2>2, <3>4, <3>5
  <2>. QED  BY <2>4, <2>5
<1> HIDE DEF idx
<1> DEFINE x == Call("volume", "nodes", Node(idx))
           y == Call("create", "nodes", Node(idx))
           z == Call("start", "nodes", Node(idx))
           b == <<x, y, z>>
<1>4. /\ Node(idx) \in Containers /\ Node(idx) \in Nodes /\ Node(idx)[1] = "crdb" /\ Node(idx) # Toxiproxy
  BY <1>3, Names, Roles
<1>5. "volume" \in Dos /\ "create" \in Dos /\ "start" \in Dos
  BY DEF Dos
<1>6. /\ x \in AnyCall /\ x.do = "volume" /\ x.part = "nodes" /\ x.on = Node(idx)
      /\ y \in AnyCall /\ y.do = "create" /\ y.part = "nodes" /\ y.on = Node(idx)
      /\ z \in AnyCall /\ z.do = "start" /\ z.part = "nodes" /\ z.on = Node(idx)
  BY <1>4, <1>5, CallsMade, PartNames
<1>7. e \in AnyCall /\ e.do = "toxiproxy" /\ e.part = "toxiproxy" /\ e.on = Toxiproxy
  BY SinglePieces
<1>8. list = <<e>> \o b
  BY DEF startCRDBNode
<1> HIDE DEF x, y, z, e
<1>9. Follows(x, y) /\ Follows(x, z) /\ Follows(y, z)
  BY <1>4, <1>6, Roles DEF Follows, Removal
<1>10. b \in Seq(AnyCall) /\ Left(b) = {x, y, z} /\ Ordered(b)
  BY <1>6, <1>9, OrderedTriple
<1>11. <<e>> \in Seq(AnyCall) /\ Left(<<e>>) = {e} /\ Ordered(<<e>>)
  BY <1>7, OrderedOne
<1>12. Follows(e, x) /\ Follows(e, y) /\ Follows(e, z)
  BY <1>4, <1>6, <1>7, Roles DEF Follows, Removal
<1> DEFINE a == <<e>>
<1> HIDE DEF a, b
<1>13. \A u \in Left(a), v \in Left(b) : Follows(u, v)
  BY <1>10, <1>11, <1>12 DEF a
<1>14. Ordered(list) /\ Left(list) = {e, x, y, z}
  <2>1. a \in Seq(AnyCall) /\ Left(a) = {e} /\ Ordered(a)
    BY <1>11 DEF a
  <2>2. Ordered(a \o b) /\ Left(a \o b) = Left(a) \cup Left(b)
    BY <1>10, <1>13, <2>1, OrderedConcat
  <2>. QED  BY <1>8, <1>10, <2>1, <2>2 DEF a
<1> HIDE DEF list
<1>15. Asked(cmd, cmd') /\ cmd'.at = cmd.at /\ cmd'.n = idx /\ cmd'.todo = list
  BY <1>1, <1>2 DEF Commands, Asked
<1>16. cmd'.kind = "scale"
  BY <1>2, <1>15 DEF Asked
<1>17. \A u \in {e, x, y, z} : Shaped("scale", u)
  BY <1>6, <1>7 DEF Shaped, Directions
<1>18. InOrder(cmd')
  BY <1>1, <1>14, <1>15, <1>16, <1>17 DEF InOrder
<1>19. idx \in 1 .. idx
  BY <1>3, NodesAssumption
<1>20. \A u \in {e, x, y, z} : u.do = "toxiproxy" \/ (OfNodes(u, idx) /\ u.on = Node(idx))
  BY <1>6, <1>7, <1>19 DEF OfNodes
<1>. QED  BY <1>3, <1>14, <1>15, <1>16, <1>18, <1>20 DEF Todo

(* A command is typed: what it was asked and what it found. *)
Typed(k, n, flag) ==
  /\ cmd'.kind = k /\ cmd'.n = n /\ cmd'.flag = flag /\ cmd'.at = "run" /\ cmd'.todo = Program(k, n, flag)
  /\ cmd'.vols = {} /\ cmd'.faulty = FALSE
  /\ cmd'.orphans = {v \in Nodes : vol[v] # NoVolume /\ ct[v] = "none"}
  /\ cmd'.fit = Fit(k, n) /\ cmd'.oneStore = (Stores(n) \subseteq {vol[Node(1)]})
  /\ cmd'.cold = (ct[Toxiproxy] # "running")

(* Typing a command changes nothing but the command. *)
LEMMA BeginEffect ==
  ASSUME Begin
  PROVE  /\ ct' = ct /\ vol' = vol /\ net' = net /\ proxies' = proxies /\ base' = base /\ inits' = inits
         /\ \E k \in Kinds, n \in 1 .. MaxNodes, flag \in BOOLEAN :
              Typed(k, n, flag) /\ (k \notin {"rm", "destroy", "quickstart"} => ~flag)
<1>1. PICK k \in Kinds, n \in Sizes, flag \in BOOLEAN :
        /\ k \notin {"create", "quickstart", "chaos-setup"} => n = Max(Sizes)
        /\ k \notin {"rm", "destroy", "quickstart"} => ~flag
        /\ k = "scale" => Node(MaxNodes) \notin ListContainersByRole("crdb")
        /\ cmd' = [NoCommand EXCEPT
                     !.kind = k, !.n = n, !.flag = flag, !.at = "run", !.todo = Program(k, n, flag),
                     !.orphans  = {v \in Nodes : vol[v] # NoVolume /\ ct[v] = "none"},
                     !.fit      = Fit(k, n),
                     !.oneStore = Stores(n) \subseteq {vol[Node(1)]},
                     !.cold     = ct[Toxiproxy] # "running"]
  BY Zenon DEF Begin
<1>2. n \in 1 .. MaxNodes
  BY NodesAssumption
<1>3. Typed(k, n, flag)
  <2> DEFINE list == Program(k, n, flag)
             fit == Fit(k, n)
             orphans == {v \in Nodes : vol[v] # NoVolume /\ ct[v] = "none"}
             one == Stores(n) \subseteq {vol[Node(1)]}
             cold == ct[Toxiproxy] # "running"
  <2>1. cmd' = [NoCommand EXCEPT !.kind = k, !.n = n, !.flag = flag, !.at = "run", !.todo = list,
                  !.orphans = orphans, !.fit = fit, !.oneStore = one, !.cold = cold]
    BY <1>1
  <2> HIDE DEF list, fit, orphans, one, cold
  <2>2. cmd' = [kind |-> k, n |-> n, flag |-> flag, at |-> "run", todo |-> list, vols |-> {},
                faulty |-> FALSE, orphans |-> orphans, fit |-> fit, oneStore |-> one, cold |-> cold]
    BY <2>1 DEF NoCommand
  <2>3. /\ cmd'.kind = k /\ cmd'.n = n /\ cmd'.flag = flag /\ cmd'.at = "run" /\ cmd'.todo = list
        /\ cmd'.vols = {} /\ cmd'.faulty = FALSE /\ cmd'.orphans = orphans /\ cmd'.fit = fit
        /\ cmd'.oneStore = one /\ cmd'.cold = cold
    BY <2>2
  <2>. QED  BY <2>3, Zenon DEF Typed, list, fit, orphans, one, cold
<1>4. ct' = ct /\ vol' = vol /\ net' = net /\ proxies' = proxies /\ base' = base /\ inits' = inits
  BY DEF Begin, dockerVars
<1>. QED  BY <1>1, <1>2, <1>3, <1>4

(* The order of calls depends on three fields. *)
LEMMA SameOrder ==
  ASSUME NEW c, NEW d, InOrder(c), d.todo = c.todo, d.kind = c.kind, d.at = c.at
  PROVE  InOrder(d)
BY DEF InOrder

(* The calls that are taken off the list when they have done what they should, or fail. *)
Simple ==
  \/ EnsureNetwork \/ ContainerCreate \/ ContainerStart \/ RegisterProxy \/ EnsureVolume \/ waitForNodes
  \/ initCluster \/ BuildWorkloadImage \/ Removed \/ RemoveObsVolume \/ RemoveNetwork
  \/ \E d \in Directions : InjectBaseline(d)

(* Each of them leaves the rest of the list, or the list after an error. *)
LEMMA SimpleCalls ==
  ASSUME Simple PROVE cmd.at = "run" /\ cmd.todo # << >> /\ (cmd' = Rest \/ cmd' = Error)
<1>1. ASSUME EnsureNetwork \/ ContainerCreate \/ ContainerStart \/ RegisterProxy \/ EnsureVolume \/ waitForNodes
      PROVE  cmd.at = "run" /\ cmd.todo # << >> /\ (cmd' = Rest \/ cmd' = Error)
  BY <1>1 DEF EnsureNetwork, ContainerCreate, ContainerStart, RegisterProxy, EnsureVolume, waitForNodes, Doing
<1>2. ASSUME initCluster \/ BuildWorkloadImage \/ Removed \/ RemoveObsVolume \/ RemoveNetwork
      PROVE  cmd.at = "run" /\ cmd.todo # << >> /\ (cmd' = Rest \/ cmd' = Error)
  BY <1>2 DEF initCluster, BuildWorkloadImage, Removed, RemoveObsVolume, RemoveNetwork, Doing
<1>3. ASSUME \E d \in Directions : InjectBaseline(d)
      PROVE  cmd.at = "run" /\ cmd.todo # << >> /\ (cmd' = Rest \/ cmd' = Error)
  BY <1>3 DEF InjectBaseline, Doing
<1>. QED  BY <1>1, <1>2, <1>3 DEF Simple

(* Collecting volumes, and crossing one off. *)
LEMMA CollectEffect ==
  ASSUME IndInv, OrderInv, CollectVolumes
  PROVE  /\ InOrder(cmd') /\ Same(cmd, cmd') /\ cmd'.vols = ListContainersByRole("crdb") /\ Todo' = Later
<1> DEFINE S == ListContainersByRole("crdb")
<1>1. cmd.at = "run" /\ cmd.todo # << >> /\ cmd' = [Rest EXCEPT !.vols = S]
  BY DEF CollectVolumes, Doing
<1>2. InOrder(Rest) /\ Same(cmd, Rest) /\ Left(Rest.todo) = Later
  BY <1>1, RestEffect
<1>3. Rest \in Commands
  <2>1. cmd \in Commands /\ Tail(cmd.todo) \in Seq(AnyCall)
    BY <1>1, HeadOf
  <2>. QED  BY <2>1 DEF Rest, Now, Commands
<1> HIDE DEF S
<1>4. Same(Rest, cmd') /\ cmd'.vols = S /\ cmd'.todo = Rest.todo
  BY <1>1, <1>3 DEF Commands, Same, Asked
<1>5. Same(cmd, cmd') /\ cmd'.kind = Rest.kind /\ cmd'.at = Rest.at
  BY <1>2, <1>4 DEF Same, Asked
<1>6. InOrder(cmd')
  BY <1>2, <1>4, <1>5, SameOrder
<1>. QED  BY <1>2, <1>4, <1>5, <1>6 DEF S, Todo

(* A volume that was collected is removed and crossed off; when none is left the call is done. *)
LEMMA VolumeEffect ==
  ASSUME IndInv, OrderInv, RemoveVolume
  PROVE  /\ InOrder(cmd') /\ Same(cmd, cmd')
         /\ \/ cmd.vols = {} /\ vol' = vol /\ cmd'.vols = {} /\ Todo' = Later
            \/ \E v \in cmd.vols : Drop(v) /\ cmd'.vols = cmd.vols \ {v} /\ Todo' = Todo
<1>1. cmd.at = "run" /\ cmd.todo # << >>
  BY DEF RemoveVolume, Doing
<1>2. CASE cmd.vols = {}
  <2>1. cmd' = Rest /\ vol' = vol
    BY <1>2 DEF RemoveVolume
  <2>2. InOrder(Rest) /\ Same(cmd, Rest) /\ Rest.vols = cmd.vols /\ Left(Rest.todo) = Later
    BY <1>1, RestEffect
  <2>. QED  BY <1>2, <2>1, <2>2 DEF Todo
<1>3. CASE cmd.vols # {}
  <2>1. PICK v \in cmd.vols : Drop(v) /\ cmd' = [cmd EXCEPT !.vols = cmd.vols \ {v}]
    BY <1>3 DEF RemoveVolume
  <2>2. cmd \in Commands
    BY CommandIs
  <2>3. Same(cmd, cmd') /\ cmd'.vols = cmd.vols \ {v} /\ cmd'.todo = cmd.todo
    BY <2>1, <2>2 DEF Commands, Same, Asked
  <2>4. cmd'.kind = cmd.kind /\ cmd'.at = cmd.at
    BY <2>3 DEF Same, Asked
  <2>5. InOrder(cmd')
    BY <2>3, <2>4, SameOrder DEF OrderInv
  <2>. QED  BY <2>1, <2>3, <2>5 DEF Todo
<1>. QED  BY <1>2, <1>3

(* A command with no calls ahead is done. *)
LEMMA FinishEffect ==
  ASSUME IndInv, Finish
  PROVE  /\ Asked(cmd, cmd') /\ cmd'.n = cmd.n /\ cmd.at = "run" /\ cmd'.at = "ok" /\ cmd.todo = << >>
         /\ cmd'.todo = << >> /\ cmd'.vols = cmd.vols /\ Todo = {} /\ Todo' = {}
         /\ ct' = ct /\ vol' = vol /\ net' = net /\ proxies' = proxies /\ base' = base
<1>1. /\ cmd.at = "run" /\ cmd.todo = << >> /\ cmd' = [cmd EXCEPT !.at = "ok"]
      /\ ct' = ct /\ vol' = vol /\ net' = net /\ proxies' = proxies /\ base' = base
  BY DEF Finish, dockerVars
<1>2. cmd \in Commands
  BY CommandIs
<1>3. Asked(cmd, cmd') /\ cmd'.n = cmd.n /\ cmd'.at = "ok" /\ cmd'.todo = << >> /\ cmd'.vols = cmd.vols
  BY <1>1, <1>2 DEF Commands, Asked
<1>. QED  BY <1>1, <1>3, LeftEmpty DEF Todo

(* The order of the calls ahead is kept by every step. *)
LEMMA OrderStep == IndInv /\ OrderInv /\ [Next]_vars => OrderInv'
<1> SUFFICES ASSUME IndInv, OrderInv, [Next]_vars PROVE InOrder(cmd')
  BY DEF OrderInv
<1>1. CASE Begin
  <2>1. PICK k \in Kinds, n \in 1 .. MaxNodes, flag \in BOOLEAN : Typed(k, n, flag)
    BY <1>1, BeginEffect
  <2>2. cmd'.kind = k /\ cmd'.at = "run" /\ cmd'.todo = Program(k, n, flag)
    BY <2>1, Zenon DEF Typed
  <2>. QED  BY <2>2, ProgramOrdered DEF InOrder
<1>2. CASE Simple
  BY <1>2, SimpleCalls, RestEffect, ErrorEffect
<1>3. CASE EnsureToxiproxy
  BY <1>3, ToxiproxyEffect
<1>4. CASE AddNode
  <2>1. CASE ListContainersByRole("crdb") # {}
    BY <1>4, <2>1, AddNodeEffect
  <2>2. CASE ListContainersByRole("crdb") = {}
    <3>1. cmd' = Error /\ cmd.at # "ok" /\ cmd.todo # << >>
      BY <1>4, <2>2 DEF AddNode, Doing
    <3>. QED  BY <3>1, ErrorEffect
  <2>. QED  BY <2>1, <2>2
<1>5. CASE CollectVolumes
  BY <1>5, CollectEffect
<1>6. CASE ListForRemoval
  BY <1>6, ListEffect
<1>7. CASE StopAndRemove
  <2>1. Doing("remove") /\ \E c \in cmd.todo[1].set : cmd' = Without(c)
    BY <1>7 DEF StopAndRemove
  <2>. QED  BY <2>1, WithoutEffect
<1>8. CASE RemoveVolume
  BY <1>8, VolumeEffect
<1>9. CASE Finish
  <2>1. cmd'.todo = << >>
    BY <1>9, FinishEffect
  <2>. QED  BY <2>1, LeftEmpty DEF InOrder
<1>10. CASE RemovalFails \/ CallFails \/ Interrupt \/ ToxiproxyExits
  <2>1. PICK c \in Commands :
           /\ cmd'.kind = c.kind /\ cmd'.at = c.at /\ cmd'.todo = c.todo
           /\ \/ c = cmd \/ (c.at = "err" /\ c.todo = << >>)
              \/ cmd.at = "run" /\ cmd.todo # << >> /\ c \in {Rest, Error}
              \/ Doing("remove") /\ \E e : c = Without(e)
    BY <1>10, FaultNoted
  <2>2. InOrder(c)
    <3>1. CASE c.at = "err" /\ c.todo = << >>
      BY <3>1, LeftEmpty DEF InOrder
    <3>2. CASE cmd.at = "run" /\ cmd.todo # << >> /\ c \in {Rest, Error}
      BY <3>2, RestEffect, ErrorEffect
    <3>3. CASE Doing("remove") /\ \E e : c = Without(e)
      BY <3>3, WithoutEffect
    <3>. QED  BY <2>1, <3>1, <3>2, <3>3 DEF OrderInv
  <2>. QED  BY <2>1, <2>2, SameOrder
<1>11. CASE UNCHANGED vars
  BY <1>11 DEF vars, OrderInv
<1>12. CASE \E c \in Nodes : NodeJoins(c)
  BY <1>12, JoinEffect DEF OrderInv
<1>. QED  BY <1>1, <1>2, <1>3, <1>4, <1>5, <1>6, <1>7, <1>8, <1>9, <1>10, <1>11, <1>12 DEF Next, Step, Simple

(* The calls of a command are in order from the start. *)
THEOREM CallsInOrder == Spec => []OrderInv
<1>1. Init => OrderInv
  BY LeftEmpty DEF Init, NoCommand, OrderInv, InOrder
<1>. QED  BY <1>1, OrderStep, LifecycleInductive, PTL DEF Spec

-----------------------------------------------------------------------------
(* destroy.                                                                 *)

(* A destroy that was not told to keep volumes and has met no error so far. *)
Destroying(c) == c.kind = "destroy" /\ ~c.flag /\ ~c.faulty /\ c.at # "err"

(* Whether the network is gone, as a formula. *)
NetDown == ~net

(* The volume of a node is gone, cannot be found, or is still to be removed: its
   container is still to be looked at, or was. *)
VolumeDealtWith(v) ==
  \/ vol[v] = NoVolume \/ v \in cmd.orphans
  \/ ct[v] # "none" /\ Any(Todo, "collect") /\ Any(Todo, "volumes")
  \/ v \in cmd.vols /\ ~Any(Todo, "collect") /\ Any(Todo, "volumes")

(* Whatever is there, the call that removes it is still ahead. *)
DestroyInv ==
  Destroying(cmd) =>
    /\ \A x \in Todo : x.do \in {"list", "remove", "collect", "volumes", "obs-volume", "remove-network"}
    /\ \A c \in Containers : ct[c] = "none" \/ \E y \in Todo : Clears(y, c)
    /\ NetDown \/ Any(Todo, "remove-network")
    /\ \A v \in Nodes : VolumeDealtWith(v)
    /\ \A v \in {Prometheus, Grafana} : vol[v] = NoVolume \/ Will(Todo, "obs-volume", v)

(* A destroy stays one. *)
LEMMA SameDestroy ==
  ASSUME NEW c, NEW d, Asked(c, d), d.at # "err", c.at # "err"
  PROVE  Destroying(d) <=> Destroying(c)
BY DEF Destroying, Asked

(* Every container is of a role that destroy lists, and every volume that is not an
   orphan is that of a container. *)
LEMMA DestroyBegins ==
  ASSUME IndInv, Begin, Destroying(cmd') PROVE DestroyInv'
<1>1. PICK k \in Kinds, n \in 1 .. MaxNodes, flag \in BOOLEAN : Typed(k, n, flag)
  BY BeginEffect
<1>2. /\ cmd'.kind = k /\ cmd'.flag = flag /\ cmd'.todo = Program(k, n, flag)
      /\ cmd'.orphans = {v \in Nodes : vol[v] # NoVolume /\ ct[v] = "none"}
  BY <1>1, Zenon DEF Typed
<1>3. k = "destroy" /\ flag = FALSE
  BY <1>2, Zenon DEF Destroying
<1>4. Purging(k, flag) = TRUE
  BY <1>3, Zenon DEF Purging
<1>5. ct' = ct /\ vol' = vol /\ net' = net
  BY BeginEffect
<1> DEFINE T == Left(Program(k, n, flag))
<1>6. T = Left(StopWorkload) \cup Left(DestroyCluster(TRUE)) \cup Left(TeardownObs)
           \cup {OnAll("remove-network", "network")}
  BY <1>3, <1>4, RemovalPrograms
<1>7. Todo' = T
  BY <1>2 DEF Todo
<1> HIDE DEF T
<1>8. /\ \A x \in Left(StopWorkload) : x.do = "list"
      /\ Will(Left(StopWorkload), "list", Workload)
  BY StopPiece
<1>9. /\ \A x \in Left(DestroyCluster(TRUE)) : OfDestroy(x)
      /\ Will(Left(DestroyCluster(TRUE)), "list", Node(1))
      /\ Will(Left(DestroyCluster(TRUE)), "list", Toxiproxy)
      /\ Any(Left(DestroyCluster(TRUE)), "volumes") /\ Any(Left(DestroyCluster(TRUE)), "collect")
  BY DestroyPiece
<1>10. /\ \A x \in Left(TeardownObs) : OfTeardown(x)
       /\ \A c \in {Prometheus, Grafana}, d \in {"list", "obs-volume"} : Will(Left(TeardownObs), d, c)
  BY TeardownPiece
<1>11. OnAll("remove-network", "network").do = "remove-network"
  BY SinglePieces
<1>12. \A x \in T : x.do \in {"list", "remove", "collect", "volumes", "obs-volume", "remove-network"}
  BY <1>6, <1>8, <1>9, <1>10, <1>11 DEF OfDestroy, OfTeardown
<1>13. /\ Will(T, "list", Workload) /\ Will(T, "list", Node(1)) /\ Will(T, "list", Toxiproxy)
       /\ Will(T, "list", Prometheus) /\ Will(T, "list", Grafana)
       /\ Will(T, "obs-volume", Prometheus) /\ Will(T, "obs-volume", Grafana)
  BY <1>6, <1>8, <1>9, <1>10 DEF Will
<1>14. Any(T, "volumes") /\ Any(T, "collect") /\ Any(T, "remove-network")
  BY <1>6, <1>9, <1>11 DEF Any
<1>15. ASSUME NEW c \in Containers PROVE \E y \in T : Clears(y, c)
  <2>1. \A d \in {Workload, Node(1), Toxiproxy, Prometheus, Grafana} : d[1] = c[1] => \E y \in T : Clears(y, c)
    BY <1>13 DEF Will, Clears
  <2>2. Node(1)[1] = "crdb"
    BY DEF Node
  <2>. QED  BY <1>15, <2>1, <2>2, RoleOf
<1>16. ASSUME NEW v \in Nodes PROVE VolumeDealtWith(v)'
  BY <1>2, <1>5, <1>7, <1>14, <1>16 DEF VolumeDealtWith
<1>. QED  BY <1>7, <1>12, <1>13, <1>14, <1>15, <1>16 DEF DestroyInv

(* A container that a call ahead clears is of the role that call is about. *)
LEMMA ClearsRole ==
  ASSUME NEW k, NEW x, NEW c, Shaped(k, x), Clears(x, c)
  PROVE  x.do \in Removal /\ x.on[1] = c[1]
BY DEF Shaped, Clears, Removal

(* Every step keeps the call that removes what is there: the order of the calls rules out
   that a container is created, or a volume looked up, after its removal. *)
LEMMA DestroyStep == IndInv /\ OrderInv /\ DestroyInv /\ [Next]_vars => DestroyInv'
<1> SUFFICES ASSUME IndInv, OrderInv, DestroyInv, [Next]_vars, Destroying(cmd') PROVE DestroyInv'
  BY DEF DestroyInv
<1> DEFINE h == cmd.todo[1]
           Kept == {"list", "remove", "collect", "volumes", "obs-volume", "remove-network"}
<1>0. cmd'.at # "err" /\ cmd'.faulty # TRUE
  BY DEF Destroying
<1>d. ASSUME Same(cmd, cmd') PROVE Destroying(cmd)
  <2>1. Asked(cmd, cmd') /\ cmd.at # "err"
    BY <1>0, <1>d DEF Same
  <2>. QED  BY <1>0, <2>1, SameDestroy
<1>t. ASSUME Destroying(cmd)
      PROVE  /\ \A x \in Todo : x.do \in Kept
             /\ \A c \in Containers : ct[c] = "none" \/ \E y \in Todo : Clears(y, c)
             /\ NetDown \/ Any(Todo, "remove-network")
             /\ \A v \in Nodes : VolumeDealtWith(v)
             /\ \A v \in {Prometheus, Grafana} : vol[v] = NoVolume \/ Will(Todo, "obs-volume", v)
  BY <1>t DEF DestroyInv
<1>h. ASSUME cmd.todo # << >>
      PROVE  /\ h \in AnyCall /\ Todo = {h} \cup Later /\ Later \subseteq AnyCall
             /\ \A y \in Later : Follows(h, y)
             /\ Shaped(cmd.kind, h) /\ \A y \in Later : Shaped(cmd.kind, y)
  BY <1>h, HeadOf
<1>s. ASSUME cmd.todo # << >> PROVE h.on \in Containers /\ \A y \in Later : y.on \in Containers
  BY <1>h, <1>s DEF AnyCall
<1> HIDE DEF h
<1>1. CASE Begin
  BY <1>1, DestroyBegins
<1>2. CASE Removed
  <2>1. /\ cmd.at = "run" /\ cmd.todo # << >> /\ h.do = "remove" /\ h.set = {} /\ cmd' = Rest
        /\ ct' = ct /\ vol' = vol /\ net' = net
    BY <1>2 DEF Removed, Doing, dockerVars, h
  <2>2. Same(cmd, cmd') /\ cmd'.vols = cmd.vols /\ Todo' = Later
    BY <2>1, RestEffect DEF Todo
  <2>3. Destroying(cmd) /\ cmd'.orphans = cmd.orphans
    BY <1>d, <2>2 DEF Same, Asked
  <2>4. \A d : Any(Todo, d) /\ d # "remove" => Any(Later, d)
    BY <1>h, <2>1 DEF Any
  <2>5. \A d : Any(Later, d) => Any(Todo, d)
    BY <1>h, <2>1 DEF Any
  <2>6. \A c \in Containers : ct[c] = "none" \/ \E y \in Later : Clears(y, c)
    BY <1>t, <1>h, <2>1, <2>3 DEF Clears
  <2>7. \A v \in Nodes : VolumeDealtWith(v)'
    BY <1>t, <2>1, <2>2, <2>3, <2>4, <2>5 DEF VolumeDealtWith
  <2>8. \A v \in {Prometheus, Grafana} : vol[v] = NoVolume \/ Will(Later, "obs-volume", v)
    BY <1>t, <1>h, <2>1, <2>3 DEF Will
  <2>9. NetDown' \/ Any(Later, "remove-network")
    BY <1>t, <2>1, <2>3, <2>4 DEF NetDown
  <2>. QED  BY <1>t, <1>h, <2>1, <2>2, <2>3, <2>6, <2>7, <2>8, <2>9 DEF DestroyInv
<1>3. CASE RemoveObsVolume
  <2>1. /\ cmd.at = "run" /\ cmd.todo # << >> /\ h.do = "obs-volume" /\ cmd' = Rest /\ On = h.on
        /\ ct' = ct /\ net' = net /\ Drop(On) /\ Doing("obs-volume")
    BY <1>3 DEF RemoveObsVolume, Doing, On, h
  <2>2. Same(cmd, cmd') /\ cmd'.vols = cmd.vols /\ Todo' = Later
    BY <2>1, RestEffect DEF Todo
  <2>3. Destroying(cmd) /\ cmd'.orphans = cmd.orphans
    BY <1>d, <2>2 DEF Same, Asked
  <2>4. \A d : Any(Todo, d) /\ d # "obs-volume" => Any(Later, d)
    BY <1>h, <2>1 DEF Any
  <2>5. \A d : Any(Later, d) => Any(Todo, d)
    BY <1>h, <2>1 DEF Any
  <2>6. \A c \in Containers : ct[c] = "none" \/ \E y \in Later : Clears(y, c)
    BY <1>t, <1>h, <2>1, <2>3 DEF Clears
  <2>7. On \in {Prometheus, Grafana}
    BY <2>1, AtHead DEF IndInv
  <2>8. ct[On] = "none"
    <3>1. ASSUME NEW y \in Later, Clears(y, On) PROVE FALSE
      <4>1. y.do \in Removal /\ y.on[1] = On[1]
        BY <1>h, <2>1, <3>1, ClearsRole
      <4>2. y.on = On
        BY <1>s, <2>1, <2>7, <3>1, <4>1, RoleOf, Roles
      <4>. QED  BY <1>h, <2>1, <3>1, <4>1, <4>2 DEF Follows
    <3>. QED  BY <1>s, <2>1, <2>6, <3>1
  <2>9. vol' = [vol EXCEPT ![On] = NoVolume]
    BY <2>1, <2>8 DEF Drop
  <2>10. On \in DOMAIN vol /\ \A v \in Nodes : On # v
    BY <2>7, Names DEF IndInv, DockerInv
  <2>11. vol'[On] = NoVolume /\ \A v : v # On => vol'[v] = vol[v]
    BY <2>9, <2>10
  <2>12. \A v \in Nodes : VolumeDealtWith(v)'
    BY <1>t, <2>1, <2>2, <2>3, <2>4, <2>5, <2>10, <2>11 DEF VolumeDealtWith
  <2>13. \A v \in {Prometheus, Grafana} : vol'[v] = NoVolume \/ Will(Later, "obs-volume", v)
    BY <1>t, <1>h, <2>1, <2>3, <2>11 DEF Will
  <2>14. NetDown' \/ Any(Later, "remove-network")
    BY <1>t, <2>1, <2>3, <2>4 DEF NetDown
  <2>. QED  BY <1>t, <1>h, <2>1, <2>2, <2>3, <2>6, <2>12, <2>13, <2>14 DEF DestroyInv
<1>4. CASE RemoveNetwork
  <2>1. /\ cmd.at = "run" /\ cmd.todo # << >> /\ h.do = "remove-network" /\ ct' = ct /\ vol' = vol
        /\ cmd' = Rest \/ cmd' = Error
    BY <1>4 DEF RemoveNetwork, Doing, h
  <2>2. Later = {} /\ Todo = {h}
    BY <1>h, <2>1 DEF Follows
  <2>3. /\ Same(cmd, cmd') /\ cmd'.vols = cmd.vols /\ Todo' = {}
    <3>1. CASE cmd' = Rest
      BY <2>1, <2>2, <3>1, RestEffect DEF Todo
    <3>2. CASE cmd' = Error
      <4>1. ~GaveUp(cmd, Error)
        BY <1>0, <3>2 DEF GaveUp
      <4>. QED  BY <2>1, <2>2, <3>2, <4>1, ErrorEffect DEF Todo
    <3>. QED  BY <2>1, <3>1, <3>2
  <2>4. Destroying(cmd) /\ cmd'.orphans = cmd.orphans
    BY <1>d, <2>3 DEF Same, Asked
  <2>5. \A c \in Containers : ct[c] = "none"
    BY <1>t, <2>1, <2>2, <2>4 DEF Clears
  <2>6. NetDown'
    BY <1>4, <2>5 DEF RemoveNetwork, NetDown
  <2>7. \A v \in Nodes : vol[v] = NoVolume \/ v \in cmd.orphans
    BY <1>t, <2>1, <2>2, <2>4 DEF VolumeDealtWith, Any
  <2>8. \A v \in {Prometheus, Grafana} : vol[v] = NoVolume
    BY <1>t, <2>1, <2>2, <2>4 DEF Will
  <2>. QED  BY <2>1, <2>3, <2>4, <2>5, <2>6, <2>7, <2>8 DEF DestroyInv, VolumeDealtWith
<1>5. CASE CollectVolumes
  <2>1. /\ cmd.at = "run" /\ cmd.todo # << >> /\ h.do = "collect" /\ ct' = ct /\ vol' = vol /\ net' = net
    BY <1>5 DEF CollectVolumes, Doing, dockerVars, h
  <2>2. Same(cmd, cmd') /\ cmd'.vols = ListContainersByRole("crdb") /\ Todo' = Later
    BY <1>5, CollectEffect
  <2>3. Destroying(cmd) /\ cmd'.orphans = cmd.orphans
    BY <1>d, <2>2 DEF Same, Asked
  <2>4. \A d : Any(Todo, d) /\ d # "collect" => Any(Later, d)
    BY <1>h, <2>1 DEF Any
  <2>5. Any(Todo, "collect") /\ ~Any(Later, "collect")
    BY <1>h, <2>1 DEF Any, Follows
  <2>6. \A c \in Containers : ct[c] = "none" \/ \E y \in Later : Clears(y, c)
    BY <1>t, <1>h, <2>1, <2>3 DEF Clears
  <2>7. \A v \in Nodes : ct[v] # "none" => v \in ListContainersByRole("crdb")
    BY Names DEF ListContainersByRole
  <2>8. \A v \in Nodes : VolumeDealtWith(v)'
    BY <1>t, <2>1, <2>2, <2>3, <2>4, <2>5, <2>7 DEF VolumeDealtWith
  <2>9. \A v \in {Prometheus, Grafana} : vol[v] = NoVolume \/ Will(Later, "obs-volume", v)
    BY <1>t, <1>h, <2>1, <2>3 DEF Will
  <2>10. NetDown' \/ Any(Later, "remove-network")
    BY <1>t, <2>1, <2>3, <2>4 DEF NetDown
  <2>. QED  BY <1>t, <1>h, <2>1, <2>2, <2>3, <2>6, <2>8, <2>9, <2>10 DEF DestroyInv
<1>6. CASE ListForRemoval
  <2>1. /\ cmd.at = "run" /\ cmd.todo # << >> /\ h.do = "list" /\ ct' = ct /\ vol' = vol /\ net' = net /\ On = h.on
    BY <1>6 DEF ListForRemoval, Doing, dockerVars, h, On
  <2>2. PICK x : /\ Same(cmd, cmd') /\ cmd'.vols = cmd.vols /\ Todo' = {x} \cup Later
                 /\ x.do = "remove" /\ x.set = ListContainersByRole(On[1])
    BY <1>6, ListEffect
  <2>3. Destroying(cmd) /\ cmd'.orphans = cmd.orphans
    BY <1>d, <2>2 DEF Same, Asked
  <2> DEFINE T == {x} \cup Later
  <2>4. \A d \in Kept \ Removal : Any(Todo, d) <=> Any(T, d)
    BY <1>h, <2>1, <2>2 DEF Any, Removal
  <2>5. \A c \in Containers : ct[c] = "none" \/ \E y \in T : Clears(y, c)
    BY <1>t, <1>h, <2>1, <2>2, <2>3 DEF Clears, ListContainersByRole
  <2>6. \A v \in {Prometheus, Grafana} : vol[v] = NoVolume \/ Will(T, "obs-volume", v)
    BY <1>t, <1>h, <2>1, <2>3 DEF Will
  <2>7. \A y \in T : y.do \in Kept
    BY <1>t, <1>h, <2>1, <2>2, <2>3
  <2>8. Todo' = T
    BY <2>2
  <2> HIDE DEF T
  <2>9. \A v \in Nodes : VolumeDealtWith(v)'
    BY <1>t, <2>1, <2>2, <2>3, <2>4, <2>8 DEF VolumeDealtWith, Removal
  <2>10. NetDown' \/ Any(T, "remove-network")
    BY <1>t, <2>1, <2>3, <2>4 DEF NetDown, Removal
  <2>. QED  BY <2>1, <2>3, <2>5, <2>6, <2>7, <2>8, <2>9, <2>10 DEF DestroyInv
<1>7. CASE StopAndRemove
  <2>1. /\ cmd.at = "run" /\ cmd.todo # << >> /\ h.do = "remove" /\ vol' = vol /\ net' = net
        /\ Doing("remove")
    BY <1>7 DEF StopAndRemove, Doing, h
  <2>2. PICK c \in h.set : ct' = [ct EXCEPT ![c] = "none"] /\ cmd' = Without(c)
    BY <1>7 DEF StopAndRemove, h
  <2>3. PICK x : /\ Same(cmd, Without(c)) /\ Without(c).vols = cmd.vols
                 /\ Left(Without(c).todo) = {x} \cup Later
                 /\ x.do = "remove" /\ x.set = cmd.todo[1].set \ {c}
    BY <2>1, WithoutEffect
  <2>4. /\ Same(cmd, cmd') /\ cmd'.vols = cmd.vols /\ Todo' = {x} \cup Later /\ x.set = h.set \ {c}
    BY <2>2, <2>3 DEF Todo, h
  <2>5. Destroying(cmd) /\ cmd'.orphans = cmd.orphans
    BY <1>d, <2>4 DEF Same, Asked
  <2>6. c \in Containers /\ c \in DOMAIN ct
    BY <1>h, <2>1, <2>2 DEF AnyCall, IndInv, DockerInv
  <2>7. ct'[c] = "none" /\ \A d : d # c => ct'[d] = ct[d]
    BY <2>2, <2>6
  <2> DEFINE T == {x} \cup Later
  <2>8. \A d \in Kept \ Removal : Any(Todo, d) <=> Any(T, d)
    BY <1>h, <2>1, <2>3 DEF Any, Removal
  <2>9. \A d \in Containers : ct'[d] = "none" \/ \E y \in T : Clears(y, d)
    BY <1>t, <1>h, <2>1, <2>3, <2>4, <2>5, <2>7 DEF Clears
  <2>10. \A v \in {Prometheus, Grafana} : vol[v] = NoVolume \/ Will(T, "obs-volume", v)
    BY <1>t, <1>h, <2>1, <2>5 DEF Will
  <2>11. \A y \in T : y.do \in Kept
    BY <1>t, <1>h, <2>1, <2>3, <2>5
  <2>12. Todo' = T
    BY <2>4
  <2>13. c \in Nodes => ~Any(Todo, "collect")
    <3>1. c[1] = h.on[1]
      BY <1>h, <2>1, <2>2 DEF Shaped
    <3>2. c \in Nodes => h.on \in Nodes
      BY <1>s, <2>1, <2>6, <3>1, RoleOf
    <3>. QED  BY <1>h, <2>1, <3>2 DEF Follows, Any, Removal
  <2> HIDE DEF T
  <2>14. \A v \in Nodes : VolumeDealtWith(v)'
    BY <1>t, <2>1, <2>4, <2>5, <2>7, <2>8, <2>12, <2>13 DEF VolumeDealtWith, Removal
  <2>15. NetDown' \/ Any(T, "remove-network")
    BY <1>t, <2>1, <2>5, <2>8 DEF NetDown, Removal
  <2>. QED  BY <2>1, <2>5, <2>9, <2>10, <2>11, <2>12, <2>14, <2>15 DEF DestroyInv
<1>8. CASE RemoveVolume
  <2>1. /\ cmd.at = "run" /\ cmd.todo # << >> /\ h.do = "volumes" /\ ct' = ct /\ net' = net
    BY <1>8 DEF RemoveVolume, Doing, h
  <2>2. Same(cmd, cmd')
    BY <1>8, VolumeEffect
  <2>3. Destroying(cmd) /\ cmd'.orphans = cmd.orphans
    BY <1>d, <2>2 DEF Same, Asked
  <2>4. ASSUME NEW v \in Nodes PROVE ct[v] = "none"
    <3>1. ASSUME NEW y \in Later, Clears(y, v) PROVE FALSE
      <4>1. y.do \in Removal /\ y.on[1] = v[1]
        BY <1>h, <2>1, <3>1, ClearsRole
      <4>2. y.on \in Nodes
        BY <1>s, <2>1, <3>1, <4>1, RoleOf, Names
      <4>. QED  BY <1>h, <2>1, <3>1, <4>1, <4>2 DEF Follows
    <3>2. ~Clears(h, v)
      BY <2>1 DEF Clears
    <3>3. v \in Containers
      BY Names
    <3>. QED  BY <1>t, <1>h, <2>1, <2>3, <3>1, <3>2, <3>3
  <2>5. \A d : Any(Todo, d) /\ d # "volumes" => Any(Later, d)
    BY <1>h, <2>1 DEF Any
  <2>6. CASE cmd.vols = {} /\ vol' = vol /\ cmd'.vols = {} /\ Todo' = Later
    <3>1. \A c \in Containers : ct[c] = "none" \/ \E y \in Later : Clears(y, c)
      BY <1>t, <1>h, <2>1, <2>3 DEF Clears
    <3>2. \A v \in Nodes : vol[v] = NoVolume \/ v \in cmd.orphans
      BY <1>t, <2>3, <2>4, <2>6 DEF VolumeDealtWith
    <3>3. \A v \in {Prometheus, Grafana} : vol[v] = NoVolume \/ Will(Later, "obs-volume", v)
      BY <1>t, <1>h, <2>1, <2>3 DEF Will
    <3>4. NetDown' \/ Any(Later, "remove-network")
      BY <1>t, <2>1, <2>3, <2>5 DEF NetDown
    <3>. QED  BY <1>t, <1>h, <2>1, <2>3, <2>6, <3>1, <3>2, <3>3, <3>4 DEF DestroyInv, VolumeDealtWith
  <2>7. CASE \E v \in cmd.vols : Drop(v) /\ cmd'.vols = cmd.vols \ {v} /\ Todo' = Todo
    <3>1. PICK v \in cmd.vols : Drop(v) /\ cmd'.vols = cmd.vols \ {v} /\ Todo' = Todo
      BY <2>7
    <3>2. v \in Nodes
      BY CommandIs, <3>1 DEF Commands
    <3>3. vol' = [vol EXCEPT ![v] = NoVolume]
      BY <2>4, <3>1, <3>2 DEF Drop
    <3>4. v \in DOMAIN vol /\ v \notin {Prometheus, Grafana}
      BY <3>2, Names DEF IndInv, DockerInv
    <3>5. vol'[v] = NoVolume /\ \A u : u # v => vol'[u] = vol[u]
      BY <3>3, <3>4
    <3>6. \A u \in Nodes : VolumeDealtWith(u)'
      BY <1>t, <2>1, <2>3, <3>1, <3>5 DEF VolumeDealtWith
    <3>7. \A u \in {Prometheus, Grafana} : vol'[u] = NoVolume \/ Will(Todo, "obs-volume", u)
      BY <1>t, <2>3, <3>4, <3>5
    <3>8. NetDown' \/ Any(Todo, "remove-network")
      BY <1>t, <2>1, <2>3 DEF NetDown
    <3>. QED  BY <1>t, <2>1, <2>3, <3>1, <3>6, <3>7, <3>8 DEF DestroyInv
  <2>. QED  BY <1>8, <2>6, <2>7, VolumeEffect
<1>9. CASE Finish
  <2>1. /\ Asked(cmd, cmd') /\ cmd.at = "run" /\ Todo = {} /\ Todo' = {} /\ cmd'.vols = cmd.vols
        /\ ct' = ct /\ vol' = vol /\ net' = net
    BY <1>9, FinishEffect
  <2>2. Destroying(cmd) /\ cmd'.orphans = cmd.orphans
    BY <1>0, <2>1, SameDestroy DEF Asked
  <2>3. NetDown' \/ Any(Todo, "remove-network")
    BY <1>t, <2>1, <2>2 DEF NetDown
  <2>4. \A v \in Nodes : VolumeDealtWith(v)'
    BY <1>t, <2>1, <2>2 DEF VolumeDealtWith, Any
  <2>. QED  BY <1>t, <2>1, <2>2, <2>3, <2>4 DEF DestroyInv
<1>10. ASSUME NEW d, Doing(d), d \notin Kept, Same(cmd, cmd') \/ (Asked(cmd, cmd') /\ cmd'.at = cmd.at)
       PROVE  FALSE
  <2>1. cmd.todo # << >> /\ h.do = d /\ cmd.at = "run"
    BY <1>10 DEF Doing, h
  <2>2. Destroying(cmd)
    BY <1>0, <1>10, <2>1, SameDestroy DEF Same
  <2>. QED  BY <1>t, <1>h, <1>10, <2>1, <2>2
<1>11. ASSUME NEW d, Doing(d), d \notin Kept, cmd' = Rest \/ cmd' = Error
       PROVE  FALSE
  <2>1. cmd.todo # << >> /\ cmd.at # "ok"
    BY <1>11 DEF Doing
  <2>2. Same(cmd, cmd')
    BY <1>0, <1>11, <2>1, RestEffect, ErrorEffect DEF GaveUp
  <2>. QED  BY <1>10, <1>11, <2>2
<1>12. CASE EnsureNetwork \/ ContainerCreate \/ ContainerStart \/ RegisterProxy \/ EnsureVolume \/ waitForNodes
            \/ initCluster \/ BuildWorkloadImage
  <2>1. \E d : Doing(d) /\ d \notin Kept /\ (cmd' = Rest \/ cmd' = Error)
    BY <1>12 DEF EnsureNetwork, ContainerCreate, ContainerStart, RegisterProxy, EnsureVolume, waitForNodes,
         initCluster, BuildWorkloadImage
  <2>. QED  BY <1>11, <2>1
<1>13. CASE \E d \in Directions : InjectBaseline(d)
  <2>1. \E d : Doing(d) /\ d \notin Kept /\ (cmd' = Rest \/ cmd' = Error)
    BY <1>13 DEF InjectBaseline, Directions
  <2>. QED  BY <1>11, <2>1
<1>14. CASE EnsureToxiproxy
  <2>1. Doing("toxiproxy") /\ Same(cmd, cmd')
    BY <1>14, ToxiproxyEffect DEF EnsureToxiproxy
  <2>. QED  BY <1>10, <2>1
<1>15. CASE AddNode
  <2>1. Doing("existing")
    BY <1>15 DEF AddNode
  <2>2. CASE ListContainersByRole("crdb") # {}
    <3>1. Asked(cmd, cmd') /\ cmd'.at = cmd.at
      BY <1>15, <2>2, AddNodeEffect
    <3>. QED  BY <1>10, <2>1, <3>1
  <2>3. CASE ListContainersByRole("crdb") = {}
    <3>1. cmd' = Error
      BY <1>15, <2>3 DEF AddNode
    <3>. QED  BY <1>11, <2>1, <3>1
  <2>. QED  BY <2>2, <2>3
<1>16. CASE RemovalFails \/ CallFails \/ Interrupt \/ ToxiproxyExits
  BY <1>0, <1>16, FaultNoted
<1>17. CASE UNCHANGED vars
  BY <1>17 DEF vars, DestroyInv, Todo, VolumeDealtWith, NetDown
<1>18. CASE \E c \in Nodes : NodeJoins(c)
  <2>1. PICK c \in Nodes : NodeJoins(c)
    BY <1>18
  <2>2. /\ cmd' = cmd /\ ct' = ct /\ (NetDown' <=> NetDown) /\ Todo' = Todo
        /\ vol[c] # NoVolume /\ \A v : v # c => vol'[v] = vol[v]
    BY <2>1, JoinEffect DEF NetDown, Todo, Blank, NoVolume
  <2>3. c \notin {Prometheus, Grafana}
    BY Names
  <2>4. \A v \in Nodes : VolumeDealtWith(v) => VolumeDealtWith(v)'
    BY <2>2 DEF VolumeDealtWith
  <2>. QED  BY <1>t, <2>2, <2>3, <2>4 DEF DestroyInv
<1>. QED  BY <1>1, <1>2, <1>3, <1>4, <1>5, <1>6, <1>7, <1>8, <1>9, <1>12, <1>13, <1>14, <1>15, <1>16, <1>17, <1>18
          DEF Next, Step

(* Stop and remove everything: after a destroy that succeeded, met no fault and was not
   told to keep volumes, there is no container, no network, and no volume but those of
   nodes whose containers were gone before it began.  DestroyCluster collects the names of
   the volumes before it removes the containers it finds them by, which is what makes it
   so. *)
THEOREM DestroyRemovesAll == Spec => []DestroyLeavesOnlyOrphans
<1>1. Init => DestroyInv
  BY DEF Init, NoCommand, DestroyInv, Destroying
<1>2. OrderInv /\ DestroyInv => DestroyLeavesOnlyOrphans
  <2>0. SUFFICES ASSUME OrderInv, DestroyInv, Succeeded({"destroy"}), ~cmd.flag
                 PROVE  /\ \A c \in Containers : ct[c] = "none"
                        /\ ~net
                        /\ \A v \in Volumes : vol[v] # NoVolume => v \in cmd.orphans
    BY Zenon DEF DestroyLeavesOnlyOrphans
  <2>1. Destroying(cmd) /\ cmd.at = "ok"
    BY <2>0 DEF Succeeded, Destroying
  <2>2. Todo = {}
    BY <2>0, <2>1, LeftEmpty DEF OrderInv, InOrder, Todo
  <2>3. /\ \A c \in Containers : ct[c] = "none"
        /\ \A v \in Nodes : vol[v] = NoVolume \/ v \in cmd.orphans
        /\ \A v \in {Prometheus, Grafana} : vol[v] = NoVolume
    BY <2>0, <2>1, <2>2 DEF DestroyInv, VolumeDealtWith, Any, Will
  <2>4. NetDown
    BY <2>0, <2>1, <2>2 DEF DestroyInv, Any
  <2>5. \A v \in Volumes : v \in Nodes \/ v \in {Prometheus, Grafana}
    BY DEF Volumes
  <2>. QED  BY <2>3, <2>4, <2>5 DEF NetDown
<1>. QED  BY <1>1, <1>2, DestroyStep, CallsInOrder, LifecycleInductive, PTL DEF Spec

-----------------------------------------------------------------------------
(* create and quickstart.                                                   *)

(* Toxiproxy runs and is not about to be replaced; it is about to be started. *)
Settled ==
  ct[Toxiproxy] = "running" /\ \A y \in Todo : ~(y.do \in {"list", "remove", "create"} /\ y.on = Toxiproxy)
Opens(T) == Any(T, "toxiproxy") \/ Will(T, "start", Toxiproxy)

(* The first n nodes have stores of one cluster, or none. *)
OneCluster(n) == \A a, b \in Stores(n) : a = b

(* The stores of the first n nodes, and how many clusters they are of. *)
LEMMA StoresAre ==
  ASSUME IndInv, NEW n \in 0 .. MaxNodes
  PROVE  /\ \A i \in 1 .. n : vol[Node(i)] \in NoVolume .. inits /\ Node(i) \in Nodes
         /\ Stores(n) \subseteq 1 .. inits
         /\ \A a : a \in Stores(n) <=> a > Blank /\ \E i \in 1 .. n : a = vol[Node(i)]
         /\ OneCluster(n) <=> Cardinality(Stores(n)) =< 1
<1>1. \A i \in 1 .. n : Node(i) \in Nodes /\ Node(i) \in Volumes
  <2>1. \A i \in 1 .. n : i \in 1 .. MaxNodes
    BY NodesAssumption
  <2>. QED  BY <2>1, Names
<1>2. \A i \in 1 .. n : vol[Node(i)] \in NoVolume .. inits
  BY <1>1 DEF IndInv, DockerInv
<1>3. inits \in Nat
  BY DEF IndInv, CountInv
<1>4. \A a : a \in Stores(n) <=> a > Blank /\ \E i \in 1 .. n : a = vol[Node(i)]
  BY <1>2, <1>3 DEF Stores, Blank, NoVolume
<1>5. Stores(n) \subseteq 1 .. inits
  BY <1>2, <1>3 DEF Stores, Blank, NoVolume
<1>6. IsFiniteSet(Stores(n))
  <2>1. IsFiniteSet(1 .. inits)
    BY <1>3, FS_Interval
  <2>. QED  BY <1>5, <2>1, FS_Subset
<1> DEFINE S == Stores(n)
<1> HIDE DEF S
<1>7. IsFiniteSet(S) /\ Cardinality(S) \in Nat
  BY <1>6, FS_CardinalityType DEF S
<1>8. ASSUME \A a, b \in S : a = b PROVE Cardinality(S) =< 1
  <2>1. CASE S = {}
    BY <1>7, <2>1, FS_EmptySet
  <2>2. CASE S # {}
    <3>1. PICK x : S = {x}
      BY <1>8, <2>2
    <3>. QED  BY <1>7, <3>1, FS_Singleton
  <2>. QED  BY <2>1, <2>2
<1>9. ASSUME Cardinality(S) =< 1 PROVE \A a, b \in S : a = b
  <2>1. Cardinality(S) = 0 \/ Cardinality(S) = 1
    BY <1>7, <1>9
  <2>2. CASE Cardinality(S) = 0
    BY <1>7, <2>2, FS_EmptySet
  <2>3. CASE Cardinality(S) = 1
    BY <1>7, <2>3, FS_Singleton
  <2>. QED  BY <2>1, <2>2, <2>3
<1>. QED  BY <1>1, <1>2, <1>4, <1>5, <1>8, <1>9 DEF S, OneCluster

(* A create or quickstart that has met no error so far. *)
Creating(c) == c.kind \in {"create", "quickstart"} /\ ~c.faulty /\ c.at # "err"

(* The containers it was asked for, Toxiproxy aside. *)
Wanted(c) ==
  {Node(i) : i \in 1 .. c.n} \cup (IF c.kind = "quickstart" THEN {Prometheus, Grafana, Workload} ELSE {})

(* The calls of such a command.  Only the removal of an old workload container, or of
   what is left of Toxiproxy, may fail without being an error of the command. *)
Suits(x, n) ==
  /\ x.do \in {"network", "toxiproxy", "volume", "create", "start", "ready", "init", "list", "remove",
               "register", "up", "down", "image"}
  /\ x.do \in Removal => x.on \in {Toxiproxy, Workload}
  /\ x.do \in {"register", "up", "down"} => \E i \in 1 .. n : x.on = Node(i)
  /\ x.do \notin Removal => x.part \notin {"collect", "existing"}

(* The container runs and is not about to be removed. *)
Stays(c) == ct[c] = "running" /\ \A y \in Todo : ~(y.do \in Removal /\ y.on = c)

(* Whatever was asked for runs, or is still to be started. *)
BuildInv ==
  Creating(cmd) =>
    /\ cmd.n \in 1 .. MaxNodes
    /\ \A x \in Todo : Suits(x, cmd.n)
    /\ \A c \in Wanted(cmd) : Will(Todo, "start", c) \/ Stays(c)
    /\ Settled \/ Opens(Todo)

(* What a command was asked for stays what it is. *)
LEMMA SameCreate ==
  ASSUME NEW c, NEW d, Asked(c, d), d.n = c.n, c.at # "err", d.at # "err"
  PROVE  (Creating(d) <=> Creating(c)) /\ Wanted(d) = Wanted(c)
BY DEF Creating, Wanted, Asked

(* The calls of create and quickstart when they are typed. *)
LEMMA CreateProgram ==
  ASSUME NEW k \in {"create", "quickstart"}, NEW n \in 1 .. MaxNodes, NEW flag \in BOOLEAN
  PROVE  LET T == Left(Program(k, n, flag)) IN
         /\ \A x \in T : OfCreate(x, n) \/ (k = "quickstart" /\ (OfLatency(x, n) \/ OfObs(x) \/ OfWorkload(x)))
         /\ \A i \in 1 .. n, d \in {"volume", "create", "start"} : Will(T, d, Node(i))
         /\ Any(T, "toxiproxy") /\ Any(T, "init")
         /\ k = "quickstart" => \A c \in {Prometheus, Grafana, Workload} : Will(T, "start", c)
         /\ (k = "quickstart" /\ flag) => \A i \in 1 .. n, d \in Directions : Will(T, d, Node(i))
<1> DEFINE T == Left(Program(k, n, flag))
           C == Left(CreateCluster(n))
<1>1. /\ \A x \in C : OfCreate(x, n)
      /\ \A i \in 1 .. n, d \in {"volume", "create", "start"} : Will(C, d, Node(i))
      /\ Any(C, "toxiproxy") /\ Any(C, "init")
  BY CreatePiece
<1>2. CASE k = "create"
  <2>1. T = C
    BY <1>2, PlainPrograms
  <2> HIDE DEF T, C
  <2>2. /\ \A x \in T : OfCreate(x, n)
        /\ \A i \in 1 .. n, d \in {"volume", "create", "start"} : Will(T, d, Node(i))
        /\ Any(T, "toxiproxy") /\ Any(T, "init")
    BY <1>1, <2>1
  <2>. QED  BY <1>2, <2>2 DEF T
<1>3. CASE k = "quickstart"
  <2> DEFINE A == Left(ApplyRegionalLatencies(n))
             O == Left(SetupObs)
             W == Left(StartWorkload)
  <2>1. T = C \cup (IF flag THEN A ELSE {}) \cup O \cup W
    BY <1>3, QuickstartProgram
  <2>2. (\A x \in A : OfLatency(x, n)) /\ \A i \in 1 .. n, d \in {"up", "down"} : Will(A, d, Node(i))
    BY LatencyPiece
  <2>3. /\ \A x \in O : OfObs(x)
        /\ \A c \in {Prometheus, Grafana}, d \in {"volume", "create", "start"} : Will(O, d, c)
    BY ObsPiece
  <2>4. (\A x \in W : OfWorkload(x)) /\ Will(W, "start", Workload)
    BY WorkloadPiece
  <2> HIDE DEF T, C, A, O, W
  <2>5. \A d, c : Will(C, d, c) \/ Will(O, d, c) \/ Will(W, d, c) => Will(T, d, c)
    BY <2>1 DEF Will
  <2>6. Any(T, "toxiproxy") /\ Any(T, "init")
    BY <1>1, <2>1 DEF Any
  <2>7. \A x \in T : OfCreate(x, n) \/ OfLatency(x, n) \/ OfObs(x) \/ OfWorkload(x)
    BY <1>1, <2>1, <2>2, <2>3, <2>4
  <2>8. ASSUME flag PROVE \A i \in 1 .. n, d \in Directions : Will(T, d, Node(i))
    <3>1. A \subseteq T
      BY <2>1, <2>8
    <3>2. \A d, c : Will(A, d, c) => Will(T, d, c)
      BY <3>1 DEF Will
    <3>. QED  BY <2>2, <3>2 DEF Directions
  <2>9. \A i \in 1 .. n, d \in {"volume", "create", "start"} : Will(T, d, Node(i))
    BY <1>1, <2>5
  <2>10. \A c \in {Prometheus, Grafana, Workload} : Will(T, "start", c)
    BY <2>3, <2>4, <2>5
  <2>. QED  BY <1>3, <2>6, <2>7, <2>8, <2>9, <2>10 DEF T
<1>. QED  BY <1>2, <1>3

(* The programs of create and quickstart start all that is wanted. *)
LEMMA BuildBegins ==
  ASSUME IndInv, Begin, Creating(cmd') PROVE BuildInv'
<1>1. PICK k \in Kinds, n \in 1 .. MaxNodes, flag \in BOOLEAN : Typed(k, n, flag)
  BY BeginEffect
<1>2. cmd'.kind = k /\ cmd'.n = n /\ cmd'.todo = Program(k, n, flag)
  BY <1>1, Zenon DEF Typed
<1>3. k \in {"create", "quickstart"}
  BY <1>2 DEF Creating
<1> DEFINE T == Left(Program(k, n, flag))
<1>4. /\ \A x \in T : OfCreate(x, n) \/ (k = "quickstart" /\ (OfLatency(x, n) \/ OfObs(x) \/ OfWorkload(x)))
      /\ \A i \in 1 .. n, d \in {"volume", "create", "start"} : Will(T, d, Node(i))
      /\ Any(T, "toxiproxy") /\ Any(T, "init")
      /\ k = "quickstart" => \A c \in {Prometheus, Grafana, Workload} : Will(T, "start", c)
  BY <1>3, CreateProgram
<1>5. Todo' = T
  BY <1>2 DEF Todo
<1> HIDE DEF T
<1>6. \A c \in Wanted(cmd') : Will(T, "start", c)
  BY <1>2, <1>4 DEF Wanted
<1>7. Opens(T)
  BY <1>4 DEF Opens
<1>8. \A x \in T : Suits(x, n)
  <2> SUFFICES ASSUME NEW x \in T PROVE Suits(x, n)
    OBVIOUS
  <2>1. OfCreate(x, n) => Suits(x, n)
    BY DEF OfCreate, OfNodes, Suits, Removal
  <2>2. OfLatency(x, n) => Suits(x, n)
    BY DEF OfLatency, Suits, Removal
  <2>3. OfObs(x) => Suits(x, n)
    BY DEF OfObs, Suits, Removal
  <2>4. OfWorkload(x) => Suits(x, n)
    BY DEF OfWorkload, Suits, Removal
  <2>. QED  BY <1>4, <2>1, <2>2, <2>3, <2>4
<1>. QED  BY <1>2, <1>5, <1>6, <1>7, <1>8 DEF BuildInv

(* A step that takes calls off the list that start nothing, add no proxy and no toxic and
   initialise nothing, and changes nothing else. *)
Quiet ==
  /\ ct' = ct /\ vol' = vol /\ proxies' = proxies /\ base' = base /\ join' = join /\ Todo' \subseteq Todo
  /\ \A x \in Todo : x \in Todo' \/ x.do \in {"network", "ready", "image", "remove"}

(* A step of create or quickstart that is no error of it, or of a node that joins. *)
CreateCall ==
  \/ Quiet
  \/ EnsureToxiproxy
  \/ ContainerCreate /\ ct[On] = "none" /\ cmd' = Rest
  \/ ContainerStart /\ net /\ cmd' = Rest
  \/ RegisterProxy /\ ct[Toxiproxy] = "running" /\ cmd' = Rest
  \/ EnsureVolume \/ initCluster \/ ListForRemoval \/ StopAndRemove
  \/ \E d \in Directions : InjectBaseline(d)
  \/ \E c \in Nodes : NodeJoins(c)

(* These are all the steps such a command takes. *)
LEMMA CreateMoves ==
  ASSUME IndInv, OrderInv, BuildInv, [Next]_vars, ~Begin, Creating(cmd')
  PROVE  /\ Creating(cmd) /\ Asked(cmd, cmd') /\ cmd'.n = cmd.n
         /\ CreateCall
<1> DEFINE h == cmd.todo[1]
           Goal == /\ Creating(cmd) /\ Asked(cmd, cmd') /\ cmd'.n = cmd.n
           Moves == Goal /\ CreateCall
<1> USE DEF CreateCall
<1>0. cmd'.at # "err" /\ cmd'.faulty # TRUE /\ cmd'.kind \in {"create", "quickstart"}
  BY DEF Creating
<1>h. ASSUME cmd.todo # << >>
      PROVE  Todo = {h} \cup Later /\ Shaped(cmd.kind, h)
  BY <1>h, HeadOf
<1>g. ASSUME Asked(cmd, cmd'), cmd'.n = cmd.n, cmd.at # "err"
      PROVE  Goal
  BY <1>0, <1>g, SameCreate
<1>s. ASSUME Same(cmd, cmd') PROVE Goal
  BY <1>0, <1>s, <1>g DEF Same
<1> HIDE DEF h
<1>b. ASSUME NEW d, Doing(d), Asked(cmd, cmd')
      PROVE  cmd.at = "run" /\ cmd.todo # << >> /\ h.do = d /\ Suits(h, cmd.n) /\ cmd.kind = cmd'.kind
  <2>1. cmd.at = "run" /\ cmd.todo # << >> /\ h.do = d
    BY <1>b DEF Doing, h
  <2>2. Creating(cmd) /\ cmd.kind = cmd'.kind
    BY <1>0, <1>b, <2>1 DEF Creating, Asked
  <2>. QED  BY <1>h, <2>1, <2>2 DEF BuildInv
<1>e. ASSUME NEW d, Doing(d), cmd' = Rest \/ cmd' = Error
      PROVE  /\ Same(cmd, cmd') /\ d \notin {"existing", "collect", "volumes", "obs-volume", "remove-network"}
             /\ d \notin Directions \cup Removal => cmd' = Rest /\ cmd' # Error
             /\ cmd' = Rest => Todo' = Later
  <2>1. cmd.at = "run" /\ cmd.todo # << >> /\ h.do = d
    BY <1>e DEF Doing, h
  <2>2. Asked(cmd, cmd')
    BY <1>e, <2>1, RestEffect, ErrorEffect DEF GaveUp, Same
  <2>3. Suits(h, cmd.n) /\ Shaped(cmd.kind, h) /\ cmd.kind \in {"create", "quickstart"}
    BY <1>0, <1>b, <1>e, <1>h, <2>2
  <2>4. cmd' = Rest => Same(cmd, cmd') /\ Todo' = Later
    BY <2>1, RestEffect DEF Todo
  <2>5. cmd' = Error => Same(cmd, cmd') /\ h.part \in Tolerated(cmd.kind)
    BY <1>0, <2>1, ErrorEffect DEF GaveUp, h
  <2>6. Tolerated(cmd.kind) \subseteq {"collect", "existing", "baseline"}
    BY <2>3 DEF Tolerated
  <2>7. h.part \in Tolerated(cmd.kind) => h.do \in Directions \cup Removal
    BY <2>3, <2>6 DEF Suits, Shaped
  <2>8. d \notin {"existing", "collect", "volumes", "obs-volume", "remove-network"}
    BY <2>1, <2>3 DEF Suits
  <2>. QED  BY <1>e, <2>1, <2>4, <2>5, <2>7, <2>8
<1>q. ASSUME NEW d \in {"network", "ready", "image", "remove"}, Doing(d), cmd' = Rest,
             ct' = ct, vol' = vol, proxies' = proxies, base' = base, join' = join
      PROVE  Moves
  <2>1. cmd.todo # << >> /\ h.do = d
    BY <1>q DEF Doing, h
  <2>2. Same(cmd, cmd') /\ Todo' = Later
    BY <1>e, <1>q
  <2>3. Quiet
    BY <1>h, <1>q, <2>1, <2>2 DEF Quiet
  <2>. QED  BY <1>s, <2>2, <2>3
<1>1. CASE EnsureNetwork
  BY <1>1, <1>q DEF EnsureNetwork
<1>2. CASE waitForNodes
  <2>1. Doing("ready") /\ (cmd' = Rest \/ cmd' = Error)
    BY <1>2 DEF waitForNodes
  <2>2. cmd' = Rest
    BY <1>e, <2>1 DEF Directions, Removal
  <2>. QED  BY <1>2, <1>q, <2>1, <2>2 DEF waitForNodes, dockerVars
<1>3. CASE BuildWorkloadImage
  BY <1>3, <1>q DEF BuildWorkloadImage, dockerVars
<1>4. CASE Removed
  BY <1>4, <1>q DEF Removed, dockerVars
<1>5. CASE Finish
  <2>1. /\ Asked(cmd, cmd') /\ cmd'.n = cmd.n /\ cmd.at = "run" /\ Todo = {} /\ Todo' = {}
        /\ ct' = ct /\ vol' = vol /\ proxies' = proxies /\ base' = base
    BY <1>5, FinishEffect
  <2>2. join' = join
    BY <1>5 DEF Finish, dockerVars
  <2>. QED  BY <1>g, <2>1, <2>2 DEF Quiet
<1>6. CASE UNCHANGED vars
  <2>1. /\ cmd' = cmd /\ ct' = ct /\ vol' = vol /\ proxies' = proxies /\ base' = base /\ join' = join
        /\ Todo' = Todo
    BY <1>6 DEF vars, Todo
  <2>2. Same(cmd, cmd')
    BY <2>1 DEF Same, Asked
  <2>. QED  BY <1>s, <2>1, <2>2 DEF Quiet
<1>7. CASE EnsureToxiproxy
  BY <1>7, <1>s, ToxiproxyEffect
<1>8. CASE ContainerCreate
  <2>1. Doing("create") /\ ((ct[On] = "none" /\ cmd' = Rest) \/ cmd' = Error)
    BY <1>8 DEF ContainerCreate
  <2>. QED  BY <1>8, <1>s, <1>e, <2>1 DEF Directions, Removal
<1>9. CASE ContainerStart
  <2>1. Doing("start") /\ ((net /\ cmd' = Rest) \/ cmd' = Error)
    BY <1>9 DEF ContainerStart
  <2>. QED  BY <1>9, <1>s, <1>e, <2>1 DEF Directions, Removal
<1>10. CASE RegisterProxy
  <2>1. Doing("register") /\ ((ct[Toxiproxy] = "running" /\ cmd' = Rest) \/ cmd' = Error)
    BY <1>10 DEF RegisterProxy
  <2>. QED  BY <1>10, <1>s, <1>e, <2>1 DEF Directions, Removal
<1>11. CASE EnsureVolume
  BY <1>11, <1>s, <1>e DEF EnsureVolume
<1>12. CASE initCluster
  BY <1>12, <1>s, <1>e DEF initCluster
<1>13. CASE ListForRemoval
  BY <1>13, <1>s, ListEffect
<1>14. CASE StopAndRemove
  <2>1. Doing("remove") /\ \E c : cmd' = Without(c)
    BY <1>14 DEF StopAndRemove
  <2>. QED  BY <1>14, <1>s, <2>1, WithoutEffect
<1>15. CASE \E d \in Directions : InjectBaseline(d)
  <2>1. \E d : Doing(d) /\ (cmd' = Rest \/ cmd' = Error)
    BY <1>15 DEF InjectBaseline
  <2>. QED  BY <1>15, <1>s, <1>e, <2>1
<1>16. CASE AddNode
  <2>1. Doing("existing")
    BY <1>16 DEF AddNode
  <2>2. Asked(cmd, cmd')
    <3>1. CASE ListContainersByRole("crdb") # {}
      BY <1>16, <3>1, AddNodeEffect
    <3>2. CASE ListContainersByRole("crdb") = {}
      <4>1. cmd' = Error
        BY <1>16, <3>2 DEF AddNode
      <4>. QED  BY <1>e, <2>1, <4>1 DEF Same
    <3>. QED  BY <3>1, <3>2
  <2>. QED  BY <1>b, <2>1, <2>2 DEF Suits
<1>17. CASE CollectVolumes \/ RemoveVolume
  <2>1. (Doing("collect") \/ Doing("volumes")) /\ Same(cmd, cmd')
    BY <1>17, CollectEffect, VolumeEffect DEF CollectVolumes, RemoveVolume
  <2>. QED  BY <1>b, <2>1 DEF Suits, Same
<1>18. CASE RemoveObsVolume \/ RemoveNetwork
  <2>1. (Doing("obs-volume") \/ Doing("remove-network")) /\ (cmd' = Rest \/ cmd' = Error)
    BY <1>18 DEF RemoveObsVolume, RemoveNetwork
  <2>. QED  BY <1>e, <2>1
<1>19. CASE RemovalFails \/ CallFails \/ Interrupt \/ ToxiproxyExits
  BY <1>0, <1>19, FaultNoted
<1>20. CASE \E c \in Nodes : NodeJoins(c)
  <2>1. cmd' = cmd
    BY <1>20, JoinEffect
  <2>2. Same(cmd, cmd')
    BY <2>1 DEF Same, Asked
  <2>. QED  BY <1>20, <1>s, <2>2
<1>. QED  BY <1>1, <1>2, <1>3, <1>4, <1>5, <1>6, <1>7, <1>8, <1>9, <1>10, <1>11, <1>12, <1>13, <1>14, <1>15,
             <1>16, <1>17, <1>18, <1>19, <1>20 DEF Next, Step

(* The call at the head is made, and nothing is left of it. *)
LEMMA CallMade ==
  ASSUME IndInv, OrderInv, NEW d, Doing(d), cmd' = Rest
  PROVE  /\ cmd.at = "run" /\ cmd.todo # << >> /\ cmd.todo[1].do = d /\ On = cmd.todo[1].on
         /\ Todo = {cmd.todo[1]} \cup Later /\ Todo' = Later /\ On \in Containers
         /\ \A y \in Later : Follows(cmd.todo[1], y) /\ y.on \in Containers
<1>1. cmd.at = "run" /\ cmd.todo # << >> /\ cmd.todo[1].do = d /\ On = cmd.todo[1].on
  BY DEF Doing, On
<1>2. /\ Todo = {cmd.todo[1]} \cup Later /\ cmd.todo[1] \in AnyCall /\ Later \subseteq AnyCall
      /\ \A y \in Later : Follows(cmd.todo[1], y)
  BY <1>1, HeadOf
<1>3. Todo' = Later
  BY <1>1, RestEffect DEF Todo
<1>4. On \in Containers /\ \A y \in Later : y.on \in Containers
  BY <1>1, <1>2 DEF AnyCall
<1>. QED  BY <1>1, <1>2, <1>3, <1>4

(* A removal has been listed: what it is about is as it was. *)
LEMMA Listed ==
  ASSUME IndInv, OrderInv, ListForRemoval
  PROVE  /\ ct' = ct /\ vol' = vol /\ proxies' = proxies /\ base' = base
         /\ Todo = {cmd.todo[1]} \cup Later /\ cmd.todo[1].do = "list"
         /\ \E x : Todo' = {x} \cup Later /\ x.do = "remove" /\ x.on = cmd.todo[1].on /\ x.part = cmd.todo[1].part
<1>1. /\ ct' = ct /\ vol' = vol /\ proxies' = proxies /\ base' = base
      /\ cmd.todo # << >> /\ cmd.todo[1].do = "list"
  BY DEF ListForRemoval, dockerVars, Doing
<1>2. \E x : Todo' = {x} \cup Later /\ x.do = "remove" /\ x.on = cmd.todo[1].on /\ x.part = cmd.todo[1].part
  BY ListEffect DEF On
<1>. QED  BY <1>1, <1>2, HeadOf

(* One of the containers of a create that are removed first is gone. *)
LEMMA Cleared ==
  ASSUME IndInv, OrderInv, BuildInv, Creating(cmd), StopAndRemove
  PROVE  /\ vol' = vol /\ Todo = {cmd.todo[1]} \cup Later /\ cmd.todo[1].do = "remove"
         /\ LET c == cmd.todo[1].on IN
            /\ c \in {Toxiproxy, Workload} /\ ct'[c] = "none" /\ \A d : d # c => ct'[d] = ct[d]
            /\ IF c = Toxiproxy THEN proxies' = {} /\ base' = {} ELSE proxies' = proxies /\ base' = base
            /\ \E x : Todo' = {x} \cup Later /\ x.do = "remove" /\ x.on = c /\ x.part = cmd.todo[1].part
<1> DEFINE h == cmd.todo[1]
<1>1. vol' = vol /\ Doing("remove") /\ cmd.todo # << >> /\ h.do = "remove" /\ On = h.on
  BY DEF StopAndRemove, Doing, On
<1>2. Todo = {h} \cup Later /\ h \in AnyCall /\ Shaped(cmd.kind, h)
  BY <1>1, HeadOf
<1>3. PICK c \in h.set : /\ ct' = [ct EXCEPT ![c] = "none"] /\ cmd' = Without(c)
                         /\ IF c = Toxiproxy THEN proxies' = {} /\ base' = {} ELSE UNCHANGED <<proxies, base>>
  BY DEF StopAndRemove
<1>4. PICK x : /\ Left(Without(c).todo) = {x} \cup Later
               /\ x.do = "remove" /\ x.on = On /\ x.part = h.part
  BY <1>1, WithoutEffect
<1>5. Todo' = {x} \cup Later
  BY <1>3, <1>4 DEF Todo
<1> HIDE DEF h
<1>6. c \in Containers /\ c[1] = h.on[1] /\ c \in DOMAIN ct /\ h.on \in Containers
  BY <1>1, <1>2, <1>3 DEF AnyCall, Shaped, IndInv, DockerInv
<1>7. h.on \in {Toxiproxy, Workload}
  BY <1>1, <1>2 DEF BuildInv, Suits, Removal
<1>8. c = h.on
  BY <1>6, <1>7, RoleOf
<1>9. ct'[c] = "none" /\ \A d : d # c => ct'[d] = ct[d]
  BY <1>3, <1>6
<1>10. IF c = Toxiproxy THEN proxies' = {} /\ base' = {} ELSE proxies' = proxies /\ base' = base
  BY <1>3
<1>. QED  BY <1>1, <1>2, <1>4, <1>5, <1>7, <1>8, <1>9, <1>10 DEF h

(* EnsureToxiproxy of a command of n nodes. *)
LEMMA Ensured ==
  ASSUME IndInv, OrderInv, EnsureToxiproxy
  PROVE  LET New == IF ct[Toxiproxy] = "running" THEN {} ELSE Left(NewToxiproxy(cmd.n)) IN
         /\ ct' = ct /\ vol' = vol /\ proxies' = proxies /\ base' = base
         /\ Todo = {cmd.todo[1]} \cup Later /\ cmd.todo[1].do = "toxiproxy" /\ Todo' = New \cup Later
         /\ \A y \in Later : Follows(cmd.todo[1], y)
         /\ \A x \in New : OfToxiproxy(x, cmd.n)
         /\ ct[Toxiproxy] # "running" =>
              Will(New, "start", Toxiproxy) /\ \A i \in 1 .. cmd.n : Will(New, "register", Node(i))
<1> DEFINE New == IF ct[Toxiproxy] = "running" THEN {} ELSE Left(NewToxiproxy(cmd.n))
<1>1. /\ ct' = ct /\ vol' = vol /\ proxies' = proxies /\ base' = base
      /\ cmd.todo # << >> /\ cmd.todo[1].do = "toxiproxy"
  BY DEF EnsureToxiproxy, dockerVars, Doing
<1>2. Todo = {cmd.todo[1]} \cup Later /\ (\A y \in Later : Follows(cmd.todo[1], y)) /\ cmd \in Commands
  BY <1>1, HeadOf
<1>3. Todo' = New \cup Later
  BY ToxiproxyEffect
<1>4. cmd.n \in 0 .. MaxNodes
  BY <1>2 DEF Commands
<1>5. /\ \A x \in New : OfToxiproxy(x, cmd.n)
      /\ ct[Toxiproxy] # "running" =>
           Will(New, "start", Toxiproxy) /\ \A i \in 1 .. cmd.n : Will(New, "register", Node(i))
  BY <1>4, ToxiproxyPiece
<1> HIDE DEF New
<1>. QED  BY <1>1, <1>2, <1>3, <1>5 DEF New

(* Every step keeps that what is wanted runs, or is still to be started. *)
LEMMA BuildStep == IndInv /\ OrderInv /\ BuildInv /\ [Next]_vars => BuildInv'
<1> SUFFICES ASSUME IndInv, OrderInv, BuildInv, [Next]_vars, Creating(cmd') PROVE BuildInv'
  BY DEF BuildInv
<1>1. CASE Begin
  BY <1>1, BuildBegins
<1>2. CASE ~Begin
  <2> DEFINE h == cmd.todo[1]
             n == cmd.n
             W == Wanted(cmd)
             T == Todo'
  <2>1. Creating(cmd) /\ Asked(cmd, cmd') /\ cmd'.n = cmd.n /\ CreateCall
    BY <1>2, CreateMoves
  <2>2. /\ n \in 1 .. MaxNodes
        /\ \A x \in Todo : Suits(x, n)
        /\ \A c \in W : Will(Todo, "start", c) \/ Stays(c)
        /\ Settled \/ Opens(Todo)
    BY <2>1 DEF BuildInv
  <2>3. Wanted(cmd') = W
    BY <2>1, SameCreate DEF Creating
  <2>4. Toxiproxy \notin W
    <3>1. \A i \in 1 .. n : Toxiproxy # Node(i)
      BY <2>2, Roles, NodesAssumption
    <3>. QED  BY <3>1, Roles DEF Wanted
  <2>s. SUFFICES /\ \A x \in T : Suits(x, n)
                 /\ \A c \in W : Will(T, "start", c) \/ (ct'[c] = "running" /\ \A y \in T : ~(y.do \in Removal /\ y.on = c))
                 /\ \/ Opens(T)
                    \/ ct'[Toxiproxy] = "running" /\ \A y \in T : ~(y.do \in {"list", "remove", "create"} /\ y.on = Toxiproxy)
    <3> HIDE DEF W
    <3>. QED  BY <2>1, <2>2, <2>3, <2>s DEF BuildInv, Stays, Settled
  <2> HIDE DEF h, n, W
  <2>5. ASSUME ct' = ct, Todo' \subseteq Todo, \A x \in Todo : x \in Todo' \/ x.do \notin {"start", "toxiproxy"}
        PROVE  /\ \A x \in T : Suits(x, n)
               /\ \A c \in W : Will(T, "start", c) \/ (ct'[c] = "running" /\ \A y \in T : ~(y.do \in Removal /\ y.on = c))
               /\ \/ Opens(T)
                  \/ ct'[Toxiproxy] = "running" /\ \A y \in T : ~(y.do \in {"list", "remove", "create"} /\ y.on = Toxiproxy)
    BY <2>2, <2>5 DEF Stays, Settled, Opens, Any, Will
  <2>6. CASE Quiet
    BY <2>5, <2>6 DEF Quiet
  <2>7. CASE EnsureToxiproxy
    <3> DEFINE New == IF ct[Toxiproxy] = "running" THEN {} ELSE Left(NewToxiproxy(cmd.n))
    <3>1. /\ ct' = ct /\ Todo = {h} \cup Later /\ h.do = "toxiproxy" /\ T = New \cup Later
          /\ (\A y \in Later : Follows(h, y)) /\ \A x \in New : OfToxiproxy(x, n)
          /\ ct[Toxiproxy] # "running" => Will(New, "start", Toxiproxy)
      BY <2>7, Ensured DEF h, n
    <3>2. ct[Toxiproxy] = "running" => New = {}
      OBVIOUS
    <3> HIDE DEF New, T
    <3>3. \A x \in New : Suits(x, n)
      BY <3>1 DEF OfToxiproxy, Suits, Removal
    <3>4. \A c \in W : Will(T, "start", c) \/ (ct'[c] = "running" /\ \A y \in T : ~(y.do \in Removal /\ y.on = c))
      BY <2>2, <2>4, <3>1 DEF Will, Stays, OfToxiproxy, Removal
    <3>5. Opens(T) \/ (ct'[Toxiproxy] = "running" /\ \A y \in T : ~(y.do \in {"list", "remove", "create"} /\ y.on = Toxiproxy))
      BY <3>1, <3>2 DEF Opens, Will, Follows
    <3>. QED  BY <2>2, <3>1, <3>3, <3>4, <3>5
  <2>8. CASE ContainerCreate /\ ct[On] = "none" /\ cmd' = Rest
    <3>1. Doing("create") /\ ct' = [ct EXCEPT ![On] = "stopped"]
      BY <2>8 DEF ContainerCreate
    <3>2. h.do = "create" /\ On = h.on /\ Todo = {h} \cup Later /\ T = Later /\ On \in Containers
      BY <2>8, <3>1, CallMade DEF h
    <3>3. \A c : c # h.on \/ ct[c] = "running" => ct'[c] = ct[c]
      <4>1. \A c : c # h.on => ct'[c] = ct[c]
        BY <3>1, <3>2
      <4>. QED  BY <2>8, <3>2, <4>1
    <3> HIDE DEF T
    <3>4. \A c \in W : Will(T, "start", c) \/ (ct'[c] = "running" /\ \A y \in T : ~(y.do \in Removal /\ y.on = c))
      BY <2>2, <3>2, <3>3 DEF Will, Stays
    <3>5. Opens(T) \/ (ct'[Toxiproxy] = "running" /\ \A y \in T : ~(y.do \in {"list", "remove", "create"} /\ y.on = Toxiproxy))
      BY <2>2, <3>2, <3>3 DEF Opens, Settled, Any, Will
    <3>. QED  BY <2>2, <3>2, <3>4, <3>5
  <2>9. CASE ContainerStart /\ net /\ cmd' = Rest
    <3>1. Doing("start") /\ ct' = [ct EXCEPT ![On] = "running"]
      BY <2>9 DEF ContainerStart
    <3>2. /\ h.do = "start" /\ On = h.on /\ Todo = {h} \cup Later /\ T = Later /\ On \in Containers
          /\ \A y \in Later : Follows(h, y)
      BY <2>9, <3>1, CallMade DEF h
    <3>3. ct'[h.on] = "running" /\ \A c : c # h.on => ct'[c] = ct[c]
      BY <3>1, <3>2 DEF IndInv, DockerInv
    <3>4. \A y \in Later : ~(y.do \in {"list", "remove", "create"} /\ y.on = h.on)
      BY <3>2 DEF Follows, Removal
    <3> HIDE DEF T
    <3>5. \A c \in W : Will(T, "start", c) \/ (ct'[c] = "running" /\ \A y \in T : ~(y.do \in Removal /\ y.on = c))
      BY <2>2, <3>2, <3>3, <3>4 DEF Will, Stays, Removal
    <3>6. Opens(T) \/ (ct'[Toxiproxy] = "running" /\ \A y \in T : ~(y.do \in {"list", "remove", "create"} /\ y.on = Toxiproxy))
      BY <2>2, <3>2, <3>3, <3>4 DEF Opens, Settled, Any, Will
    <3>. QED  BY <2>2, <3>2, <3>5, <3>6
  <2>10. CASE RegisterProxy /\ ct[Toxiproxy] = "running" /\ cmd' = Rest
    <3>1. Doing("register") /\ ct' = ct
      BY <2>10 DEF RegisterProxy
    <3>2. h.do = "register" /\ Todo = {h} \cup Later /\ T = Later
      BY <2>10, <3>1, CallMade DEF h
    <3>. QED  BY <2>5, <3>1, <3>2
  <2>11. CASE EnsureVolume
    <3>1. Doing("volume") /\ ct' = ct /\ cmd' = Rest
      BY <2>11 DEF EnsureVolume
    <3>2. h.do = "volume" /\ Todo = {h} \cup Later /\ T = Later
      BY <3>1, CallMade DEF h
    <3>. QED  BY <2>5, <3>1, <3>2
  <2>12. CASE initCluster
    <3>1. Doing("init") /\ ct' = ct /\ cmd' = Rest
      BY <2>12 DEF initCluster
    <3>2. h.do = "init" /\ Todo = {h} \cup Later /\ T = Later
      BY <3>1, CallMade DEF h
    <3>. QED  BY <2>5, <3>1, <3>2
  <2>13. CASE ListForRemoval
    <3>1. PICK x : /\ ct' = ct /\ Todo = {h} \cup Later /\ h.do = "list" /\ T = {x} \cup Later
                   /\ x.do = "remove" /\ x.on = h.on /\ x.part = h.part
      BY <2>13, Listed DEF h
    <3>2. Suits(x, n)
      BY <2>2, <3>1 DEF Suits, Removal
    <3> HIDE DEF T
    <3>3. \A c \in W : Will(T, "start", c) \/ (ct'[c] = "running" /\ \A y \in T : ~(y.do \in Removal /\ y.on = c))
      BY <2>2, <3>1 DEF Will, Stays, Removal
    <3>4. Opens(T) \/ (ct'[Toxiproxy] = "running" /\ \A y \in T : ~(y.do \in {"list", "remove", "create"} /\ y.on = Toxiproxy))
      BY <2>2, <3>1 DEF Opens, Settled, Any, Will
    <3>. QED  BY <2>2, <3>1, <3>2, <3>3, <3>4
  <2>14. CASE StopAndRemove
    <3>1. PICK x : /\ Todo = {h} \cup Later /\ h.do = "remove" /\ T = {x} \cup Later
                   /\ x.do = "remove" /\ x.on = h.on /\ x.part = h.part
                   /\ \A d : d # h.on => ct'[d] = ct[d]
      BY <2>1, <2>14, Cleared DEF h
    <3>2. Suits(x, n)
      BY <2>2, <3>1 DEF Suits, Removal
    <3> HIDE DEF T
    <3>3. \A c \in W : Will(T, "start", c) \/ (ct'[c] = "running" /\ \A y \in T : ~(y.do \in Removal /\ y.on = c))
      BY <2>2, <3>1 DEF Will, Stays, Removal
    <3>4. Opens(T) \/ (ct'[Toxiproxy] = "running" /\ \A y \in T : ~(y.do \in {"list", "remove", "create"} /\ y.on = Toxiproxy))
      BY <2>2, <3>1 DEF Opens, Settled, Any, Will
    <3>. QED  BY <2>2, <3>1, <3>2, <3>3, <3>4
  <2>15. CASE \E d \in Directions : InjectBaseline(d)
    <3>1. PICK d \in Directions : Doing(d) /\ ct' = ct /\ (cmd' = Rest \/ cmd' = Error)
      BY <2>15 DEF InjectBaseline
    <3>2. cmd.at = "run" /\ cmd.todo # << >> /\ h.do = d
      BY <3>1 DEF Doing, h
    <3>3. /\ Todo = {h} \cup Later /\ Shaped(cmd.kind, h) /\ \A y \in Later : Shaped(cmd.kind, y)
      BY <3>2, HeadOf DEF h
    <3>4. T \subseteq Later /\ \A y \in Later : y \in T \/ y.part = h.part
      BY <3>1, <3>2, RestEffect, ErrorEffect DEF Todo, h, GaveUp, Creating
    <3>5. \A y \in Todo : y \in T \/ y.do \in Directions
      BY <3>2, <3>3, <3>4 DEF Shaped
    <3>. QED  BY <2>5, <3>1, <3>3, <3>4, <3>5 DEF Directions
  <2>16. CASE \E c \in Nodes : NodeJoins(c)
    <3>1. ct' = ct /\ T = Todo
      BY <2>16, JoinEffect DEF Todo
    <3>. QED  BY <2>5, <3>1
  <2>. QED  BY <2>1, <2>6, <2>7, <2>8, <2>9, <2>10, <2>11, <2>12, <2>13, <2>14, <2>15, <2>16 DEF CreateCall
<1>. QED  BY <1>1, <1>2

(* The nodes that are new have all of them on their lists; a name still to be given is
   free. *)
ListsInv ==
  Creating(cmd) => \A i \in 1 .. cmd.n : Will(Todo, "create", Node(i)) \/ join[Node(i)] = cmd.n
FreeNames == \A i \in 1 .. cmd.n : Will(Todo, "create", Node(i)) => ct[Node(i)] = "none"

(* A name that is taken stays taken, and a new node gets the list of all. *)
LEMMA NamesStep ==
  ASSUME IndInv, OrderInv, BuildInv, [Next]_vars, ~Begin, Creating(cmd'), NEW i \in 1 .. cmd.n
  PROVE  /\ join'[Node(i)] \in {join[Node(i)], cmd.n}
         /\ ct[Node(i)] # "none" => ct'[Node(i)] # "none"
         /\ Will(Todo, "create", Node(i)) =>
              Will(Todo', "create", Node(i)) \/ (ct[Node(i)] = "none" /\ join'[Node(i)] = cmd.n)
<1> DEFINE h == cmd.todo[1]
           c == Node(i)
           T == Todo'
           Goal == /\ join'[c] \in {join[c], cmd.n}
                   /\ ct[c] # "none" => ct'[c] # "none"
                   /\ Will(Todo, "create", c) => Will(T, "create", c) \/ (ct[c] = "none" /\ join'[c] = cmd.n)
<1>1. Creating(cmd) /\ cmd.n \in 1 .. MaxNodes /\ CreateCall
  BY CreateMoves DEF BuildInv
<1>2. c \in Nodes /\ c \notin {Toxiproxy, Workload}
  <2>1. i \in 1 .. MaxNodes
    BY <1>1, NodesAssumption
  <2>. QED  BY <2>1, Names
<1>s. SUFFICES Goal
  OBVIOUS
<1> HIDE DEF h, c, T
<1>g. ASSUME join' = join, ct[c] # "none" => ct'[c] # "none", \A x \in Todo : x \in T \/ x.do # "create"
      PROVE  Goal
  BY <1>g DEF Will
<1>c. ASSUME NEW d, Doing(d), cmd' = Rest
      PROVE  h.do = d /\ On = h.on /\ Todo = {h} \cup Later /\ T = Later /\ On \in Containers
  BY <1>c, CallMade DEF h, T
<1>3. CASE Quiet
  BY <1>3, <1>g DEF Quiet, T
<1>4. CASE EnsureToxiproxy
  <2> DEFINE New == IF ct[Toxiproxy] = "running" THEN {} ELSE Left(NewToxiproxy(cmd.n))
  <2>1. ct' = ct /\ Todo = {h} \cup Later /\ h.do = "toxiproxy" /\ T = New \cup Later
    BY <1>4, Ensured DEF h, T
  <2>2. join' = join
    BY <1>4 DEF EnsureToxiproxy, dockerVars
  <2> HIDE DEF New
  <2>. QED  BY <1>g, <2>1, <2>2
<1>5. CASE ContainerCreate /\ ct[On] = "none" /\ cmd' = Rest
  <2>1. /\ Doing("create") /\ ct' = [ct EXCEPT ![On] = "stopped"]
        /\ join' = [d \in Nodes |-> IF d = On THEN cmd.n ELSE join[d]]
    BY <1>5 DEF ContainerCreate
  <2>2. Todo = {h} \cup Later /\ T = Later /\ h.on = On /\ On \in Containers
    BY <1>5, <1>c, <2>1
  <2>3. join'[c] = IF c = On THEN cmd.n ELSE join[c]
    BY <1>2, <2>1
  <2>4. \A d : d # On => ct'[d] = ct[d]
    BY <2>1
  <2>. QED  BY <1>5, <2>2, <2>3, <2>4 DEF Will
<1>6. CASE ContainerStart /\ net /\ cmd' = Rest
  <2>1. Doing("start") /\ ct' = [ct EXCEPT ![On] = "running"] /\ join' = join
    BY <1>6 DEF ContainerStart
  <2>2. Todo = {h} \cup Later /\ T = Later /\ h.do = "start" /\ On \in Containers
    BY <1>6, <1>c, <2>1
  <2>3. ct'[c] \in {ct[c], "running"}
    BY <2>1, <2>2 DEF IndInv, DockerInv
  <2>. QED  BY <1>g, <2>1, <2>2, <2>3
<1>7. CASE RegisterProxy /\ ct[Toxiproxy] = "running" /\ cmd' = Rest
  <2>1. Doing("register") /\ ct' = ct /\ join' = join
    BY <1>7 DEF RegisterProxy
  <2>. QED  BY <1>7, <1>g, <1>c, <2>1
<1>8. CASE EnsureVolume
  <2>1. Doing("volume") /\ cmd' = Rest /\ ct' = ct /\ join' = join
    BY <1>8 DEF EnsureVolume
  <2>. QED  BY <1>g, <1>c, <2>1
<1>9. CASE initCluster
  <2>1. Doing("init") /\ cmd' = Rest /\ ct' = ct /\ join' = join
    BY <1>9 DEF initCluster
  <2>. QED  BY <1>g, <1>c, <2>1
<1>10. CASE ListForRemoval
  <2>1. ct' = ct /\ Todo = {h} \cup Later /\ h.do = "list" /\ \E x : T = {x} \cup Later
    BY <1>10, Listed DEF h, T
  <2>2. join' = join
    BY <1>10 DEF ListForRemoval, dockerVars
  <2>. QED  BY <1>g, <2>1, <2>2
<1>11. CASE StopAndRemove
  <2>1. /\ Todo = {h} \cup Later /\ h.do = "remove" /\ h.on \in {Toxiproxy, Workload}
        /\ \A d : d # h.on => ct'[d] = ct[d]
        /\ \E x : T = {x} \cup Later
    BY <1>1, <1>11, Cleared DEF h, T
  <2>2. join'[c] = join[c]
    <3>1. PICK d \in h.set : join' = [e \in Nodes |-> IF e = d THEN 0 ELSE join[e]]
      BY <1>11 DEF StopAndRemove, h
    <3>2. cmd.todo # << >>
      BY <1>11 DEF StopAndRemove, Doing
    <3>3. d[1] = h.on[1]
      BY <2>1, <3>2, HeadOf DEF Shaped, h
    <3>4. c[1] = "crdb" /\ h.on[1] # "crdb"
      BY <1>2, <2>1, Names DEF Toxiproxy, Workload
    <3>. QED  BY <1>2, <3>1, <3>3, <3>4
  <2>3. ct'[c] = ct[c]
    BY <1>2, <2>1
  <2>. QED  BY <2>1, <2>2, <2>3 DEF Will
<1>12. CASE \E d \in Directions : InjectBaseline(d)
  <2>1. PICK d \in Directions : Doing(d) /\ ct' = ct /\ join' = join /\ (cmd' = Rest \/ cmd' = Error)
    BY <1>12 DEF InjectBaseline
  <2>2. cmd.at = "run" /\ cmd.todo # << >> /\ h.do = d
    BY <2>1 DEF Doing, h
  <2>3. /\ Todo = {h} \cup Later /\ Shaped(cmd.kind, h) /\ \A y \in Later : Shaped(cmd.kind, y)
    BY <2>2, HeadOf DEF h
  <2>4. T \subseteq Later /\ \A y \in Later : y \in T \/ y.part = h.part
    BY <2>1, <2>2, RestEffect, ErrorEffect DEF Todo, h, T, GaveUp, Creating
  <2>5. \A y \in Todo : y \in T \/ y.do \in Directions
    BY <2>2, <2>3, <2>4 DEF Shaped
  <2>. QED  BY <1>g, <2>1, <2>5 DEF Directions
<1>13. CASE \E d \in Nodes : NodeJoins(d)
  BY <1>13, <1>g, JoinEffect DEF T, Todo
<1>. QED  BY <1>1, <1>3, <1>4, <1>5, <1>6, <1>7, <1>8, <1>9, <1>10, <1>11, <1>12, <1>13 DEF CreateCall

(* A container still to be created will get its list; it keeps it as long as it is there. *)
LEMMA ListsStep == IndInv /\ OrderInv /\ BuildInv /\ ListsInv /\ [Next]_vars => ListsInv'
<1> SUFFICES ASSUME IndInv, OrderInv, BuildInv, ListsInv, [Next]_vars, Creating(cmd') PROVE ListsInv'
  BY DEF ListsInv
<1>1. CASE Begin
  <2>1. PICK k \in Kinds, n \in 1 .. MaxNodes, flag \in BOOLEAN : Typed(k, n, flag)
    BY <1>1, BeginEffect
  <2>2. cmd'.kind = k /\ cmd'.n = n /\ cmd'.todo = Program(k, n, flag)
    BY <2>1, Zenon DEF Typed
  <2> DEFINE T == Left(Program(k, n, flag))
  <2>3. \A i \in 1 .. n : Will(T, "create", Node(i))
    BY <2>2, CreateProgram DEF Creating
  <2>4. Todo' = T
    BY <2>2 DEF Todo
  <2> HIDE DEF T
  <2>. QED  BY <2>2, <2>3, <2>4 DEF ListsInv
<1>2. CASE ~Begin
  <2>1. Creating(cmd) /\ cmd'.n = cmd.n
    BY <1>2, CreateMoves
  <2>2. ASSUME NEW i \in 1 .. cmd.n PROVE Will(Todo', "create", Node(i)) \/ join'[Node(i)] = cmd.n
    BY <1>2, <2>1, <2>2, NamesStep DEF ListsInv
  <2>. QED  BY <2>1, <2>2 DEF ListsInv
<1>. QED  BY <1>1, <1>2

(* Toxiproxy did not run when the command was typed; baselines are to be applied. *)
Cold(c) == Creating(c) /\ c.cold
Flagged(c) == c.flag

(* With the calls of T ahead and the proxies of P registered, n nodes have theirs, or
   will; and no other has. *)
Proxied(T, P, n) ==
  /\ Will(T, "start", Toxiproxy) \/ P \subseteq 1 .. n
  /\ \A k \in 1 .. n : Will(T, "register", Node(k)) \/ (k \in P /\ ~Will(T, "start", Toxiproxy))

(* No toxic ahead is there already; and each one that is wanted is there, or ahead. *)
NotTwice(T, B, n) ==
  \A k \in 1 .. n, d \in Directions : Will(T, d, Node(k)) => <<k, d>> \notin B \/ Opens(T)
Delayed(T, B, n) ==
  \A k \in 1 .. n, d \in Directions : Will(T, d, Node(k)) \/ (<<k, d>> \in B /\ ~Opens(T))

(* A Toxiproxy that the command starts gets all its proxies and toxics from it. *)
ColdInv ==
  Cold(cmd) =>
    /\ \/ Any(Todo, "toxiproxy") /\ ct[Toxiproxy] # "running"
       \/ ~Any(Todo, "toxiproxy") /\ Proxied(Todo, proxies, cmd.n)
    /\ NotTwice(Todo, base, cmd.n)
    /\ Flagged(cmd) => Delayed(Todo, base, cmd.n)

(* What such a command was asked stays what it is. *)
LEMMA SameCold ==
  ASSUME NEW c, NEW d, Asked(c, d), Creating(c), Cold(d) PROVE Cold(c) /\ (Flagged(d) <=> Flagged(c))
BY DEF Cold, Flagged, Asked

(* A step that changes neither the proxies nor the toxics, nor what is ahead for them. *)
LEMMA ColdKept ==
  ASSUME NEW T, NEW U, NEW P, NEW B, NEW n,
         \A d \in {"toxiproxy", "start", "register", "up", "down"} :
           \A c : (d = "start" => c = Toxiproxy) => (Will(T, d, c) <=> Will(U, d, c))
  PROVE  /\ Any(T, "toxiproxy") <=> Any(U, "toxiproxy")
         /\ Opens(T) <=> Opens(U)
         /\ Proxied(T, P, n) <=> Proxied(U, P, n)
         /\ NotTwice(T, B, n) <=> NotTwice(U, B, n)
         /\ Delayed(T, B, n) <=> Delayed(U, B, n)
<1>1. Any(T, "toxiproxy") <=> Any(U, "toxiproxy")
  <2>1. \A S : Any(S, "toxiproxy") <=> \E c : Will(S, "toxiproxy", c)
    BY DEF Any, Will
  <2>. QED  BY <2>1
<1>2. Will(T, "start", Toxiproxy) <=> Will(U, "start", Toxiproxy)
  OBVIOUS
<1>3. Opens(T) <=> Opens(U)
  BY <1>1, <1>2 DEF Opens
<1>4. \A k : Will(T, "register", Node(k)) <=> Will(U, "register", Node(k))
  OBVIOUS
<1>5. \A k, d : d \in Directions => (Will(T, d, Node(k)) <=> Will(U, d, Node(k)))
  BY DEF Directions
<1>6. Proxied(T, P, n) <=> Proxied(U, P, n)
  BY <1>2, <1>4 DEF Proxied
<1>7. NotTwice(T, B, n) <=> NotTwice(U, B, n)
  BY <1>3, <1>5 DEF NotTwice
<1>8. Delayed(T, B, n) <=> Delayed(U, B, n)
  BY <1>3, <1>5 DEF Delayed
<1>. QED  BY <1>1, <1>3, <1>6, <1>7, <1>8

(* A cold command has EnsureToxiproxy ahead, and the toxics of every node. *)
LEMMA ColdBegins ==
  ASSUME IndInv, Begin, Cold(cmd') PROVE ColdInv'
<1>1. PICK k \in Kinds, n \in 1 .. MaxNodes, flag \in BOOLEAN :
        Typed(k, n, flag) /\ (k \notin {"rm", "destroy", "quickstart"} => ~flag)
  BY BeginEffect
<1>2. cmd'.kind = k /\ cmd'.n = n /\ cmd'.todo = Program(k, n, flag)
  BY <1>1, Zenon DEF Typed
<1>3. ct[Toxiproxy] # "running"
  <2>1. cmd'.cold = (ct[Toxiproxy] # "running")
    BY <1>1, Zenon DEF Typed
  <2>. QED  BY <2>1, Zenon DEF Cold
<1>4. k \in {"create", "quickstart"}
  BY <1>2 DEF Cold, Creating
<1>5. Flagged(cmd') => flag /\ k = "quickstart"
  <2>1. cmd'.flag = flag
    BY <1>1, Zenon DEF Typed
  <2>2. Flagged(cmd') => flag
    BY <2>1, Zenon DEF Flagged
  <2>. QED  BY <1>1, <1>4, <2>2
<1> DEFINE T == Left(Program(k, n, flag))
<1>6. /\ Any(T, "toxiproxy")
      /\ (k = "quickstart" /\ flag) => \A i \in 1 .. n, d \in Directions : Will(T, d, Node(i))
  BY <1>4, CreateProgram
<1>7. Todo' = T /\ ct' = ct
  BY <1>2, BeginEffect DEF Todo
<1> HIDE DEF T
<1>. QED  BY <1>2, <1>3, <1>5, <1>6, <1>7 DEF ColdInv, NotTwice, Delayed, Opens

(* Every step keeps that proxies and toxics are there or ahead, once each: Toxiproxy forgets
   both when it is started, and the order puts its start before all of them. *)
LEMMA ColdStep == IndInv /\ OrderInv /\ BuildInv /\ ColdInv /\ [Next]_vars => ColdInv'
<1> SUFFICES ASSUME IndInv, OrderInv, BuildInv, ColdInv, [Next]_vars, Cold(cmd') PROVE ColdInv'
  BY DEF ColdInv
<1>1. CASE Begin
  BY <1>1, ColdBegins
<1>2. CASE ~Begin
  <2> DEFINE h == cmd.todo[1]
             n == cmd.n
             T == Todo'
  <2>1. Creating(cmd) /\ Asked(cmd, cmd') /\ cmd'.n = n /\ CreateCall
    BY <1>2, CreateMoves DEF Cold
  <2>2. Cold(cmd) /\ (Flagged(cmd') <=> Flagged(cmd))
    BY <2>1, SameCold
  <2>3. /\ \/ Any(Todo, "toxiproxy") /\ ct[Toxiproxy] # "running"
           \/ ~Any(Todo, "toxiproxy") /\ Proxied(Todo, proxies, n)
        /\ NotTwice(Todo, base, n)
        /\ Flagged(cmd) => Delayed(Todo, base, n)
    BY <2>2 DEF ColdInv
  <2>4. n \in 1 .. MaxNodes /\ (\A x \in Todo : Suits(x, n)) /\ (Settled \/ Opens(Todo))
    BY <2>1 DEF BuildInv
  <2>s. SUFFICES /\ \/ Any(T, "toxiproxy") /\ ct'[Toxiproxy] # "running"
                    \/ ~Any(T, "toxiproxy") /\ Proxied(T, proxies', n)
                 /\ NotTwice(T, base', n)
                 /\ Flagged(cmd) => Delayed(T, base', n)
    BY <2>1, <2>2, <2>s DEF ColdInv
  <2> HIDE DEF h, n
  <2>k. ASSUME proxies' = proxies, base' = base, ct[Toxiproxy] # "running" => ct'[Toxiproxy] # "running",
               \A d \in {"toxiproxy", "start", "register", "up", "down"} :
                 \A c : (d = "start" => c = Toxiproxy) => (Will(T, d, c) <=> Will(Todo, d, c))
        PROVE  /\ \/ Any(T, "toxiproxy") /\ ct'[Toxiproxy] # "running"
                  \/ ~Any(T, "toxiproxy") /\ Proxied(T, proxies', n)
               /\ NotTwice(T, base', n)
               /\ Flagged(cmd) => Delayed(T, base', n)
    <3>1. /\ Any(T, "toxiproxy") <=> Any(Todo, "toxiproxy")
          /\ Proxied(T, proxies, n) <=> Proxied(Todo, proxies, n)
          /\ NotTwice(T, base, n) <=> NotTwice(Todo, base, n)
          /\ Delayed(T, base, n) <=> Delayed(Todo, base, n)
      BY <2>k, ColdKept
    <3>. QED  BY <2>3, <2>k, <3>1
  <2>5. CASE Quiet
    <3>1. \A d \in {"toxiproxy", "start", "register", "up", "down"} : \A c : Will(T, d, c) <=> Will(Todo, d, c)
      BY <2>5 DEF Quiet, Will
    <3>. QED  BY <2>5, <2>k, <3>1 DEF Quiet
  <2>6. CASE EnsureToxiproxy
    <3> DEFINE New == IF ct[Toxiproxy] = "running" THEN {} ELSE Left(NewToxiproxy(cmd.n))
    <3>1. /\ ct' = ct /\ proxies' = proxies /\ base' = base
          /\ Todo = {h} \cup Later /\ h.do = "toxiproxy" /\ T = New \cup Later
          /\ (\A y \in Later : Follows(h, y)) /\ \A x \in New : OfToxiproxy(x, n)
          /\ ct[Toxiproxy] # "running" =>
               Will(New, "start", Toxiproxy) /\ \A i \in 1 .. n : Will(New, "register", Node(i))
      BY <2>6, Ensured DEF h, n
    <3> HIDE DEF New, T
    <3>2. Any(Todo, "toxiproxy") /\ Opens(Todo)
      BY <3>1 DEF Any, Opens
    <3>3. Will(T, "start", Toxiproxy) /\ \A i \in 1 .. n : Will(T, "register", Node(i))
      BY <2>3, <3>1, <3>2 DEF Will
    <3>4. ~Any(T, "toxiproxy") /\ Opens(T)
      BY <3>1, <3>3 DEF Any, Follows, OfToxiproxy, Opens
    <3>5. \A d \in Directions, k \in 1 .. n : Will(Todo, d, Node(k)) => Will(T, d, Node(k))
      BY <3>1 DEF Will, Directions
    <3>6. Proxied(T, proxies', n) /\ NotTwice(T, base', n)
      BY <3>3, <3>4 DEF Proxied, NotTwice
    <3>7. Flagged(cmd) => Delayed(T, base', n)
      BY <2>3, <3>2, <3>5 DEF Delayed
    <3>. QED  BY <3>4, <3>6, <3>7
  <2>c. ASSUME NEW d, Doing(d), cmd' = Rest
        PROVE  /\ h.do = d /\ On = h.on /\ Todo = {h} \cup Later /\ T = Later /\ On \in Containers
               /\ \A y \in Later : Follows(h, y)
    BY <2>c, CallMade DEF h
  <2>7. CASE ContainerCreate /\ ct[On] = "none" /\ cmd' = Rest
    <3>1. /\ Doing("create") /\ proxies' = proxies /\ base' = base
          /\ ct' = [ct EXCEPT ![On] = "stopped"] \/ ct' = ct
      BY <2>7 DEF ContainerCreate
    <3>2. h.do = "create" /\ Todo = {h} \cup Later /\ T = Later /\ On \in Containers
      BY <2>7, <2>c, <3>1
    <3>3. Toxiproxy \in DOMAIN ct /\ On \in DOMAIN ct
      BY <3>2, Names DEF IndInv, DockerInv
    <3>4. ct[Toxiproxy] # "running" => ct'[Toxiproxy] # "running"
      BY <3>1, <3>3
    <3>5. \A d \in {"toxiproxy", "start", "register", "up", "down"} : \A c : Will(T, d, c) <=> Will(Todo, d, c)
      BY <3>2 DEF Will
    <3>. QED  BY <2>k, <3>1, <3>4, <3>5
  <2>8. CASE ContainerStart /\ net /\ cmd' = Rest
    <3>1. /\ Doing("start") /\ ct' = [ct EXCEPT ![On] = "running"]
          /\ IF On = Toxiproxy THEN proxies' = {} /\ base' = {} ELSE proxies' = proxies /\ base' = base
      BY <2>8 DEF ContainerStart
    <3>2. /\ h.do = "start" /\ On = h.on /\ Todo = {h} \cup Later /\ T = Later /\ On \in Containers
          /\ \A y \in Later : Follows(h, y)
      BY <2>8, <2>c, <3>1
    <3> HIDE DEF T
    <3>3. CASE h.on = Toxiproxy
      <4>1. Will(Todo, "start", Toxiproxy) /\ Opens(Todo)
        BY <3>2, <3>3 DEF Will, Opens
      <4>2. ~Any(Later, "toxiproxy") /\ ~Any(Todo, "toxiproxy")
        BY <3>2, <3>3 DEF Any, Follows
      <4>3. \A k \in 1 .. n : Will(Later, "register", Node(k))
        BY <2>3, <3>2, <4>1, <4>2 DEF Proxied, Will
      <4>4. Proxied(Later, {}, n) /\ NotTwice(Later, {}, n)
        BY <4>3 DEF Proxied, NotTwice
      <4>5. Flagged(cmd) => Delayed(Later, {}, n)
        BY <2>3, <3>2, <4>1 DEF Delayed, Will, Directions
      <4>. QED  BY <3>1, <3>2, <3>3, <4>2, <4>4, <4>5
    <3>4. CASE h.on # Toxiproxy
      <4>1. ct[Toxiproxy] # "running" => ct'[Toxiproxy] # "running"
        BY <3>1, <3>2, <3>4
      <4>2. \A d \in {"toxiproxy", "start", "register", "up", "down"} :
              \A c : (d = "start" => c = Toxiproxy) => (Will(T, d, c) <=> Will(Todo, d, c))
        BY <3>2, <3>4 DEF Will
      <4>. QED  BY <2>k, <3>1, <3>2, <3>4, <4>1, <4>2 DEF T
    <3>. QED  BY <3>3, <3>4
  <2>9. CASE RegisterProxy /\ ct[Toxiproxy] = "running" /\ cmd' = Rest
    <3>1. Doing("register") /\ base' = base /\ ct' = ct /\ proxies' = proxies \cup {On[2]}
      BY <2>9 DEF RegisterProxy
    <3>2. /\ h.do = "register" /\ On = h.on /\ Todo = {h} \cup Later /\ T = Later
          /\ \A y \in Later : Follows(h, y)
      BY <2>9, <2>c, <3>1
    <3>3. PICK k \in 1 .. n : h.on = Node(k)
      BY <2>4, <3>2 DEF Suits
    <3>4. h.on[2] = k
      BY <3>3 DEF Node
    <3>5. /\ ~Any(Todo, "toxiproxy") /\ ~Will(Todo, "start", Toxiproxy)
          /\ ~Any(Later, "toxiproxy") /\ ~Will(Later, "start", Toxiproxy) /\ ~Opens(Todo) /\ ~Opens(Later)
      BY <3>2 DEF Any, Will, Opens, Follows
    <3> HIDE DEF T
    <3>6. Proxied(Later, proxies', n)
      <4>1. proxies \subseteq 1 .. n /\ \A i \in 1 .. n : Will(Todo, "register", Node(i)) \/ i \in proxies
        BY <2>3, <3>5 DEF Proxied
      <4>2. ASSUME NEW i \in 1 .. n PROVE Will(Later, "register", Node(i)) \/ i \in proxies'
        <5>1. CASE i = k
          BY <3>1, <3>2, <3>4, <5>1
        <5>2. CASE i # k
          <6>1. Node(i) # h.on
            BY <3>3, <5>2, Roles
          <6>. QED  BY <3>1, <3>2, <4>1, <6>1 DEF Will
        <5>. QED  BY <5>1, <5>2
      <4>3. proxies' \subseteq 1 .. n
        BY <3>1, <3>2, <3>4, <4>1
      <4>. QED  BY <3>5, <4>2, <4>3 DEF Proxied
    <3>7. \A d \in Directions, i \in 1 .. n : Will(Todo, d, Node(i)) <=> Will(Later, d, Node(i))
      BY <3>2 DEF Will, Directions
    <3>8. NotTwice(Later, base, n) /\ (Flagged(cmd) => Delayed(Later, base, n))
      BY <2>3, <3>5, <3>7 DEF NotTwice, Delayed
    <3>. QED  BY <3>1, <3>2, <3>5, <3>6, <3>8
  <2>10. CASE EnsureVolume \/ initCluster
    <3>1. /\ Doing("volume") \/ Doing("init")
          /\ cmd' = Rest /\ ct' = ct /\ proxies' = proxies /\ base' = base
      BY <2>10 DEF EnsureVolume, initCluster
    <3>2. h.do \in {"volume", "init"} /\ Todo = {h} \cup Later /\ T = Later
      BY <2>c, <3>1
    <3>3. \A d \in {"toxiproxy", "start", "register", "up", "down"} : \A c : Will(T, d, c) <=> Will(Todo, d, c)
      BY <3>2 DEF Will
    <3>. QED  BY <2>k, <3>1, <3>3
  <2>11. CASE ListForRemoval
    <3>1. PICK x : /\ ct' = ct /\ proxies' = proxies /\ base' = base
                   /\ Todo = {h} \cup Later /\ h.do = "list" /\ T = {x} \cup Later /\ x.do = "remove"
      BY <2>11, Listed DEF h
    <3>2. \A d \in {"toxiproxy", "start", "register", "up", "down"} : \A c : Will(T, d, c) <=> Will(Todo, d, c)
      BY <3>1 DEF Will
    <3>. QED  BY <2>k, <3>1, <3>2
  <2>12. CASE StopAndRemove
    <3>1. /\ Todo = {h} \cup Later /\ h.do = "remove" /\ ct'[h.on] = "none" /\ (\A d : d # h.on => ct'[d] = ct[d])
          /\ IF h.on = Toxiproxy THEN proxies' = {} /\ base' = {} ELSE proxies' = proxies /\ base' = base
          /\ \E x : T = {x} \cup Later /\ x.do = "remove" /\ x.on = h.on
      BY <2>1, <2>12, Cleared DEF h
    <3>2. PICK x : T = {x} \cup Later /\ x.do = "remove" /\ x.on = h.on
      BY <3>1
    <3>3. \A d \in {"toxiproxy", "start", "register", "up", "down"} : \A c : Will(T, d, c) <=> Will(Todo, d, c)
      BY <3>1, <3>2 DEF Will
    <3> HIDE DEF T
    <3>4. CASE h.on = Toxiproxy
      <4>1. Opens(Todo)
        BY <2>4, <3>1, <3>4 DEF Settled
      <4>2. ASSUME NEW P, NEW B
            PROVE  /\ Any(T, "toxiproxy") <=> Any(Todo, "toxiproxy")
                   /\ Opens(T) <=> Opens(Todo)
                   /\ Proxied(T, P, n) <=> Proxied(Todo, P, n)
                   /\ NotTwice(T, B, n) <=> NotTwice(Todo, B, n)
                   /\ Delayed(T, B, n) <=> Delayed(Todo, B, n)
        BY <3>3, ColdKept
      <4>3. ~Any(Todo, "toxiproxy") => Proxied(Todo, {}, n)
        BY <2>3, <4>1 DEF Opens, Proxied
      <4>4. NotTwice(Todo, {}, n) /\ (Flagged(cmd) => Delayed(Todo, {}, n))
        BY <2>3, <4>1 DEF NotTwice, Delayed
      <4>5. proxies' = {} /\ base' = {} /\ ct'[Toxiproxy] # "running"
        BY <3>1, <3>4
      <4>. QED  BY <4>2, <4>3, <4>4, <4>5
    <3>5. CASE h.on # Toxiproxy
      BY <2>k, <3>1, <3>3, <3>5 DEF T
    <3>. QED  BY <3>4, <3>5
  <2>13. CASE \E d \in Directions : InjectBaseline(d)
    <3>1. PICK e \in Directions :
             /\ Doing(e) /\ ct' = ct /\ proxies' = proxies
             /\ (On[2] \in proxies /\ <<On[2], e>> \notin base) => base' = base \cup {<<On[2], e>>} /\ cmd' = Rest
      BY <2>13 DEF InjectBaseline
    <3>2. cmd.at = "run" /\ cmd.todo # << >> /\ h.do = e /\ On = h.on
      BY <3>1 DEF Doing, On, h
    <3>3. Todo = {h} \cup Later /\ \A y \in Later : Follows(h, y)
      BY <3>2, HeadOf DEF h
    <3>4. PICK k \in 1 .. n : h.on = Node(k)
      BY <2>4, <3>2, <3>3 DEF Suits, Directions
    <3>5. h.on[2] = k
      BY <3>4 DEF Node
    <3>6. /\ ~Any(Todo, "toxiproxy") /\ ~Will(Todo, "start", Toxiproxy) /\ ~Opens(Todo)
          /\ ~Any(Later, "toxiproxy") /\ ~Will(Later, "start", Toxiproxy) /\ ~Opens(Later)
          /\ \A c : ~Will(Todo, "register", c)
      BY <3>2, <3>3 DEF Any, Will, Opens, Follows, Directions
    <3>7. proxies \subseteq 1 .. n /\ \A i \in 1 .. n : i \in proxies
      BY <2>3, <3>6 DEF Proxied
    <3>8. Will(Todo, e, Node(k))
      BY <3>2, <3>3, <3>4 DEF Will
    <3>9. <<k, e>> \notin base
      BY <2>3, <3>6, <3>8 DEF NotTwice
    <3>10. base' = base \cup {<<k, e>>} /\ T = Later
      BY <2>c, <3>1, <3>2, <3>5, <3>7, <3>9
    <3> HIDE DEF T
    <3>11. Proxied(Later, proxies, n)
      BY <3>6, <3>7 DEF Proxied
    <3>12. NotTwice(Later, base', n)
      <4> SUFFICES ASSUME NEW i \in 1 .. n, NEW d \in Directions, Will(Later, d, Node(i)) PROVE <<i, d>> \notin base'
        BY DEF NotTwice
      <4>1. Will(Todo, d, Node(i))
        BY <3>3 DEF Will
      <4>2. <<i, d>> \notin base
        BY <2>3, <3>6, <4>1 DEF NotTwice
      <4>3. ~(i = k /\ d = e)
        BY <3>2, <3>3, <3>4 DEF Will, Follows, Directions
      <4>. QED  BY <3>10, <4>2, <4>3
    <3>13. ASSUME Flagged(cmd) PROVE Delayed(Later, base', n)
      <4> SUFFICES ASSUME NEW i \in 1 .. n, NEW d \in Directions PROVE Will(Later, d, Node(i)) \/ <<i, d>> \in base'
        BY <3>6 DEF Delayed
      <4>1. Will(Todo, d, Node(i)) \/ <<i, d>> \in base
        BY <2>3, <3>13 DEF Delayed
      <4>2. Node(i) = Node(k) => i = k
        BY Roles
      <4>. QED  BY <3>2, <3>3, <3>4, <3>10, <4>1, <4>2 DEF Will
    <3>. QED  BY <3>1, <3>6, <3>10, <3>11, <3>12, <3>13
  <2>14. CASE \E c \in Nodes : NodeJoins(c)
    <3>1. ct' = ct /\ proxies' = proxies /\ base' = base /\ T = Todo
      BY <2>14, JoinEffect DEF Todo
    <3>. QED  BY <2>k, <3>1
  <2>. QED  BY <2>1, <2>5, <2>6, <2>7, <2>8, <2>9, <2>10, <2>11, <2>12, <2>13, <2>14 DEF CreateCall
<1>. QED  BY <1>1, <1>2

(* The stores the command found were those of node 1's cluster. *)
Stored(c) == Creating(c) /\ c.oneStore

(* As long as no name turns out to be taken: until init, the nodes have stores of the
   cluster of node 1 or blank ones, or will have a volume by then; after it node 1 has a
   store, and the others have that cluster's or a blank one. *)
StoreInv ==
  (Stored(cmd) /\ FreeNames) =>
    /\ Any(Todo, "init") =>
         /\ Stores(cmd.n) \subseteq {vol[Node(1)]}
         /\ \A i \in 1 .. cmd.n : vol[Node(i)] # NoVolume \/ Will(Todo, "volume", Node(i))
    /\ ~Any(Todo, "init") =>
         vol[Node(1)] > Blank /\ \A i \in 1 .. cmd.n : vol[Node(i)] \in {vol[Node(1)], Blank}

(* A command that found one cluster's stores stays one. *)
LEMMA SameStored ==
  ASSUME NEW c, NEW d, Asked(c, d), Creating(c), Stored(d) PROVE Stored(c)
BY DEF Stored, Asked

(* create makes sure of a volume for every node, and ends in init. *)
LEMMA StoreBegins ==
  ASSUME IndInv, Begin, Stored(cmd') PROVE StoreInv'
<1>1. PICK k \in Kinds, n \in 1 .. MaxNodes, flag \in BOOLEAN : Typed(k, n, flag)
  BY BeginEffect
<1>2. cmd'.kind = k /\ cmd'.n = n /\ cmd'.todo = Program(k, n, flag)
  BY <1>1, Zenon DEF Typed
<1>3. Stores(n) \subseteq {vol[Node(1)]}
  <2>1. cmd'.oneStore = (Stores(n) \subseteq {vol[Node(1)]})
    BY <1>1, Zenon DEF Typed
  <2>. QED  BY <2>1, Zenon DEF Stored
<1>4. k \in {"create", "quickstart"}
  BY <1>2 DEF Stored, Creating
<1> DEFINE T == Left(Program(k, n, flag))
<1>5. Any(T, "init") /\ \A i \in 1 .. n : Will(T, "volume", Node(i))
  BY <1>4, CreateProgram
<1>6. Todo' = T /\ vol' = vol
  BY <1>2, BeginEffect DEF Todo
<1>7. Stores(cmd.n)' = Stores(n)
  BY <1>2, <1>6 DEF Stores
<1> HIDE DEF T
<1>. QED  BY <1>2, <1>3, <1>5, <1>6, <1>7 DEF StoreInv

(* Every step keeps the stores together: a blank node that runs was created by this command
   and joins only nodes it was asked for, and init gives node 1 a store only if none of them
   has one. *)
LEMMA StoreStep == IndInv /\ OrderInv /\ BuildInv /\ ListsInv /\ StoreInv /\ [Next]_vars => StoreInv'
<1> SUFFICES ASSUME IndInv, OrderInv, BuildInv, ListsInv, StoreInv, [Next]_vars, Stored(cmd'), FreeNames'
             PROVE  StoreInv'
  BY DEF StoreInv
<1>1. CASE Begin
  BY <1>1, StoreBegins
<1>2. CASE ~Begin
  <2> DEFINE h == cmd.todo[1]
             n == cmd.n
             T == Todo'
             S(f) == \A i \in 1 .. n : f[Node(i)] \in {f[Node(1)], Blank, NoVolume}
             V(f, U) == \A i \in 1 .. n : f[Node(i)] # NoVolume \/ Will(U, "volume", Node(i))
             All(f) == f[Node(1)] > Blank /\ \A i \in 1 .. n : f[Node(i)] \in {f[Node(1)], Blank}
  <2>1. Creating(cmd) /\ Asked(cmd, cmd') /\ cmd'.n = n /\ CreateCall
    BY <1>2, CreateMoves DEF Stored
  <2>2. Stored(cmd) /\ n \in 1 .. MaxNodes
    BY <2>1, SameStored DEF BuildInv
  <2>f. FreeNames
    <3>1. ASSUME NEW i \in 1 .. n PROVE Will(Todo, "create", Node(i)) => ct[Node(i)] = "none"
      BY <1>2, <2>1, <3>1, NamesStep DEF FreeNames, Stored
    <3>. QED  BY <3>1 DEF FreeNames
  <2>3. /\ Stores(n) \subseteq {vol[Node(1)]} <=> S(vol)
        /\ Stores(cmd.n)' \subseteq {vol'[Node(1)]} <=> S(vol')
    BY <2>1 DEF Stores
  <2>4. /\ Any(Todo, "init") => S(vol) /\ V(vol, Todo)
        /\ ~Any(Todo, "init") => All(vol)
    <3> HIDE DEF S
    <3>. QED  BY <2>2, <2>3, <2>f DEF StoreInv
  <2>s. SUFFICES /\ Any(T, "init") => S(vol') /\ V(vol', T)
                 /\ ~Any(T, "init") => All(vol')
    <3> HIDE DEF S
    <3>. QED  BY <2>1, <2>3, <2>s DEF StoreInv
  <2>5. /\ vol \in [Volumes -> NoVolume .. inits] /\ inits \in Nat
        /\ \A i \in 1 .. n : Node(i) \in Volumes /\ vol[Node(i)] \in NoVolume .. inits
        /\ 1 \in 1 .. n
    <3>1. n \in 0 .. MaxNodes /\ 1 \in 1 .. n
      BY <2>2, NodesAssumption
    <3>2. \A i \in 1 .. n : vol[Node(i)] \in NoVolume .. inits /\ Node(i) \in Nodes
      BY <3>1, StoresAre
    <3>. QED  BY <3>1, <3>2, Names DEF IndInv, DockerInv, CountInv
  <2> HIDE DEF h, n
  <2>k. ASSUME vol' = vol, Any(T, "init") <=> Any(Todo, "init"),
               \A c : Will(Todo, "volume", c) => Will(T, "volume", c)
        PROVE  /\ Any(T, "init") => S(vol') /\ V(vol', T)
               /\ ~Any(T, "init") => All(vol')
    BY <2>4, <2>k
  <2>c. ASSUME NEW d, Doing(d), cmd' = Rest
        PROVE  /\ h.do = d /\ On = h.on /\ Todo = {h} \cup Later /\ T = Later /\ On \in Containers
               /\ \A y \in Later : Follows(h, y)
    BY <2>c, CallMade DEF h
  <2>r. ASSUME NEW d, Doing(d), cmd' = Rest, vol' = vol, d \notin {"init", "volume"}
        PROVE  /\ Any(T, "init") => S(vol') /\ V(vol', T)
               /\ ~Any(T, "init") => All(vol')
    <3>1. h.do = d /\ Todo = {h} \cup Later /\ T = Later
      BY <2>c, <2>r
    <3>2. /\ Any(T, "init") <=> Any(Todo, "init")
          /\ \A c : Will(Todo, "volume", c) => Will(T, "volume", c)
      BY <2>r, <3>1 DEF Any, Will
    <3>. QED  BY <2>k, <2>r, <3>2
  <2>6. CASE Quiet
    <3>1. /\ Any(T, "init") <=> Any(Todo, "init")
          /\ \A c : Will(Todo, "volume", c) => Will(T, "volume", c)
      BY <2>6 DEF Quiet, Any, Will
    <3>. QED  BY <2>6, <2>k, <3>1 DEF Quiet
  <2>7. CASE EnsureToxiproxy
    <3> DEFINE New == IF ct[Toxiproxy] = "running" THEN {} ELSE Left(NewToxiproxy(cmd.n))
    <3>1. /\ vol' = vol /\ Todo = {h} \cup Later /\ h.do = "toxiproxy" /\ T = New \cup Later
          /\ \A x \in New : OfToxiproxy(x, n)
      BY <2>7, Ensured DEF h, n
    <3> HIDE DEF New
    <3>2. /\ Any(T, "init") <=> Any(Todo, "init")
          /\ \A c : Will(Todo, "volume", c) => Will(T, "volume", c)
      BY <3>1 DEF Any, Will, OfToxiproxy
    <3>. QED  BY <2>k, <3>1, <3>2
  <2>8. CASE ContainerCreate /\ ct[On] = "none" /\ cmd' = Rest
    BY <2>8, <2>r DEF ContainerCreate
  <2>9. CASE RegisterProxy /\ ct[Toxiproxy] = "running" /\ cmd' = Rest
    BY <2>9, <2>r DEF RegisterProxy
  <2>10. CASE ListForRemoval
    <3>1. PICK x : /\ vol' = vol /\ Todo = {h} \cup Later /\ h.do = "list" /\ T = {x} \cup Later /\ x.do = "remove"
      BY <2>10, Listed DEF h
    <3>2. /\ Any(T, "init") <=> Any(Todo, "init")
          /\ \A c : Will(Todo, "volume", c) => Will(T, "volume", c)
      BY <3>1 DEF Any, Will
    <3>. QED  BY <2>k, <3>1, <3>2
  <2>11. CASE StopAndRemove
    <3>1. PICK x : /\ vol' = vol /\ Todo = {h} \cup Later /\ h.do = "remove" /\ T = {x} \cup Later /\ x.do = "remove"
      BY <2>1, <2>11, Cleared DEF h
    <3>2. /\ Any(T, "init") <=> Any(Todo, "init")
          /\ \A c : Will(Todo, "volume", c) => Will(T, "volume", c)
      BY <3>1 DEF Any, Will
    <3>. QED  BY <2>k, <3>1, <3>2
  <2>12. CASE \E d \in Directions : InjectBaseline(d)
    <3>1. PICK d \in Directions : Doing(d) /\ vol' = vol /\ (cmd' = Rest \/ cmd' = Error)
      BY <2>12 DEF InjectBaseline
    <3>2. cmd.at = "run" /\ cmd.todo # << >> /\ h.do = d
      BY <3>1 DEF Doing, h
    <3>3. Todo = {h} \cup Later /\ Shaped(cmd.kind, h) /\ \A y \in Later : Shaped(cmd.kind, y)
      BY <3>2, HeadOf DEF h
    <3>4. T \subseteq Later /\ \A y \in Later : y \in T \/ y.part = h.part
      BY <3>1, <3>2, RestEffect, ErrorEffect DEF Todo, h, GaveUp, Creating, Stored
    <3>5. \A y \in Todo : y \in T \/ y.do \in Directions
      BY <3>2, <3>3, <3>4 DEF Shaped
    <3>6. /\ Any(T, "init") <=> Any(Todo, "init")
          /\ \A c : Will(Todo, "volume", c) => Will(T, "volume", c)
      BY <3>3, <3>4, <3>5 DEF Any, Will, Directions
    <3>. QED  BY <2>k, <3>1, <3>6
  <2>13. CASE ContainerStart /\ net /\ cmd' = Rest
    BY <2>13, <2>r DEF ContainerStart
  <2>14. CASE EnsureVolume
    <3>1. /\ Doing("volume") /\ cmd' = Rest
          /\ vol' = [vol EXCEPT ![On] = IF vol[On] = NoVolume THEN Blank ELSE vol[On]]
      BY <2>14 DEF EnsureVolume
    <3>2. h.do = "volume" /\ On = h.on /\ Todo = {h} \cup Later /\ T = Later
      BY <2>c, <3>1
    <3>3. On \in Volumes /\ On \in DOMAIN vol
      BY <2>5, <3>1, AtHead DEF IndInv
    <3>4. /\ \A c : c # On => vol'[c] = vol[c]
          /\ vol'[On] = IF vol[On] = NoVolume THEN Blank ELSE vol[On]
      BY <3>1, <3>3
    <3>5. Any(T, "init") <=> Any(Todo, "init")
      BY <3>2 DEF Any
    <3>6. \A c : Will(Todo, "volume", c) => c = On \/ Will(T, "volume", c)
      BY <3>2 DEF Will
    <3>7. \A c : vol[c] # NoVolume => vol'[c] = vol[c]
      BY <3>4
    <3>8. Blank # NoVolume /\ ~(NoVolume > Blank)
      BY DEF Blank, NoVolume
    <3>9. CASE Any(Todo, "init")
      <4>1. V(vol', T)
        <5>1. vol'[On] # NoVolume
          BY <3>4, <3>8
        <5>. QED  BY <2>4, <3>6, <3>7, <3>9, <5>1
      <4>2. S(vol')
        <5>1. CASE vol[Node(1)] = NoVolume
          <6>1. \A i \in 1 .. n : vol[Node(i)] \in {Blank, NoVolume}
            BY <2>4, <3>9, <5>1
          <6>2. \A c : vol[c] \in {Blank, NoVolume} => vol'[c] \in {Blank, NoVolume}
            BY <3>4
          <6>. QED  BY <6>1, <6>2
        <5>2. CASE vol[Node(1)] # NoVolume
          <6>1. vol'[Node(1)] = vol[Node(1)]
            BY <3>7, <5>2
          <6>2. \A c : vol'[c] = vol[c] \/ vol'[c] = Blank
            BY <3>4
          <6>. QED  BY <2>4, <3>9, <6>1, <6>2
        <5>. QED  BY <5>1, <5>2
      <4>. QED  BY <3>5, <3>9, <4>1, <4>2
    <3>10. CASE ~Any(Todo, "init")
      <4>1. \A i \in 1 .. n : vol[Node(i)] # NoVolume
        BY <2>4, <3>8, <3>10
      <4>2. \A i \in 1 .. n : vol'[Node(i)] = vol[Node(i)]
        BY <3>7, <4>1
      <4>. QED  BY <2>4, <2>5, <3>5, <3>10, <4>2
    <3>. QED  BY <3>9, <3>10
  <2>15. CASE initCluster
    <3>1. /\ Doing("init") /\ cmd' = Rest
          /\ \/ vol[Node(1)] = Blank /\ vol' = [vol EXCEPT ![Node(1)] = inits + 1]
             \/ vol[Node(1)] # Blank /\ vol' = vol
      BY <2>15 DEF initCluster
    <3>2. /\ h.do = "init" /\ Todo = {h} \cup Later /\ T = Later /\ \A y \in Later : Follows(h, y)
      BY <2>c, <3>1
    <3>3. ~Any(T, "init") /\ Any(Todo, "init")
      <4>1. ~Pending(Tail(cmd.todo))
        BY <3>1, AtHead DEF IndInv
      <4>2. ~Any(Later, "init")
        BY <4>1 DEF Pending, Later, Left, Any
      <4>. QED  BY <3>2, <4>2 DEF Any
    <3>4. \A i \in 1 .. n : Node(i) \in Nodes
      BY <2>2, NodesAssumption, Names
    <3>5. \A i \in 1 .. n : vol[Node(i)] # NoVolume
      <4>1. \A i \in 1 .. n : ~Will(Todo, "volume", Node(i))
        BY <3>2, <3>4 DEF Will, Follows
      <4>. QED  BY <2>4, <3>3, <4>1
    <3>6. \A i \in 1 .. n : vol[Node(i)] \in {vol[Node(1)], Blank}
      BY <2>4, <3>3, <3>5
    <3>7. CASE vol[Node(1)] = Blank /\ vol' = [vol EXCEPT ![Node(1)] = inits + 1]
      <4>1. vol'[Node(1)] = inits + 1 /\ \A c : c # Node(1) => vol'[c] = vol[c]
        BY <2>5, <3>7
      <4>2. inits + 1 > Blank
        BY <2>5 DEF Blank
      <4>. QED  BY <3>3, <3>6, <3>7, <4>1, <4>2
    <3>8. CASE vol[Node(1)] # Blank /\ vol' = vol
      <4>1. vol[Node(1)] > Blank
        BY <2>5, <3>5, <3>8 DEF Blank, NoVolume
      <4>. QED  BY <3>3, <3>6, <3>8, <4>1
    <3>. QED  BY <3>1, <3>7, <3>8
  <2>16. CASE \E c \in Nodes : NodeJoins(c)
    <3>1. PICK c \in Nodes : NodeJoins(c)
      BY <2>16
    <3>2. /\ T = Todo /\ ct[c] = "running" /\ vol[c] = Blank
          /\ vol'[c] \in Joinable(c) /\ \A v : v # c => vol'[v] = vol[v]
      BY <3>1, JoinEffect DEF Todo
    <3>3. CASE \A i \in 1 .. n : c # Node(i)
      BY <2>4, <2>5, <3>2, <3>3
    <3>4. ASSUME NEW i \in 1 .. n, c = Node(i)
          PROVE  /\ Any(T, "init") => S(vol') /\ V(vol', T)
                 /\ ~Any(T, "init") => All(vol')
      <4>1. join[c] = n
        BY <2>1, <2>f, <3>2, <3>4 DEF ListsInv, FreeNames, n
      <4>2. PICK j \in 1 .. n : vol'[c] = vol[Node(j)] /\ vol[Node(j)] > Blank
        <5>1. PICK e \in Nodes : vol'[c] = vol[e] /\ vol[e] > Blank /\ e[2] =< n
          BY <3>2, <4>1 DEF Joinable
        <5>2. e[2] \in 1 .. n /\ Node(e[2]) = e
          BY <2>2, <5>1, Names, NodesAssumption
        <5>. QED  BY <5>1, <5>2
      <4>3. vol'[c] = vol[Node(1)] /\ vol[Node(1)] # Blank /\ vol[Node(1)] # NoVolume
        <5>1. vol[Node(j)] # Blank /\ vol[Node(j)] # NoVolume
          BY <4>2 DEF Blank, NoVolume
        <5>. QED  BY <2>4, <4>2, <5>1
      <4>4. vol'[Node(1)] = vol[Node(1)]
        BY <3>2, <4>3
      <4>5. \A k \in 1 .. n : vol'[Node(k)] = vol[Node(k)] \/ vol'[Node(k)] = vol[Node(1)]
        BY <3>2, <4>3
      <4>6. CASE Any(Todo, "init")
        BY <2>4, <3>2, <4>3, <4>4, <4>5, <4>6
      <4>7. CASE ~Any(Todo, "init")
        BY <2>4, <3>2, <4>4, <4>5, <4>7
      <4>. QED  BY <4>6, <4>7
    <3>. QED  BY <3>3, <3>4
  <2>. QED  BY <2>1, <2>6, <2>7, <2>8, <2>9, <2>10, <2>11, <2>12, <2>13, <2>14, <2>15, <2>16 DEF CreateCall
<1>. QED  BY <1>1, <1>2

(* A create or quickstart that reports success, met no fault and found no store but those
   of node 1's cluster has what it was asked for: all nodes run, node 1 with a store and the
   others with that cluster's or with a blank one, and where node 1 has a proxy a blank one
   can join that cluster and no other; Toxiproxy runs, and if the command had to start it,
   it has the proxies of just these nodes and, where baselines were asked for, both toxics
   of each and no others; quickstart has its whole stack running.  Nodes that join early or
   late and the removal of an old Toxiproxy in the middle of the run do not undo any of it. *)
THEOREM CreatedWhole == Spec => []CreateComplete
<1>1. Init => BuildInv /\ ListsInv /\ ColdInv /\ StoreInv
  BY DEF Init, NoCommand, BuildInv, ListsInv, ColdInv, StoreInv, Cold, Stored, Creating
<1>2. IndInv /\ OrderInv /\ BuildInv /\ ListsInv /\ ColdInv /\ StoreInv => CreateComplete
  <2>0. SUFFICES ASSUME IndInv, OrderInv, BuildInv, ListsInv, ColdInv, StoreInv,
                        Succeeded({"create", "quickstart"}), cmd.oneStore
                 PROVE  /\ \A i \in 1 .. cmd.n :
                             /\ ct[Node(i)] = "running" /\ vol[Node(i)] \in {Blank, vol[Node(1)]}
                             /\ (vol[Node(i)] = Blank /\ 1 \in proxies) => Joinable(Node(i)) = {vol[Node(1)]}
                        /\ vol[Node(1)] > Blank /\ ct[Toxiproxy] = "running"
                        /\ cmd.cold => proxies = 1 .. cmd.n
                        /\ cmd.kind = "quickstart" => \A c \in {Prometheus, Grafana, Workload} : ct[c] = "running"
                        /\ (cmd.flag /\ cmd.cold) => base = (1 .. cmd.n) \X Directions
    BY Zenon DEF CreateComplete
  <2>1. Creating(cmd) /\ cmd.at = "ok"
    BY <2>0 DEF Succeeded, Creating
  <2>2. Stored(cmd)
    BY <2>0, <2>1, Zenon DEF Stored
  <2>3. Todo = {}
    BY <2>0, <2>1, LeftEmpty DEF OrderInv, InOrder, Todo
  <2>4. /\ cmd.n \in 1 .. MaxNodes
        /\ \A c \in Wanted(cmd) : ct[c] = "running"
        /\ ct[Toxiproxy] = "running"
    BY <2>0, <2>1, <2>3 DEF BuildInv, Will, Stays, Settled, Opens, Any
  <2>5. vol[Node(1)] > Blank /\ \A i \in 1 .. cmd.n : vol[Node(i)] \in {vol[Node(1)], Blank}
    <3>1. FreeNames
      BY <2>3 DEF FreeNames, Will
    <3>. QED  BY <2>0, <2>2, <2>3, <3>1 DEF StoreInv, Any
  <2>6. ASSUME Cold(cmd) PROVE proxies = 1 .. cmd.n
    BY <2>0, <2>3, <2>6 DEF ColdInv, Any, Will, Proxied
  <2>7. ASSUME Cold(cmd), Flagged(cmd) PROVE base = (1 .. cmd.n) \X Directions
    <3>1. \A k \in 1 .. cmd.n, d \in Directions : <<k, d>> \in base
      BY <2>0, <2>3, <2>7 DEF ColdInv, Delayed, Will
    <3>2. base \subseteq (1 .. cmd.n) \X Directions
      BY <2>0, <2>6, <2>7 DEF IndInv, DockerInv
    <3>. QED  BY <3>1, <3>2
  <2>8. cmd.cold => Cold(cmd)
    BY <2>1, Zenon DEF Cold
  <2>9. cmd.flag => Flagged(cmd)
    BY Zenon DEF Flagged
  <2>10. 1 \in 1 .. cmd.n
    BY <2>4, NodesAssumption
  <2>11. \A i \in 1 .. cmd.n : ct[Node(i)] = "running"
    BY <2>4 DEF Wanted
  <2>12. cmd.kind = "quickstart" => \A c \in {Prometheus, Grafana, Workload} : ct[c] = "running"
    BY <2>4 DEF Wanted
  <2>13. cmd.cold => proxies = 1 .. cmd.n
    BY <2>6, <2>8, Zenon
  <2>14. (cmd.flag /\ cmd.cold) => base = (1 .. cmd.n) \X Directions
    BY <2>7, <2>8, <2>9, Zenon
  <2>15. ASSUME NEW i \in 1 .. cmd.n, vol[Node(i)] = Blank, 1 \in proxies
         PROVE  Joinable(Node(i)) = {vol[Node(1)]}
    <3>1. join[Node(i)] = cmd.n
      BY <2>0, <2>1, <2>3 DEF ListsInv, Will
    <3>2. 1 \in 1 .. MaxNodes /\ Node(1) \in Nodes /\ Node(1)[2] = 1 /\ 1 =< cmd.n
      <4>1. 1 \in 1 .. MaxNodes
        BY NodesAssumption
      <4>. QED  BY <2>4, <4>1, Names DEF Node
    <3>3. Node(1) # Node(i)
      BY <2>5, <2>15 DEF Blank
    <3>4. vol[Node(1)] \in Joinable(Node(i))
      BY <2>5, <2>10, <2>11, <2>15, <3>1, <3>2, <3>3 DEF Joinable
    <3>5. ASSUME NEW k \in Joinable(Node(i)) PROVE k = vol[Node(1)]
      <4>1. PICK e \in Nodes : k = vol[e] /\ vol[e] > Blank /\ e[2] =< cmd.n
        BY <3>1 DEF Joinable
      <4>2. e[2] \in 1 .. cmd.n /\ Node(e[2]) = e
        BY <2>4, <4>1, Names, NodesAssumption
      <4>3. k # Blank
        BY <4>1 DEF Blank
      <4>. QED  BY <2>5, <4>1, <4>2, <4>3
    <3>. QED  BY <3>4, <3>5
  <2>16. \A i \in 1 .. cmd.n : vol[Node(i)] \in {Blank, vol[Node(1)]}
    BY <2>5
  <2>. QED  BY <2>4, <2>5, <2>11, <2>12, <2>13, <2>14, <2>15, <2>16, Zenon
<1>3. /\ IndInv /\ OrderInv /\ BuildInv /\ [Next]_vars => BuildInv'
      /\ IndInv /\ OrderInv /\ BuildInv /\ ListsInv /\ [Next]_vars => ListsInv'
      /\ IndInv /\ OrderInv /\ BuildInv /\ ColdInv /\ [Next]_vars => ColdInv'
      /\ IndInv /\ OrderInv /\ BuildInv /\ ListsInv /\ StoreInv /\ [Next]_vars => StoreInv'
  BY BuildStep, ListsStep, ColdStep, StoreStep
<1>. QED  BY <1>1, <1>2, <1>3, CallsInOrder, LifecycleInductive, PTL DEF Spec

-----------------------------------------------------------------------------
(* What can stop a command.                                                 *)

(* A step that gives a node's volume nothing but the data of a cluster that was there. *)
LEMMA StoresKept ==
  ASSUME IndInv, IndInv', NEW n \in 0 .. MaxNodes, OneCluster(n),
         \A i \in 1 .. n : vol'[Node(i)] \in {vol[Node(i)], Blank, NoVolume} \cup Stores(n)
  PROVE  OneCluster(n)'
<1>1. \A a : a \in Stores(n) <=> a > Blank /\ \E i \in 1 .. n : a = vol[Node(i)]
  BY StoresAre
<1>2. \A a \in Stores(n)' : a \notin {Blank, NoVolume} /\ \E i \in 1 .. n : a = vol'[Node(i)]
  BY DEF Stores
<1>3. \A i \in 1 .. n : vol[Node(i)] \notin {Blank, NoVolume} => vol[Node(i)] \in Stores(n)
  BY DEF Stores
<1>4. Stores(n)' \subseteq Stores(n)
  BY <1>2, <1>3
<1>. QED  BY <1>4 DEF OneCluster

(* A command that had what it needs, and has met no fault. *)
Fitting(c) == c.fit /\ ~c.faulty

(* A fit command stays one. *)
LEMMA SameFit ==
  ASSUME NEW c, NEW d, Asked(c, d) PROVE Fitting(d) <=> Fitting(c)
BY DEF Fitting, Asked

(* Whether the network is there, as a formula. *)
NetUp == net

(* The name is free, or will be. *)
Free(c) == ct[c] = "none" \/ \E y \in Todo : Clears(y, c)

(* No call ahead will fail: names are free in time, the network and Toxiproxy are up in
   time, and the nodes have stores that go together. *)
FitInv ==
  Fitting(cmd) =>
    /\ cmd.at # "err"
    /\ \A x \in Todo : x.do = "create" => Free(x.on)
    /\ (\E x \in Todo : x.do \in {"start", "toxiproxy"}) => NetUp \/ Any(Todo, "network")
    /\ Any(Todo, "register") => Settled \/ Opens(Todo)
    /\ Any(Todo, "ready") => OneCluster(cmd.n)
    /\ Any(Todo, "existing") => NetUp /\ ListContainersByRole("crdb") # {}

(* What the programs create, and what they need. *)
LEMMA FitBegins ==
  ASSUME IndInv, Begin, Fitting(cmd') PROVE FitInv'
<1>1. PICK k \in Kinds, n \in 1 .. MaxNodes, flag \in BOOLEAN : Typed(k, n, flag)
  BY BeginEffect
<1>2. /\ cmd'.kind = k /\ cmd'.n = n /\ cmd'.todo = Program(k, n, flag) /\ cmd'.at = "run"
  BY <1>1, Zenon DEF Typed
<1>3. Fit(k, n)
  <2>1. cmd'.fit = Fit(k, n)
    BY <1>1, Zenon DEF Typed
  <2>. QED  BY <2>1, Zenon DEF Fitting
<1>4. ct' = ct /\ vol' = vol /\ net' = net
  BY BeginEffect
<1> DEFINE T == Left(Program(k, n, flag))
<1>5. Todo' = T
  BY <1>2 DEF Todo
<1>6. /\ OneCluster(n)' <=> OneCluster(n)
      /\ OneCluster(n) <=> Cardinality(Stores(n)) =< 1
      /\ ListContainersByRole("crdb")' = ListContainersByRole("crdb") /\ (NetUp' <=> NetUp)
      /\ cmd'.n = n
  <2>1. n \in 0 .. MaxNodes
    BY NodesAssumption
  <2>2. OneCluster(n) <=> Cardinality(Stores(n)) =< 1
    BY <2>1, StoresAre
  <2>3. Stores(n)' = Stores(n)
    BY <1>4 DEF Stores
  <2>4. OneCluster(n)' <=> OneCluster(n)
    BY <2>3 DEF OneCluster
  <2>5. ListContainersByRole("crdb")' = ListContainersByRole("crdb") /\ (NetUp' <=> NetUp)
    BY <1>4 DEF ListContainersByRole, NetUp
  <2>. QED  BY <1>2, <2>2, <2>4, <2>5
<1>s. SUFFICES /\ \A x \in T : x.do = "create" => ct[x.on] = "none" \/ \E y \in T : Clears(y, x.on)
               /\ (\E x \in T : x.do \in {"start", "toxiproxy"}) => NetUp \/ Any(T, "network")
               /\ Any(T, "register") => Opens(T)
               /\ Any(T, "ready") => OneCluster(n)
               /\ Any(T, "existing") => NetUp /\ ListContainersByRole("crdb") # {}
  <2> HIDE DEF T
  <2>. QED  BY <1>2, <1>4, <1>5, <1>6, <1>s DEF FitInv, Free
<1> HIDE DEF T
<1>7. CASE k \in {"create", "quickstart"}
  <2>1. /\ Any(Left(CreateCluster(n)), "network")
        /\ \A x \in Left(CreateCluster(n)) : OfCreate(x, n)
    BY CreatePiece
  <2>2. /\ Left(CreateCluster(n)) \subseteq T
        /\ \A x \in T : OfCreate(x, n) \/ (k = "quickstart" /\ (OfLatency(x, n) \/ OfObs(x) \/ OfWorkload(x)))
        /\ k = "quickstart" => Will(T, "list", Workload)
    <3>1. CASE k = "create"
      BY <2>1, <3>1, PlainPrograms DEF T
    <3>2. CASE k = "quickstart"
      <4>1. T = Left(CreateCluster(n)) \cup (IF flag THEN Left(ApplyRegionalLatencies(n)) ELSE {})
                \cup Left(SetupObs) \cup Left(StartWorkload)
        BY <3>2, QuickstartProgram DEF T
      <4>2. \A x \in Left(ApplyRegionalLatencies(n)) : OfLatency(x, n)
        BY LatencyPiece
      <4>3. \A x \in Left(SetupObs) : OfObs(x)
        BY ObsPiece
      <4>4. (\A x \in Left(StartWorkload) : OfWorkload(x)) /\ Will(Left(StartWorkload), "list", Workload)
        BY WorkloadPiece
      <4>. QED  BY <2>1, <3>2, <4>1, <4>2, <4>3, <4>4 DEF Will
    <3>. QED  BY <1>7, <3>1, <3>2
  <2>3. /\ \A i \in 1 .. n : ct[Node(i)] = "none"
        /\ OneCluster(n)
        /\ k = "quickstart" => ct[Prometheus] = "none" /\ ct[Grafana] = "none"
    BY <1>3, <1>6, <1>7 DEF Fit
  <2>4. Any(T, "network")
    BY <2>1, <2>2 DEF Any
  <2>5. ASSUME NEW x \in T, x.do = "create" PROVE ct[x.on] = "none" \/ \E y \in T : Clears(y, x.on)
    <3>1. CASE OfCreate(x, n)
      BY <2>3, <2>5, <3>1 DEF OfCreate, OfNodes
    <3>2. CASE k = "quickstart" /\ OfLatency(x, n)
      BY <2>5, <3>2 DEF OfLatency
    <3>3. CASE k = "quickstart" /\ OfObs(x)
      BY <2>3, <3>3 DEF OfObs
    <3>4. CASE k = "quickstart" /\ OfWorkload(x)
      BY <2>2, <2>5, <3>4 DEF OfWorkload, Will, Clears
    <3>. QED  BY <2>2, <2>5, <3>1, <3>2, <3>3, <3>4
  <2>6. ~Any(T, "register") /\ ~Any(T, "existing")
    BY <2>2 DEF Any, OfCreate, OfNodes, OfLatency, OfObs, OfWorkload
  <2>. QED  BY <2>3, <2>4, <2>5, <2>6
<1>8. CASE k = "obs-setup"
  <2>1. \A x \in T : OfObs(x)
    BY <1>8, PlainPrograms, ObsPiece DEF T
  <2>2. NetUp /\ ct[Prometheus] = "none" /\ ct[Grafana] = "none"
    BY <1>3, <1>8 DEF Fit, NetUp
  <2>3. ~Any(T, "register") /\ ~Any(T, "existing") /\ ~Any(T, "ready")
    BY <2>1 DEF Any, OfObs
  <2>. QED  BY <2>1, <2>2, <2>3 DEF OfObs
<1>9. CASE k = "scale"
  <2>1. T = {OnAll("existing", "scale")}
    <3> DEFINE e == OnAll("existing", "scale")
    <3>1. e \in AnyCall
      BY SinglePieces
    <3> HIDE DEF e
    <3>2. Left(<<e>>) = {e}
      BY <3>1, OrderedOne
    <3>. QED  BY <1>9, <3>2, PlainPrograms DEF T, e
  <2>2. NetUp /\ ListContainersByRole("crdb") # {}
    BY <1>3, <1>9 DEF Fit, NetUp
  <2>. QED  BY <2>1, <2>2, SinglePieces DEF Any
<1>10. CASE k = "workload-start"
  <2>1. (\A x \in T : OfWorkload(x)) /\ Will(T, "list", Workload)
    BY <1>10, PlainPrograms, WorkloadPiece DEF T
  <2>2. NetUp
    BY <1>3, <1>10 DEF Fit, NetUp
  <2>3. ~Any(T, "register") /\ ~Any(T, "existing") /\ ~Any(T, "ready")
    BY <2>1 DEF Any, OfWorkload
  <2>4. \A x \in T : x.do = "create" => \E y \in T : Clears(y, x.on)
    BY <2>1 DEF OfWorkload, Will, Clears
  <2>. QED  BY <2>2, <2>3, <2>4
<1>11. CASE k = "chaos-setup"
  <2>1. T = {OnAll("toxiproxy", "toxiproxy")} \cup Left(EnsureProxies(n))
    BY <1>11, ChaosProgram DEF T
  <2>2. \A x \in Left(EnsureProxies(n)) : OfProxies(x, n)
    BY ProxiesPiece
  <2>3. \A x \in T : x.do \in {"toxiproxy", "register"}
    BY <2>1, <2>2, SinglePieces DEF OfProxies
  <2>4. Opens(T)
    BY <2>1, SinglePieces DEF Opens, Any
  <2>5. NetUp
    BY <1>3, <1>11 DEF Fit, NetUp
  <2>. QED  BY <2>3, <2>4, <2>5 DEF Any
<1>12. CASE k \in {"rm", "destroy", "workload-stop", "obs-teardown"}
  <2>1. \A x \in T : x.do \in {"list", "collect", "volumes", "obs-volume", "remove-network"}
    <3>1. \A x \in Left(StopWorkload) : x.do = "list"
      BY StopPiece
    <3>2. \A x \in Left(TeardownObs) : x.do \in {"list", "obs-volume"}
      BY TeardownPiece DEF OfTeardown
    <3>3. CASE k \in {"workload-stop", "obs-teardown"}
      BY <3>1, <3>2, <3>3, PlainPrograms DEF T
    <3>4. CASE k \in {"rm", "destroy"}
      <4>1. Purging(k, flag) \in BOOLEAN
        BY Zenon DEF Purging
      <4>2. \A x \in Left(DestroyCluster(Purging(k, flag))) : x.do \in {"list", "collect", "volumes"}
        BY <4>1, DestroyPiece DEF OfDestroy
      <4>3. OnAll("remove-network", "network").do = "remove-network"
        BY SinglePieces
      <4>. QED  BY <3>1, <3>2, <3>4, <4>2, <4>3, RemovalPrograms DEF T
    <3>. QED  BY <1>12, <3>3, <3>4
  <2>. QED  BY <2>1 DEF Any
<1>. QED  BY <1>7, <1>8, <1>9, <1>10, <1>11, <1>12 DEF Kinds

(* A command that has found the nodes, or never looks for them, does not look again. *)
LEMMA NoLook ==
  ASSUME IndInv, NEW d, d # "existing", Doing(d) PROVE ~Any(Todo, "existing")
<1>1. cmd.todo \in Seq(Calls(cmd.kind, cmd.flag))
  BY AtHead DEF IndInv, Good
<1>2. \A i \in 1 .. Len(cmd.todo) : cmd.todo[i] \in Calls(cmd.kind, cmd.flag)
  BY <1>1, ElementOfSeq
<1>3. \A x \in Calls(cmd.kind, cmd.flag) : x.do # "existing"
  BY DEF Calls, Dos
<1>. QED  BY <1>2, <1>3 DEF Todo, Left, Any

(* A step that takes calls off the list, none of which another call was waiting for. *)
LEMMA FitDrops ==
  ASSUME FitInv, Fitting(cmd'), Asked(cmd, cmd'), cmd'.n = cmd.n, cmd'.at # "err", ct' = ct,
         Todo' \subseteq Todo, (Todo' # {} /\ NetUp) => NetUp',
         \A x \in Todo : \/ x \in Todo'
                         \/ /\ x.do \notin {"toxiproxy", "start"} /\ \A c : ~Clears(x, c)
                            /\ x.do = "network" => NetUp',
         Any(Todo', "ready") => OneCluster(cmd.n)'
  PROVE  FitInv'
<1> DEFINE T == Todo'
<1>1. Fitting(cmd)
  BY SameFit
<1>2. /\ \A x \in Todo : x.do = "create" => Free(x.on)
      /\ (\E x \in Todo : x.do \in {"start", "toxiproxy"}) => NetUp \/ Any(Todo, "network")
      /\ Any(Todo, "register") => Settled \/ Opens(Todo)
      /\ Any(Todo, "existing") => NetUp /\ ListContainersByRole("crdb") # {}
  BY <1>1 DEF FitInv
<1>3. \A x \in T : x.do = "create" => Free(x.on)'
  BY <1>2 DEF Free
<1>4. (\E x \in T : x.do \in {"start", "toxiproxy"}) => NetUp' \/ Any(T, "network")
  BY <1>2 DEF Any
<1>5. Any(T, "register") => Settled' \/ Opens(T)
  BY <1>2 DEF Any, Settled, Opens, Will
<1>6. ListContainersByRole("crdb")' = ListContainersByRole("crdb")
  BY DEF ListContainersByRole
<1>7. Any(T, "existing") => NetUp' /\ ListContainersByRole("crdb")' # {}
  BY <1>2, <1>6 DEF Any
<1> HIDE DEF T
<1>. QED  BY <1>3, <1>4, <1>5, <1>7 DEF FitInv, T

(* Only create and quickstart wait for nodes. *)
LEMMA ReadyIsCreate ==
  ASSUME IndInv, OrderInv, Any(Todo, "ready") PROVE cmd.kind \in {"create", "quickstart"}
BY DEF OrderInv, InOrder, Todo, Any, Shaped

(* They remove no node. *)
LEMMA NoneCleared ==
  ASSUME OrderInv, BuildInv, Creating(cmd), NEW i \in 1 .. cmd.n, NEW y \in Todo
  PROVE  ~Clears(y, Node(i))
<1>1. y.do \in Removal => y.on[1] # "crdb"
  BY DEF BuildInv, Suits, Toxiproxy, Workload
<1>2. Shaped(cmd.kind, y)
  BY DEF OrderInv, InOrder, Todo
<1>3. Node(i)[1] = "crdb"
  BY DEF Node
<1>. QED  BY <1>1, <1>2, <1>3, ClearsRole

(* Every step keeps that nothing ahead will fail: what a call needs is provided by a call
   that the order puts before it. *)
LEMMA FitStep == IndInv /\ OrderInv /\ BuildInv /\ ListsInv /\ FitInv /\ [Next]_vars => FitInv'
<1> SUFFICES ASSUME IndInv, OrderInv, BuildInv, ListsInv, FitInv, [Next]_vars, Fitting(cmd') PROVE FitInv'
  BY DEF FitInv
<1> DEFINE h == cmd.todo[1]
<1>0. cmd'.faulty # TRUE
  BY DEF Fitting
<1>i. IndInv'
  BY NextHolds
<1>n. cmd.n \in 0 .. MaxNodes
  BY CommandIs DEF Commands
<1>t. ASSUME Asked(cmd, cmd')
      PROVE  /\ cmd.at # "err"
             /\ \A x \in Todo : x.do = "create" => Free(x.on)
             /\ (\E x \in Todo : x.do \in {"start", "toxiproxy"}) => NetUp \/ Any(Todo, "network")
             /\ Any(Todo, "register") => Settled \/ Opens(Todo)
             /\ Any(Todo, "ready") => OneCluster(cmd.n)
             /\ Any(Todo, "existing") => NetUp /\ ListContainersByRole("crdb") # {}
  BY <1>t, SameFit DEF FitInv
<1>h. ASSUME cmd.todo # << >>
      PROVE  /\ h \in AnyCall /\ Todo = {h} \cup Later /\ Later \subseteq AnyCall
             /\ \A y \in Later : Follows(h, y)
             /\ Shaped(cmd.kind, h) /\ \A y \in Later : Shaped(cmd.kind, y)
             /\ h.on \in Containers /\ \A y \in Later : y.on \in Containers
  <2>1. /\ h \in AnyCall /\ Todo = {h} \cup Later /\ Later \subseteq AnyCall
        /\ \A y \in Later : Follows(h, y)
        /\ Shaped(cmd.kind, h) /\ \A y \in Later : Shaped(cmd.kind, y)
    BY <1>h, HeadOf
  <2>2. h.on \in Containers /\ \A y \in Later : y.on \in Containers
    BY <2>1 DEF AnyCall
  <2>. QED  BY <2>1, <2>2
<1> HIDE DEF h
<1>r. ASSUME NEW d, Doing(d), cmd' = Rest
      PROVE  /\ cmd.at = "run" /\ cmd.todo # << >> /\ h.do = d /\ Same(cmd, cmd') /\ Todo' = Later
             /\ Asked(cmd, cmd') /\ cmd'.n = cmd.n /\ cmd'.at # "err"
  <2>1. cmd.at = "run" /\ cmd.todo # << >> /\ h.do = d
    BY <1>r DEF Doing, h
  <2>2. Same(cmd, cmd') /\ Todo' = Later
    BY <1>r, <2>1, RestEffect DEF Todo
  <2>. QED  BY <2>1, <2>2 DEF Same
<1>1. CASE Begin
  BY <1>1, FitBegins
<1>2. CASE EnsureNetwork
  <2>1. Doing("network") /\ cmd' = Rest /\ NetUp' /\ ct' = ct /\ vol' = vol
    BY <1>2 DEF EnsureNetwork, NetUp
  <2>2. OneCluster(cmd.n)' <=> OneCluster(cmd.n)
    BY <1>r, <2>1 DEF OneCluster, Stores
  <2>. QED  BY <1>r, <1>h, <1>t, <2>1, <2>2, FitDrops DEF Clears, Any
<1>v. ASSUME vol' = vol, cmd'.n = cmd.n PROVE OneCluster(cmd.n)' <=> OneCluster(cmd.n)
  BY <1>v DEF OneCluster, Stores
<1>3. CASE EnsureToxiproxy
  <2>1. Doing("toxiproxy") /\ ct' = ct /\ vol' = vol /\ (NetUp' <=> NetUp)
    BY <1>3 DEF EnsureToxiproxy, dockerVars, NetUp
  <2>2. cmd.at = "run" /\ cmd.todo # << >> /\ h.do = "toxiproxy"
    BY <2>1 DEF Doing, h
  <2> DEFINE New == IF ct[Toxiproxy] = "running" THEN {} ELSE Left(NewToxiproxy(cmd.n))
             T == New \cup Later
  <2>3. Same(cmd, cmd') /\ Todo' = T
    BY <1>3, ToxiproxyEffect
  <2>4. Asked(cmd, cmd') /\ cmd'.n = cmd.n /\ cmd'.at # "err"
    BY <2>2, <2>3 DEF Same
  <2>5. /\ \A x \in New : OfToxiproxy(x, cmd.n)
        /\ ct[Toxiproxy] # "running" => Will(New, "list", Toxiproxy) /\ Will(New, "start", Toxiproxy)
    BY <1>n, ToxiproxyPiece
  <2> HIDE DEF New
  <2>6. NetUp
    BY <1>t, <1>h, <2>2, <2>4 DEF Any, Follows
  <2>7. \A x \in T : x.do = "create" => Free(x.on)'
    <3> SUFFICES ASSUME NEW x \in T, x.do = "create" PROVE ct[x.on] = "none" \/ \E y \in T : Clears(y, x.on)
      BY <2>1, <2>3 DEF Free
    <3>1. CASE x \in Later
      BY <1>t, <1>h, <2>2, <2>4, <3>1 DEF Free, Clears
    <3>2. CASE x \in New
      <4>1. x.on = Toxiproxy /\ Will(New, "list", Toxiproxy)
        BY <2>5, <3>2 DEF OfToxiproxy, New
      <4>. QED  BY <4>1 DEF Will, Clears
    <3>. QED  BY <3>1, <3>2
  <2>8. Settled' \/ Opens(T)
    <3>1. CASE ct[Toxiproxy] = "running"
      <4>1. T = Later
        BY <3>1 DEF New
      <4>. QED  BY <1>h, <2>1, <2>2, <2>3, <3>1, <4>1 DEF Settled, Follows
    <3>2. CASE ct[Toxiproxy] # "running"
      BY <2>5, <3>2 DEF Opens, Will
    <3>. QED  BY <3>1, <3>2
  <2>9. ~Any(T, "existing")
    BY <1>h, <2>1, <2>2, <2>5, NoLook DEF Any, OfToxiproxy
  <2>10. Any(T, "ready") => OneCluster(cmd.n)'
    <3>1. Any(T, "ready") => Any(Todo, "ready")
      BY <1>h, <2>2, <2>5 DEF Any, OfToxiproxy
    <3>. QED  BY <1>t, <1>v, <2>1, <2>4, <3>1
  <2> HIDE DEF T
  <2>. QED  BY <2>1, <2>3, <2>4, <2>6, <2>7, <2>8, <2>9, <2>10 DEF FitInv
<1>4. CASE ContainerCreate
  <2>1. /\ Doing("create") /\ On = h.on /\ vol' = vol /\ (NetUp' <=> NetUp)
        /\ \/ ct[h.on] = "none" /\ ct' = [ct EXCEPT ![h.on] = "stopped"] /\ cmd' = Rest
           \/ ct[h.on] # "none" /\ cmd' = Error
    BY <1>4 DEF ContainerCreate, NetUp, On, h
  <2>2. cmd.at = "run" /\ cmd.todo # << >> /\ h.do = "create"
    BY <2>1 DEF Doing, h
  <2>3. Asked(cmd, cmd')
    BY <2>1, <2>2, RestEffect, ErrorEffect DEF GaveUp, Same
  <2>4. ct[h.on] = "none"
    <3>1. ASSUME NEW y \in Later, Clears(y, h.on) PROVE FALSE
      <4>1. y.do \in Removal /\ y.on[1] = h.on[1]
        BY <1>h, <2>2, <3>1, ClearsRole
      <4>. QED  BY <1>h, <2>2, <3>1, <4>1 DEF Follows
    <3>2. ~Clears(h, h.on)
      BY <2>2 DEF Clears
    <3>. QED  BY <1>t, <1>h, <2>2, <2>3, <3>1, <3>2 DEF Free
  <2>5. ct' = [ct EXCEPT ![h.on] = "stopped"] /\ cmd' = Rest /\ h.on \in DOMAIN ct
    BY <1>h, <2>1, <2>2, <2>4 DEF IndInv, DockerInv
  <2>6. ct'[h.on] = "stopped" /\ \A c : c # h.on => ct'[c] = ct[c]
    BY <2>5
  <2>7. Todo' = Later /\ cmd'.n = cmd.n /\ cmd'.at # "err"
    BY <1>r, <2>1, <2>5
  <2>8. \A x \in Later : x.do = "create" => Free(x.on)'
    <3> SUFFICES ASSUME NEW x \in Later, x.do = "create"
                 PROVE  ct'[x.on] = "none" \/ \E y \in Later : Clears(y, x.on)
      BY <2>7 DEF Free
    <3>1. x.on # h.on
      BY <1>h, <2>2 DEF Follows
    <3>. QED  BY <1>t, <1>h, <2>2, <2>3, <2>6, <3>1 DEF Free, Clears
  <2>9. Any(Later, "register") => Settled' \/ Opens(Later)
    <3>1. CASE h.on = Toxiproxy
      <4>1. ~Settled
        BY <1>h, <2>2, <3>1 DEF Settled
      <4>. QED  BY <1>t, <1>h, <2>2, <2>3, <4>1 DEF Any, Opens, Will
    <3>2. CASE h.on # Toxiproxy
      BY <1>t, <1>h, <2>2, <2>3, <2>6, <2>7, <3>2 DEF Any, Opens, Will, Settled
    <3>. QED  BY <3>1, <3>2
  <2>10. ~Any(Later, "existing")
    BY <1>h, <2>1, <2>2, NoLook DEF Any
  <2>11. Any(Later, "ready") => OneCluster(cmd.n)'
    BY <1>h, <1>t, <1>v, <2>1, <2>2, <2>3, <2>7 DEF Any
  <2>12. (\E x \in Later : x.do \in {"start", "toxiproxy"}) => NetUp' \/ Any(Later, "network")
    BY <1>h, <1>t, <2>1, <2>2, <2>3 DEF Any
  <2>. QED  BY <2>7, <2>8, <2>9, <2>10, <2>11, <2>12 DEF FitInv
<1>5. CASE ContainerStart
  <2>1. Doing("start") /\ On = h.on /\ (NetUp' <=> NetUp) /\ (cmd' = Rest \/ cmd' = Error)
    BY <1>5 DEF ContainerStart, NetUp, On, h
  <2>2. cmd.at = "run" /\ cmd.todo # << >> /\ h.do = "start"
    BY <2>1 DEF Doing, h
  <2>3. Asked(cmd, cmd')
    BY <2>1, <2>2, RestEffect, ErrorEffect DEF GaveUp, Same
  <2>4. NetUp
    BY <1>t, <1>h, <2>2, <2>3 DEF Any, Follows
  <2>5. ct' = [ct EXCEPT ![h.on] = "running"] /\ cmd' = Rest /\ vol' = vol
    BY <1>5, <2>1, <2>4 DEF ContainerStart, NetUp
  <2>6. ct'[h.on] = "running" /\ \A c : c # h.on => ct'[c] = ct[c]
    BY <1>h, <2>2, <2>5 DEF IndInv, DockerInv
  <2>7. Todo' = Later /\ cmd'.n = cmd.n /\ cmd'.at # "err"
    BY <1>r, <2>1, <2>5
  <2>8. \A x \in Later : x.do = "create" => Free(x.on)'
    <3> SUFFICES ASSUME NEW x \in Later, x.do = "create"
                 PROVE  ct'[x.on] = "none" \/ \E y \in Later : Clears(y, x.on)
      BY <2>7 DEF Free
    <3>1. x.on # h.on
      BY <1>h, <2>2 DEF Follows
    <3>. QED  BY <1>t, <1>h, <2>2, <2>3, <2>6, <3>1 DEF Free, Clears
  <2>9. Any(Later, "register") => Settled' \/ Opens(Later)
    <3>1. CASE h.on = Toxiproxy
      BY <1>h, <2>2, <2>6, <2>7, <3>1 DEF Settled, Follows, Removal
    <3>2. CASE h.on # Toxiproxy
      BY <1>t, <1>h, <2>2, <2>3, <2>6, <2>7, <3>2 DEF Any, Opens, Will, Settled
    <3>. QED  BY <3>1, <3>2
  <2>10. ~Any(Later, "existing")
    BY <1>h, <2>1, <2>2, NoLook DEF Any
  <2>11. Any(Later, "ready") => OneCluster(cmd.n)'
    BY <1>h, <1>t, <1>v, <2>2, <2>3, <2>5, <2>7 DEF Any
  <2>. QED  BY <2>1, <2>4, <2>7, <2>8, <2>9, <2>10, <2>11 DEF FitInv
<1>6. CASE RegisterProxy
  <2>1. Doing("register") /\ ct' = ct /\ vol' = vol /\ (NetUp' <=> NetUp) /\ (cmd' = Rest \/ cmd' = Error)
    BY <1>6 DEF RegisterProxy, NetUp
  <2>2. cmd.at = "run" /\ cmd.todo # << >> /\ h.do = "register"
    BY <2>1 DEF Doing, h
  <2>3. Asked(cmd, cmd')
    BY <2>1, <2>2, RestEffect, ErrorEffect DEF GaveUp, Same
  <2>4. ct[Toxiproxy] = "running"
    <3>1. ~Opens(Todo)
      BY <1>h, <2>2 DEF Opens, Any, Will, Follows
    <3>. QED  BY <1>t, <1>h, <2>2, <2>3, <3>1 DEF Any, Settled
  <2>5. cmd' = Rest
    BY <1>6, <2>4 DEF RegisterProxy
  <2>6. OneCluster(cmd.n)' <=> OneCluster(cmd.n)
    BY <1>r, <1>v, <2>1, <2>5
  <2>. QED  BY <1>r, <1>h, <1>t, <2>1, <2>5, <2>6, FitDrops DEF Clears, Any
<1>7. CASE EnsureVolume
  <2>1. /\ Doing("volume") /\ ct' = ct /\ (NetUp' <=> NetUp) /\ cmd' = Rest
        /\ vol' = [vol EXCEPT ![On] = IF vol[On] = NoVolume THEN Blank ELSE vol[On]]
    BY <1>7 DEF EnsureVolume, NetUp
  <2>2. \A c : vol'[c] \in {vol[c], Blank}
    <3>1. vol \in [Volumes -> NoVolume .. inits] /\ On \in Volumes
      BY <2>1, AtHead DEF IndInv, DockerInv
    <3>. QED  BY <2>1, <3>1
  <2>3. OneCluster(cmd.n) => OneCluster(cmd.n)'
    <3>1. cmd'.n = cmd.n
      BY <1>r, <2>1
    <3>. QED  BY <1>i, <1>n, <2>2, <3>1, StoresKept
  <2>. QED  BY <1>r, <1>h, <1>t, <2>1, <2>3, FitDrops DEF Clears, Any
<1>8. CASE waitForNodes
  <2>1. Doing("ready") /\ ct' = ct /\ vol' = vol /\ (NetUp' <=> NetUp) /\ (cmd' = Rest \/ cmd' = Error)
    BY <1>8 DEF waitForNodes, NetUp, dockerVars
  <2>2. cmd.at = "run" /\ cmd.todo # << >> /\ h.do = "ready"
    BY <2>1 DEF Doing, h
  <2>3. Asked(cmd, cmd')
    BY <2>1, <2>2, RestEffect, ErrorEffect DEF GaveUp, Same
  <2>4. OneCluster(cmd.n)
    BY <1>t, <1>h, <2>2, <2>3 DEF Any
  <2>5. Cardinality(Stores(cmd.n)) =< 1
    BY <1>n, <2>4, StoresAre
  <2>6. cmd' = Rest
    BY <1>8, <2>5 DEF waitForNodes
  <2>7. OneCluster(cmd.n)'
    BY <1>r, <1>v, <2>1, <2>4, <2>6
  <2>. QED  BY <1>r, <1>h, <2>1, <2>6, <2>7, FitDrops DEF Clears, Any
<1>9. CASE initCluster
  <2>1. Doing("init") /\ ct' = ct /\ (NetUp' <=> NetUp) /\ cmd' = Rest
    BY <1>9 DEF initCluster, NetUp
  <2>2. ~Any(Later, "ready")
    BY <1>r, <1>h, <2>1 DEF Any, Follows
  <2>. QED  BY <1>r, <1>h, <2>1, <2>2, FitDrops DEF Clears, Any
<1>10. CASE AddNode
  <2>1. Doing("existing") /\ ct' = ct /\ (NetUp' <=> NetUp)
    BY <1>10 DEF AddNode, NetUp, dockerVars
  <2>2. cmd.at = "run" /\ cmd.todo # << >> /\ h.do = "existing"
    BY <2>1 DEF Doing, h
  <2>3. Any(Todo, "existing")
    BY <1>h, <2>2 DEF Any
  <2>4. ListContainersByRole("crdb") # {}
    <3> SUFFICES ASSUME ListContainersByRole("crdb") = {} PROVE FALSE
      OBVIOUS
    <3>1. cmd' = Error
      BY <1>10 DEF AddNode
    <3>2. Asked(cmd, cmd')
      BY <2>2, <3>1, ErrorEffect DEF GaveUp, Same
    <3>. QED  BY <1>t, <2>3, <3>2
  <2>5. /\ Asked(cmd, cmd') /\ cmd'.at = cmd.at /\ ct[Node(cmd'.n)] = "none"
        /\ \A x \in Todo' : \/ x.do = "toxiproxy"
                            \/ OfNodes(x, cmd'.n) /\ x.on = Node(cmd'.n)
    BY <1>10, <2>4, AddNodeEffect
  <2>6. NetUp
    BY <1>t, <2>3, <2>5
  <2> DEFINE T == Todo'
  <2>7. \A x \in T : x.do = "create" => Free(x.on)'
    BY <2>1, <2>5 DEF Free
  <2>8. ~Any(T, "register") /\ ~Any(T, "ready") /\ ~Any(T, "existing")
    BY <2>5 DEF Any, OfNodes
  <2>9. cmd'.at # "err"
    BY <2>2, <2>5
  <2> HIDE DEF T
  <2>. QED  BY <2>1, <2>6, <2>7, <2>8, <2>9 DEF FitInv, T
<1>11. CASE \E d \in Directions : InjectBaseline(d)
  <2>1. PICK d \in Directions : /\ Doing(d) /\ ct' = ct /\ vol' = vol /\ (NetUp' <=> NetUp)
                                /\ cmd' = Rest \/ cmd' = Error
    BY <1>11 DEF InjectBaseline, NetUp
  <2>2. cmd.at = "run" /\ cmd.todo # << >> /\ h.do = d
    BY <2>1 DEF Doing, h
  <2>3. CASE cmd' = Rest
    <3>1. OneCluster(cmd.n)' <=> OneCluster(cmd.n)
      BY <1>r, <1>v, <2>1, <2>3
    <3>. QED  BY <1>r, <1>h, <1>t, <2>1, <2>3, <3>1, FitDrops DEF Clears, Any, Directions
  <2>4. CASE cmd' = Error
    <3>1. h.part = "baseline" /\ cmd.kind = "quickstart"
      BY <1>h, <2>2 DEF Shaped
    <3>2. h.part \in Tolerated(cmd.kind)
      BY <3>1 DEF Tolerated
    <3>3. /\ Same(cmd, cmd') /\ Todo' \subseteq Later
          /\ \A y \in Later : y \in Todo' \/ y.part = h.part
      BY <2>2, <2>4, <3>2, ErrorEffect DEF Todo, h
    <3>4. Asked(cmd, cmd') /\ cmd'.n = cmd.n /\ cmd'.at # "err"
      BY <2>2, <3>3 DEF Same
    <3>5. \A y \in Todo : y \in Todo' \/ y.do \in Directions
      BY <1>h, <2>2, <3>1, <3>3 DEF Shaped
    <3>6. OneCluster(cmd.n)' <=> OneCluster(cmd.n)
      BY <1>v, <2>1, <3>4
    <3>7. Todo' \subseteq Todo
      BY <1>h, <2>2, <3>3
    <3>. QED  BY <1>t, <2>1, <3>4, <3>5, <3>6, <3>7, FitDrops DEF Clears, Any, Directions
  <2>. QED  BY <2>1, <2>3, <2>4
<1>12. CASE BuildWorkloadImage
  <2>1. Doing("image") /\ ct' = ct /\ vol' = vol /\ (NetUp' <=> NetUp) /\ cmd' = Rest
    BY <1>12 DEF BuildWorkloadImage, NetUp, dockerVars
  <2>2. OneCluster(cmd.n)' <=> OneCluster(cmd.n)
    BY <1>r, <1>v, <2>1
  <2>. QED  BY <1>r, <1>h, <1>t, <2>1, <2>2, FitDrops DEF Clears, Any
<1>13. CASE CollectVolumes
  <2>1. Doing("collect") /\ ct' = ct /\ vol' = vol /\ (NetUp' <=> NetUp)
    BY <1>13 DEF CollectVolumes, NetUp, dockerVars
  <2>2. cmd.at = "run" /\ cmd.todo # << >> /\ h.do = "collect"
    BY <2>1 DEF Doing, h
  <2>3. Same(cmd, cmd') /\ Todo' = Later
    BY <1>13, CollectEffect
  <2>4. Asked(cmd, cmd') /\ cmd'.n = cmd.n /\ cmd'.at # "err"
    BY <2>2, <2>3 DEF Same
  <2>5. OneCluster(cmd.n)' <=> OneCluster(cmd.n)
    BY <1>v, <2>1, <2>4
  <2>. QED  BY <1>h, <1>t, <2>1, <2>2, <2>3, <2>4, <2>5, FitDrops DEF Clears, Any
<1>14. CASE ListForRemoval
  <2>1. Doing("list") /\ ct' = ct /\ vol' = vol /\ (NetUp' <=> NetUp) /\ On = h.on
    BY <1>14 DEF ListForRemoval, NetUp, dockerVars, On, h
  <2>2. cmd.at = "run" /\ cmd.todo # << >> /\ h.do = "list"
    BY <2>1 DEF Doing, h
  <2>3. PICK x : /\ Same(cmd, cmd') /\ Todo' = {x} \cup Later
                 /\ x.do = "remove" /\ x.on = h.on /\ x.set = ListContainersByRole(h.on[1])
    BY <1>14, <2>1, ListEffect
  <2>4. Asked(cmd, cmd') /\ cmd'.n = cmd.n /\ cmd'.at # "err"
    BY <2>2, <2>3 DEF Same
  <2> DEFINE T == {x} \cup Later
  <2>5. \A d : d \notin Removal => (Any(T, d) <=> Any(Todo, d))
    BY <1>h, <2>2, <2>3 DEF Any, Removal
  <2>6. \A y \in T : y.do = "create" => Free(y.on)'
    <3> SUFFICES ASSUME NEW y \in T, y.do = "create" PROVE ct[y.on] = "none" \/ \E z \in T : Clears(z, y.on)
      BY <2>1, <2>3 DEF Free
    <3>1. y \in Later /\ y.on \in Containers
      BY <1>h, <2>2, <2>3
    <3>. QED  BY <1>t, <1>h, <2>2, <2>3, <2>4, <3>1 DEF Free, Clears, ListContainersByRole
  <2>7. Any(T, "register") => Settled' \/ Opens(T)
    BY <1>t, <1>h, <2>1, <2>2, <2>3, <2>4 DEF Any, Opens, Will, Settled
  <2>8. (\E y \in T : y.do \in {"start", "toxiproxy"}) => NetUp' \/ Any(T, "network")
    BY <1>t, <1>h, <2>1, <2>2, <2>3, <2>4 DEF Any
  <2>9. ~Any(T, "existing")
    BY <2>1, <2>5, NoLook DEF Removal
  <2>10. Any(T, "ready") => OneCluster(cmd.n)'
    BY <1>t, <1>v, <2>1, <2>4, <2>5 DEF Removal
  <2>11. Todo' = T
    BY <2>3
  <2> HIDE DEF T
  <2>. QED  BY <2>4, <2>6, <2>7, <2>8, <2>9, <2>10, <2>11 DEF FitInv
<1>15. CASE StopAndRemove
  <2>1. Doing("remove") /\ vol' = vol /\ (NetUp' <=> NetUp)
    BY <1>15 DEF StopAndRemove, NetUp
  <2>2. cmd.at = "run" /\ cmd.todo # << >> /\ h.do = "remove"
    BY <2>1 DEF Doing, h
  <2>3. PICK c \in h.set : ct' = [ct EXCEPT ![c] = "none"] /\ cmd' = Without(c)
    BY <1>15 DEF StopAndRemove, h
  <2>4. PICK x : /\ Same(cmd, cmd') /\ Todo' = {x} \cup Later
                 /\ x.do = "remove" /\ x.on = h.on /\ x.set = h.set \ {c}
    <3>1. \E x : /\ Same(cmd, Without(c)) /\ Left(Without(c).todo) = {x} \cup Later
                 /\ x.do = "remove" /\ x.on = On /\ x.set = cmd.todo[1].set \ {c}
      BY <2>1, WithoutEffect
    <3>. QED  BY <2>3, <3>1 DEF Todo, h, On
  <2>5. Asked(cmd, cmd') /\ cmd'.n = cmd.n /\ cmd'.at # "err"
    BY <2>2, <2>4 DEF Same
  <2>6. c \in Containers /\ c \in DOMAIN ct /\ c[1] = h.on[1]
    BY <1>h, <2>2, <2>3 DEF AnyCall, IndInv, DockerInv, Shaped
  <2>7. ct'[c] = "none" /\ \A d : d # c => ct'[d] = ct[d]
    BY <2>3, <2>6
  <2> DEFINE T == {x} \cup Later
  <2>8. \A d : d \notin Removal => (Any(T, d) <=> Any(Todo, d))
    BY <1>h, <2>2, <2>4 DEF Any, Removal
  <2>9. \A y \in T : y.do = "create" => Free(y.on)'
    <3> SUFFICES ASSUME NEW y \in T, y.do = "create" PROVE ct'[y.on] = "none" \/ \E z \in T : Clears(z, y.on)
      BY <2>4 DEF Free
    <3>1. y \in Later
      BY <2>4
    <3>. QED  BY <1>t, <1>h, <2>2, <2>4, <2>5, <2>7, <3>1 DEF Free, Clears
  <2>10. Any(T, "register") => Settled' \/ Opens(T)
    <3>1. c = Toxiproxy => h.on = Toxiproxy
      BY <1>h, <2>2, <2>6, RoleOf
    <3>. QED  BY <1>t, <1>h, <2>2, <2>4, <2>5, <2>7, <3>1 DEF Any, Opens, Will, Settled
  <2>11. (\E y \in T : y.do \in {"start", "toxiproxy"}) => NetUp' \/ Any(T, "network")
    BY <1>t, <1>h, <2>1, <2>2, <2>4, <2>5 DEF Any
  <2>12. ~Any(T, "existing")
    BY <2>1, <2>8, NoLook DEF Removal
  <2>13. Any(T, "ready") => OneCluster(cmd.n)'
    BY <1>t, <1>v, <2>1, <2>5, <2>8 DEF Removal
  <2>14. Todo' = T
    BY <2>4
  <2> HIDE DEF T
  <2>. QED  BY <2>5, <2>9, <2>10, <2>11, <2>12, <2>13, <2>14 DEF FitInv
<1>16. CASE Removed
  <2>1. Doing("remove") /\ ct' = ct /\ vol' = vol /\ (NetUp' <=> NetUp) /\ cmd' = Rest /\ h.set = {}
    BY <1>16 DEF Removed, NetUp, dockerVars, h
  <2>2. OneCluster(cmd.n)' <=> OneCluster(cmd.n)
    BY <1>r, <1>v, <2>1
  <2>. QED  BY <1>r, <1>h, <1>t, <2>1, <2>2, FitDrops DEF Clears, Any
<1>d. ASSUME NEW v, Drop(v), cmd'.n = cmd.n PROVE OneCluster(cmd.n) => OneCluster(cmd.n)'
  <2>1. \A c \in Volumes : vol'[c] \in {vol[c], NoVolume}
    <3>1. vol \in [Volumes -> NoVolume .. inits]
      BY DEF IndInv, DockerInv
    <3>. QED  BY <1>d, <3>1 DEF Drop
  <2>2. \A i \in 1 .. cmd.n : Node(i) \in Volumes
    BY <1>n, StoresAre, Names
  <2>. QED  BY <1>d, <1>i, <1>n, <2>1, <2>2, StoresKept
<1>17. CASE RemoveVolume
  <2>1. Doing("volumes") /\ ct' = ct /\ (NetUp' <=> NetUp)
    BY <1>17 DEF RemoveVolume, NetUp
  <2>2. cmd.at = "run" /\ cmd.todo # << >> /\ h.do = "volumes"
    BY <2>1 DEF Doing, h
  <2>3. /\ Same(cmd, cmd')
        /\ (vol' = vol /\ Todo' = Later) \/ (Todo' = Todo /\ \E v : Drop(v))
    BY <1>17, VolumeEffect
  <2>4. Asked(cmd, cmd') /\ cmd'.n = cmd.n /\ cmd'.at # "err"
    BY <2>2, <2>3 DEF Same
  <2>5. OneCluster(cmd.n) => OneCluster(cmd.n)'
    BY <1>d, <1>v, <2>3, <2>4
  <2>. QED  BY <1>h, <1>t, <2>1, <2>2, <2>3, <2>4, <2>5, FitDrops DEF Clears, Any
<1>18. CASE RemoveObsVolume
  <2>1. Doing("obs-volume") /\ ct' = ct /\ (NetUp' <=> NetUp) /\ cmd' = Rest /\ Drop(On)
    BY <1>18 DEF RemoveObsVolume, NetUp
  <2>2. OneCluster(cmd.n) => OneCluster(cmd.n)'
    BY <1>r, <1>d, <2>1
  <2>. QED  BY <1>r, <1>h, <1>t, <2>1, <2>2, FitDrops DEF Clears, Any
<1>19. CASE RemoveNetwork
  <2>1. Doing("remove-network") /\ ct' = ct /\ (cmd' = Rest \/ cmd' = Error)
    BY <1>19 DEF RemoveNetwork
  <2>2. cmd.at = "run" /\ cmd.todo # << >> /\ h.do = "remove-network"
    BY <2>1 DEF Doing, h
  <2>3. Later = {} /\ Todo = {h}
    BY <1>h, <2>2 DEF Follows
  <2>4. h.part \in Tolerated(cmd.kind)
    <3>1. h.part = "network" /\ cmd.kind \in {"rm", "destroy"}
      BY <1>h, <2>2 DEF Shaped
    <3>. QED  BY <3>1 DEF Tolerated
  <2>5. Same(cmd, cmd') /\ Todo' = {}
    BY <2>1, <2>2, <2>3, <2>4, RestEffect, ErrorEffect DEF Todo, h
  <2>6. Asked(cmd, cmd') /\ cmd'.n = cmd.n /\ cmd'.at # "err"
    BY <2>2, <2>5 DEF Same
  <2>. QED  BY <2>1, <2>2, <2>3, <2>5, <2>6, FitDrops DEF Clears, Any
<1>20. CASE Finish
  <2>1. /\ Asked(cmd, cmd') /\ cmd'.n = cmd.n /\ cmd'.at = "ok" /\ Todo = {} /\ Todo' = {} /\ ct' = ct
    BY <1>20, FinishEffect
  <2>. QED  BY <2>1, FitDrops DEF Any
<1>21. CASE RemovalFails \/ CallFails \/ Interrupt \/ ToxiproxyExits
  BY <1>0, <1>21, FaultNoted
<1>22. CASE UNCHANGED vars
  <2>1. Fitting(cmd) /\ cmd' = cmd /\ ct' = ct /\ Todo' = Todo /\ cmd'.n = cmd.n /\ vol' = vol /\ (NetUp' <=> NetUp)
    BY <1>22 DEF vars, Todo, NetUp
  <2>2. Asked(cmd, cmd') /\ cmd'.at # "err"
    BY <2>1 DEF Asked, FitInv
  <2>. QED  BY <1>v, <1>t, <2>1, <2>2, FitDrops
<1>23. CASE \E c \in Nodes : NodeJoins(c)
  <2>1. PICK c \in Nodes : NodeJoins(c)
    BY <1>23
  <2>2. /\ cmd' = cmd /\ ct' = ct /\ Todo' = Todo /\ (NetUp' <=> NetUp) /\ ct[c] = "running"
        /\ vol'[c] \in Joinable(c) /\ \A v : v # c => vol'[v] = vol[v]
    BY <2>1, JoinEffect DEF Todo, NetUp
  <2>3. Fitting(cmd) /\ Asked(cmd, cmd') /\ cmd'.n = cmd.n /\ cmd.at # "err" /\ cmd'.at # "err"
    BY <2>2 DEF Asked, FitInv
  <2>4. ASSUME Any(Todo, "ready") PROVE OneCluster(cmd.n)'
    <3>1. Creating(cmd)
      BY <2>3, <2>4, ReadyIsCreate DEF Creating, Fitting
    <3>2. ASSUME NEW i \in 1 .. cmd.n, c = Node(i) PROVE vol'[Node(i)] \in Stores(cmd.n)
      <4>1. ~Will(Todo, "create", Node(i))
        BY <1>t, <2>2, <2>3, <3>1, <3>2, NoneCleared DEF Free, Will
      <4>2. join[c] = cmd.n
        BY <3>1, <3>2, <4>1 DEF ListsInv
      <4>3. PICK e \in Nodes : vol'[c] = vol[e] /\ vol[e] > Blank /\ e[2] =< cmd.n
        BY <2>2, <4>2 DEF Joinable
      <4>4. e[2] \in 1 .. cmd.n /\ Node(e[2]) = e
        BY <1>n, <4>3, Names, NodesAssumption
      <4>. QED  BY <1>n, <3>2, <4>3, <4>4, StoresAre
    <3>3. \A i \in 1 .. cmd.n : vol'[Node(i)] \in {vol[Node(i)], Blank, NoVolume} \cup Stores(cmd.n)
      BY <2>2, <3>2
    <3>. QED  BY <1>i, <1>n, <1>t, <2>3, <2>4, <3>3, StoresKept DEF OneCluster
  <2>. QED  BY <2>2, <2>3, <2>4, FitDrops
<1>. QED  BY <1>1, <1>2, <1>3, <1>4, <1>5, <1>6, <1>7, <1>8, <1>9, <1>10, <1>11, <1>12, <1>13, <1>14, <1>15,
             <1>16, <1>17, <1>18, <1>19, <1>20, <1>21, <1>22, <1>23 DEF Next, Step

(* A command that found the names it gives free, the network there and the stores of one
   cluster, and meets no fault, does not fail: nothing else that an earlier command left
   behind, however that one ended, can stop it. *)
THEOREM NothingElseStops == Spec => []NoOtherObstacle
<1>1. Init => BuildInv /\ ListsInv /\ FitInv
  BY DEF Init, NoCommand, BuildInv, ListsInv, Creating, FitInv, Fitting
<1>2. FitInv => NoOtherObstacle
  BY Zenon DEF FitInv, Fitting, NoOtherObstacle
<1>3. /\ IndInv /\ OrderInv /\ BuildInv /\ [Next]_vars => BuildInv'
      /\ IndInv /\ OrderInv /\ BuildInv /\ ListsInv /\ [Next]_vars => ListsInv'
  BY BuildStep, ListsStep
<1>. QED  BY <1>1, <1>2, <1>3, FitStep, CallsInOrder, LifecycleInductive, PTL DEF Spec

=============================================================================
