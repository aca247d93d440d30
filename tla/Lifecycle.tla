----------------------------- MODULE Lifecycle -----------------------------
(***************************************************************************)
(* The commands that build and take down the environment: cluster create,   *)
(* scale and rm, destroy, quickstart, workload start and stop, obs setup    *)
(* and teardown, chaos setup (package cmd), on the Manager of               *)
(* internal/docker.                                                         *)
(*                                                                          *)
(* All state is Docker's: a command reads it afresh and keeps nothing.  A   *)
(* command is the list of calls it has still to make, and every action is   *)
(* one call; some calls list what is there and put further calls in front.  *)
(* A call may fail, and the command may be interrupted between two calls:   *)
(* what it has done so far stays.  Commands are run one after the other.    *)
(***************************************************************************)
EXTENDS Integers, Sequences, FiniteSetsExt

CONSTANTS
  MaxNodes,     \* bound on the indexes of nodes
  Sizes,        \* values of --nodes
  MaxCommands,  \* bound on commands run
  MaxFaults     \* bound on failed calls, interrupts and restarts of Toxiproxy

ASSUME NodesAssumption  == MaxNodes \in Nat \ {0} /\ Sizes # {} /\ Sizes \subseteq 1 .. MaxNodes
ASSUME BoundsAssumption == MaxCommands \in Nat /\ MaxFaults \in Nat

(* A container is its role and its node index (0 where there is only one).  A
   volume is named after the container that mounts it. *)
Node(i)    == <<"crdb", i>>
Toxiproxy  == <<"toxiproxy", 0>>
Prometheus == <<"prometheus", 0>>
Grafana    == <<"grafana", 0>>
Workload   == <<"workload", 0>>

Nodes      == {Node(i) : i \in 1 .. MaxNodes}
Containers == Nodes \cup {Toxiproxy, Prometheus, Grafana, Workload}
Volumes    == Nodes \cup {Prometheus, Grafana}

(* What a volume holds: nothing yet, or the data of the k-th cluster that was
   initialised.  Those of Prometheus and Grafana stay Blank. *)
NoVolume == -1
Blank    == 0

VARIABLES
  ct,       \* container -> "none", "stopped" (created or exited) or "running"
  vol,      \* volume -> its content
  net,      \* cdbct-net exists
  proxies,  \* nodes that have a proxy in Toxiproxy
  base,     \* <<node, direction>> of the baseline toxics its proxy has
  join,     \* node -> the highest index on its --join list, 0 without a container
  inits,    \* clusters initialised so far
  cmd,      \* the command that runs, or ran last
  used      \* commands run, faults so far

dockerVars == <<ct, vol, net, proxies, base, join, inits>>
vars == <<ct, vol, net, proxies, base, join, inits, cmd, used>>

Kinds == {"create", "scale", "rm", "destroy", "quickstart", "workload-start",
          "workload-stop", "obs-setup", "obs-teardown", "chaos-setup"}

(* "flag" is --purge of rm, --retain-data-volumes of destroy, and for quickstart
   whether baselines are applied (multi-geo without --no-faults). *)
NoCommand ==
  [kind |-> "none", n |-> 0, flag |-> FALSE, at |-> "ok", todo |-> << >>, vols |-> {},
   faulty |-> FALSE, orphans |-> {}, fit |-> FALSE, oneStore |-> FALSE, cold |-> FALSE]

Init ==
  /\ ct = [c \in Containers |-> "none"]
  /\ vol = [v \in Volumes |-> NoVolume]
  /\ net = FALSE /\ proxies = {} /\ base = {} /\ inits = 0
  /\ join = [c \in Nodes |-> 0]
  /\ cmd = NoCommand
  /\ used = [commands |-> 0, faults |-> 0]

ListContainersByRole(role) == {c \in Containers : c[1] = role /\ ct[c] # "none"}

-----------------------------------------------------------------------------
(* The programs.  "part" names the function whose remaining calls are skipped
   when a caller tolerates its error; "on" is the container or volume; "set"
   holds the containers a removal has listed. *)

Call(do, part, on) == [do |-> do, part |-> part, on |-> on, set |-> {}]
OnAll(do, part)    == Call(do, part, Toxiproxy)

startCRDBNode(i) ==
  << Call("volume", "nodes", Node(i)), Call("create", "nodes", Node(i)), Call("start", "nodes", Node(i)) >>

(* The loop over the nodes: the calls of startCRDBNode(1), then those of
   startCRDBNode(2), and so on. *)
startNodes(n) == [j \in 1 .. (3 * n) |-> startCRDBNode(1 + ((j - 1) \div 3))[1 + ((j - 1) % 3)]]

CreateCluster(n) ==
  <<OnAll("network", "network"), OnAll("toxiproxy", "toxiproxy")>> \o startNodes(n)
  \o <<OnAll("ready", "nodes"), OnAll("init", "nodes")>>

(* Mutant: the proxy of the last node is not registered. *)
NewToxiproxyShort(n) ==
  << Call("list", "toxiproxy", Toxiproxy),
     Call("create", "toxiproxy", Toxiproxy), Call("start", "toxiproxy", Toxiproxy) >>
  \o [i \in 1 .. (n - 1) |-> Call("register", "toxiproxy", Node(i))]

(* What EnsureToxiproxy does unless the container runs: what is left of it is
   removed, and the new one gets a proxy for every node. *)
NewToxiproxy(n) ==
  << Call("list", "toxiproxy", Toxiproxy),
     Call("create", "toxiproxy", Toxiproxy), Call("start", "toxiproxy", Toxiproxy) >>
  \o [i \in 1 .. n |-> Call("register", "toxiproxy", Node(i))]

(* Mutant: the volumes are looked up after the containers are gone. *)
DestroyClusterLate(purge) ==
  <<Call("list", "cluster", Node(1)), Call("list", "cluster", Toxiproxy)>>
  \o (IF purge THEN <<OnAll("collect", "collect"), OnAll("volumes", "cluster")>> ELSE << >>)

DestroyCluster(purge) ==
  (IF purge THEN <<OnAll("collect", "collect")>> ELSE << >>)
  \o <<Call("list", "cluster", Node(1)), Call("list", "cluster", Toxiproxy), OnAll("volumes", "cluster")>>

(* InjectNamedLatency for every node: a toxic in each direction. *)
ApplyRegionalLatencies(n) ==
  [j \in 1 .. (2 * n) |-> Call(IF j % 2 = 1 THEN "up" ELSE "down", "baseline", Node((j + 1) \div 2))]

SetupObs ==
  << Call("volume", "obs", Prometheus), Call("create", "obs", Prometheus), Call("start", "obs", Prometheus),
     Call("volume", "obs", Grafana), Call("create", "obs", Grafana), Call("start", "obs", Grafana) >>

TeardownObs ==
  << Call("list", "obs", Prometheus), Call("list", "obs", Grafana),
     Call("obs-volume", "obs", Prometheus), Call("obs-volume", "obs", Grafana) >>

(* BuildWorkloadImage, then StartWorkload, which removes what is there. *)
StartWorkload ==
  << OnAll("image", "image"), Call("list", "existing", Workload),
     Call("create", "workload", Workload), Call("start", "workload", Workload) >>

StopWorkload == << Call("list", "workload", Workload) >>

(* Mutant: the loop of EnsureProxies stops one short. *)
EnsureProxiesShort(n) == [i \in 1 .. (n - 1) |-> Call("register", "proxies", Node(i))]

EnsureProxies(n) == [i \in 1 .. n |-> Call("register", "proxies", Node(i))]

(* Mutant: --retain-data-volumes is taken for purge. *)
PurgingInverted(k, flag) == k \in {"rm", "destroy"} /\ flag

Purging(k, flag) == IF k = "rm" THEN flag ELSE k = "destroy" /\ ~flag

(* The RunE of each command. *)
Program(k, n, flag) ==
  CASE k = "create"         -> CreateCluster(n)
    [] k = "scale"          -> <<OnAll("existing", "scale")>>
    [] k = "rm"             -> DestroyCluster(Purging(k, flag)) \o TeardownObs
                               \o (IF flag THEN <<OnAll("remove-network", "network")>> ELSE << >>)
    [] k = "destroy"        -> StopWorkload \o DestroyCluster(Purging(k, flag)) \o TeardownObs
                               \o <<OnAll("remove-network", "network")>>
    [] k = "quickstart"     -> CreateCluster(n) \o (IF flag THEN ApplyRegionalLatencies(n) ELSE << >>)
                               \o SetupObs \o StartWorkload
    [] k = "workload-start" -> StartWorkload
    [] k = "workload-stop"  -> StopWorkload
    [] k = "obs-setup"      -> SetupObs
    [] k = "obs-teardown"   -> TeardownObs
    [] OTHER (* chaos setup *) -> <<OnAll("toxiproxy", "toxiproxy")>> \o EnsureProxies(n)

(* Functions whose error the command only logs. *)
Tolerated(k) ==
  {"collect", "existing"} \cup
  CASE k = "destroy"    -> {"workload", "cluster", "obs", "network"}
    [] k = "rm"         -> {"obs", "network"}
    [] k = "quickstart" -> {"baseline"}
    [] OTHER            -> {}

-----------------------------------------------------------------------------
Doing(do) == cmd.at = "run" /\ cmd.todo # << >> /\ cmd.todo[1].do = do
On        == cmd.todo[1].on
Now(list) == [cmd EXCEPT !.todo = list]
Rest     == Now(Tail(cmd.todo))

(* The call returns an error, and so does the function it belongs to: its
   remaining calls are not made. *)
Error ==
  LET part == cmd.todo[1].part
      same == {i \in DOMAIN cmd.todo : \A j \in 1 .. i : cmd.todo[j].part = part}
  IN IF part \in Tolerated(cmd.kind)
     THEN Now(SubSeq(cmd.todo, 1 + Max(same), Len(cmd.todo)))
     ELSE [cmd EXCEPT !.at = "err", !.todo = << >>]

EnsureNetwork ==
  /\ Doing("network")
  /\ net' = TRUE /\ cmd' = Rest
  /\ UNCHANGED <<ct, vol, proxies, base, join, inits, used>>

(* EnsureToxiproxy: nothing to do while the container runs. *)
EnsureToxiproxy ==
  /\ Doing("toxiproxy")
  /\ cmd' = Now((IF ct[Toxiproxy] = "running" THEN << >> ELSE NewToxiproxy(cmd.n)) \o Tail(cmd.todo))
  /\ UNCHANGED <<dockerVars, used>>

(* ContainerCreate: an error if the name is taken.  A node gets the list of the nodes
   it may join through: all that create was asked for, for scale those up to its own
   index. *)
ContainerCreate ==
  /\ Doing("create")
  /\ IF ct[On] = "none"
     THEN /\ ct' = [ct EXCEPT ![On] = "stopped"] /\ cmd' = Rest
          /\ join' = [c \in Nodes |-> IF c = On THEN cmd.n ELSE join[c]]
     ELSE cmd' = Error /\ UNCHANGED <<ct, join>>
  /\ UNCHANGED <<vol, net, proxies, base, inits, used>>

(* ContainerStart: needs the network.  Toxiproxy starts with no proxies. *)
ContainerStart ==
  /\ Doing("start")
  /\ IF net
     THEN /\ ct' = [ct EXCEPT ![On] = "running"] /\ cmd' = Rest
          /\ IF On = Toxiproxy THEN proxies' = {} /\ base' = {} ELSE UNCHANGED <<proxies, base>>
     ELSE cmd' = Error /\ UNCHANGED <<ct, proxies, base>>
  /\ UNCHANGED <<vol, net, join, inits, used>>

(* POST /proxies; a proxy that is there already is accepted. *)
RegisterProxy ==
  /\ Doing("register")
  /\ IF ct[Toxiproxy] = "running"
     THEN proxies' = proxies \cup {On[2]} /\ cmd' = Rest
     ELSE UNCHANGED proxies /\ cmd' = Error
  /\ UNCHANGED <<ct, vol, net, base, join, inits, used>>

EnsureVolume ==
  /\ Doing("volume")
  /\ vol' = [vol EXCEPT ![On] = IF @ = NoVolume THEN Blank ELSE @]
  /\ cmd' = Rest
  /\ UNCHANGED <<ct, net, proxies, base, join, inits, used>>

Stores(n) == {vol[Node(i)] : i \in 1 .. n} \ {Blank, NoVolume}

(* waitForNodes: the nodes just started answer, unless they were given stores of
   different clusters: then some of them exit, and may be seen before they do. *)
waitForNodes ==
  /\ Doing("ready")
  /\ cmd' \in IF Cardinality(Stores(cmd.n)) =< 1 THEN {Rest} ELSE {Rest, Error}
  /\ UNCHANGED <<dockerVars, used>>

(* cockroach init on node 1: it makes a new cluster, unless the node has a store of one
   or has joined one, which is accepted.  The other nodes are left to join it. *)
initCluster ==
  /\ Doing("init")
  /\ IF vol[Node(1)] = Blank
     THEN vol' = [vol EXCEPT ![Node(1)] = inits + 1] /\ inits' = inits + 1
     ELSE UNCHANGED <<vol, inits>>
  /\ cmd' = Rest
  /\ UNCHANGED <<ct, net, proxies, base, join, used>>

(* The clusters a node can reach: nodes advertise their address through Toxiproxy, so
   those of the nodes on its list that run and have a proxy. *)
Joinable(c) ==
  {vol[d] : d \in {e \in Nodes \ {c} : /\ ct[e] = "running" /\ vol[e] > Blank
                                      /\ e[2] \in proxies /\ e[2] =< join[c]}}

(* CockroachDB: a node that runs on a blank store keeps trying its list until it joins. *)
NodeJoins(c) ==
  /\ ct[c] = "running" /\ vol[c] = Blank
  /\ \E k \in Joinable(c) : vol' = [vol EXCEPT ![c] = k]
  /\ UNCHANGED <<ct, net, proxies, base, join, inits, cmd, used>>

(* Mutant: the new index is the number of nodes plus one. *)
AddNodeByCount ==
  /\ Doing("existing")
  /\ LET found == ListContainersByRole("crdb")
         idx   == 1 + Cardinality(found)
     IN  cmd' = IF found = {} THEN Error
                ELSE [cmd EXCEPT !.n = idx,
                                 !.todo = <<OnAll("toxiproxy", "toxiproxy")>> \o startCRDBNode(idx)]
  /\ UNCHANGED <<dockerVars, used>>

(* AddNode: one index above the highest label, whatever the number of nodes. *)
AddNode ==
  /\ Doing("existing")
  /\ LET found == ListContainersByRole("crdb")
         idx   == 1 + Max({0} \cup {c[2] : c \in found})
     IN  cmd' = IF found = {} THEN Error
                ELSE [cmd EXCEPT !.n = idx,
                                 !.todo = <<OnAll("toxiproxy", "toxiproxy")>> \o startCRDBNode(idx)]
  /\ UNCHANGED <<dockerVars, used>>

Directions == {"up", "down"}

(* Mutant: the toxics are posted without a look at the proxy. *)
InjectBaselineBlind(d) ==
  /\ Doing(d)
  /\ base' = base \cup {<<On[2], d>>} /\ cmd' = Rest
  /\ UNCHANGED <<ct, vol, net, proxies, join, inits, used>>

(* AddToxic: an error without the proxy, or with the toxic there already. *)
InjectBaseline(d) ==
  /\ Doing(d)
  /\ IF On[2] \in proxies /\ <<On[2], d>> \notin base
     THEN base' = base \cup {<<On[2], d>>} /\ cmd' = Rest
     ELSE UNCHANGED base /\ cmd' = Error
  /\ UNCHANGED <<ct, vol, net, proxies, join, inits, used>>

BuildWorkloadImage ==
  /\ Doing("image")
  /\ cmd' = Rest
  /\ UNCHANGED <<dockerVars, used>>

-----------------------------------------------------------------------------
(* DestroyCluster collects the volumes of the nodes it finds. *)
CollectVolumes ==
  /\ Doing("collect")
  /\ cmd' = [Rest EXCEPT !.vols = ListContainersByRole("crdb")]
  /\ UNCHANGED <<dockerVars, used>>

ListForRemoval ==
  /\ Doing("list")
  /\ cmd' = Now(<<[cmd.todo[1] EXCEPT !.do = "remove", !.set = ListContainersByRole(On[1])]>>
                \o Tail(cmd.todo))
  /\ UNCHANGED <<dockerVars, used>>

(* StopAndRemove of one of the containers listed. *)
Without(c) == Now(<<[cmd.todo[1] EXCEPT !.set = @ \ {c}]>> \o Tail(cmd.todo))

StopAndRemove ==
  /\ Doing("remove")
  /\ \E c \in cmd.todo[1].set :
       /\ ct' = [ct EXCEPT ![c] = "none"]
       /\ IF c = Toxiproxy THEN proxies' = {} /\ base' = {} ELSE UNCHANGED <<proxies, base>>
       /\ join' = [d \in Nodes |-> IF d = c THEN 0 ELSE join[d]]
       /\ cmd' = Without(c)
  /\ UNCHANGED <<vol, net, inits, used>>

Removed ==
  /\ Doing("remove") /\ cmd.todo[1].set = {}
  /\ cmd' = Rest
  /\ UNCHANGED <<dockerVars, used>>

(* Docker refuses to remove a volume that a container mounts. *)
Drop(v) == vol' = [vol EXCEPT ![v] = IF ct[v] = "none" THEN NoVolume ELSE @]

(* RemoveVolume, its error ignored, for the volumes collected. *)
RemoveVolume ==
  /\ Doing("volumes")
  /\ IF cmd.vols = {} THEN cmd' = Rest /\ UNCHANGED vol
     ELSE \E v \in cmd.vols : Drop(v) /\ cmd' = [cmd EXCEPT !.vols = @ \ {v}]
  /\ UNCHANGED <<ct, net, proxies, base, join, inits, used>>

(* The two of TeardownObs, which are removed whatever was found. *)
RemoveObsVolume ==
  /\ Doing("obs-volume")
  /\ Drop(On) /\ cmd' = Rest
  /\ UNCHANGED <<ct, net, proxies, base, join, inits, used>>

(* Docker refuses to remove a network that a running container is on. *)
RemoveNetwork ==
  /\ Doing("remove-network")
  /\ IF \A c \in Containers : ct[c] # "running"
     THEN net' = FALSE /\ cmd' = Rest
     ELSE UNCHANGED net /\ cmd' = Error
  /\ UNCHANGED <<ct, vol, proxies, base, join, inits, used>>

-----------------------------------------------------------------------------
(* What a command needs in order to succeed: the names it gives to containers
   are free, and the network is there unless it makes it. *)
Fit(k, n) ==
  LET free(cs) == \A c \in cs : ct[c] = "none"
      new      == {Node(i) : i \in 1 .. n}
  IN CASE k = "create"      -> free(new) /\ Cardinality(Stores(n)) =< 1
       [] k = "quickstart"  -> free(new \cup {Prometheus, Grafana}) /\ Cardinality(Stores(n)) =< 1
       [] k = "obs-setup"   -> free({Prometheus, Grafana}) /\ net
       [] k = "scale"       -> net /\ ListContainersByRole("crdb") # {}
       [] k \in {"workload-start", "chaos-setup"} -> net
       [] OTHER             -> TRUE

(* A command is typed. *)
Begin ==
  /\ cmd.at # "run" /\ used.commands < MaxCommands
  /\ used' = [used EXCEPT !.commands = @ + 1]
  /\ \E k \in Kinds, n \in Sizes, flag \in BOOLEAN :
       /\ k \notin {"create", "quickstart", "chaos-setup"} => n = Max(Sizes)
       /\ k \notin {"rm", "destroy", "quickstart"} => ~flag
       /\ k = "scale" => Node(MaxNodes) \notin ListContainersByRole("crdb")
       /\ cmd' = [NoCommand EXCEPT
                    !.kind = k, !.n = n, !.flag = flag, !.at = "run", !.todo = Program(k, n, flag),
                    !.orphans  = {v \in Nodes : vol[v] # NoVolume /\ ct[v] = "none"},
                    !.fit      = Fit(k, n),
                    !.oneStore = Stores(n) \subseteq {vol[Node(1)]},
                    !.cold     = ct[Toxiproxy] # "running"]
  /\ UNCHANGED dockerVars

Finish ==
  /\ cmd.at = "run" /\ cmd.todo = << >>
  /\ cmd' = [cmd EXCEPT !.at = "ok"]
  /\ UNCHANGED <<dockerVars, used>>

Fault == used.faults < MaxFaults /\ used' = [used EXCEPT !.faults = @ + 1]

(* StopAndRemove fails, perhaps after the container was stopped; its error and
   that of RemoveVolume are ignored. *)
RemovalFails ==
  /\ Fault
  /\ \/ /\ Doing("remove")
        /\ \E c \in cmd.todo[1].set :
             /\ cmd' = [Without(c) EXCEPT !.faulty = TRUE]
             /\ ct' \in {ct, [ct EXCEPT ![c] = "stopped"]}
             /\ IF c = Toxiproxy /\ ct'[c] = "stopped" THEN proxies' = {} /\ base' = {}
                ELSE UNCHANGED <<proxies, base>>
     \/ /\ Doing("volumes")
        /\ \E v \in cmd.vols : cmd' = [cmd EXCEPT !.vols = @ \ {v}, !.faulty = TRUE]
        /\ UNCHANGED <<ct, proxies, base>>
     \/ /\ Doing("obs-volume")
        /\ cmd' = [Rest EXCEPT !.faulty = TRUE]
        /\ UNCHANGED <<ct, proxies, base>>
  /\ UNCHANGED <<vol, net, join, inits>>

(* Any other call fails, without having done anything. *)
CallFails ==
  /\ cmd.at = "run" /\ cmd.todo # << >> /\ Fault
  /\ cmd.todo[1].do \notin {"remove", "volumes", "obs-volume"}
  /\ cmd' = [Error EXCEPT !.faulty = TRUE]
  /\ UNCHANGED dockerVars

(* The command is interrupted or killed. *)
Interrupt ==
  /\ cmd.at = "run" /\ Fault
  /\ cmd' = [cmd EXCEPT !.at = "err", !.todo = << >>, !.faulty = TRUE]
  /\ UNCHANGED dockerVars

(* Toxiproxy is restarted, or stopped by hand: either way it forgets everything. *)
ToxiproxyExits ==
  /\ ct[Toxiproxy] = "running" /\ Fault
  /\ \E s \in {"running", "stopped"} : ct' = [ct EXCEPT ![Toxiproxy] = s]
  /\ proxies' = {} /\ base' = {}
  /\ cmd' = [cmd EXCEPT !.faulty = TRUE]
  /\ UNCHANGED <<vol, net, join, inits>>

Step ==
  \/ EnsureNetwork \/ EnsureToxiproxy \/ ContainerCreate \/ ContainerStart \/ RegisterProxy
  \/ EnsureVolume \/ waitForNodes \/ initCluster \/ AddNode \/ BuildWorkloadImage
  \/ CollectVolumes \/ ListForRemoval \/ StopAndRemove \/ Removed \/ RemoveVolume
  \/ RemoveObsVolume \/ RemoveNetwork \/ Finish
  \/ \E d \in Directions : InjectBaseline(d)

Next ==
  \/ Begin \/ Step \/ RemovalFails \/ CallFails \/ Interrupt \/ ToxiproxyExits
  \/ \E c \in Nodes : NodeJoins(c)

Spec == Init /\ [][Next]_vars

-----------------------------------------------------------------------------

(* Type invariant. *)
TypeOK ==
  /\ ct \in [Containers -> {"none", "stopped", "running"}]
  /\ vol \in [Volumes -> NoVolume .. MaxCommands]
  /\ net \in BOOLEAN /\ inits \in 0 .. MaxCommands /\ join \in [Nodes -> 0 .. MaxNodes]
  /\ base \subseteq proxies \X Directions /\ proxies \subseteq 1 .. MaxNodes
  /\ cmd.at \in {"run", "ok", "err"} /\ cmd.vols \subseteq Nodes

Succeeded(kinds) == cmd.kind \in kinds /\ cmd.at = "ok" /\ ~cmd.faulty

(* "Stop and remove everything": after a destroy that met no error nothing is
   left but the data volumes whose containers were gone before it began, which
   it has no way to find. *)
DestroyLeavesOnlyOrphans ==
  (Succeeded({"destroy"}) /\ ~cmd.flag) =>
    /\ \A c \in Containers : ct[c] = "none"
    /\ ~net
    /\ \A v \in Volumes : vol[v] # NoVolume => v \in cmd.orphans

(* A create or quickstart that reports success has what it was asked for: all
   nodes running, node 1 in a cluster, the others in that one, or with no store yet
   and then, where node 1 has a proxy, able to join it and no other; Toxiproxy with a
   proxy (and for quickstart a baseline) for each if it had to be started; the rest
   of the stack.  The stores it found were those of node 1's cluster.  It does not
   promise that the nodes can join where it found a Toxiproxy without proxies. *)
CreateComplete ==
  (Succeeded({"create", "quickstart"}) /\ cmd.oneStore) =>
    /\ \A i \in 1 .. cmd.n : /\ ct[Node(i)] = "running" /\ vol[Node(i)] \in {Blank, vol[Node(1)]}
                            /\ (vol[Node(i)] = Blank /\ 1 \in proxies) => Joinable(Node(i)) = {vol[Node(1)]}
    /\ vol[Node(1)] > Blank /\ ct[Toxiproxy] = "running"
    /\ cmd.cold => proxies = 1 .. cmd.n
    /\ cmd.kind = "quickstart" => \A c \in {Prometheus, Grafana, Workload} : ct[c] = "running"
    /\ (cmd.flag /\ cmd.cold) => base = (1 .. cmd.n) \X Directions

(* No command fails for a reason that an earlier command left behind, however
   that one ended, except a name that is taken, a network that is missing or
   stores of several clusters. *)
NoOtherObstacle == (cmd.fit /\ ~cmd.faulty) => cmd.at # "err"

(* chaos setup: "Ensure Toxiproxy is running and node proxies are registered",
   whatever state Toxiproxy was in. *)
ChaosSetupRepairs ==
  Succeeded({"chaos-setup"}) => ct[Toxiproxy] = "running" /\ 1 .. cmd.n \subseteq proxies

(* Data of a cluster is only ever lost to a command that was told to purge, and
   never under a container that mounts it: not to create, scale, quickstart or
   an interrupted command of any kind. *)
DataSurvives ==
  [][\A v \in Nodes : (vol[v] > Blank /\ vol'[v] # vol[v]) =>
       /\ ct[v] = "none"
       /\ \/ cmd.kind = "rm" /\ cmd.flag
          \/ cmd.kind = "destroy" /\ ~cmd.flag]_vars

(* "Rebuild Toxiproxy proxies to include new node": a scale that succeeds leaves
   the node it added with the proxy it advertises itself through. *)
ScaleRegistersProxy == Succeeded({"scale"}) => cmd.n \in proxies

=============================================================================
