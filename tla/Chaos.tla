------------------------------- MODULE Chaos -------------------------------
(***************************************************************************)
(* Fault injection: the chaos sub-commands (cmd/chaos.go), the client they  *)
(* use (internal/chaos/client.go) and the regional baselines                *)
(* (internal/docker/chaos.go), against the state Toxiproxy keeps.           *)
(*                                                                          *)
(* A command is a sequence of HTTP calls to Toxiproxy, one action each.     *)
(* Commands are separate processes: several may run at a time, each acts on *)
(* what its earlier calls returned, each may be interrupted after any call  *)
(* and any call may fail.  Toxiproxy keeps its proxies in memory only and   *)
(* loses them when its container restarts.                                  *)
(***************************************************************************)
EXTENDS Integers, FiniteSets, FiniteSetsExt

CONSTANTS
  Nodes,        \* number of CockroachDB nodes, and of proxies
  Faults,       \* fault types in use that are toxics
  Slots,        \* commands that can run at the same time
  MaxCommands,  \* bound on commands started
  MaxAborts,    \* bound on commands that die half-way and on calls that fail
  MaxRestarts   \* bound on restarts of the Toxiproxy container

ASSUME NodesAssumption  == Nodes \in Nat \ {0}
ASSUME FaultsAssumption == Faults \subseteq {"latency", "bandwidth", "timeout", "reset_peer"}
ASSUME BoundsAssumption == MaxCommands \in Nat /\ MaxAborts \in Nat /\ MaxRestarts \in Nat

NodeSet == 1 .. Nodes

(* The two toxics of InjectNamedLatency for the regional baseline. *)
Baseline == {"regional-up", "regional-down"}
Toxics   == Faults \cup Baseline

VARIABLES
  proxy,  \* Toxiproxy: node -> its proxy
  cmd,    \* slot -> the command running in it
  used    \* commands started, commands aborted and calls failed, container restarts

vars == <<proxy, cmd, used>>

NoProxy  == [exists |-> FALSE, enabled |-> FALSE, toxics |-> {}]
NewProxy == [exists |-> TRUE, enabled |-> TRUE, toxics |-> {}]

Idle == [kind |-> "none", at |-> "idle", node |-> 1, todo |-> {}, fault |-> "none",
         names |-> {}, newer |-> {}, alone |-> TRUE, missed |-> {}]

Running(c) == cmd[c].at \notin {"idle", "ok", "err"}

(* registerToxiproxyProxies has run: quickstart and cluster create do so. *)
Init ==
  /\ proxy = [n \in NodeSet |-> NewProxy]
  /\ cmd = [c \in Slots |-> Idle]
  /\ used = [commands |-> 0, aborts |-> 0, restarts |-> 0]

-----------------------------------------------------------------------------
(* Bookkeeping for the properties: "newer" holds what was injected while the
   command ran, "alone" whether nothing else happened meanwhile, "missed" the nodes
   on which ClearAll ignored the failure of a call. *)

Saw(c, x, new) ==
  cmd' = [d \in Slots |-> IF d = c THEN new
                          ELSE IF cmd[d].at # "idle" THEN [cmd[d] EXCEPT !.newer = @ \cup {x}]
                          ELSE cmd[d]]

Set(c, new) == cmd' = [cmd EXCEPT ![c] = new]

Done(c)   == [cmd[c] EXCEPT !.at = "ok"]
Failed(c) == [cmd[c] EXCEPT !.at = "err"]

(* Mutant: the loops over the nodes stop one short. *)
AfterNodeShort(c) ==
  IF Cardinality(cmd[c].todo) =< 1 THEN Done(c)
  ELSE [cmd[c] EXCEPT !.at = "get", !.node = Min(cmd[c].todo), !.todo = @ \ {Min(cmd[c].todo)}]

(* The command is through with its node: the loops of ClearAll, EnsureProxies
   and ApplyRegionalLatencies go on to the next one.  (ClearAll ranges over a
   map, but nothing depends on the order in which it visits the nodes.) *)
AfterNode(c) ==
  IF cmd[c].todo = {} THEN Done(c)
  ELSE [cmd[c] EXCEPT !.at = "get", !.node = Min(cmd[c].todo), !.todo = @ \ {Min(cmd[c].todo)}]

(* A command is typed: inject, clear one node, clear all, regional, setup. *)
Start(c) ==
  /\ cmd[c].at = "idle" /\ used.commands < MaxCommands
  /\ used' = [used EXCEPT !.commands = @ + 1]
  /\ \E k \in {"inject", "clear", "clear-all", "regional", "setup"}, n \in NodeSet,
        f \in Faults \cup {"partition"} :
       /\ k # "inject" => f = "partition"
       /\ k \notin {"inject", "clear"} => n = 1
       /\ LET first == [Idle EXCEPT !.kind = k, !.node = n, !.fault = f,
                          !.at    = IF k = "clear-all" THEN "proxies" ELSE "get",
                          !.todo  = IF k \in {"inject", "clear"} THEN {} ELSE NodeSet \ {1},
                          !.alone = \A d \in Slots : cmd[d].at = "idle"]
          IN  cmd' = [d \in Slots |-> IF d = c THEN first
                                      ELSE IF cmd[d].at = "idle" THEN cmd[d]
                                      ELSE [cmd[d] EXCEPT !.alone = FALSE]]
  /\ UNCHANGED proxy

-----------------------------------------------------------------------------
(* ClearAll: GET /proxies names the proxies it will visit. *)
ListProxies(c) ==
  /\ cmd[c].at = "proxies"
  /\ LET found == {n \in NodeSet : proxy[n].exists} IN
       Set(c, IF found = {} THEN Done(c)
              ELSE [cmd[c] EXCEPT !.at = "get", !.node = Min(found), !.todo = found \ {Min(found)}])
  /\ UNCHANGED <<proxy, used>>

(* GET /proxies/{name}: the copy the client then works with. *)
GetProxy(c) ==
  /\ cmd[c].at = "get"
  /\ LET p == proxy[cmd[c].node]
         k == cmd[c].kind
         goto(at) == Set(c, [cmd[c] EXCEPT !.at = at])
     IN \/ ~p.exists /\ k \in {"inject", "clear", "regional"} /\ Set(c, Failed(c))
        \/ ~p.exists /\ k = "setup" /\ goto("create")
        \/ p.exists /\ k = "inject" /\ goto(IF cmd[c].fault = "partition" THEN "disable" ELSE "add")
        \/ p.exists /\ k \in {"clear", "clear-all"} /\ goto(IF p.enabled THEN "list" ELSE "enable")
        \/ p.exists /\ k = "regional" /\ goto("up")
        \/ k = (IF p.exists THEN "setup" ELSE "clear-all") /\ Set(c, AfterNode(c))
  /\ UNCHANGED <<proxy, used>>

(* InjectFault, FaultPartition: Save with Enabled = false. *)
Partition(c) ==
  /\ cmd[c].at = "disable"
  /\ IF proxy[cmd[c].node].exists
     THEN /\ proxy' = [proxy EXCEPT ![cmd[c].node].enabled = FALSE]
          /\ Saw(c, <<cmd[c].node, "partition">>, Done(c))
     ELSE Set(c, Failed(c)) /\ UNCHANGED proxy
  /\ UNCHANGED used

(* p.AddToxic: 409 if a toxic of that name is there, 404 without the proxy. *)
Post(c, name, after) ==
  LET n == cmd[c].node IN
  /\ IF proxy[n].exists /\ name \notin proxy[n].toxics
     THEN /\ proxy' = [proxy EXCEPT ![n].toxics = @ \cup {name}]
          /\ Saw(c, <<n, name>>, after)
     ELSE Set(c, Failed(c)) /\ UNCHANGED proxy
  /\ UNCHANGED used

AddToxic(c)  == cmd[c].at = "add" /\ Post(c, cmd[c].fault, Done(c))

(* Mutant: the toxic is posted without a name and Toxiproxy makes one up. *)
LatencyUpUnnamed(c) == cmd[c].at = "up" /\ Post(c, "latency_upstream", [cmd[c] EXCEPT !.at = "down"])

(* InjectNamedLatency: first name-up, then name-down. *)
LatencyUp(c)   == cmd[c].at = "up" /\ Post(c, "regional-up", [cmd[c] EXCEPT !.at = "down"])
LatencyDown(c) == cmd[c].at = "down" /\ Post(c, "regional-down", AfterNode(c))

(* Save with Enabled = true, for a proxy that was disabled when it was read;
   ClearAll ignores the error. *)
Enable(c) ==
  /\ cmd[c].at = "enable"
  /\ LET n == cmd[c].node IN
       IF proxy[n].exists
       THEN proxy' = [proxy EXCEPT ![n].enabled = TRUE] /\ Set(c, [cmd[c] EXCEPT !.at = "list"])
       ELSE UNCHANGED proxy
            /\ Set(c, IF cmd[c].kind = "clear" THEN Failed(c) ELSE [cmd[c] EXCEPT !.at = "list"])
  /\ UNCHANGED used

(* p.Toxics(); on an error ClearAll goes on with an empty list. *)
ListToxics(c) ==
  /\ cmd[c].at = "list"
  /\ LET p == proxy[cmd[c].node] IN
       Set(c, IF ~p.exists /\ cmd[c].kind = "clear" THEN Failed(c)
              ELSE [cmd[c] EXCEPT !.at = "remove", !.names = p.toxics])
  /\ UNCHANGED <<proxy, used>>

(* p.RemoveToxic for one of the toxics listed.  One that is gone is an error,
   which ends ClearFaults and which ClearAll ignores. *)
RemoveToxic(c) ==
  /\ cmd[c].at = "remove"
  /\ \E t \in cmd[c].names :
       LET n == cmd[c].node IN
       IF t \in proxy[n].toxics
       THEN /\ proxy' = [proxy EXCEPT ![n].toxics = @ \ {t}]
            /\ Set(c, [cmd[c] EXCEPT !.names = @ \ {t}])
       ELSE /\ UNCHANGED proxy
            /\ Set(c, IF cmd[c].kind = "clear" THEN Failed(c) ELSE [cmd[c] EXCEPT !.names = @ \ {t}])
  /\ UNCHANGED used

NodeCleared(c) ==
  /\ cmd[c].at = "remove" /\ cmd[c].names = {}
  /\ Set(c, AfterNode(c))
  /\ UNCHANGED <<proxy, used>>

(* Mutant: the first proxy that exists ends the loop of EnsureProxies. *)
CreateStops(c) ==
  /\ cmd[c].at = "create"
  /\ proxy' = [proxy EXCEPT ![cmd[c].node] = NewProxy]
  /\ Set(c, Done(c))
  /\ UNCHANGED used

(* EnsureProxies: POST /proxies, an error if it was created meanwhile. *)
CreateProxy(c) ==
  /\ cmd[c].at = "create"
  /\ LET n == cmd[c].node IN
       IF proxy[n].exists
       THEN UNCHANGED proxy /\ Set(c, Failed(c))
       ELSE proxy' = [proxy EXCEPT ![n] = NewProxy] /\ Set(c, AfterNode(c))
  /\ UNCHANGED used

(* The command is interrupted. *)
Abort(c) ==
  /\ Running(c) /\ used.aborts < MaxAborts
  /\ used' = [used EXCEPT !.aborts = @ + 1]
  /\ Set(c, Failed(c))
  /\ UNCHANGED proxy

(* Mutant: ClearAll gives up at the first call that fails, and still reports
   success. *)
IgnoredEndsAll(c, after) == [after EXCEPT !.missed = @ \cup {cmd[c].node}, !.at = "ok"]

(* ClearAll carries on as if the call that failed had nothing to do. *)
Ignored(c, after) == [after EXCEPT !.missed = @ \cup {cmd[c].node}]

(* A call fails for a reason of its own: the connection breaks, Toxiproxy answers
   with an error or not in time.  ClearAll returns only the error of its first
   call; after any other it goes on, to the next proxy if it could not read this
   one.  EnsureProxies takes a proxy that it could not read for one that is not
   there.  Every other failure ends its command. *)
CallFails(c) ==
  /\ Running(c) /\ used.aborts < MaxAborts
  /\ cmd[c].at = "remove" => cmd[c].names # {}
  /\ used' = [used EXCEPT !.aborts = @ + 1]
  /\ LET k  == cmd[c].kind
         at == cmd[c].at
     IN \/ /\ k = "clear-all"
           /\ \/ at = "get" /\ Set(c, Ignored(c, AfterNode(c)))
              \/ at = "enable" /\ Set(c, Ignored(c, [cmd[c] EXCEPT !.at = "list"]))
              \/ at = "list" /\ Set(c, Ignored(c, [cmd[c] EXCEPT !.at = "remove", !.names = {}]))
              \/ at = "remove" /\ \E t \in cmd[c].names :
                   Set(c, Ignored(c, [cmd[c] EXCEPT !.names = @ \ {t}]))
        \/ k = "setup" /\ at = "get" /\ Set(c, [cmd[c] EXCEPT !.at = "create"])
        \/ /\ ~(k = "clear-all" /\ at # "proxies") /\ ~(k = "setup" /\ at = "get")
           /\ Set(c, Failed(c))
  /\ UNCHANGED proxy

(* The shell prompt is back. *)
Exit(c) ==
  /\ cmd[c].at \in {"ok", "err"}
  /\ Set(c, Idle)
  /\ UNCHANGED <<proxy, used>>

(* The container restarts (unless-stopped) with no proxies at all. *)
Restart ==
  /\ used.restarts < MaxRestarts
  /\ used' = [used EXCEPT !.restarts = @ + 1]
  /\ proxy' = [n \in NodeSet |-> NoProxy]
  /\ cmd' = [c \in Slots |-> IF cmd[c].at = "idle" THEN cmd[c] ELSE [cmd[c] EXCEPT !.alone = FALSE]]

Step(c) ==
  \/ ListProxies(c) \/ GetProxy(c) \/ Partition(c) \/ AddToxic(c) \/ LatencyUp(c) \/ LatencyDown(c)
  \/ Enable(c) \/ ListToxics(c) \/ RemoveToxic(c) \/ NodeCleared(c) \/ CreateProxy(c)

Next == (\E c \in Slots : Start(c) \/ Step(c) \/ Abort(c) \/ CallFails(c) \/ Exit(c)) \/ Restart

Spec == Init /\ [][Next]_vars

-----------------------------------------------------------------------------

(* Type invariant. *)
TypeOK ==
  /\ proxy \in [NodeSet -> [exists : BOOLEAN, enabled : BOOLEAN, toxics : SUBSET Toxics]]
  /\ \A c \in Slots :
       /\ cmd[c].node \in NodeSet /\ cmd[c].todo \subseteq NodeSet
       /\ cmd[c].names \subseteq Toxics /\ cmd[c].alone \in BOOLEAN
  /\ used.commands =< MaxCommands /\ used.aborts =< MaxAborts /\ used.restarts =< MaxRestarts

(* The nodes a clear answers for when it reports success: ClearFaults for its own,
   ClearAll for those on which it ignored no failed call. *)
Cleared(c) == IF cmd[c].kind = "clear" THEN {cmd[c].node} ELSE NodeSet \ cmd[c].missed

(* "removes all toxics from the proxy and re-enables it": what is left on a node
   when a clear reports success was injected while the clear was running, never
   before it, whatever other commands and restarts did meanwhile.  A call of
   ClearAll that fails costs it the node that call was for and no other. *)
ClearLeavesOnlyNewer ==
  \A c \in Slots : (cmd[c].kind \in {"clear", "clear-all"} /\ cmd[c].at = "ok") =>
    \A n \in Cleared(c) :
      /\ \A t \in proxy[n].toxics : <<n, t>> \in cmd[c].newer
      /\ (proxy[n].exists /\ ~proxy[n].enabled) => <<n, "partition">> \in cmd[c].newer

(* A chaos regional that reports success while nothing else ran has put both
   halves of the baseline on every node. *)
RegionalIsComplete ==
  \A c \in Slots : (cmd[c].kind = "regional" /\ cmd[c].at = "ok" /\ cmd[c].alone) =>
    \A n \in NodeSet : Baseline \subseteq proxy[n].toxics

(* chaos setup brings every proxy back after a restart of Toxiproxy. *)
SetupRepairs ==
  \A c \in Slots : (cmd[c].kind = "setup" /\ cmd[c].at = "ok" /\ cmd[c].alone) =>
    \A n \in NodeSet : proxy[n].exists

(* "chaos clear removes them; chaos regional re-applies them": when chaos regional
   is over, with no other command running and no call failing by itself, every
   node has its baseline. *)
RegionalReapplies ==
  \A c \in Slots : (cmd[c].kind = "regional" /\ cmd[c].at \in {"ok", "err"} /\ cmd[c].alone) =>
    \A n \in NodeSet : Baseline \subseteq proxy[n].toxics

=============================================================================
