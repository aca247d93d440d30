---------------------------- MODULE ChaosProofs ----------------------------
(***************************************************************************)
(* Proofs about the chaos commands: any number of them at a time, over any  *)
(* number of nodes, with aborts, failing calls and restarts of Toxiproxy at *)
(* any point.                                                               *)
(***************************************************************************)
EXTENDS Chaos, FiniteSetTheorems, WellFoundedInduction, TLAPS

(* The commands, and where one can be in its calls. *)
Kinds   == {"none", "inject", "clear", "clear-all", "regional", "setup"}
Working == {"get", "up", "down", "enable", "list", "remove", "create"}
Places  == Working \cup {"idle", "proxies", "disable", "add", "ok", "err"}

(* A slot of the shell and what its command remembers. *)
Command == [kind : Kinds, at : Places, node : NodeSet, todo : SUBSET NodeSet,
            fault : Faults \cup {"partition", "none"}, names : SUBSET Toxics,
            newer : SUBSET (NodeSet \X (Toxics \cup {"partition"})), alone : BOOLEAN,
            missed : SUBSET NodeSet]

(* What Toxiproxy keeps of a proxy. *)
Proxy == [exists : BOOLEAN, enabled : BOOLEAN, toxics : SUBSET Toxics]

(* The bounds. *)
Bounded ==
  /\ used \in [commands : Nat, aborts : Nat, restarts : Nat]
  /\ used.commands =< MaxCommands /\ used.aborts =< MaxAborts /\ used.restarts =< MaxRestarts

(* Types and bounds: all of TypeOK, for the fields it leaves out too. *)
Types ==
  /\ proxy \in [NodeSet -> Proxy]
  /\ cmd \in [Slots -> Command]
  /\ Bounded

(* A proxy that is not there has no toxics. *)
GoneIsBare == \A n \in NodeSet : ~proxy[n].exists => proxy[n].toxics = {}

(* Which calls belong to which command. *)
CallsOf(c) ==
  /\ cmd[c].at = "proxies" => cmd[c].kind = "clear-all"
  /\ cmd[c].at \in {"disable", "add"} => cmd[c].kind = "inject"
  /\ cmd[c].at = "add" => cmd[c].fault \in Faults
  /\ cmd[c].at \in {"up", "down"} => cmd[c].kind = "regional"
  /\ cmd[c].at \in {"enable", "list", "remove"} => cmd[c].kind \in {"clear", "clear-all"}
  /\ cmd[c].at = "create" => cmd[c].kind = "setup"
  /\ cmd[c].kind \in {"inject", "clear"} => cmd[c].todo = {}
  /\ cmd[c].kind = "inject" => cmd[c].fault \in Faults \cup {"partition"}

(* If node n is partitioned, or has toxics, that came while command c ran. *)
CutIsNewer(c, n) == (proxy[n].exists /\ ~proxy[n].enabled) => <<n, "partition">> \in cmd[c].newer
Clean(c, n) == (\A t \in proxy[n].toxics : <<n, t>> \in cmd[c].newer) /\ CutIsNewer(c, n)

(* The nodes a command works on. *)
Scope(c) == IF cmd[c].kind = "clear" THEN {cmd[c].node} ELSE NodeSet

(* The nodes a command is through with. *)
Behind(c) ==
  IF cmd[c].at = "ok" THEN Scope(c)
  ELSE IF cmd[c].at \in Working THEN Scope(c) \ (cmd[c].todo \cup {cmd[c].node})
  ELSE {}

(* What a command owes to a node it is through with. *)
DoneWith(c, n) ==
  /\ (cmd[c].kind \in {"clear", "clear-all"} /\ n \in Cleared(c)) => Clean(c, n)
  /\ (cmd[c].kind = "regional" /\ cmd[c].alone) => Baseline \subseteq proxy[n].toxics
  /\ (cmd[c].kind = "setup" /\ cmd[c].alone) => proxy[n].exists

(* What it has done to the node it works on, call by call: the node is enabled
   once it was saved, it has no toxics but the listed ones and newer ones, and the
   first half of the baseline is there before the second is posted. *)
AtNode(c) ==
  /\ (cmd[c].at \in {"list", "remove"} /\ cmd[c].node \in Cleared(c)) => CutIsNewer(c, cmd[c].node)
  /\ (cmd[c].at = "remove" /\ cmd[c].node \in Cleared(c)) =>
       \A t \in proxy[cmd[c].node].toxics : t \in cmd[c].names \/ <<cmd[c].node, t>> \in cmd[c].newer
  /\ (cmd[c].at = "down" /\ cmd[c].alone) => "regional-up" \in proxy[cmd[c].node].toxics

(* The part of the invariant that speaks of one command. *)
CommandInv(c) == CallsOf(c) /\ AtNode(c) /\ \A n \in Behind(c) : DoneWith(c, n)

(* A command that was alone all the time still is. *)
AloneInv ==
  \A c, d \in Slots : (cmd[c].alone /\ cmd[c].at # "idle" /\ d # c) => cmd[d].at = "idle"

(* The inductive invariant. *)
IndInv == Types /\ GoneIsBare /\ AloneInv /\ \A c \in Slots : CommandInv(c)

-----------------------------------------------------------------------------
(* The operators of the model.                                              *)

(* Min picks a member. *)
LEMMA MinIn ==
  ASSUME NEW S \in SUBSET NodeSet, S # {} PROVE Min(S) \in S
<1>1. S \subseteq Nat
  BY NodesAssumption DEF NodeSet
<1>2. \E R : IsWellFoundedOn(R, Nat) /\ R = {x \in Nat \X Nat : x[1] < x[2]}
  BY NatLessThanWellFounded, Zenon DEF OpToRel
<1>3. PICK R : IsWellFoundedOn(R, Nat) /\ R = {x \in Nat \X Nat : x[1] < x[2]}
  BY <1>2
<1>4. PICK x \in S : \A y \in S : ~ (<<y, x>> \in R)
  BY <1>1, <1>3, WFMin
<1>5. ASSUME NEW y \in S PROVE x =< y
  <2>1. x \in Nat /\ y \in Nat
    BY <1>1
  <2>2. ~ (y < x)
    BY <1>3, <1>4, <2>1
  <2>. QED  BY <2>1, <2>2
<1>. QED  BY <1>5 DEF Min

(* A command moves on to another call and keeps the rest. *)
LEMMA AtUpdate ==
  ASSUME NEW y \in Command, NEW a \in Places, NEW z, z = [y EXCEPT !.at = a]
  PROVE  /\ z \in Command /\ z.at = a /\ z.kind = y.kind /\ z.node = y.node /\ z.todo = y.todo
         /\ z.fault = y.fault /\ z.names = y.names /\ z.newer = y.newer /\ z.alone = y.alone
         /\ z.missed = y.missed
  BY DEF Command

(* A command learns of an injection. *)
LEMMA NewerUpdate ==
  ASSUME NEW y \in Command, NEW x \in NodeSet \X (Toxics \cup {"partition"}),
         NEW z, z = [y EXCEPT !.newer = @ \cup {x}]
  PROVE  /\ z \in Command /\ z.at = y.at /\ z.kind = y.kind /\ z.node = y.node /\ z.todo = y.todo
         /\ z.fault = y.fault /\ z.names = y.names /\ z.newer = y.newer \cup {x} /\ z.alone = y.alone
         /\ z.missed = y.missed
  BY DEF Command

(* A command learns that it is not alone. *)
LEMMA AloneUpdate ==
  ASSUME NEW y \in Command, NEW z, z = [y EXCEPT !.alone = FALSE]
  PROVE  /\ z \in Command /\ z.at = y.at /\ z.kind = y.kind /\ z.node = y.node /\ z.todo = y.todo
         /\ z.fault = y.fault /\ z.names = y.names /\ z.newer = y.newer /\ ~z.alone
         /\ z.missed = y.missed
  BY DEF Command

(* A command has other toxics left to remove. *)
LEMMA NamesUpdate ==
  ASSUME NEW y \in Command, NEW S \in SUBSET Toxics, NEW z, z = [y EXCEPT !.names = S]
  PROVE  /\ z \in Command /\ z.at = y.at /\ z.kind = y.kind /\ z.node = y.node /\ z.todo = y.todo
         /\ z.fault = y.fault /\ z.names = S /\ z.newer = y.newer /\ z.alone = y.alone
         /\ z.missed = y.missed
  BY DEF Command

(* AfterNode ends the command with its last node, and otherwise goes on with one
   of the nodes left. *)
LEMMA AfterNodeDoes ==
  ASSUME NEW c \in Slots, cmd[c] \in Command, NEW z, z = AfterNode(c)
  PROVE  /\ z \in Command /\ z.kind = cmd[c].kind /\ z.fault = cmd[c].fault
         /\ z.names = cmd[c].names /\ z.newer = cmd[c].newer /\ z.alone = cmd[c].alone
         /\ z.missed = cmd[c].missed
         /\ \/ cmd[c].todo = {} /\ z.at = "ok" /\ z.node = cmd[c].node /\ z.todo = {}
            \/ /\ cmd[c].todo # {} /\ z.at = "get" /\ z.node \in cmd[c].todo
               /\ z.todo = cmd[c].todo \ {z.node}
<1>1. CASE cmd[c].todo = {}
  BY <1>1, AtUpdate DEF AfterNode, Done, Places
<1>2. CASE cmd[c].todo # {}
  <2> DEFINE m == Min(cmd[c].todo)
  <2>1. m \in cmd[c].todo /\ cmd[c].todo \in SUBSET NodeSet
    BY <1>2, MinIn DEF Command
  <2> HIDE DEF m
  <2>2. z = [cmd[c] EXCEPT !.at = "get", !.node = m, !.todo = cmd[c].todo \ {m}]
    BY <1>2 DEF AfterNode, m
  <2>. QED  BY <1>2, <2>1, <2>2 DEF Command, Places, Working
<1>. QED  BY <1>1, <1>2

-----------------------------------------------------------------------------
(* A step of one command, and the others.                                   *)

(* What one call may do to the proxies behind another command's back: what it
   injects is newer to that command. *)
Noticed(d) ==
  \A n \in NodeSet :
    /\ \A t \in proxy'[n].toxics : t \in proxy[n].toxics \/ <<n, t>> \in cmd'[d].newer
    /\ (proxy'[n].exists /\ ~proxy'[n].enabled) =>
         (proxy[n].exists /\ ~proxy[n].enabled) \/ <<n, "partition">> \in cmd'[d].newer

(* Command d stays where it is. *)
Stays(d) ==
  /\ cmd'[d].kind = cmd[d].kind /\ cmd'[d].at = cmd[d].at /\ cmd'[d].node = cmd[d].node
  /\ cmd'[d].todo = cmd[d].todo /\ cmd'[d].fault = cmd[d].fault /\ cmd'[d].names = cmd[d].names
  /\ cmd'[d].missed = cmd[d].missed
  /\ cmd[d].newer \subseteq cmd'[d].newer
  /\ cmd'[d].at # "idle" => Noticed(d) /\ ~cmd'[d].alone

(* What one command does leaves what another has achieved, since everything that
   could undo it is newer to that one. *)
LEMMA OthersKeep ==
  ASSUME Types, NEW d \in Slots, CommandInv(d), Stays(d) PROVE CommandInv(d)'
<1>1. CallsOf(d)'
  BY DEF CommandInv, CallsOf, Stays
<1>2. CASE cmd[d].at = "idle"
  BY <1>1, <1>2 DEF CommandInv, AtNode, Behind, Stays, Working
<1>3. CASE cmd[d].at # "idle"
  <2>1. Noticed(d) /\ ~cmd'[d].alone
    BY <1>3 DEF Stays
  <2>2. cmd[d].node \in NodeSet /\ Behind(d) \subseteq NodeSet
    BY DEF Types, Command, Behind, Scope
  <2>3. Behind(d)' = Behind(d) /\ Cleared(d)' = Cleared(d)
    BY DEF Stays, Behind, Scope, Cleared
  <2>4. ASSUME NEW n \in NodeSet, CutIsNewer(d, n) PROVE CutIsNewer(d, n)'
    BY <2>1, <2>4 DEF CutIsNewer, Noticed, Stays
  <2>5. ASSUME NEW n \in Behind(d) PROVE DoneWith(d, n)'
    <3>1. DoneWith(d, n) /\ n \in NodeSet
      BY <2>2 DEF CommandInv
    <3>2. Clean(d, n) => Clean(d, n)'
      BY <2>1, <2>4, <3>1 DEF Clean, Noticed, Stays
    <3>. QED  BY <2>1, <2>3, <3>1, <3>2 DEF DoneWith, Stays
  <2>6. AtNode(d)'
    <3>1. AtNode(d)
      BY DEF CommandInv
    <3>2. (cmd'[d].at \in {"list", "remove"} /\ cmd[d].node \in Cleared(d)) => CutIsNewer(d, cmd[d].node)'
      BY <2>2, <2>4, <3>1 DEF AtNode, Stays
    <3>3. ASSUME cmd'[d].at = "remove", cmd[d].node \in Cleared(d), NEW t \in proxy'[cmd[d].node].toxics
          PROVE  t \in cmd'[d].names \/ <<cmd[d].node, t>> \in cmd'[d].newer
      BY <2>1, <2>2, <3>1, <3>3 DEF AtNode, Stays, Noticed
    <3>. QED  BY <2>1, <2>3, <3>2, <3>3 DEF AtNode, Stays, CutIsNewer
  <2>. QED  BY <1>1, <2>3, <2>5, <2>6 DEF CommandInv
<1>. QED  BY <1>2, <1>3

(* A call that injects nothing. *)
Shrinks ==
  \A n \in NodeSet :
    /\ proxy'[n].toxics \subseteq proxy[n].toxics
    /\ (proxy'[n].exists /\ ~proxy'[n].enabled) => (proxy[n].exists /\ ~proxy[n].enabled)

(* A call that injects x. *)
Injects(x) ==
  \A n \in NodeSet :
    /\ \A t \in proxy'[n].toxics : t \in proxy[n].toxics \/ <<n, t>> = x
    /\ (proxy'[n].exists /\ ~proxy'[n].enabled) =>
         (proxy[n].exists /\ ~proxy[n].enabled) \/ <<n, "partition">> = x

(* A call that injects nothing leaves the other commands where they are. *)
LEMMA SetKeepsOthers ==
  ASSUME IndInv, NEW c \in Slots, cmd[c].at # "idle", NEW new, Set(c, new), Shrinks,
         NEW d \in Slots, d # c
  PROVE  Stays(d) /\ cmd'[d] \in Command /\ cmd'[c] = new
<1>1. cmd'[d] = cmd[d] /\ cmd[d] \in Command /\ cmd'[c] = new
  BY DEF Set, IndInv, Types
<1>2. cmd[d].at # "idle" => ~cmd[d].alone
  BY DEF IndInv, AloneInv
<1>3. Noticed(d)
  BY DEF Noticed, Shrinks
<1>. QED  BY <1>1, <1>2, <1>3 DEF Stays

(* So does one that injects something. *)
LEMMA SawKeepsOthers ==
  ASSUME IndInv, NEW c \in Slots, cmd[c].at # "idle", NEW new,
         NEW x \in NodeSet \X (Toxics \cup {"partition"}), Saw(c, x, new), Injects(x),
         NEW d \in Slots, d # c
  PROVE  Stays(d) /\ cmd'[d] \in Command
<1>1. cmd[d] \in Command
  BY DEF IndInv, Types
<1>2. cmd[d].at # "idle" => ~cmd[d].alone
  BY DEF IndInv, AloneInv
<1>3. CASE cmd[d].at = "idle"
  <2>1. cmd'[d] = cmd[d]
    BY <1>3 DEF Saw
  <2>. QED  BY <1>1, <1>3, <2>1 DEF Stays
<1>4. CASE cmd[d].at # "idle"
  <2>1. cmd'[d] = [cmd[d] EXCEPT !.newer = @ \cup {x}]
    BY <1>4 DEF Saw
  <2>2. /\ cmd'[d] \in Command /\ cmd'[d].at = cmd[d].at /\ cmd'[d].kind = cmd[d].kind
        /\ cmd'[d].node = cmd[d].node /\ cmd'[d].todo = cmd[d].todo /\ cmd'[d].fault = cmd[d].fault
        /\ cmd'[d].names = cmd[d].names /\ cmd'[d].newer = cmd[d].newer \cup {x}
        /\ cmd'[d].alone = cmd[d].alone /\ cmd'[d].missed = cmd[d].missed
    BY <1>1, <2>1, NewerUpdate
  <2>3. Noticed(d)
    BY <2>2 DEF Noticed, Injects
  <2>. QED  BY <1>2, <1>4, <2>2, <2>3 DEF Stays
<1>. QED  BY <1>3, <1>4

(* The conjuncts of the invariant, put together for a step of command c. *)
LEMMA StepOfOne ==
  ASSUME IndInv, NEW c \in Slots, DOMAIN cmd' = Slots, cmd' = [d \in Slots |-> cmd'[d]],
         cmd'[c] \in Command, CommandInv(c)',
         cmd'[c].at # "idle" /\ cmd'[c].alone => \A d \in Slots \ {c} : cmd[d].at = "idle",
         \A d \in Slots \ {c} : Stays(d) /\ cmd'[d] \in Command,
         proxy' \in [NodeSet -> Proxy], GoneIsBare', Bounded'
  PROVE  IndInv'
<1>1. Types'
  BY DEF Types
<1>2. AloneInv'
  <2> SUFFICES ASSUME NEW a \in Slots, NEW b \in Slots, cmd'[a].alone, cmd'[a].at # "idle", b # a
               PROVE  cmd'[b].at = "idle"
    BY DEF AloneInv
  <2>1. a = c
    BY DEF Stays
  <2>. QED  BY <2>1 DEF Stays
<1>3. ASSUME NEW d \in Slots PROVE CommandInv(d)'
  BY OthersKeep DEF IndInv
<1>. QED  BY <1>1, <1>2, <1>3 DEF IndInv

(* What a command has done to the nodes behind it stays done. *)
LEMMA OwnKeeps ==
  ASSUME IndInv, NEW c \in Slots, CallsOf(c)', AtNode(c)',
         cmd'[c].kind = cmd[c].kind, cmd'[c].alone = cmd[c].alone, cmd'[c].newer = cmd[c].newer,
         Cleared(c)' \subseteq Cleared(c),
         \A n \in Behind(c)' : (n \in Behind(c) /\ proxy'[n] = proxy[n]) \/ DoneWith(c, n)'
  PROVE  CommandInv(c)'
<1>1. ASSUME NEW n \in Behind(c), proxy'[n] = proxy[n] PROVE DoneWith(c, n)'
  <2>1. DoneWith(c, n)
    BY DEF IndInv, CommandInv
  <2>. QED  BY <1>1, <2>1 DEF DoneWith, Clean, CutIsNewer
<1>. QED  BY <1>1 DEF CommandInv

(* A command that fails or goes away owes nothing. *)
LEMMA OverAndOut ==
  ASSUME NEW c \in Slots, CallsOf(c)', cmd'[c].at \in {"err", "idle", "disable", "add", "proxies"}
  PROVE  CommandInv(c)'
  BY DEF CommandInv, AtNode, Behind, Working

(* The command goes on to the next node, or is through. *)
LEMMA GoesOn ==
  ASSUME IndInv, NEW c \in Slots, cmd[c].at \in Working, cmd'[c] = AfterNode(c),
         \A n \in NodeSet \ {cmd[c].node} : proxy'[n] = proxy[n],
         \A n \in {cmd[c].node} : DoneWith(c, n)'
  PROVE  CommandInv(c)' /\ cmd'[c] \in Command /\ cmd'[c].alone = cmd[c].alone
<1>0. cmd[c] \in Command
  BY DEF IndInv, Types
<1>1. /\ cmd'[c] \in Command /\ cmd'[c].kind = cmd[c].kind /\ cmd'[c].fault = cmd[c].fault
      /\ cmd'[c].names = cmd[c].names /\ cmd'[c].newer = cmd[c].newer
      /\ cmd'[c].alone = cmd[c].alone /\ cmd'[c].missed = cmd[c].missed
      /\ \/ /\ cmd[c].todo = {} /\ cmd'[c].at = "ok" /\ cmd'[c].node = cmd[c].node
            /\ cmd'[c].todo = {}
         \/ /\ cmd[c].todo # {} /\ cmd'[c].at = "get" /\ cmd'[c].node \in cmd[c].todo
            /\ cmd'[c].todo = cmd[c].todo \ {cmd'[c].node}
  BY <1>0, AfterNodeDoes
<1>2. CallsOf(c)'
  BY <1>1 DEF IndInv, CommandInv, CallsOf
<1>3. AtNode(c)'
  BY <1>1 DEF AtNode
<1>4. Behind(c)' \subseteq Behind(c) \cup {cmd[c].node}
  <2>1. Behind(c) = Scope(c) \ (cmd[c].todo \cup {cmd[c].node})
    BY DEF Behind, Working
  <2>2. CASE cmd[c].todo = {}
    <3>1. Behind(c)' = Scope(c)
      BY <1>1, <2>2 DEF Behind, Scope
    <3>. QED  BY <2>1, <2>2, <3>1
  <2>3. CASE cmd[c].todo # {}
    <3>1. cmd[c].kind # "clear"
      BY <2>3 DEF IndInv, CommandInv, CallsOf
    <3>2. Behind(c)' = NodeSet \ (cmd'[c].todo \cup {cmd'[c].node})
      BY <1>1, <2>3, <3>1 DEF Behind, Scope, Working
    <3>3. Scope(c) = NodeSet
      BY <3>1 DEF Scope
    <3>. QED  BY <1>1, <2>1, <2>3, <3>2, <3>3
  <2>. QED  BY <2>2, <2>3
<1>5. \A n \in Behind(c) : proxy'[n] = proxy[n]
  BY <1>0 DEF Behind, Scope, Command, Working
<1>6. Cleared(c)' = Cleared(c)
  <2>1. cmd[c].kind = "clear" => cmd'[c].node = cmd[c].node
    BY <1>1 DEF IndInv, CommandInv, CallsOf
  <2>. QED  BY <1>1, <2>1 DEF Cleared
<1>. QED  BY <1>1, <1>2, <1>3, <1>4, <1>5, <1>6, OwnKeeps

(* The command makes its next call for the same node. *)
LEMMA StaysAtNode ==
  ASSUME IndInv, NEW c \in Slots, cmd[c].at \in Working, cmd'[c].at \in Working,
         cmd'[c].kind = cmd[c].kind, cmd'[c].node = cmd[c].node, cmd'[c].todo = cmd[c].todo,
         cmd'[c].newer = cmd[c].newer, cmd'[c].alone = cmd[c].alone, cmd'[c].missed = cmd[c].missed,
         CallsOf(c)', AtNode(c)',
         \A n \in NodeSet \ {cmd[c].node} : proxy'[n] = proxy[n]
  PROVE  CommandInv(c)'
<1>1. Behind(c)' = Behind(c) /\ Cleared(c)' = Cleared(c)
  BY DEF Behind, Scope, Working, Cleared
<1>2. \A n \in Behind(c) : proxy'[n] = proxy[n]
  BY DEF Behind, Scope, Command, Working, IndInv, Types
<1>. QED  BY <1>1, <1>2, OwnKeeps

-----------------------------------------------------------------------------
(* The calls.                                                               *)

LEMMA StepThatSets ==
  ASSUME IndInv, NEW c \in Slots, cmd[c].at # "idle", NEW new, Set(c, new), new \in Command,
         new.at = "idle" \/ new.alone = cmd[c].alone, CommandInv(c)',
         Shrinks, proxy' \in [NodeSet -> Proxy], GoneIsBare', used' = used \/ Bounded'
  PROVE  IndInv'
<1>1. DOMAIN cmd' = Slots /\ cmd' = [d \in Slots |-> cmd'[d]] /\ cmd'[c] = new
  BY DEF Set, IndInv, Types
<1>2. \A d \in Slots \ {c} : Stays(d) /\ cmd'[d] \in Command
  BY SetKeepsOthers
<1>3. cmd'[c].at # "idle" /\ cmd'[c].alone => \A d \in Slots \ {c} : cmd[d].at = "idle"
  BY <1>1 DEF IndInv, AloneInv
<1>4. Bounded'
  BY DEF IndInv, Types, Bounded
<1>. QED  BY <1>1, <1>2, <1>3, <1>4, StepOfOne

(* A call that only reads. *)
LEMMA SameProxies ==
  ASSUME IndInv, proxy' = proxy
  PROVE  Shrinks /\ proxy' \in [NodeSet -> Proxy] /\ GoneIsBare'
  BY DEF IndInv, Types, Shrinks, GoneIsBare

(* A call that fails ends its command, unless the command ignores it. *)
LEMMA FailureStep ==
  ASSUME IndInv, NEW c \in Slots, cmd[c].at # "idle", Set(c, Failed(c)), proxy' = proxy,
         used' = used \/ Bounded'
  PROVE  IndInv'
<1>1. cmd'[c] = Failed(c) /\ cmd[c] \in Command
  BY DEF Set, IndInv, Types
<1>2. /\ Failed(c) \in Command /\ Failed(c).at = "err" /\ Failed(c).alone = cmd[c].alone
      /\ Failed(c).kind = cmd[c].kind /\ Failed(c).todo = cmd[c].todo /\ Failed(c).fault = cmd[c].fault
  BY <1>1, AtUpdate DEF Failed, Places
<1>3. CallsOf(c)'
  BY <1>1, <1>2 DEF CallsOf, IndInv, CommandInv
<1>4. CommandInv(c)'
  BY <1>1, <1>2, <1>3, OverAndOut
<1>. QED  BY <1>2, <1>4, SameProxies, StepThatSets

(* ClearAll asks for the proxies: the ones it does not get have no toxics. *)
LEMMA ListProxiesStep ==
  ASSUME IndInv, NEW c \in Slots, ListProxies(c) PROVE IndInv'
<1>0. cmd[c] \in Command /\ cmd[c].at = "proxies" /\ cmd[c].kind = "clear-all"
  BY DEF IndInv, Types, CommandInv, CallsOf, ListProxies
<1> DEFINE found == {n \in NodeSet : proxy[n].exists}
           new == IF found = {} THEN Done(c)
                  ELSE [cmd[c] EXCEPT !.at = "get", !.node = Min(found), !.todo = found \ {Min(found)}]
<1>1. Set(c, new) /\ proxy' = proxy /\ used' = used
  BY DEF ListProxies
<1>2. cmd'[c] = new
  BY <1>1 DEF Set, IndInv, Types
<1>3. /\ new \in Command /\ new.kind = "clear-all" /\ new.fault = cmd[c].fault
      /\ new.newer = cmd[c].newer /\ new.alone = cmd[c].alone
      /\ \/ found = {} /\ new.at = "ok"
         \/ new.at = "get" /\ new.node \in found /\ new.todo = found \ {new.node}
  <2>1. CASE found = {}
    <3>1. new = [cmd[c] EXCEPT !.at = "ok"]
      BY <2>1 DEF Done
    <3>. QED  BY <1>0, <2>1, <3>1, AtUpdate DEF Places
  <2>2. CASE found # {}
    <3>1. found \in SUBSET NodeSet
      OBVIOUS
    <3>2. Min(found) \in found
      BY <2>2, <3>1, MinIn
    <3> DEFINE m == Min(found)
    <3> HIDE DEF m
    <3>3. new = [cmd[c] EXCEPT !.at = "get", !.node = m, !.todo = found \ {m}] /\ m \in found
      BY <2>2, <3>2 DEF m
    <3> HIDE DEF found, new
    <3>4. m \in NodeSet /\ found \ {m} \in SUBSET NodeSet
      BY <3>1, <3>3
    <3>. QED  BY <1>0, <3>3, <3>4 DEF Command, Places, Working
  <2>. QED  BY <2>1, <2>2
<1> HIDE DEF new
<1>4. CallsOf(c)' /\ AtNode(c)'
  BY <1>0, <1>2, <1>3 DEF CallsOf, AtNode
<1>5. ASSUME NEW n \in Behind(c)' PROVE DoneWith(c, n)'
  <2>1. n \in NodeSet /\ n \notin found
    BY <1>2, <1>3, <1>5 DEF Behind, Scope, Working
  <2>2. ~proxy[n].exists /\ proxy[n].toxics = {}
    BY <2>1 DEF IndInv, GoneIsBare
  <2>3. Clean(c, n)'
    BY <1>1, <2>2 DEF Clean, CutIsNewer
  <2>. QED  BY <1>2, <1>3, <2>3 DEF DoneWith
<1>6. CommandInv(c)'
  BY <1>4, <1>5 DEF CommandInv
<1>. QED  BY <1>0, <1>1, <1>3, <1>6, SameProxies, StepThatSets

(* A call that only moves its command on to call a. *)
LEMMA Goes ==
  ASSUME IndInv, NEW c \in Slots, NEW a \in Places, Set(c, [cmd[c] EXCEPT !.at = a])
  PROVE  /\ cmd'[c] \in Command /\ cmd'[c].at = a /\ cmd'[c].kind = cmd[c].kind
         /\ cmd'[c].node = cmd[c].node /\ cmd'[c].todo = cmd[c].todo
         /\ cmd'[c].fault = cmd[c].fault /\ cmd'[c].names = cmd[c].names
         /\ cmd'[c].newer = cmd[c].newer /\ cmd'[c].alone = cmd[c].alone
         /\ cmd'[c].missed = cmd[c].missed
<1>1. cmd'[c] = [cmd[c] EXCEPT !.at = a] /\ cmd[c] \in Command
  BY DEF Set, IndInv, Types
<1>. QED  BY <1>1, AtUpdate

(* The command moves on to call a, for the whole invariant. *)
LEMMA GoesStep ==
  ASSUME IndInv, NEW c \in Slots, cmd[c].at \in Working, NEW a \in Places \ {"ok"},
         Set(c, [cmd[c] EXCEPT !.at = a]), used' = used \/ Bounded', CallsOf(c)', AtNode(c)',
         \A n \in NodeSet \ {cmd[c].node} : proxy'[n] = proxy[n],
         Shrinks, proxy' \in [NodeSet -> Proxy], GoneIsBare'
  PROVE  IndInv'
<1> DEFINE new == [cmd[c] EXCEPT !.at = a]
<1>1. /\ cmd'[c] \in Command /\ cmd'[c].at = a /\ cmd'[c].kind = cmd[c].kind
      /\ cmd'[c].node = cmd[c].node /\ cmd'[c].todo = cmd[c].todo
      /\ cmd'[c].newer = cmd[c].newer /\ cmd'[c].alone = cmd[c].alone
      /\ cmd'[c].missed = cmd[c].missed
  BY Goes
<1>2. cmd'[c] = new /\ Set(c, new)
  BY DEF Set, IndInv, Types
<1> HIDE DEF new
<1>3. CommandInv(c)'
  <2>1. CASE a \in Working
    BY <1>1, <2>1, StaysAtNode
  <2>2. CASE a \notin Working
    BY <1>1, <2>2, OverAndOut DEF Places
  <2>. QED  BY <2>1, <2>2
<1>4. cmd[c].at # "idle"
  BY DEF Working
<1>. QED  BY <1>1, <1>2, <1>3, <1>4, StepThatSets

(* The command is through with its node. *)
LEMMA NextNodeStep ==
  ASSUME IndInv, NEW c \in Slots, cmd[c].at \in Working, Set(c, AfterNode(c)), used' = used,
         \A n \in NodeSet \ {cmd[c].node} : proxy'[n] = proxy[n],
         \A n \in {cmd[c].node} : DoneWith(c, n)',
         Shrinks, proxy' \in [NodeSet -> Proxy], GoneIsBare'
  PROVE  IndInv'
<1>1. cmd'[c] = AfterNode(c)
  BY DEF Set, IndInv, Types
<1>2. CommandInv(c)' /\ cmd'[c] \in Command /\ cmd'[c].alone = cmd[c].alone
  BY <1>1, GoesOn
<1>3. cmd[c].at # "idle"
  BY DEF Working
<1>. QED  BY <1>1, <1>2, <1>3, StepThatSets

(* Every branch on the proxy that was read. *)
LEMMA GetProxyStep ==
  ASSUME IndInv, NEW c \in Slots, GetProxy(c) PROVE IndInv'
<1>0. /\ cmd[c] \in Command /\ cmd[c].at = "get" /\ cmd[c].at \in Working
      /\ proxy' = proxy /\ used' = used /\ CallsOf(c) /\ cmd[c].node \in NodeSet
  BY DEF IndInv, Types, Command, CommandInv, GetProxy, Working
<1>s. Shrinks /\ proxy' \in [NodeSet -> Proxy] /\ GoneIsBare'
  BY <1>0, SameProxies
<1> DEFINE p == proxy[cmd[c].node]
           k == cmd[c].kind
<1>1. CASE Set(c, Failed(c))
  BY <1>0, <1>1, FailureStep
<1>2. ASSUME NEW a \in Places \ {"ok"}, Set(c, [cmd[c] EXCEPT !.at = a]),
             \/ k = "setup" /\ a = "create"
             \/ k = "inject" /\ a = "disable"
             \/ k = "inject" /\ a = "add" /\ cmd[c].fault # "partition"
             \/ k \in {"clear", "clear-all"} /\ a = "enable"
             \/ k \in {"clear", "clear-all"} /\ a = "list" /\ p.enabled
             \/ k = "regional" /\ a = "up"
      PROVE  IndInv'
  <2>1. /\ cmd'[c].at = a /\ cmd'[c].kind = k /\ cmd'[c].todo = cmd[c].todo
        /\ cmd'[c].fault = cmd[c].fault /\ cmd'[c].node = cmd[c].node
    BY <1>2, Goes
  <2>2. CallsOf(c)'
    BY <1>0, <1>2, <2>1 DEF CallsOf
  <2>3. AtNode(c)'
    BY <1>0, <1>2, <2>1 DEF AtNode, CutIsNewer
  <2>. QED  BY <1>0, <1>s, <1>2, <2>2, <2>3, GoesStep
<1>3. CASE k = (IF p.exists THEN "setup" ELSE "clear-all") /\ Set(c, AfterNode(c))
  <2>1. ASSUME NEW n, n = cmd[c].node PROVE DoneWith(c, n)'
    <3>1. cmd'[c].kind = k
      BY <1>0, <1>3, AfterNodeDoes DEF Set, IndInv, Types
    <3>2. CASE p.exists
      BY <1>0, <1>3, <2>1, <3>1, <3>2 DEF DoneWith
    <3>3. CASE ~p.exists
      <4>1. p.toxics = {}
        BY <1>0, <3>3 DEF IndInv, GoneIsBare
      <4>. QED  BY <1>0, <1>3, <2>1, <3>1, <3>3, <4>1 DEF DoneWith, Clean, CutIsNewer
    <3>. QED  BY <3>2, <3>3
  <2>. QED  BY <1>0, <1>s, <1>3, <2>1, NextNodeStep
<1>4. \/ Set(c, Failed(c))
      \/ k = "setup" /\ Set(c, [cmd[c] EXCEPT !.at = "create"])
      \/ k = "inject" /\ cmd[c].fault = "partition" /\ Set(c, [cmd[c] EXCEPT !.at = "disable"])
      \/ k = "inject" /\ cmd[c].fault # "partition" /\ Set(c, [cmd[c] EXCEPT !.at = "add"])
      \/ k \in {"clear", "clear-all"} /\ p.enabled /\ Set(c, [cmd[c] EXCEPT !.at = "list"])
      \/ k \in {"clear", "clear-all"} /\ ~p.enabled /\ Set(c, [cmd[c] EXCEPT !.at = "enable"])
      \/ k = "regional" /\ Set(c, [cmd[c] EXCEPT !.at = "up"])
      \/ k = (IF p.exists THEN "setup" ELSE "clear-all") /\ Set(c, AfterNode(c))
  BY DEF GetProxy
<1>. QED  BY <1>1, <1>2, <1>3, <1>4 DEF Places, Working

(* A call that injects x, for the whole invariant. *)
LEMMA StepThatSaws ==
  ASSUME IndInv, NEW c \in Slots, cmd[c].at # "idle", NEW new, new \in Command,
         new.alone = cmd[c].alone, NEW x \in NodeSet \X (Toxics \cup {"partition"}), Saw(c, x, new),
         Injects(x), CommandInv(c)', proxy' \in [NodeSet -> Proxy], GoneIsBare', used' = used
  PROVE  IndInv'
<1>1. DOMAIN cmd' = Slots /\ cmd' = [d \in Slots |-> cmd'[d]] /\ cmd'[c] = new
  BY DEF Saw
<1>2. \A d \in Slots \ {c} : Stays(d) /\ cmd'[d] \in Command
  BY SawKeepsOthers
<1>3. cmd'[c].at # "idle" /\ cmd'[c].alone => \A d \in Slots \ {c} : cmd[d].at = "idle"
  BY <1>1 DEF IndInv, AloneInv
<1>4. Bounded'
  BY DEF IndInv, Types, Bounded
<1>. QED  BY <1>1, <1>2, <1>3, <1>4, StepOfOne

(* InjectFault with FaultPartition. *)
LEMMA PartitionStep ==
  ASSUME IndInv, NEW c \in Slots, Partition(c) PROVE IndInv'
<1>0. /\ cmd[c] \in Command /\ cmd[c].at = "disable" /\ used' = used /\ CallsOf(c)
      /\ cmd[c].node \in NodeSet /\ cmd[c].kind = "inject"
  BY DEF IndInv, Types, Command, CommandInv, CallsOf, Partition
<1>1. CASE ~proxy[cmd[c].node].exists
  BY <1>0, <1>1, FailureStep DEF Partition
<1>2. CASE proxy[cmd[c].node].exists
  <2>1. /\ proxy' = [proxy EXCEPT ![cmd[c].node].enabled = FALSE]
        /\ Saw(c, <<cmd[c].node, "partition">>, Done(c))
    BY <1>2 DEF Partition
  <2>2. proxy' \in [NodeSet -> Proxy]
    BY <1>0, <2>1 DEF IndInv, Types, Proxy
  <2>3. /\ \A n \in NodeSet : proxy'[n].toxics = proxy[n].toxics /\ proxy'[n].exists = proxy[n].exists
        /\ \A n \in NodeSet \ {cmd[c].node} : proxy'[n] = proxy[n]
    BY <1>0, <2>1 DEF IndInv, Types, Proxy
  <2>4. GoneIsBare' /\ Injects(<<cmd[c].node, "partition">>)
    BY <1>0, <2>3 DEF IndInv, GoneIsBare, Injects
  <2>5. /\ Done(c) \in Command /\ Done(c).alone = cmd[c].alone /\ Done(c).kind = "inject"
        /\ Done(c).at = "ok" /\ Done(c).todo = cmd[c].todo /\ Done(c).fault = cmd[c].fault
    BY <1>0, AtUpdate DEF Done, Places
  <2>6. cmd'[c] = Done(c)
    BY <2>1 DEF Saw
  <2>7. CommandInv(c)'
    BY <1>0, <2>5, <2>6 DEF CommandInv, CallsOf, AtNode, DoneWith
  <2>8. <<cmd[c].node, "partition">> \in NodeSet \X (Toxics \cup {"partition"})
    BY <1>0
  <2>. QED  BY <1>0, <2>1, <2>2, <2>4, <2>5, <2>7, <2>8, StepThatSaws
<1>. QED  BY <1>1, <1>2

(* A toxic that is posted is on its node, and everybody else knows it is newer. *)
LEMMA PostAdds ==
  ASSUME IndInv, NEW c \in Slots, NEW name \in Toxics, NEW after, Post(c, name, after),
         proxy[cmd[c].node].exists /\ name \notin proxy[cmd[c].node].toxics
  PROVE  /\ Saw(c, <<cmd[c].node, name>>, after)
         /\ cmd[c].node \in NodeSet
         /\ <<cmd[c].node, name>> \in NodeSet \X (Toxics \cup {"partition"})
         /\ Injects(<<cmd[c].node, name>>) /\ proxy' \in [NodeSet -> Proxy] /\ GoneIsBare'
         /\ proxy'[cmd[c].node].toxics = proxy[cmd[c].node].toxics \cup {name}
         /\ \A n \in NodeSet \ {cmd[c].node} : proxy'[n] = proxy[n]
         /\ cmd'[c] = after
<1>0. cmd[c].node \in NodeSet
  BY DEF IndInv, Types, Command
<1>1. /\ proxy' = [proxy EXCEPT ![cmd[c].node].toxics = @ \cup {name}]
      /\ Saw(c, <<cmd[c].node, name>>, after)
  BY DEF Post
<1>2. /\ \A n \in NodeSet \ {cmd[c].node} : proxy'[n] = proxy[n]
      /\ proxy'[cmd[c].node].toxics = proxy[cmd[c].node].toxics \cup {name}
      /\ proxy'[cmd[c].node].exists = proxy[cmd[c].node].exists
      /\ proxy'[cmd[c].node].enabled = proxy[cmd[c].node].enabled
  BY <1>0, <1>1 DEF IndInv, Types, Proxy
<1>3. proxy' \in [NodeSet -> Proxy]
  BY <1>0, <1>1 DEF IndInv, Types, Proxy
<1>4. GoneIsBare'
  BY <1>2 DEF IndInv, GoneIsBare
<1>5. Injects(<<cmd[c].node, name>>)
  BY <1>2 DEF Injects
<1>6. cmd'[c] = after
  BY <1>1 DEF Saw
<1>. QED  BY <1>0, <1>1, <1>2, <1>3, <1>4, <1>5, <1>6

(* The toxic is there already, or the proxy is not. *)
LEMMA PostFails ==
  ASSUME IndInv, NEW c \in Slots, cmd[c].at # "idle", NEW name, NEW after, Post(c, name, after),
         ~(proxy[cmd[c].node].exists /\ name \notin proxy[cmd[c].node].toxics)
  PROVE  IndInv'
  BY FailureStep DEF Post

(* InjectFault with a toxic. *)
LEMMA AddToxicStep ==
  ASSUME IndInv, NEW c \in Slots, AddToxic(c) PROVE IndInv'
<1>0. /\ cmd[c] \in Command /\ cmd[c].at = "add" /\ used' = used /\ CallsOf(c)
      /\ cmd[c].kind = "inject" /\ cmd[c].fault \in Toxics /\ Post(c, cmd[c].fault, Done(c))
  BY DEF IndInv, Types, CommandInv, CallsOf, AddToxic, Post, Toxics
<1>1. CASE ~(proxy[cmd[c].node].exists /\ cmd[c].fault \notin proxy[cmd[c].node].toxics)
  BY <1>0, <1>1, PostFails
<1>2. CASE proxy[cmd[c].node].exists /\ cmd[c].fault \notin proxy[cmd[c].node].toxics
  <2>1. PICK name : name = cmd[c].fault
    OBVIOUS
  <2>2. /\ Saw(c, <<cmd[c].node, name>>, Done(c)) /\ cmd'[c] = Done(c)
        /\ <<cmd[c].node, name>> \in NodeSet \X (Toxics \cup {"partition"})
        /\ Injects(<<cmd[c].node, name>>) /\ proxy' \in [NodeSet -> Proxy] /\ GoneIsBare'
    BY <1>0, <1>2, <2>1, PostAdds
  <2>3. /\ Done(c) \in Command /\ Done(c).alone = cmd[c].alone /\ Done(c).kind = "inject"
        /\ Done(c).at = "ok" /\ Done(c).todo = cmd[c].todo /\ Done(c).fault = cmd[c].fault
    BY <1>0, AtUpdate DEF Done, Places
  <2>4. CommandInv(c)'
    BY <1>0, <2>2, <2>3 DEF CommandInv, CallsOf, AtNode, DoneWith
  <2>. QED  BY <1>0, <2>2, <2>3, <2>4, StepThatSaws
<1>. QED  BY <1>1, <1>2

(* The first half of the baseline. *)
LEMMA LatencyUpStep ==
  ASSUME IndInv, NEW c \in Slots, LatencyUp(c) PROVE IndInv'
<1> DEFINE after == [cmd[c] EXCEPT !.at = "down"]
<1>0. /\ cmd[c] \in Command /\ cmd[c].at = "up" /\ used' = used /\ CallsOf(c)
      /\ cmd[c].kind = "regional" /\ "regional-up" \in Toxics /\ Post(c, "regional-up", after)
  BY DEF IndInv, Types, CommandInv, CallsOf, LatencyUp, Post, Toxics, Baseline
<1>a. /\ after \in Command /\ after.at = "down" /\ after.kind = "regional"
      /\ after.node = cmd[c].node /\ after.todo = cmd[c].todo /\ after.fault = cmd[c].fault
      /\ after.newer = cmd[c].newer /\ after.alone = cmd[c].alone /\ after.missed = cmd[c].missed
  BY <1>0, AtUpdate DEF Places, Working
<1> HIDE DEF after
<1>1. CASE ~(proxy[cmd[c].node].exists /\ "regional-up" \notin proxy[cmd[c].node].toxics)
  BY <1>0, <1>1, PostFails
<1>2. CASE proxy[cmd[c].node].exists /\ "regional-up" \notin proxy[cmd[c].node].toxics
  <2>1. /\ Saw(c, <<cmd[c].node, "regional-up">>, after) /\ cmd'[c] = after
        /\ <<cmd[c].node, "regional-up">> \in NodeSet \X (Toxics \cup {"partition"})
        /\ Injects(<<cmd[c].node, "regional-up">>) /\ proxy' \in [NodeSet -> Proxy] /\ GoneIsBare'
        /\ proxy'[cmd[c].node].toxics = proxy[cmd[c].node].toxics \cup {"regional-up"}
        /\ \A n \in NodeSet \ {cmd[c].node} : proxy'[n] = proxy[n]
    BY <1>0, <1>2, PostAdds
  <2>2. CallsOf(c)' /\ AtNode(c)'
    BY <1>0, <1>a, <2>1 DEF CallsOf, AtNode
  <2>3. CommandInv(c)'
    BY <1>0, <1>a, <2>1, <2>2, StaysAtNode DEF Working
  <2>. QED  BY <1>0, <1>a, <2>1, <2>3, StepThatSaws
<1>. QED  BY <1>1, <1>2

(* The second half, after which the node has both. *)
LEMMA LatencyDownStep ==
  ASSUME IndInv, NEW c \in Slots, LatencyDown(c) PROVE IndInv'
<1>0. /\ cmd[c] \in Command /\ cmd[c].at = "down" /\ cmd[c].at \in Working /\ used' = used
      /\ CallsOf(c) /\ AtNode(c)
      /\ cmd[c].kind = "regional" /\ "regional-down" \in Toxics /\ Post(c, "regional-down", AfterNode(c))
  BY DEF IndInv, Types, CommandInv, CallsOf, LatencyDown, Post, Toxics, Baseline, Working
<1>1. CASE ~(proxy[cmd[c].node].exists /\ "regional-down" \notin proxy[cmd[c].node].toxics)
  BY <1>0, <1>1, PostFails
<1>2. CASE proxy[cmd[c].node].exists /\ "regional-down" \notin proxy[cmd[c].node].toxics
  <2>1. /\ Saw(c, <<cmd[c].node, "regional-down">>, AfterNode(c)) /\ cmd'[c] = AfterNode(c)
        /\ <<cmd[c].node, "regional-down">> \in NodeSet \X (Toxics \cup {"partition"})
        /\ Injects(<<cmd[c].node, "regional-down">>) /\ proxy' \in [NodeSet -> Proxy] /\ GoneIsBare'
        /\ proxy'[cmd[c].node].toxics = proxy[cmd[c].node].toxics \cup {"regional-down"}
        /\ \A n \in NodeSet \ {cmd[c].node} : proxy'[n] = proxy[n]
    BY <1>0, <1>2, PostAdds
  <2>2. cmd'[c].kind = "regional" /\ cmd'[c].alone = cmd[c].alone
    BY <1>0, <2>1, AfterNodeDoes
  <2>3. ASSUME NEW n, n = cmd[c].node PROVE DoneWith(c, n)'
    BY <1>0, <2>1, <2>2, <2>3 DEF DoneWith, AtNode, Baseline
  <2>4. CommandInv(c)' /\ cmd'[c] \in Command /\ cmd'[c].alone = cmd[c].alone
    BY <1>0, <2>1, <2>3, GoesOn
  <2>. QED  BY <1>0, <2>1, <2>4, StepThatSaws
<1>. QED  BY <1>1, <1>2

(* The proxy is enabled again, or gone. *)
LEMMA EnableStep ==
  ASSUME IndInv, NEW c \in Slots, Enable(c) PROVE IndInv'
<1>0. /\ cmd[c] \in Command /\ cmd[c].at = "enable" /\ cmd[c].at \in Working /\ used' = used
      /\ CallsOf(c) /\ cmd[c].node \in NodeSet /\ cmd[c].kind \in {"clear", "clear-all"}
  BY DEF IndInv, Types, Command, CommandInv, CallsOf, Enable, Working
<1>1. ASSUME Set(c, [cmd[c] EXCEPT !.at = "list"]), Shrinks, proxy' \in [NodeSet -> Proxy], GoneIsBare',
             \A n \in NodeSet \ {cmd[c].node} : proxy'[n] = proxy[n],
             ~proxy'[cmd[c].node].exists \/ proxy'[cmd[c].node].enabled
      PROVE  IndInv'
  <2>0. "list" \in Places \ {"ok"}
    BY DEF Places, Working
  <2>1. /\ cmd'[c].at = "list" /\ cmd'[c].kind = cmd[c].kind /\ cmd'[c].todo = cmd[c].todo
        /\ cmd'[c].node = cmd[c].node /\ cmd'[c].fault = cmd[c].fault
    BY <1>1, <2>0, Goes
  <2>2. CallsOf(c)' /\ AtNode(c)'
    BY <1>0, <1>1, <2>1 DEF CallsOf, AtNode, CutIsNewer
  <2>. QED  BY <1>0, <1>1, <2>0, <2>2, GoesStep
<1>2. CASE proxy[cmd[c].node].exists
  <2>1. proxy' = [proxy EXCEPT ![cmd[c].node].enabled = TRUE] /\ Set(c, [cmd[c] EXCEPT !.at = "list"])
    BY <1>2 DEF Enable
  <2>2. /\ proxy' \in [NodeSet -> Proxy] /\ proxy'[cmd[c].node].enabled
        /\ \A n \in NodeSet \ {cmd[c].node} : proxy'[n] = proxy[n]
        /\ \A n \in NodeSet : proxy'[n].toxics = proxy[n].toxics /\ proxy'[n].exists = proxy[n].exists
    BY <1>0, <2>1 DEF IndInv, Types, Proxy
  <2>3. GoneIsBare' /\ Shrinks
    BY <2>2 DEF IndInv, GoneIsBare, Shrinks
  <2>. QED  BY <1>1, <2>1, <2>2, <2>3
<1>3. CASE ~proxy[cmd[c].node].exists
  <2>1. proxy' = proxy /\ (Set(c, Failed(c)) \/ Set(c, [cmd[c] EXCEPT !.at = "list"]))
    BY <1>3 DEF Enable
  <2>2. Shrinks /\ proxy' \in [NodeSet -> Proxy] /\ GoneIsBare'
    BY <2>1, SameProxies
  <2>3. CASE Set(c, Failed(c))
    BY <1>0, <2>1, <2>3, FailureStep
  <2>4. CASE Set(c, [cmd[c] EXCEPT !.at = "list"])
    BY <1>1, <1>3, <2>1, <2>2, <2>4
  <2>. QED  BY <2>1, <2>3, <2>4
<1>. QED  BY <1>2, <1>3

(* From here on only newer toxics are missing from the list. *)
LEMMA ListToxicsStep ==
  ASSUME IndInv, NEW c \in Slots, ListToxics(c) PROVE IndInv'
<1>0. /\ cmd[c] \in Command /\ cmd[c].at = "list" /\ cmd[c].at \in Working /\ used' = used
      /\ proxy' = proxy /\ CallsOf(c) /\ AtNode(c)
      /\ cmd[c].node \in NodeSet /\ proxy[cmd[c].node].toxics \in SUBSET Toxics
  BY DEF IndInv, Types, Command, Proxy, CommandInv, ListToxics, Working
<1>s. Shrinks /\ proxy' \in [NodeSet -> Proxy] /\ GoneIsBare'
  BY <1>0, SameProxies
<1>1. CASE Set(c, Failed(c))
  BY <1>0, <1>1, FailureStep
<1> DEFINE new == [cmd[c] EXCEPT !.at = "remove", !.names = proxy[cmd[c].node].toxics]
<1>2. CASE Set(c, new)
  <2>1. /\ new \in Command /\ new.at = "remove" /\ new.kind = cmd[c].kind /\ new.node = cmd[c].node
        /\ new.todo = cmd[c].todo /\ new.fault = cmd[c].fault /\ new.newer = cmd[c].newer
        /\ new.alone = cmd[c].alone /\ new.names = proxy[cmd[c].node].toxics
        /\ new.missed = cmd[c].missed
    BY <1>0 DEF Command, Places, Working
  <2> HIDE DEF new
  <2>2. cmd'[c] = new
    BY <1>2 DEF Set, IndInv, Types
  <2>3. CallsOf(c)' /\ AtNode(c)'
    BY <1>0, <2>1, <2>2 DEF CallsOf, AtNode, CutIsNewer, Cleared
  <2>4. CommandInv(c)'
    BY <1>0, <2>1, <2>2, <2>3, StaysAtNode DEF Working
  <2>. QED  BY <1>0, <1>s, <1>2, <2>1, <2>4, StepThatSets
<1>3. Set(c, Failed(c)) \/ Set(c, new)
  BY DEF ListToxics
<1>. QED  BY <1>1, <1>2, <1>3

(* A toxic leaves the list when it is off the proxy, whoever took it off. *)
LEMMA RemoveToxicStep ==
  ASSUME IndInv, NEW c \in Slots, RemoveToxic(c) PROVE IndInv'
<1>0. /\ cmd[c] \in Command /\ cmd[c].at = "remove" /\ cmd[c].at \in Working /\ used' = used
      /\ CallsOf(c) /\ AtNode(c) /\ cmd[c].node \in NodeSet /\ cmd[c].names \in SUBSET Toxics
  BY DEF IndInv, Types, Command, CommandInv, RemoveToxic, Working
<1>1. PICK t \in cmd[c].names :
        LET n == cmd[c].node IN
        IF t \in proxy[n].toxics
        THEN /\ proxy' = [proxy EXCEPT ![n].toxics = @ \ {t}]
             /\ Set(c, [cmd[c] EXCEPT !.names = @ \ {t}])
        ELSE /\ UNCHANGED proxy
             /\ Set(c, IF cmd[c].kind = "clear" THEN Failed(c) ELSE [cmd[c] EXCEPT !.names = @ \ {t}])
  BY DEF RemoveToxic
<1> DEFINE new == [cmd[c] EXCEPT !.names = @ \ {t}]
<1>2. ASSUME Set(c, new), Shrinks, proxy' \in [NodeSet -> Proxy], GoneIsBare',
             \A n \in NodeSet \ {cmd[c].node} : proxy'[n] = proxy[n],
             proxy'[cmd[c].node].toxics = proxy[cmd[c].node].toxics \ {t}
      PROVE  IndInv'
  <2>1. /\ new \in Command /\ new.at = "remove" /\ new.kind = cmd[c].kind /\ new.node = cmd[c].node
        /\ new.todo = cmd[c].todo /\ new.fault = cmd[c].fault /\ new.newer = cmd[c].newer
        /\ new.alone = cmd[c].alone /\ new.names = cmd[c].names \ {t} /\ new.missed = cmd[c].missed
    BY <1>0, NamesUpdate
  <2> HIDE DEF new
  <2>2. cmd'[c] = new
    BY <1>2 DEF Set, IndInv, Types
  <2>3. CallsOf(c)' /\ AtNode(c)'
    BY <1>0, <1>2, <2>1, <2>2 DEF CallsOf, AtNode, CutIsNewer, Shrinks, Cleared
  <2>4. CommandInv(c)'
    BY <1>0, <1>2, <2>1, <2>2, <2>3, StaysAtNode DEF Working
  <2>. QED  BY <1>0, <1>2, <2>1, <2>4, StepThatSets
<1>3. CASE t \in proxy[cmd[c].node].toxics
  <2>1. proxy' = [proxy EXCEPT ![cmd[c].node].toxics = @ \ {t}] /\ Set(c, new)
    BY <1>1, <1>3
  <2>2. /\ proxy' \in [NodeSet -> Proxy]
        /\ \A n \in NodeSet \ {cmd[c].node} : proxy'[n] = proxy[n]
        /\ proxy'[cmd[c].node].toxics = proxy[cmd[c].node].toxics \ {t}
        /\ proxy'[cmd[c].node].exists = proxy[cmd[c].node].exists
        /\ proxy'[cmd[c].node].enabled = proxy[cmd[c].node].enabled
    BY <1>0, <2>1 DEF IndInv, Types, Proxy
  <2>3. GoneIsBare' /\ Shrinks
    BY <2>2 DEF IndInv, GoneIsBare, Shrinks
  <2>. QED  BY <1>2, <2>1, <2>2, <2>3
<1>4. CASE t \notin proxy[cmd[c].node].toxics
  <2>1. proxy' = proxy /\ (Set(c, Failed(c)) \/ Set(c, new))
    BY <1>1, <1>4
  <2>2. Shrinks /\ proxy' \in [NodeSet -> Proxy] /\ GoneIsBare'
    BY <2>1, SameProxies
  <2>3. CASE Set(c, Failed(c))
    BY <1>0, <2>1, <2>3, FailureStep
  <2>4. CASE Set(c, new)
    <3>1. proxy'[cmd[c].node].toxics = proxy[cmd[c].node].toxics \ {t}
      BY <1>4, <2>1
    <3> HIDE DEF new
    <3>. QED  BY <1>2, <2>1, <2>2, <2>4, <3>1
  <2>. QED  BY <2>1, <2>3, <2>4
<1>. QED  BY <1>3, <1>4

(* The list is empty: what is left on the node is newer. *)
LEMMA NodeClearedStep ==
  ASSUME IndInv, NEW c \in Slots, NodeCleared(c) PROVE IndInv'
<1>0. /\ cmd[c] \in Command /\ cmd[c].at = "remove" /\ cmd[c].at \in Working /\ used' = used
      /\ proxy' = proxy /\ cmd[c].names = {} /\ AtNode(c) /\ Set(c, AfterNode(c))
      /\ cmd[c].kind \in {"clear", "clear-all"}
  BY DEF IndInv, Types, CommandInv, CallsOf, NodeCleared, Working
<1>1. /\ cmd'[c].kind = cmd[c].kind /\ cmd'[c].newer = cmd[c].newer
      /\ cmd'[c].missed = cmd[c].missed
  BY <1>0, AfterNodeDoes DEF Set, IndInv, Types
<1>2. ASSUME NEW n, n = cmd[c].node PROVE DoneWith(c, n)'
  <2>1. n \in Cleared(c)' => n \in Cleared(c)
    BY <1>1, <1>2 DEF Cleared
  <2>. QED  BY <1>0, <1>1, <1>2, <2>1 DEF DoneWith, Clean, CutIsNewer, AtNode
<1>3. Shrinks /\ proxy' \in [NodeSet -> Proxy] /\ GoneIsBare'
  BY <1>0, SameProxies
<1>. QED  BY <1>0, <1>2, <1>3, NextNodeStep

(* EnsureProxies makes a proxy that was missing. *)
LEMMA CreateProxyStep ==
  ASSUME IndInv, NEW c \in Slots, CreateProxy(c) PROVE IndInv'
<1>0. /\ cmd[c] \in Command /\ cmd[c].at = "create" /\ cmd[c].at \in Working /\ used' = used
      /\ cmd[c].kind = "setup" /\ cmd[c].node \in NodeSet
  BY DEF IndInv, Types, Command, CommandInv, CallsOf, CreateProxy, Working
<1>1. CASE proxy[cmd[c].node].exists
  BY <1>0, <1>1, FailureStep DEF CreateProxy
<1>2. CASE ~proxy[cmd[c].node].exists
  <2>1. proxy' = [proxy EXCEPT ![cmd[c].node] = NewProxy] /\ Set(c, AfterNode(c))
    BY <1>2 DEF CreateProxy
  <2>2. NewProxy \in Proxy /\ NewProxy.exists /\ NewProxy.enabled /\ NewProxy.toxics = {}
    BY DEF NewProxy, Proxy
  <2>3. /\ proxy' \in [NodeSet -> Proxy] /\ proxy'[cmd[c].node] = NewProxy
        /\ \A n \in NodeSet \ {cmd[c].node} : proxy'[n] = proxy[n]
    BY <1>0, <2>1, <2>2 DEF IndInv, Types
  <2>4. GoneIsBare' /\ Shrinks
    BY <2>2, <2>3 DEF IndInv, GoneIsBare, Shrinks
  <2>5. cmd'[c].kind = "setup"
    BY <1>0, <2>1, AfterNodeDoes DEF Set, IndInv, Types
  <2>6. ASSUME NEW n, n = cmd[c].node PROVE DoneWith(c, n)'
    BY <2>2, <2>3, <2>5, <2>6 DEF DoneWith
  <2>. QED  BY <1>0, <2>1, <2>3, <2>4, <2>6, NextNodeStep
<1>. QED  BY <1>1, <1>2

(* One more of the bounded mishaps. *)
LEMMA OneMoreAbort ==
  ASSUME IndInv, used.aborts < MaxAborts, used' = [used EXCEPT !.aborts = @ + 1]
  PROVE  Bounded'
  BY BoundsAssumption DEF IndInv, Types, Bounded

(* An interrupted command owes nothing. *)
LEMMA AbortStep ==
  ASSUME IndInv, NEW c \in Slots, Abort(c) PROVE IndInv'
<1>1. cmd[c].at # "idle" /\ Set(c, Failed(c)) /\ proxy' = proxy
  BY DEF Abort, Running
<1>2. Bounded'
  BY OneMoreAbort DEF Abort
<1>. QED  BY <1>1, <1>2, FailureStep

(* ClearAll ignores a failed call: it owes the node of that call nothing any more,
   and to the nodes it is through with what it owed them before. *)
LEMMA IgnoredStep ==
  ASSUME IndInv, NEW c \in Slots, cmd[c].kind = "clear-all", cmd[c].at \in Working,
         NEW after \in Command, Set(c, Ignored(c, after)), proxy' = proxy, Bounded',
         after.kind = "clear-all", after.newer = cmd[c].newer, after.alone = cmd[c].alone,
         after.missed = cmd[c].missed,
         \/ after.at \in {"list", "remove"} /\ after.node = cmd[c].node /\ after.todo = cmd[c].todo
         \/ after.at = "ok" /\ cmd[c].todo = {}
         \/ after.at = "get" /\ after.node \in cmd[c].todo /\ after.todo = cmd[c].todo \ {after.node}
  PROVE  IndInv'
<1> DEFINE new == [after EXCEPT !.missed = @ \cup {cmd[c].node}]
<1>1. cmd[c] \in Command /\ cmd[c].node \in NodeSet /\ Set(c, new)
  BY DEF IndInv, Types, Command, Ignored
<1>2. /\ new \in Command /\ new.at = after.at /\ new.kind = "clear-all" /\ new.node = after.node
      /\ new.todo = after.todo /\ new.newer = cmd[c].newer /\ new.alone = cmd[c].alone
      /\ new.missed = cmd[c].missed \cup {cmd[c].node}
  BY <1>1 DEF Command
<1> HIDE DEF new
<1>3. cmd'[c] = new
  BY <1>1 DEF Set, IndInv, Types
<1>4. CallsOf(c)'
  BY <1>2, <1>3 DEF CallsOf
<1>5. Cleared(c)' = Cleared(c) \ {cmd[c].node}
  BY <1>2, <1>3 DEF Cleared
<1>6. AtNode(c)'
  BY <1>2, <1>3, <1>5 DEF AtNode
<1>7. Behind(c)' \subseteq Behind(c) \cup {cmd[c].node}
  <2>1. Behind(c) = NodeSet \ (cmd[c].todo \cup {cmd[c].node})
    BY DEF Behind, Scope, Working
  <2>2. CASE after.at = "ok"
    BY <1>2, <1>3, <2>1, <2>2 DEF Behind, Scope
  <2>3. CASE after.at # "ok"
    <3>1. Behind(c)' = NodeSet \ (after.todo \cup {after.node})
      BY <1>2, <1>3, <2>3 DEF Behind, Scope, Working
    <3>. QED  BY <2>1, <2>3, <3>1
  <2>. QED  BY <2>2, <2>3
<1>8. ASSUME NEW n \in Behind(c)' PROVE DoneWith(c, n)'
  <2>1. CASE n \in Cleared(c)'
    <3>1. n \in Behind(c) /\ n \in Cleared(c)
      BY <1>5, <1>7, <2>1
    <3>2. Clean(c, n)
      BY <3>1 DEF IndInv, CommandInv, DoneWith
    <3>3. Clean(c, n)'
      BY <1>2, <1>3, <3>2 DEF Clean, CutIsNewer
    <3>. QED  BY <1>2, <1>3, <3>3 DEF DoneWith
  <2>2. CASE n \notin Cleared(c)'
    BY <1>2, <1>3, <2>2 DEF DoneWith
  <2>. QED  BY <2>1, <2>2
<1>9. CommandInv(c)'
  BY <1>4, <1>6, <1>8 DEF CommandInv
<1>10. cmd[c].at # "idle"
  BY DEF Working
<1>. QED  BY <1>1, <1>2, <1>9, <1>10, SameProxies, StepThatSets

(* A call that fails: ClearAll ignores it, EnsureProxies tries to create the proxy
   it could not read, and every other command is over. *)
LEMMA CallFailsStep ==
  ASSUME IndInv, NEW c \in Slots, CallFails(c) PROVE IndInv'
<1>1. /\ cmd[c] \in Command /\ cmd[c].at # "idle" /\ proxy' = proxy /\ CallsOf(c)
      /\ cmd[c].names \in SUBSET Toxics
  BY DEF IndInv, Types, Command, CommandInv, CallFails, Running
<1>2. Bounded'
  BY OneMoreAbort DEF CallFails
<1>3. CASE Set(c, Failed(c))
  BY <1>1, <1>2, <1>3, FailureStep
<1>4. CASE cmd[c].kind = "setup" /\ cmd[c].at = "get" /\ Set(c, [cmd[c] EXCEPT !.at = "create"])
  <2>1. "create" \in Places \ {"ok"} /\ cmd[c].at \in Working
    BY <1>4 DEF Places, Working
  <2>2. /\ cmd'[c].at = "create" /\ cmd'[c].kind = "setup" /\ cmd'[c].todo = cmd[c].todo
        /\ cmd'[c].fault = cmd[c].fault /\ cmd'[c].node = cmd[c].node
    BY <1>4, <2>1, Goes
  <2>3. CallsOf(c)' /\ AtNode(c)'
    BY <2>2 DEF CallsOf, AtNode
  <2>4. Shrinks /\ proxy' \in [NodeSet -> Proxy] /\ GoneIsBare'
    BY <1>1, SameProxies
  <2>. QED  BY <1>1, <1>2, <1>4, <2>1, <2>3, <2>4, GoesStep
<1>5. CASE cmd[c].kind = "clear-all" /\ cmd[c].at = "get" /\ Set(c, Ignored(c, AfterNode(c)))
  <2> DEFINE after == AfterNode(c)
  <2>1. /\ after \in Command /\ after.kind = "clear-all" /\ after.newer = cmd[c].newer
        /\ after.alone = cmd[c].alone /\ after.missed = cmd[c].missed
        /\ \/ after.at = "ok" /\ cmd[c].todo = {}
           \/ /\ after.at = "get" /\ after.node \in cmd[c].todo
              /\ after.todo = cmd[c].todo \ {after.node}
    BY <1>1, <1>5, AfterNodeDoes
  <2>2. Set(c, Ignored(c, after)) /\ cmd[c].at \in Working
    BY <1>5 DEF Working
  <2> HIDE DEF after
  <2>. QED  BY <1>1, <1>2, <1>5, <2>1, <2>2, IgnoredStep
<1>6. ASSUME NEW a \in {"list", "remove"}, NEW S \in SUBSET Toxics,
             cmd[c].kind = "clear-all", cmd[c].at \in Working,
             Set(c, Ignored(c, [cmd[c] EXCEPT !.at = a, !.names = S]))
      PROVE  IndInv'
  <2> DEFINE after == [cmd[c] EXCEPT !.at = a, !.names = S]
  <2>1. /\ after \in Command /\ after.kind = "clear-all" /\ after.newer = cmd[c].newer
        /\ after.alone = cmd[c].alone /\ after.missed = cmd[c].missed
        /\ after.at = a /\ after.node = cmd[c].node /\ after.todo = cmd[c].todo
    BY <1>1, <1>6 DEF Command, Places, Working
  <2>2. Set(c, Ignored(c, after))
    BY <1>6
  <2> HIDE DEF after
  <2>. QED  BY <1>1, <1>2, <1>6, <2>1, <2>2, IgnoredStep
<1>7. CASE cmd[c].kind = "clear-all" /\ cmd[c].at = "enable"
           /\ Set(c, Ignored(c, [cmd[c] EXCEPT !.at = "list"]))
  <2>1. [cmd[c] EXCEPT !.at = "list"] = [cmd[c] EXCEPT !.at = "list", !.names = cmd[c].names]
    BY <1>1 DEF Command
  <2>. QED  BY <1>1, <1>6, <1>7, <2>1 DEF Working
<1>8. CASE cmd[c].kind = "clear-all" /\ cmd[c].at = "list"
           /\ Set(c, Ignored(c, [cmd[c] EXCEPT !.at = "remove", !.names = {}]))
  <2>1. PICK S \in SUBSET Toxics : S = {}
    OBVIOUS
  <2>2. Set(c, Ignored(c, [cmd[c] EXCEPT !.at = "remove", !.names = S]))
    BY <1>8, <2>1
  <2>. QED  BY <1>6, <1>8, <2>2 DEF Working
<1>9. ASSUME cmd[c].kind = "clear-all", cmd[c].at = "remove", NEW t \in cmd[c].names,
             Set(c, Ignored(c, [cmd[c] EXCEPT !.names = @ \ {t}]))
      PROVE  IndInv'
  <2>1. [cmd[c] EXCEPT !.names = @ \ {t}]
          = [cmd[c] EXCEPT !.at = "remove", !.names = cmd[c].names \ {t}]
    BY <1>1, <1>9 DEF Command
  <2>2. cmd[c].names \ {t} \in SUBSET Toxics
    BY <1>1
  <2>. QED  BY <1>6, <1>9, <2>1, <2>2 DEF Working
<1>. QED  BY <1>3, <1>4, <1>5, <1>7, <1>8, <1>9 DEF CallFails

(* An empty slot. *)
LEMMA IdleIsCommand ==
  /\ Idle \in Command /\ Idle.at = "idle" /\ Idle.kind = "none" /\ Idle.todo = {} /\ Idle.names = {}
  /\ Idle.newer = {} /\ Idle.node = 1 /\ Idle.fault = "none" /\ 1 \in NodeSet
<1>1. 1 \in NodeSet
  BY NodesAssumption DEF NodeSet
<1>. QED  BY <1>1 DEF Idle, Command, Kinds, Places

(* The slot is free again. *)
LEMMA ExitStep ==
  ASSUME IndInv, NEW c \in Slots, Exit(c) PROVE IndInv'
<1>0. cmd[c].at # "idle" /\ Set(c, Idle) /\ proxy' = proxy /\ used' = used
  BY DEF Exit
<1>1. cmd'[c] = Idle
  BY <1>0 DEF Set, IndInv, Types
<1>2. CallsOf(c)'
  BY <1>1, IdleIsCommand DEF CallsOf
<1>3. CommandInv(c)'
  BY <1>1, <1>2, IdleIsCommand, OverAndOut
<1>. QED  BY <1>0, <1>3, IdleIsCommand, SameProxies, StepThatSets

(* A new command has nothing behind it, and those that run are no longer alone. *)
LEMMA StartStep ==
  ASSUME IndInv, NEW c \in Slots, Start(c) PROVE IndInv'
<1>1. PICK k \in {"inject", "clear", "clear-all", "regional", "setup"}, n \in NodeSet,
           f \in Faults \cup {"partition"} :
        /\ k # "inject" => f = "partition"
        /\ k \notin {"inject", "clear"} => n = 1
        /\ LET first == [Idle EXCEPT !.kind = k, !.node = n, !.fault = f,
                           !.at    = IF k = "clear-all" THEN "proxies" ELSE "get",
                           !.todo  = IF k \in {"inject", "clear"} THEN {} ELSE NodeSet \ {1},
                           !.alone = \A d \in Slots : cmd[d].at = "idle"]
           IN  cmd' = [d \in Slots |-> IF d = c THEN first
                                       ELSE IF cmd[d].at = "idle" THEN cmd[d]
                                       ELSE [cmd[d] EXCEPT !.alone = FALSE]]
  BY DEF Start
<1> DEFINE lone == \A d \in Slots : cmd[d].at = "idle"
           at1   == IF k = "clear-all" THEN "proxies" ELSE "get"
           todo1 == IF k \in {"inject", "clear"} THEN {} ELSE NodeSet \ {1}
           first == [Idle EXCEPT !.kind = k, !.node = n, !.fault = f, !.at = at1, !.todo = todo1,
                                 !.alone = lone]
<1>2. /\ proxy' = proxy /\ cmd[c].at = "idle"
      /\ cmd' = [d \in Slots |-> IF d = c THEN first
                                 ELSE IF cmd[d].at = "idle" THEN cmd[d]
                                 ELSE [cmd[d] EXCEPT !.alone = FALSE]]
  BY <1>1 DEF Start
<1>3. at1 \in Places /\ todo1 \in SUBSET NodeSet /\ lone \in BOOLEAN
  BY DEF Places, Working
<1>4. /\ first \in Command /\ first.kind = k /\ first.node = n /\ first.fault = f /\ first.at = at1
      /\ first.todo = todo1 /\ first.names = {} /\ first.newer = {} /\ first.alone = lone
  <2> HIDE DEF at1, todo1, lone
  <2>1. k \in Kinds /\ f \in Faults \cup {"partition", "none"}
    BY DEF Kinds
  <2>. QED  BY <1>3, <2>1, IdleIsCommand DEF Command
<1> HIDE DEF first
<1>5. cmd'[c] = first /\ DOMAIN cmd' = Slots /\ cmd' = [d \in Slots |-> cmd'[d]]
  BY <1>2
<1>6. CallsOf(c)' /\ AtNode(c)'
  BY <1>1, <1>4, <1>5 DEF CallsOf, AtNode
<1>7. k # "inject" => Behind(c)' = {}
  <2>1. CASE k = "clear-all"
    BY <1>4, <1>5, <2>1 DEF Behind, Working
  <2>2. CASE k = "clear"
    BY <1>4, <1>5, <2>2 DEF Behind, Working, Scope
  <2>3. CASE k \in {"regional", "setup"}
    BY <1>1, <1>4, <1>5, <2>3 DEF Behind, Working, Scope
  <2>. QED  BY <2>1, <2>2, <2>3
<1>8. CommandInv(c)'
  <2>1. CASE k # "inject"
    BY <1>6, <1>7, <2>1 DEF CommandInv
  <2>2. CASE k = "inject"
    BY <1>4, <1>5, <1>6, <2>2 DEF CommandInv, DoneWith
  <2>. QED  BY <2>1, <2>2
<1>9. ASSUME NEW d \in Slots \ {c} PROVE Stays(d) /\ cmd'[d] \in Command
  <2>1. cmd[d] \in Command
    BY DEF IndInv, Types
  <2>2. CASE cmd[d].at = "idle"
    <3>1. cmd'[d] = cmd[d]
      BY <1>2, <2>2
    <3>. QED  BY <2>1, <2>2, <3>1 DEF Stays
  <2>3. CASE cmd[d].at # "idle"
    <3>1. cmd'[d] = [cmd[d] EXCEPT !.alone = FALSE]
      BY <1>2, <2>3
    <3>2. /\ cmd'[d] \in Command /\ cmd'[d].at = cmd[d].at /\ cmd'[d].kind = cmd[d].kind
          /\ cmd'[d].node = cmd[d].node /\ cmd'[d].todo = cmd[d].todo /\ cmd'[d].fault = cmd[d].fault
          /\ cmd'[d].names = cmd[d].names /\ cmd'[d].newer = cmd[d].newer /\ ~cmd'[d].alone
          /\ cmd'[d].missed = cmd[d].missed
      BY <2>1, <3>1, AloneUpdate
    <3>3. Noticed(d)
      BY <1>2 DEF Noticed
    <3>. QED  BY <3>2, <3>3 DEF Stays
  <2>. QED  BY <2>2, <2>3
<1>10. cmd'[c].at # "idle" /\ cmd'[c].alone => \A d \in Slots \ {c} : cmd[d].at = "idle"
  BY <1>4, <1>5
<1>11. proxy' \in [NodeSet -> Proxy] /\ GoneIsBare'
  BY <1>2, SameProxies
<1>12. Bounded'
  <2>1. used' = [used EXCEPT !.commands = @ + 1] /\ used.commands < MaxCommands
    BY DEF Start
  <2>. QED  BY <2>1, BoundsAssumption DEF IndInv, Types, Bounded
<1>. QED  BY <1>4, <1>5, <1>8, <1>9, <1>10, <1>11, <1>12, StepOfOne

(* Toxiproxy comes back without proxies: nothing is left to be cleared, and no
   command is alone any more. *)
LEMMA RestartStep ==
  ASSUME IndInv, Restart PROVE IndInv'
<1>0. /\ proxy' = [n \in NodeSet |-> NoProxy]
      /\ cmd' = [c \in Slots |-> IF cmd[c].at = "idle" THEN cmd[c] ELSE [cmd[c] EXCEPT !.alone = FALSE]]
  BY DEF Restart
<1>1. NoProxy \in Proxy /\ ~NoProxy.exists /\ NoProxy.toxics = {}
  BY DEF NoProxy, Proxy
<1>2. proxy' \in [NodeSet -> Proxy] /\ GoneIsBare' /\ Shrinks
  BY <1>0, <1>1 DEF GoneIsBare, Shrinks
<1>3. ASSUME NEW d \in Slots PROVE Stays(d) /\ cmd'[d] \in Command
  <2>1. cmd[d] \in Command
    BY DEF IndInv, Types
  <2>2. CASE cmd[d].at = "idle"
    <3>1. cmd'[d] = cmd[d]
      BY <1>0, <2>2
    <3>. QED  BY <2>1, <2>2, <3>1 DEF Stays
  <2>3. CASE cmd[d].at # "idle"
    <3>1. cmd'[d] = [cmd[d] EXCEPT !.alone = FALSE]
      BY <1>0, <2>3
    <3>2. /\ cmd'[d] \in Command /\ cmd'[d].at = cmd[d].at /\ cmd'[d].kind = cmd[d].kind
          /\ cmd'[d].node = cmd[d].node /\ cmd'[d].todo = cmd[d].todo /\ cmd'[d].fault = cmd[d].fault
          /\ cmd'[d].names = cmd[d].names /\ cmd'[d].newer = cmd[d].newer /\ ~cmd'[d].alone
          /\ cmd'[d].missed = cmd[d].missed
      BY <2>1, <3>1, AloneUpdate
    <3>3. Noticed(d)
      BY <1>2 DEF Noticed, Shrinks
    <3>. QED  BY <3>2, <3>3 DEF Stays
  <2>. QED  BY <2>2, <2>3
<1>4. \A d \in Slots : CommandInv(d)'
  BY <1>3, OthersKeep DEF IndInv
<1>5. AloneInv'
  BY <1>3 DEF AloneInv, Stays
<1>6. cmd' \in [Slots -> Command]
  BY <1>0, <1>3
<1>7. Bounded'
  BY BoundsAssumption DEF Restart, IndInv, Types, Bounded
<1>. QED  BY <1>2, <1>4, <1>5, <1>6, <1>7 DEF IndInv, Types

-----------------------------------------------------------------------------

(* The invariant of the chaos commands, however many run at a time, whichever of
   them abort, whichever calls fail, and whenever Toxiproxy restarts. *)
THEOREM ChaosInductive == Spec => []IndInv
<1>1. Init => IndInv
  <2> SUFFICES ASSUME Init PROVE IndInv
    OBVIOUS
  <2>1. NewProxy \in Proxy /\ NewProxy.exists
    BY DEF NewProxy, Proxy
  <2>2. proxy \in [NodeSet -> Proxy] /\ GoneIsBare
    BY <2>1 DEF Init, GoneIsBare
  <2>3. cmd \in [Slots -> Command] /\ \A c \in Slots : cmd[c] = Idle
    BY IdleIsCommand DEF Init
  <2>4. AloneInv
    BY <2>3, IdleIsCommand DEF AloneInv
  <2>5. ASSUME NEW c \in Slots PROVE CommandInv(c)
    BY <2>3, IdleIsCommand DEF CommandInv, CallsOf, AtNode, Behind, Working
  <2>6. Bounded
    BY BoundsAssumption DEF Init, Bounded
  <2>. QED  BY <2>2, <2>3, <2>4, <2>5, <2>6 DEF IndInv, Types
<1>2. IndInv /\ [Next]_vars => IndInv'
  <2> SUFFICES ASSUME IndInv, [Next]_vars PROVE IndInv'
    OBVIOUS
  <2>1. CASE UNCHANGED vars
    <3>1. ASSUME NEW c \in Slots PROVE CommandInv(c)'
      <4>1. CommandInv(c) /\ cmd' = cmd /\ proxy' = proxy
        BY <2>1 DEF vars, IndInv
      <4>2. CallsOf(c)'
        BY <4>1 DEF CommandInv, CallsOf
      <4>3. Cleared(c)' = Cleared(c) /\ Behind(c)' = Behind(c)
        BY <4>1 DEF Cleared, Behind, Scope
      <4>4. AtNode(c)'
        BY <4>1, <4>3 DEF CommandInv, AtNode, CutIsNewer
      <4>5. ASSUME NEW n, DoneWith(c, n) PROVE DoneWith(c, n)'
        BY <4>1, <4>3, <4>5 DEF DoneWith, Clean, CutIsNewer
      <4>. QED  BY <4>1, <4>2, <4>3, <4>4, <4>5 DEF CommandInv
    <3>. QED  BY <2>1, <3>1 DEF vars, IndInv, Types, Bounded, GoneIsBare, AloneInv
  <2>2. ASSUME NEW c \in Slots, Step(c) PROVE IndInv'
    BY <2>2, ListProxiesStep, GetProxyStep, PartitionStep, AddToxicStep, LatencyUpStep, LatencyDownStep,
       EnableStep, ListToxicsStep, RemoveToxicStep, NodeClearedStep, CreateProxyStep DEF Step
  <2>. QED  BY <2>1, <2>2, StartStep, AbortStep, CallFailsStep, ExitStep, RestartStep DEF Next
<1>. QED  BY <1>1, <1>2, PTL DEF Spec

(* Type correctness: every node of every command is a node of the cluster, and
   every toxic has a name the client gave it. *)
THEOREM TypeCorrect == Spec => []TypeOK
<1>1. IndInv => TypeOK
  BY DEF IndInv, Types, Bounded, TypeOK, Command, Proxy
<1>. QED  BY <1>1, ChaosInductive, PTL

(* ClearFaults and ClearAll: what is on a node when they report success was
   injected after they began, for every number of nodes and commands, except on
   the nodes on which ClearAll ignored the failure of a call. *)
THEOREM ClearLeavesOnlyNewerHolds == Spec => []ClearLeavesOnlyNewer
<1>1. IndInv => ClearLeavesOnlyNewer
  <2> SUFFICES ASSUME IndInv, NEW c \in Slots, cmd[c].kind \in {"clear", "clear-all"}, cmd[c].at = "ok",
                      NEW n \in Cleared(c)
               PROVE  Clean(c, n)
    BY DEF ClearLeavesOnlyNewer, Clean, CutIsNewer
  <2>1. n \in Behind(c)
    BY DEF Behind, Scope, Cleared
  <2>. QED  BY <2>1 DEF IndInv, CommandInv, DoneWith
<1>. QED  BY <1>1, ChaosInductive, PTL

(* ApplyRegionalLatencies: a success with nothing else running means that every
   node has both halves of the baseline. *)
THEOREM RegionalIsCompleteHolds == Spec => []RegionalIsComplete
<1>1. IndInv => RegionalIsComplete
  BY DEF IndInv, CommandInv, Behind, Scope, DoneWith, RegionalIsComplete
<1>. QED  BY <1>1, ChaosInductive, PTL

(* EnsureProxies: a success with nothing else running means that every proxy
   exists. *)
THEOREM SetupRepairsHolds == Spec => []SetupRepairs
<1>1. IndInv => SetupRepairs
  BY DEF IndInv, CommandInv, Behind, Scope, DoneWith, SetupRepairs
<1>. QED  BY <1>1, ChaosInductive, PTL

=============================================================================
