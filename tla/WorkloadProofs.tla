--------------------------- MODULE WorkloadProofs ---------------------------
(***************************************************************************)
(* Proofs about the workload as a whole: what is proved of the write path   *)
(* carries over to a workload that also reads and whose nodes are cut off,  *)
(* and no pool ever hands out more connections than it has.                 *)
(***************************************************************************)
EXTENDS Workload, WritePathProofs

(* Everything of WritePath but down. *)
writeVars == <<rows, cnt, tenant, pc, tx, attempts, res, orphan, writesTotal,
               writeErrors, writeRetries, crashes, base, late>>

(* What a step of the whole workload is for the write path: one of its own steps,
   nothing, or a change of the regions that are down. *)
LEMMA StepsOfWrites ==
  ASSUME [WorkloadNext]_wvars
  PROVE  [Next]_vars \/ (UNCHANGED writeVars /\ down' = Lost(cut'))
<1>1. ASSUME NEW r \in Rounds, WriteTicks(r) PROVE [Next]_vars
  BY <1>1 DEF WriteTicks, Next
<1>2. ASSUME NEW w \in Writes, WriteBegins(w) \/ WriteProceeds(w) \/ WriteFails(w) PROVE [Next]_vars
  BY <1>2 DEF WriteBegins, WriteProceeds, WriteFails, Proceed, Next
<1>3. ASSUME NEW r \in ReadRounds, ReadBegins(r) \/ ReadProceeds(r) \/ ReadFails(r) PROVE [Next]_vars
  BY <1>3 DEF ReadBegins, ReadProceeds, ReadFails
<1>4. ASSUME NEW i \in CutNodes, Isolate(i) PROVE UNCHANGED writeVars /\ down' = Lost(cut')
  BY <1>4 DEF Isolate, writeVars, dbVars, metricVars, lifeVars
<1>5. CASE UNCHANGED wvars
  BY <1>5 DEF wvars
<1>. QED  BY <1>1, <1>2, <1>3, <1>4, <1>5 DEF WorkloadNext

(* The invariants of the write path do not depend on which regions are down. *)
LEMMA OutagesAreHarmless ==
  ASSUME IndInv, MetricsInv, UNCHANGED writeVars, down' \subseteq AllRegions
  PROVE  IndInv' /\ MetricsInv'
<1> USE DEF writeVars
<1>1. TypeOK'
  BY DEF IndInv, TypeOK
<1>2. \A v \in Writes : TenantOf(v)' = TenantOf(v) /\ Target(v)' = Target(v)
  BY DEF Target, TenantOf
<1>3. TxInv'
  <2> SUFFICES ASSUME NEW v \in Writes PROVE TxInvOf(v)'
    BY DEF TxInv
  <2>. QED  BY TxFrame DEF IndInv, TxInv
<1>4. RowsInv'
  <2>1. \A r \in rows : r.write \in Writes
    BY DEF IndInv, TypeOK, EventRow
  <2>. QED  BY <1>2, <2>1 DEF IndInv, RowsInv
<1>5. CountersExact' /\ AtMostOneRow' /\ ContextHolds'
  BY DEF IndInv, CountersExact, AtMostOneRow, ContextHolds
<1>6. AckedIsStored'
  BY <1>2 DEF IndInv, AckedIsStored
<1>7. IsFiniteSet(Started)' /\ Paired'
  BY DEF MetricsInv, Started, Paired
<1>8. ASSUME NEW c \in CounterRows PROVE BracketOf(c)'
  <2>1. Returned(c)' = Returned(c) /\ Acked(c)' = Acked(c) /\ Own(c)' = Own(c)
    BY <1>2 DEF Returned, Acked, Own
  <2>. QED  BY <2>1, SameNumbers DEF MetricsInv
<1>. QED  BY <1>1, <1>3, <1>4, <1>5, <1>6, <1>7, <1>8 DEF IndInv, MetricsInv

(* All that is proved of the write path alone holds beside the reads, and while
   nodes are cut off and come back. *)
THEOREM WritesBesideReads == WorkloadSpec => [](IndInv /\ MetricsInv)
<1>1. WorkloadInit => IndInv /\ MetricsInv
  BY IndInit, MetricsInit DEF WorkloadInit
<1>2. IndInv /\ MetricsInv /\ [WorkloadNext]_wvars => IndInv' /\ MetricsInv'
  <2> SUFFICES ASSUME IndInv, MetricsInv, [WorkloadNext]_wvars PROVE IndInv' /\ MetricsInv'
    OBVIOUS
  <2>1. CASE [Next]_vars
    BY <2>1, IndStep, MetricsStep DEF IndInv
  <2>2. CASE UNCHANGED writeVars /\ down' = Lost(cut')
    <3>1. down' \subseteq AllRegions
      BY <2>2 DEF Lost
    <3>. QED  BY <2>2, <3>1, OutagesAreHarmless
  <2>. QED  BY <2>1, <2>2, StepsOfWrites
<1>. QED  BY <1>1, <1>2, PTL DEF WorkloadSpec

-----------------------------------------------------------------------------
(* The pools that reads and writes share.                                   *)

Pools == {"app"} \cup PoolRegions

(* The writes and the read rounds that have a connection of pool p. *)
WriteHolders(p) == {w \in Writes : pc[w] \in Holding /\ Pool(w) = p}
ReadHolders(p)  == {r \in ReadRounds : R!HeldBy(r) = p}

(* The read rounds under way. *)
Reading == {r \in ReadRounds : at[r].pc # "off"}

(* The places of a round that is in a transaction, or asks for a connection. *)
Waiting == {"global begin", "global query", "regional begin", "regional query"}

(* Where a round can be in its loop. *)
Place == [pc : {"off", "region"} \cup Waiting, i : 1 .. (Len(Regions) + 1)]

(* A round that reads is at a region of the list; and only finitely many rounds
   are under way. *)
ReadInv ==
  /\ at \in [ReadRounds -> Place]
  /\ \A r \in ReadRounds : at[r].pc \in Waiting => at[r].i =< Len(Regions)
  /\ IsFiniteSet(Reading)
  /\ cut \subseteq CutNodes

(* pgxpool keeps the limit of each pool over reads and writes together. *)
PoolsInv == \A p \in Pools : Cardinality(WriteHolders(p)) + Cardinality(ReadHolders(p)) =< MaxConns

(* A round that waits for a pool or for a query is at a region of the list. *)
Sound(y) == y \in Place /\ (y.pc \in Waiting => y.i =< Len(Regions))

(* When a place is sound. *)
LEMMA SoundPlace ==
  ASSUME NEW n \in {"off", "region"} \cup Waiting, NEW k \in 1 .. (Len(Regions) + 1),
         n \in Waiting => k =< Len(Regions)
  PROVE  Sound([pc |-> n, i |-> k])
  BY DEF Sound, Place

(* Moving on within a region keeps the region. *)
LEMMA PlaceUpdates ==
  ASSUME NEW y \in Place, NEW n
  PROVE  [y EXCEPT !.pc = n] = [pc |-> n, i |-> y.i]
  BY DEF Place

(* The place of a round is what it was last set to. *)
LEMMA PlacePc ==
  ASSUME NEW y, NEW n, NEW k, y = [pc |-> n, i |-> k]
  PROVE  y.pc = n
  OBVIOUS

(* A step of a read round changes that round only. *)
LEMMA ReadStep ==
  ASSUME ReadInv, NEW r \in ReadRounds, R!Step(r), UNCHANGED cut
  PROVE  /\ ReadInv'
         /\ \A q \in ReadRounds \ {r} : at'[q] = at[q]
<1>0. Len(Regions) \in Nat
  BY RegionsAssumption
<1>a. 1 \in 1 .. (Len(Regions) + 1)
  BY <1>0
<1>1. at \in [ReadRounds -> Place] /\ at[r] \in Place
  BY DEF ReadInv, Place
<1>2. /\ at[r].pc \in {"off", "region"} \cup Waiting /\ at[r].i \in 1 .. (Len(Regions) + 1)
      /\ at[r].pc \in Waiting => at[r].i =< Len(Regions)
  BY <1>1 DEF ReadInv, Place
<1>3. \E y : at' = [at EXCEPT ![r] = y] /\ Sound(y)
  <2>1. CASE R!ReadTick(r)
    <3>1. at' = [at EXCEPT ![r] = [pc |-> "region", i |-> 1]]
      BY <2>1 DEF R!ReadTick
    <3>2. Sound([pc |-> "region", i |-> 1])
      BY <1>a, SoundPlace DEF Waiting
    <3>. QED  BY <3>1, <3>2
  <2>2. CASE R!NextRegion(r)
    <3>0. at[r].pc = "region"
      BY <2>2 DEF R!NextRegion
    <3>1. CASE at[r].i > Len(Regions)
      <4>1. at' = [at EXCEPT ![r] = [pc |-> "off", i |-> 1]]
        BY <2>2, <3>1 DEF R!NextRegion, R!Off
      <4>2. Sound([pc |-> "off", i |-> 1])
        BY <1>a, SoundPlace DEF Waiting
      <4>. QED  BY <4>1, <4>2
    <3>2. CASE ~(at[r].i > Len(Regions)) /\ R!Region(r) \in Populated
      <4>1. at' = [at EXCEPT ![r] = [at[r] EXCEPT !.pc = "global begin"]]
        BY <2>2, <3>2 DEF R!NextRegion
      <4>2. at' = [at EXCEPT ![r] = [pc |-> "global begin", i |-> at[r].i]]
        BY <4>1, <1>1, PlaceUpdates
      <4>3. Sound([pc |-> "global begin", i |-> at[r].i])
        <5>1. at[r].i =< Len(Regions)
          BY <1>0, <1>2, <3>2
        <5>. QED  BY <1>2, <5>1, SoundPlace DEF Waiting
      <4>. QED  BY <4>2, <4>3
    <3>3. CASE ~(at[r].i > Len(Regions)) /\ R!Region(r) \notin Populated
      <4>1. at' = [at EXCEPT ![r] = [pc |-> "region", i |-> at[r].i + 1]]
        BY <2>2, <3>3 DEF R!NextRegion
      <4>2. at[r].i + 1 \in 1 .. (Len(Regions) + 1)
        BY <1>0, <1>2, <3>3
      <4>3. Sound([pc |-> "region", i |-> at[r].i + 1])
        BY <4>2, SoundPlace DEF Waiting
      <4>. QED  BY <4>1, <4>3
    <3>. QED  BY <3>1, <3>2, <3>3
  <2>3. CASE R!Begin(r)
    <3>1. at[r].pc \in {"global begin", "regional begin"}
      BY <2>3 DEF R!Begin, R!Wanted
    <3>2. PICK n \in {"global query", "regional query"} : at' = [at EXCEPT ![r].pc = n]
      BY <2>3 DEF R!Begin, R!Goto
    <3>3. at' = [at EXCEPT ![r] = [pc |-> n, i |-> at[r].i]]
      BY <3>2, <1>1, PlaceUpdates
    <3>4. Sound([pc |-> n, i |-> at[r].i])
      BY <3>1, <1>2, SoundPlace DEF Waiting
    <3>. QED  BY <3>3, <3>4
  <2>4. CASE R!AfterRead(r) /\ at[r].pc \in Waiting
    <3>1. CASE at[r].pc \in {"global begin", "global query"}
      <4>1. at' = [at EXCEPT ![r].pc = "regional begin"]
        BY <2>4, <3>1 DEF R!AfterRead, R!Goto
      <4>2. at' = [at EXCEPT ![r] = [pc |-> "regional begin", i |-> at[r].i]]
        BY <4>1, <1>1, PlaceUpdates
      <4>3. Sound([pc |-> "regional begin", i |-> at[r].i])
        BY <1>2, <2>4, SoundPlace DEF Waiting
      <4>. QED  BY <4>2, <4>3
    <3>2. CASE at[r].pc \notin {"global begin", "global query"}
      <4>1. at' = [at EXCEPT ![r] = [pc |-> "region", i |-> at[r].i + 1]]
        BY <2>4, <3>2 DEF R!AfterRead
      <4>2. at[r].i + 1 \in 1 .. (Len(Regions) + 1)
        BY <1>0, <1>2, <2>4
      <4>3. Sound([pc |-> "region", i |-> at[r].i + 1])
        BY <4>2, SoundPlace DEF Waiting
      <4>. QED  BY <4>1, <4>3
    <3>. QED  BY <3>1, <3>2
  <2>. QED  BY <2>1, <2>2, <2>3, <2>4 DEF R!Step, R!ReadDone, R!ReadFails, Waiting
<1>4. PICK y : at' = [at EXCEPT ![r] = y] /\ Sound(y)
  BY <1>3
<1>5. /\ at' \in [ReadRounds -> Place] /\ at'[r] = y
      /\ \A q \in ReadRounds \ {r} : at'[q] = at[q]
  BY <1>1, <1>4 DEF Sound
<1>6. \A q \in ReadRounds : at'[q].pc \in Waiting => at'[q].i =< Len(Regions)
  BY <1>4, <1>5 DEF ReadInv, Sound
<1>7. IsFiniteSet(Reading')
  <2>1. Reading' \subseteq Reading \cup {r}
    BY <1>5 DEF Reading
  <2>2. IsFiniteSet(Reading \cup {r})
    BY FS_AddElement DEF ReadInv
  <2>. QED  BY <2>1, <2>2, FS_Subset
<1>. QED  BY <1>5, <1>6, <1>7 DEF ReadInv, Place

(* ReadPath counts with the Cardinality of its own FiniteSets. *)
LEMMA SameCardinality == \A S : R!Cardinality(S) = Cardinality(S)
  BY DEF R!Cardinality, Cardinality

(* Busy counts the holders of both sides. *)
LEMMA BusyHolders ==
  ASSUME NEW p PROVE Busy(p) = Cardinality(WriteHolders(p)) + Cardinality(ReadHolders(p))
<1>1. InUse(p) = Cardinality(WriteHolders(p))
  BY DEF InUse, WriteHolders
<1>2. R!InUse(p) = R!Cardinality(ReadHolders(p))
  BY DEF R!InUse, ReadHolders
<1>. QED  BY <1>1, <1>2, SameCardinality DEF Busy

(* Only started writes and rounds under way hold connections. *)
LEMMA HoldersFinite ==
  ASSUME TypeOK, MetricsInv, ReadInv, NEW p \in Pools
  PROVE  /\ IsFiniteSet(WriteHolders(p)) /\ Cardinality(WriteHolders(p)) \in Nat
         /\ IsFiniteSet(ReadHolders(p)) /\ Cardinality(ReadHolders(p)) \in Nat
<1>1. WriteHolders(p) \subseteq Started
  BY DEF WriteHolders, Started, Holding
<1>2. p # "none"
  BY PoolAssumption DEF Pools, AllRegions
<1>3. ReadHolders(p) \subseteq Reading
  BY <1>2 DEF ReadHolders, Reading, R!HeldBy
<1>. QED  BY <1>1, <1>3, FS_Subset, FS_CardinalityType DEF MetricsInv, ReadInv

(* Holders that give up a connection make room. *)
LEMMA FewerHolders ==
  ASSUME TypeOK, MetricsInv, ReadInv, NEW p \in Pools,
         Cardinality(WriteHolders(p)) + Cardinality(ReadHolders(p)) =< MaxConns,
         WriteHolders(p)' \subseteq WriteHolders(p), ReadHolders(p)' \subseteq ReadHolders(p)
  PROVE  Cardinality(WriteHolders(p)') + Cardinality(ReadHolders(p)') =< MaxConns
<1>1. /\ IsFiniteSet(WriteHolders(p)) /\ Cardinality(WriteHolders(p)) \in Nat
      /\ IsFiniteSet(ReadHolders(p)) /\ Cardinality(ReadHolders(p)) \in Nat
  BY HoldersFinite
<1>2. /\ Cardinality(WriteHolders(p)') =< Cardinality(WriteHolders(p))
      /\ IsFiniteSet(WriteHolders(p)')
  BY <1>1, FS_Subset
<1>3. /\ Cardinality(ReadHolders(p)') =< Cardinality(ReadHolders(p))
      /\ IsFiniteSet(ReadHolders(p)')
  BY <1>1, FS_Subset
<1>4. Cardinality(WriteHolders(p)') \in Nat /\ Cardinality(ReadHolders(p)') \in Nat
  BY <1>2, <1>3, FS_CardinalityType
<1>. QED  BY <1>1, <1>2, <1>3, <1>4, BoundsAssumption

(* No step of a round or of a write takes a connection from a full pool, and a
   step that takes none leaves no pool fuller than it was. *)
LEMMA PoolsStep ==
  ASSUME IndInv, MetricsInv, ReadInv, PoolsInv, [WorkloadNext]_wvars
  PROVE  PoolsInv'
<1> SUFFICES ASSUME NEW p \in Pools
             PROVE  Cardinality(WriteHolders(p)') + Cardinality(ReadHolders(p)') =< MaxConns
  BY DEF PoolsInv, Pools
<1> USE DEF dbVars, metricVars, lifeVars
<1>t. TypeOK /\ TxInv
  BY DEF IndInv
<1>i. Cardinality(WriteHolders(p)) + Cardinality(ReadHolders(p)) =< MaxConns
  BY DEF PoolsInv
<1>n. /\ IsFiniteSet(WriteHolders(p)) /\ Cardinality(WriteHolders(p)) \in Nat
      /\ IsFiniteSet(ReadHolders(p)) /\ Cardinality(ReadHolders(p)) \in Nat
  BY <1>t, HoldersFinite
<1>r. ASSUME UNCHANGED at PROVE ReadHolders(p)' = ReadHolders(p)
  BY <1>r DEF ReadHolders, R!HeldBy, R!RegionPool, R!Region
<1>w. ASSUME UNCHANGED <<tenant, pc>> PROVE WriteHolders(p)' = WriteHolders(p)
  BY <1>w DEF WriteHolders, Pool, TenantOf
<1>1. ASSUME NEW w \in Writes, WriteBegins(w)
      PROVE  Cardinality(WriteHolders(p)') + Cardinality(ReadHolders(p)') =< MaxConns
  <2>1. ReadHolders(p)' = ReadHolders(p)
    BY <1>1, <1>r DEF WriteBegins
  <2>2. /\ tenant' = tenant /\ \A v \in Writes \ {w} : pc'[v] = pc[v]
    BY <1>1, <1>t DEF WriteBegins, BeginTx, EnterAttempt, TypeOK
  <2>3. \A v \in Writes : Pool(v)' = Pool(v)
    BY <2>2 DEF Pool, TenantOf
  <2>4. CASE Pool(w) # p
    <3>1. WriteHolders(p)' = WriteHolders(p)
      BY <2>2, <2>3, <2>4 DEF WriteHolders
    <3>. QED  BY <2>1, <3>1, <1>i
  <2>5. CASE Pool(w) = p
    <3>1. Cardinality(WriteHolders(p)) + Cardinality(ReadHolders(p)) < MaxConns
      BY <1>1, <2>5, BusyHolders DEF WriteBegins
    <3>2. WriteHolders(p)' \subseteq WriteHolders(p) \cup {w}
      BY <2>2, <2>3 DEF WriteHolders
    <3>3. /\ IsFiniteSet(WriteHolders(p) \cup {w})
          /\ Cardinality(WriteHolders(p) \cup {w}) \in
               {Cardinality(WriteHolders(p)), Cardinality(WriteHolders(p)) + 1}
      BY <1>n, FS_AddElement
    <3>4. /\ Cardinality(WriteHolders(p)') =< Cardinality(WriteHolders(p) \cup {w})
          /\ Cardinality(WriteHolders(p)') \in Nat
      BY <3>2, <3>3, FS_Subset, FS_CardinalityType
    <3>. QED  BY <2>1, <3>1, <3>3, <3>4, <1>n, BoundsAssumption
  <2>. QED  BY <2>4, <2>5
<1>2. ASSUME NEW w \in Writes, WriteProceeds(w) \/ WriteFails(w)
      PROVE  Cardinality(WriteHolders(p)') + Cardinality(ReadHolders(p)') =< MaxConns
  <2>1. ReadHolders(p)' = ReadHolders(p)
    BY <1>2, <1>r DEF WriteProceeds, WriteFails
  <2>2. /\ tenant' = tenant /\ \A v \in Writes \ {w} : pc'[v] = pc[v]
        /\ pc'[w] \in Holding => pc[w] \in Holding
    BY <1>2, <1>t DEF WriteProceeds, WriteFails, Proceed, setTenantContext, Insert, IncrementCounter,
            Release, recordWrite, Retry, StatementError, BeginFails, EnterAttempt, Return,
            Holding, TypeOK
  <2>3. \A v \in Writes : Pool(v)' = Pool(v)
    BY <2>2 DEF Pool, TenantOf
  <2>4. WriteHolders(p)' \subseteq WriteHolders(p)
    BY <2>2, <2>3 DEF WriteHolders
  <2>. QED  BY <2>1, <2>4, <1>t, <1>i, FewerHolders
<1>3. ASSUME NEW r \in Rounds, WriteTicks(r)
      PROVE  Cardinality(WriteHolders(p)') + Cardinality(ReadHolders(p)') =< MaxConns
  <2>1. ReadHolders(p)' = ReadHolders(p)
    BY <1>3, <1>r DEF WriteTicks
  <2>2. ASSUME NEW v \in Writes, pc'[v] \in Holding
        PROVE  pc[v] = pc'[v] /\ Pool(v)' = Pool(v)
    <3>1. v[1][1] # r /\ pc'[v] = pc[v]
      BY <1>3, <2>2 DEF WriteTicks, WriteTick, Holding
    <3>2. TenantOf(v)' = TenantOf(v)
      BY <1>3, <3>1, WriteParts DEF WriteTicks, WriteTick, TenantOf
    <3>. QED  BY <3>1, <3>2 DEF Pool
  <2>3. WriteHolders(p)' \subseteq WriteHolders(p)
    BY <2>2 DEF WriteHolders
  <2>. QED  BY <2>1, <2>3, <1>t, <1>i, FewerHolders
<1>4. ASSUME NEW r \in ReadRounds, ReadBegins(r)
      PROVE  Cardinality(WriteHolders(p)') + Cardinality(ReadHolders(p)') =< MaxConns
  <2>1. WriteHolders(p)' = WriteHolders(p)
    BY <1>4, <1>w DEF ReadBegins, vars
  <2>2. \A q \in ReadRounds \ {r} : at'[q] = at[q]
    BY <1>4, ReadStep DEF ReadBegins, R!Step
  <2>3. ReadHolders(p)' \subseteq ReadHolders(p) \cup {r}
    BY <2>2 DEF ReadHolders, R!HeldBy, R!RegionPool, R!Region
  <2>4. /\ IsFiniteSet(ReadHolders(p) \cup {r})
        /\ Cardinality(ReadHolders(p) \cup {r}) \in
             {Cardinality(ReadHolders(p)), Cardinality(ReadHolders(p)) + 1}
    BY <1>n, FS_AddElement
  <2>5. /\ Cardinality(ReadHolders(p)') =< Cardinality(ReadHolders(p) \cup {r})
        /\ Cardinality(ReadHolders(p)') \in Nat
    BY <2>3, <2>4, FS_Subset, FS_CardinalityType
  <2>6. CASE R!Wanted(r) = p
    <3>1. Cardinality(WriteHolders(p)) + Cardinality(ReadHolders(p)) < MaxConns
      BY <1>4, <2>6, BusyHolders DEF ReadBegins
    <3>. QED  BY <2>1, <2>4, <2>5, <3>1, <1>n, BoundsAssumption
  <2>7. CASE R!Wanted(r) # p
    <3>1. r \notin ReadHolders(p)'
      <4>1. PICK n : at' = [at EXCEPT ![r].pc = n] /\ n = IF at[r].pc = "global begin" THEN "global query" ELSE "regional query"
        BY <1>4 DEF ReadBegins, R!Begin, R!Goto
      <4>2. at'[r].pc = n /\ at'[r].i = at[r].i
        BY <4>1 DEF ReadInv, Place
      <4>3. at[r].pc \in {"global begin", "regional begin"}
        BY <1>4 DEF ReadBegins, R!Begin, R!Wanted
      <4>4. R!HeldBy(r)' = R!Wanted(r)
        <5>1. CASE at[r].pc = "global begin"
          <6>1. at'[r].pc = "global query" /\ R!Wanted(r) = "app"
            BY <4>1, <4>2, <5>1 DEF R!Wanted
          <6>. QED  BY <6>1 DEF R!HeldBy
        <5>2. CASE at[r].pc = "regional begin"
          <6>1. at'[r].pc = "regional query" /\ R!Wanted(r) = R!RegionPool(r)
            BY <4>1, <4>2, <5>2 DEF R!Wanted
          <6>2. R!RegionPool(r)' = R!RegionPool(r)
            BY <4>2 DEF R!RegionPool, R!Region
          <6>. QED  BY <6>1, <6>2 DEF R!HeldBy
        <5>. QED  BY <4>3, <5>1, <5>2
      <4>. QED  BY <4>4, <2>7 DEF ReadHolders
    <3>2. ReadHolders(p)' \subseteq ReadHolders(p)
      BY <2>3, <3>1
    <3>. QED  BY <2>1, <3>2, <1>t, <1>i, FewerHolders
  <2>. QED  BY <2>6, <2>7
<1>5. ASSUME NEW r \in ReadRounds, ReadProceeds(r) \/ ReadFails(r)
      PROVE  Cardinality(WriteHolders(p)') + Cardinality(ReadHolders(p)') =< MaxConns
  <2>1. WriteHolders(p)' = WriteHolders(p)
    BY <1>5, <1>w DEF ReadProceeds, ReadFails, vars
  <2>2. \A q \in ReadRounds \ {r} : at'[q] = at[q]
    BY <1>5, ReadStep DEF ReadProceeds, ReadFails, R!Step
  <2>3. at'[r].pc \notin {"global query", "regional query"}
    <3>0. at \in [ReadRounds -> Place] /\ at[r] \in Place
      BY DEF ReadInv, Place
    <3>1. CASE R!ReadTick(r)
      BY <3>0, <3>1 DEF R!ReadTick
    <3>2. CASE R!NextRegion(r)
      <4>1. \/ at' = [at EXCEPT ![r] = R!Off]
            \/ at' = [at EXCEPT ![r] = [at[r] EXCEPT !.pc = "global begin"]]
            \/ at' = [at EXCEPT ![r] = [pc |-> "region", i |-> at[r].i + 1]]
        BY <3>2 DEF R!NextRegion
      <4>2. [at[r] EXCEPT !.pc = "global begin"] = [pc |-> "global begin", i |-> at[r].i]
        BY <3>0, PlaceUpdates
      <4>3. \/ at'[r] = [pc |-> "off", i |-> 1]
            \/ at'[r] = [pc |-> "global begin", i |-> at[r].i]
            \/ at'[r] = [pc |-> "region", i |-> at[r].i + 1]
        BY <3>0, <4>1, <4>2 DEF R!Off
      <4>4. CASE at'[r] = [pc |-> "off", i |-> 1]
        BY <4>4, PlacePc
      <4>5. CASE at'[r] = [pc |-> "global begin", i |-> at[r].i]
        <5>1. PICK k : at'[r] = [pc |-> "global begin", i |-> k]
          BY <4>5, Zenon
        <5>2. at'[r].pc = "global begin"
          BY <5>1, PlacePc
        <5>. QED  BY <5>2
      <4>6. CASE at'[r] = [pc |-> "region", i |-> at[r].i + 1]
        <5>1. PICK k : at'[r] = [pc |-> "region", i |-> k]
          BY <4>6, Zenon
        <5>2. at'[r].pc = "region"
          BY <5>1, PlacePc
        <5>. QED  BY <5>2
      <4>. QED  BY <4>3, <4>4, <4>5, <4>6
    <3>3. CASE R!AfterRead(r)
      <4>1. \/ at' = [at EXCEPT ![r].pc = "regional begin"]
            \/ at' = [at EXCEPT ![r] = [pc |-> "region", i |-> at[r].i + 1]]
        BY <3>3 DEF R!AfterRead, R!Goto
      <4>2. [at[r] EXCEPT !.pc = "regional begin"] = [pc |-> "regional begin", i |-> at[r].i]
        BY <3>0, PlaceUpdates
      <4>3. \/ at'[r] = [pc |-> "regional begin", i |-> at[r].i]
            \/ at'[r] = [pc |-> "region", i |-> at[r].i + 1]
        BY <3>0, <4>1, <4>2
      <4>4. CASE at'[r] = [pc |-> "regional begin", i |-> at[r].i]
        <5>1. PICK k : at'[r] = [pc |-> "regional begin", i |-> k]
          BY <4>4, Zenon
        <5>2. at'[r].pc = "regional begin"
          BY <5>1, PlacePc
        <5>. QED  BY <5>2
      <4>5. CASE at'[r] = [pc |-> "region", i |-> at[r].i + 1]
        <5>1. PICK k : at'[r] = [pc |-> "region", i |-> k]
          BY <4>5, Zenon
        <5>2. at'[r].pc = "region"
          BY <5>1, PlacePc
        <5>. QED  BY <5>2
      <4>. QED  BY <4>3, <4>4, <4>5
    <3>. QED  BY <1>5, <3>1, <3>2, <3>3 DEF ReadProceeds, ReadFails, R!ReadDone, R!ReadFails
  <2>4. p # "none"
    BY PoolAssumption DEF Pools, AllRegions
  <2>5. ReadHolders(p)' \subseteq ReadHolders(p)
    BY <2>2, <2>3, <2>4 DEF ReadHolders, R!HeldBy, R!RegionPool, R!Region
  <2>. QED  BY <2>1, <2>5, <1>t, <1>i, FewerHolders
<1>6. ASSUME NEW i \in CutNodes, Isolate(i)
      PROVE  Cardinality(WriteHolders(p)') + Cardinality(ReadHolders(p)') =< MaxConns
  BY <1>6, <1>r, <1>w, <1>i DEF Isolate
<1>7. CASE UNCHANGED wvars
  BY <1>7, <1>r, <1>w, <1>i DEF wvars, vars
<1>. QED  BY <1>1, <1>2, <1>3, <1>4, <1>5, <1>6, <1>7 DEF WorkloadNext

(* The read side of the invariant. *)
LEMMA ReadsStep ==
  ASSUME ReadInv, [WorkloadNext]_wvars PROVE ReadInv'
<1>1. ASSUME UNCHANGED <<at, cut>> PROVE ReadInv'
  BY <1>1 DEF ReadInv, Reading
<1>2. ASSUME NEW r \in ReadRounds, ReadBegins(r) \/ ReadProceeds(r) \/ ReadFails(r) PROVE ReadInv'
  BY <1>2, ReadStep DEF ReadBegins, ReadProceeds, ReadFails, R!Step
<1>3. ASSUME NEW i \in CutNodes, Isolate(i) PROVE ReadInv'
  BY <1>3 DEF Isolate, ReadInv, Reading
<1>4. ASSUME NEW r \in Rounds, WriteTicks(r) PROVE ReadInv'
  BY <1>1, <1>4 DEF WriteTicks
<1>5. ASSUME NEW w \in Writes, WriteBegins(w) \/ WriteProceeds(w) \/ WriteFails(w) PROVE ReadInv'
  BY <1>1, <1>5 DEF WriteBegins, WriteProceeds, WriteFails
<1>6. CASE UNCHANGED wvars
  BY <1>1, <1>6 DEF wvars
<1>. QED  BY <1>2, <1>3, <1>4, <1>5, <1>6 DEF WorkloadNext

(* Before the first tick nobody reads and every pool is idle. *)
LEMMA ReadsInit == WorkloadInit => ReadInv /\ PoolsInv
<1> SUFFICES ASSUME WorkloadInit PROVE ReadInv /\ PoolsInv
  OBVIOUS
<1>0. Len(Regions) \in Nat
  BY RegionsAssumption
<1>1. R!Off \in Place /\ R!Off.pc = "off"
  BY <1>0 DEF R!Off, Place
<1>2. \A r \in ReadRounds : at[r] = R!Off
  BY DEF WorkloadInit, R!Init
<1>3. at \in [ReadRounds -> Place] /\ cut = {}
  BY <1>1 DEF WorkloadInit, R!Init
<1>4. Reading = {}
  BY <1>1, <1>2 DEF Reading
<1>5. ReadInv
  BY <1>1, <1>2, <1>3, <1>4, FS_EmptySet DEF ReadInv, Place, Waiting
<1>6. ASSUME NEW p \in Pools
      PROVE  Cardinality(WriteHolders(p)) + Cardinality(ReadHolders(p)) =< MaxConns
  <2>1. WriteHolders(p) = {}
    BY DEF WorkloadInit, Init, WriteHolders, Holding
  <2>2. p # "none"
    BY PoolAssumption DEF Pools, AllRegions
  <2>3. ReadHolders(p) = {}
    BY <1>1, <1>2, <2>2 DEF ReadHolders, R!HeldBy
  <2>4. Cardinality(WriteHolders(p)) = 0 /\ Cardinality(ReadHolders(p)) = 0
    BY <2>1, <2>3, FS_EmptySet
  <2>. QED  BY <2>4, BoundsAssumption
<1>. QED  BY <1>5, <1>6 DEF PoolsInv

(* The type invariant of the whole workload, which contains the limit of every
   pool: runReads and runWrites together never hold more than MaxConns
   connections of one pool. *)
THEOREM WorkloadTypeHolds == WorkloadSpec => []WorkloadType
<1>1. IndInv /\ MetricsInv /\ ReadInv /\ PoolsInv /\ [WorkloadNext]_wvars => ReadInv' /\ PoolsInv'
  BY ReadsStep, PoolsStep
<1>2. IndInv /\ ReadInv /\ PoolsInv => WorkloadType
  <2> SUFFICES ASSUME IndInv, ReadInv, PoolsInv PROVE WorkloadType
    OBVIOUS
  <2>1. R!TypeOK
    BY DEF ReadInv, Place, R!TypeOK, Waiting
  <2>2. cut \subseteq CutNodes /\ down \subseteq AllRegions
    BY DEF ReadInv, IndInv, TypeOK
  <2>3. \A p \in Pools : InUse(p) + R!InUse(p) =< MaxConns
    BY BusyHolders DEF PoolsInv, Busy
  <2>. QED  BY <2>1, <2>2, <2>3 DEF WorkloadType, Pools
<1>. QED  BY <1>1, <1>2, ReadsInit, WritesBesideReads, PTL DEF WorkloadSpec

(* The whole workload implements the event ledger, whatever nodes are cut off
   and whatever is read beside the writes. *)
THEOREM WorkloadLedger == WorkloadSpec => ImplementsLedger
<1>1. WorkloadInit => Ledger!LedgerInit
  BY LedgerInits DEF WorkloadInit
<1>2. IndInv /\ [WorkloadNext]_wvars => [Ledger!LedgerNext]_(Ledger!lvars)
  <2> SUFFICES ASSUME IndInv, [WorkloadNext]_wvars PROVE [Ledger!LedgerNext]_(Ledger!lvars)
    OBVIOUS
  <2>1. CASE [Next]_vars
    BY <2>1, LedgerSteps
  <2>2. CASE UNCHANGED writeVars
    BY <2>2 DEF writeVars, Ledger!lvars
  <2>. QED  BY <2>1, <2>2, StepsOfWrites
<1>. QED  BY <1>1, <1>2, WritesBesideReads, PTL DEF WorkloadSpec, ImplementsLedger, Ledger!LedgerSpec

(* The counters, the rows and the metrics of the write path stay exact when
   reads run beside the writes. *)
THEOREM WorkloadCounters == WorkloadSpec => [](CountersExact /\ AtMostOneRow /\ MetricsBracket)
  BY WritesBesideReads, BracketFollows, PTL DEF IndInv
=============================================================================
