---------------------------- MODULE TenantTiers ----------------------------
(***************************************************************************)
(* The arithmetic of the tenant pool (internal/workload/tenant.go): how     *)
(* distribute splits n tenants over the QoS tiers and which tier and home   *)
(* region seed gives to the i-th tenant.                                    *)
(***************************************************************************)
EXTENDS Geo, Integers, Sequences, FiniteSets

Tiers == {"critical", "regular", "background"}

(* max(1, int(float64(n)*0.20 + 0.5)).  n/5 + 1/2 is never a whole number less
   than 1/10 away from one in floating point, so rounding half up is exact. *)
Fifth(n) == LET k == (2 * n + 5) \div 10 IN IF k > 1 THEN k ELSE 1

(* Mutant: the tiers are not kept at one tenant or more. *)
distributeUnclamped(n) ==
  LET k == (2 * n + 5) \div 10
  IN  [critical |-> k, regular |-> n - 2 * k, background |-> k]

(* Mutant: the remainder is forgotten, regular is a plain 60 per cent. *)
distributeTruncates(n) ==
  [critical |-> Fifth(n), regular |-> (6 * n) \div 10, background |-> Fifth(n)]

distribute(n) ==
  LET k == Fifth(n)
      r == n - 2 * k
  IN  IF r >= 1
      THEN [critical |-> k, regular |-> r, background |-> k]
      ELSE [critical   |-> IF k > 1 THEN k - 1 ELSE k,
            regular    |-> 1,
            background |-> IF k > 1 THEN k ELSE k - 1]

SeedLen(n) ==
  LET d == distribute(n) IN d.critical + d.regular + d.background

(* The tier list of seed: the critical block, the regular one, the background
   one; i counts from 1. *)
TierAt(n, i) ==
  LET d == distribute(n)
  IN  IF i =< d.critical THEN "critical"
      ELSE IF i =< d.critical + d.regular THEN "regular" ELSE "background"

(* home_region is dealt out cyclically, whatever the tier. *)
RegionAt(regions, i) == regions[((i - 1) % Len(regions)) + 1]

(* The rows seed inserts, in this order. *)
SeedList(n, regions) ==
  [i \in 1 .. SeedLen(n) |-> [tier |-> TierAt(n, i), region |-> RegionAt(regions, i)]]

-----------------------------------------------------------------------------

(* "20% critical, 60% regular, 20% background (min 1 each)": the three blocks
   are never empty, add up to n, and are within half a tenant of the quota. *)
SplitExact(n) ==
  LET d == distribute(n)
  IN  /\ d.critical >= 1 /\ d.regular >= 1 /\ d.background >= 1
      /\ d.critical + d.regular + d.background = n
      /\ 10 * d.critical - 2 * n \in -5 .. 5
      /\ 10 * d.background - 2 * n \in -5 .. 5
      /\ 10 * d.regular - 6 * n \in -10 .. 10

(* "every combination is represented as the pool grows": from the size at which
   the smallest block is as long as the list of regions, every region has
   tenants of every tier. *)
EveryCombination(n, regions) ==
  Fifth(n) >= Len(regions) =>
    \A t \in Tiers, k \in 1 .. Len(regions) :
      \E i \in 1 .. SeedLen(n) : TierAt(n, i) = t /\ RegionAt(regions, i) = regions[k]

(* No region is more than one tenant ahead of another, over the whole pool. *)
RegionCount(n, regions, g) ==
  Cardinality({i \in 1 .. SeedLen(n) : RegionAt(regions, i) = g})

RegionsBalanced(n, regions) ==
  \A j, k \in 1 .. Len(regions) :
    RegionCount(n, regions, regions[j]) - RegionCount(n, regions, regions[k]) \in -1 .. 1

=============================================================================
