------------------------- MODULE TenantTiersProofs -------------------------
(***************************************************************************)
(* The split of the tenant pool over the QoS tiers, for every pool size.    *)
(***************************************************************************)
EXTENDS TenantTiers, FiniteSetTheorems, FunctionTheorems, TLAPS

(* Fifth is a fifth of n rounded half up, never less than one: from three
   tenants on, the clamp to one stays within half a tenant of the quota. *)
LEMMA FifthRounds ==
  ASSUME NEW n \in Nat, n >= 3
  PROVE  /\ Fifth(n) \in Nat /\ Fifth(n) >= 1
         /\ 10 * Fifth(n) - 2 * n >= -5
         /\ 10 * Fifth(n) - 2 * n =< 5
<1> DEFINE k == (2 * n + 5) \div 10
<1>1. k \in Int /\ 10 * k =< 2 * n + 5 /\ 2 * n + 5 < 10 * (k + 1)
  BY SMT
<1>2. CASE k > 1
  BY <1>1, <1>2 DEF Fifth
<1>3. CASE ~(k > 1)
  BY <1>1, <1>3 DEF Fifth
<1>. QED  BY <1>2, <1>3

(* "20% critical, 60% regular, 20% background (min 1 each)" (seed, distribute):
   for every pool of three tenants or more, the three blocks are non-empty, add
   up to n and are the quotas up to rounding; the branch of distribute that
   takes tenants away from critical or background is never entered. *)
THEOREM SplitIsExact ==
  \A n \in Nat : n >= 3 => SplitExact(n)
<1> SUFFICES ASSUME NEW n \in Nat, n >= 3
             PROVE  SplitExact(n)
  OBVIOUS
<1> DEFINE k == Fifth(n)
<1>1. /\ k \in Nat /\ k >= 1
      /\ 10 * k - 2 * n >= -5 /\ 10 * k - 2 * n =< 5
  BY FifthRounds
<1> HIDE DEF k
<1>2. n - 2 * k >= 1
  BY <1>1
<1>3. distribute(n) = [critical |-> k, regular |-> n - 2 * k, background |-> k]
  BY <1>2 DEF distribute, k
<1>4. /\ 10 * (n - 2 * k) - 6 * n >= -10
      /\ 10 * (n - 2 * k) - 6 * n =< 10
      /\ k + (n - 2 * k) + k = n
  BY <1>1
<1>. QED  BY <1>1, <1>2, <1>3, <1>4 DEF SplitExact

(* The pool is seeded with as many tenants as were asked for, whatever the
   number, from three tenants on: the loops of seed insert SeedLen(n) rows. *)
THEOREM SeedsEveryTenant ==
  \A n \in Nat : n >= 3 => SeedLen(n) = n
<1> SUFFICES ASSUME NEW n \in Nat, n >= 3
             PROVE  SeedLen(n) = n
  OBVIOUS
<1>1. SplitExact(n)
  BY SplitIsExact
<1>. QED  BY <1>1 DEF SplitExact, SeedLen

(* The bound of three is sharp: asked for one tenant, distribute raises regular
   to one and takes the tenant away from background only, so that two are seeded
   ("SeedOrLoad seeds the tenants table with n tenant UUIDs"); asked for two, it
   leaves background without any ("min 1 each"). *)
THEOREM SmallPoolsDiffer ==
  /\ SeedLen(1) = 2
  /\ distribute(2).background = 0
<1>1. Fifth(1) = 1 /\ Fifth(2) = 1
  BY DEF Fifth
<1>. QED  BY <1>1 DEF SeedLen, distribute

-----------------------------------------------------------------------------
(* The home regions, which seed deals out in turn.                          *)

(* However many tenants are asked for, a whole number of them is seeded. *)
LEMMA SeedLenIsNatural ==
  ASSUME NEW n \in Nat, n >= 1 PROVE SeedLen(n) \in Nat
<1>1. CASE n >= 3
  BY <1>1, SeedsEveryTenant
<1>2. CASE n = 1
  BY <1>2, SmallPoolsDiffer
<1>3. CASE n = 2
  <2>1. Fifth(2) = 1
    BY DEF Fifth
  <2>2. distribute(2) = [critical |-> 1, regular |-> 1, background |-> 0]
    BY <2>1 DEF distribute
  <2>. QED  BY <1>3, <2>2 DEF SeedLen
<1>. QED  BY <1>1, <1>2, <1>3

(* How many of N tenants are dealt to the place r of three. *)
LEMMA DealtToPlace ==
  ASSUME NEW N \in Nat, NEW r \in 0 .. 2
  PROVE  Cardinality({i \in 1 .. N : (i - 1) % 3 = r}) = (N + 2 - r) \div 3
<1> DEFINE m == (N + 2 - r) \div 3
           S == {i \in 1 .. N : (i - 1) % 3 = r}
           f == [q \in 1 .. m |-> 3 * (q - 1) + r + 1]
<1>1. m \in Nat /\ 3 * m =< N + 2 - r /\ N + 2 - r < 3 * (m + 1)
  OBVIOUS
<1> HIDE DEF m
<1>2. \A q \in 1 .. m : f[q] \in S
  <2> SUFFICES ASSUME NEW q \in 1 .. m PROVE f[q] \in S
    OBVIOUS
  <2>1. 3 * (q - 1) + r + 1 \in 1 .. N
    BY <1>1
  <2>2. (3 * (q - 1) + r) % 3 = r
    OBVIOUS
  <2>3. (3 * (q - 1) + r + 1) - 1 = 3 * (q - 1) + r
    OBVIOUS
  <2>. QED  BY <2>1, <2>2, <2>3
<1>3. \A p, q \in 1 .. m : f[p] = f[q] => p = q
  OBVIOUS
<1>4. \A i \in S : \E q \in 1 .. m : f[q] = i
  <2> SUFFICES ASSUME NEW i \in S PROVE \E q \in 1 .. m : f[q] = i
    OBVIOUS
  <2> DEFINE q == ((i - 1) \div 3) + 1
  <2>1. i \in 1 .. N /\ (i - 1) % 3 = r
    OBVIOUS
  <2>2. q \in Int /\ i - 1 = 3 * (q - 1) + r
    BY <2>1
  <2>3. q \in 1 .. m
    BY <1>1, <2>1, <2>2
  <2>4. f[q] = i
    BY <2>1, <2>2, <2>3
  <2>. QED  BY <2>3, <2>4
<1>5. f \in Bijection(1 .. m, S)
  <2>1. f \in [1 .. m -> S]
    BY <1>2
  <2> HIDE DEF f, S
  <2>. QED  BY <1>3, <1>4, <2>1, Fun_IsBij, Fun_IsInj, Fun_IsSurj
<1>6. IsFiniteSet(1 .. m) /\ Cardinality(1 .. m) = m
  BY <1>1, FS_Interval
<1> HIDE DEF S, f
<1>7. Cardinality(S) = Cardinality(1 .. m)
  BY <1>5, <1>6, FS_Bijection DEF ExistsBijection
<1>. QED  BY <1>6, <1>7 DEF m, S

(* No region is more than one tenant ahead of another (seed), for pools of every
   size, over three regions or in one. *)
THEOREM RegionsAlwaysBalanced ==
  ASSUME NEW n \in Nat, n >= 1, NEW a, NEW b, NEW c, a # b, a # c, b # c
  PROVE  RegionsBalanced(n, <<a, b, c>>) /\ RegionsBalanced(n, <<a>>)
<1> DEFINE N == SeedLen(n)
           R == <<a, b, c>>
<1>1. N \in Nat
  BY SeedLenIsNatural
<1>2. RegionsBalanced(n, R)
  <2>1. Len(R) = 3 /\ R[1] = a /\ R[2] = b /\ R[3] = c
    OBVIOUS
  <2>2. ASSUME NEW j \in 1 .. 3
        PROVE  RegionCount(n, R, R[j]) = (N + 2 - (j - 1)) \div 3
    <3>1. \A i \in 1 .. N : RegionAt(R, i) = R[j] <=> (i - 1) % 3 = j - 1
      <4> SUFFICES ASSUME NEW i \in 1 .. N PROVE RegionAt(R, i) = R[j] <=> (i - 1) % 3 = j - 1
        OBVIOUS
      <4>1. (i - 1) % 3 \in 0 .. 2 /\ RegionAt(R, i) = R[((i - 1) % 3) + 1]
        BY <1>1, <2>1 DEF RegionAt
      <4>2. \A p, q \in 1 .. 3 : R[p] = R[q] => p = q
        BY <2>1
      <4> HIDE DEF R
      <4>. QED  BY <4>1, <4>2
    <3> HIDE DEF R
    <3>2. {i \in 1 .. N : RegionAt(R, i) = R[j]} = {i \in 1 .. N : (i - 1) % 3 = j - 1}
      BY <3>1
    <3>3. j - 1 \in 0 .. 2
      OBVIOUS
    <3>. QED  BY <1>1, <3>2, <3>3, DealtToPlace DEF RegionCount
  <2>3. \A j, k \in 1 .. 3 : ((N + 2 - (j - 1)) \div 3) - ((N + 2 - (k - 1)) \div 3) \in -1 .. 1
    BY <1>1
  <2> HIDE DEF R, N
  <2>. QED  BY <2>1, <2>2, <2>3 DEF RegionsBalanced
<1>3. RegionsBalanced(n, <<a>>)
  <2>1. Len(<<a>>) = 1 /\ RegionCount(n, <<a>>, <<a>>[1]) \in Nat
    <3>1. {i \in 1 .. N : RegionAt(<<a>>, i) = <<a>>[1]} \subseteq 1 .. N
      OBVIOUS
    <3>2. IsFiniteSet({i \in 1 .. N : RegionAt(<<a>>, i) = <<a>>[1]})
      <4>1. IsFiniteSet(1 .. N)
        BY <1>1, FS_Interval
      <4>. QED  BY <3>1, <4>1, FS_Subset
    <3>. QED  BY <3>2, FS_CardinalityType DEF RegionCount
  <2>2. \A j \in 1 .. 1 : j = 1
    OBVIOUS
  <2>. QED  BY <2>1, <2>2 DEF RegionsBalanced
<1>. QED  BY <1>2, <1>3

(* Of any three tenants in a row, one is dealt to each place. *)
LEMMA ThreeInARow ==
  ASSUME NEW s \in Nat, NEW k \in 1 .. 3
  PROVE  \E i \in (s + 1) .. (s + 3) : ((i - 1) % 3) + 1 = k
<1>1. s % 3 \in 0 .. 2 /\ s = 3 * (s \div 3) + (s % 3)
  OBVIOUS
<1>2. \A d \in 0 .. 2 : ((s + 1 + d) - 1) % 3 = ((s % 3) + d) % 3
  <2> SUFFICES ASSUME NEW d \in 0 .. 2 PROVE ((s + 1 + d) - 1) % 3 = ((s % 3) + d) % 3
    OBVIOUS
  <2> DEFINE p == s \div 3
             r == s % 3
  <2>1. p \in Nat /\ r \in 0 .. 2 /\ (s + 1 + d) - 1 = 3 * p + r + d
    BY <1>1
  <2> HIDE DEF p, r
  <2>2. (3 * p + r + d) % 3 = (r + d) % 3
    BY <2>1
  <2>. QED  BY <2>1, <2>2 DEF r
<1>3. \E d \in 0 .. 2 : (((s % 3) + d) % 3) + 1 = k
  BY <1>1
<1>4. PICK d \in 0 .. 2 : (((s % 3) + d) % 3) + 1 = k
  BY <1>3
<1>5. s + 1 + d \in (s + 1) .. (s + 3)
  OBVIOUS
<1>. QED  BY <1>2, <1>4, <1>5

(* "every combination is represented as the pool grows" (seed): once the smallest
   block has a tenant for each region, every region has tenants of every tier. *)
THEOREM EveryCombinationArises ==
  ASSUME NEW n \in Nat, n >= 3, NEW a, NEW b, NEW c
  PROVE  EveryCombination(n, <<a, b, c>>) /\ EveryCombination(n, <<a>>)
<1> DEFINE q == Fifth(n)
<1>1. /\ q \in Nat /\ q >= 1
      /\ 10 * q - 2 * n >= -5 /\ 10 * q - 2 * n =< 5
  BY FifthRounds
<1>2. n - 2 * q >= 1 /\ (q >= 3 => n - 2 * q >= 3) /\ n - 2 * q \in Nat
  BY <1>1
<1>3. distribute(n) = [critical |-> q, regular |-> n - 2 * q, background |-> q] /\ SeedLen(n) = n
  BY <1>2, SeedsEveryTenant DEF distribute
<1> HIDE DEF q
<1>4. /\ \A i \in 1 .. q : TierAt(n, i) = "critical" /\ i \in 1 .. n
      /\ \A i \in (q + 1) .. (n - q) : TierAt(n, i) = "regular" /\ i \in 1 .. n
      /\ \A i \in (n - q + 1) .. n : TierAt(n, i) = "background" /\ i \in 1 .. n
  BY <1>1, <1>2, <1>3 DEF TierAt
<1>5. EveryCombination(n, <<a, b, c>>)
  <2> DEFINE R == <<a, b, c>>
  <2>1. Len(R) = 3
    OBVIOUS
  <2> HIDE DEF R
  <2> SUFFICES ASSUME q >= 3, NEW t \in Tiers, NEW k \in 1 .. 3
               PROVE  \E i \in 1 .. n : TierAt(n, i) = t /\ RegionAt(R, i) = R[k]
    BY <1>3, <2>1 DEF EveryCombination, R, q
  <2>2. \E s \in Nat : \A i \in (s + 1) .. (s + 3) : TierAt(n, i) = t /\ i \in 1 .. n
    <3>1. CASE t = "critical"
      <4>1. \A i \in (0 + 1) .. (0 + 3) : TierAt(n, i) = t /\ i \in 1 .. n
        BY <1>1, <1>4, <3>1
      <4>. QED  BY <4>1
    <3>2. CASE t = "regular"
      <4>1. \A i \in (q + 1) .. (q + 3) : TierAt(n, i) = t /\ i \in 1 .. n
        BY <1>1, <1>2, <1>4, <3>2
      <4>. QED  BY <1>1, <4>1
    <3>3. CASE t = "background"
      <4>1. \A i \in (n - q + 1) .. (n - q + 3) : TierAt(n, i) = t /\ i \in 1 .. n
        BY <1>1, <1>2, <1>4, <3>3
      <4>2. n - q \in Nat
        BY <1>1, <1>2
      <4>. QED  BY <4>1, <4>2
    <3>. QED  BY <3>1, <3>2, <3>3 DEF Tiers
  <2>3. PICK s \in Nat : \A i \in (s + 1) .. (s + 3) : TierAt(n, i) = t /\ i \in 1 .. n
    BY <2>2
  <2>4. PICK i \in (s + 1) .. (s + 3) : ((i - 1) % 3) + 1 = k
    BY ThreeInARow
  <2>5. RegionAt(R, i) = R[k]
    BY <2>1, <2>4 DEF RegionAt
  <2>. QED  BY <2>3, <2>4, <2>5
<1>6. EveryCombination(n, <<a>>)
  <2> SUFFICES ASSUME NEW t \in Tiers, NEW k \in 1 .. 1
               PROVE  \E i \in 1 .. n : TierAt(n, i) = t /\ RegionAt(<<a>>, i) = <<a>>[k]
    BY <1>3 DEF EveryCombination
  <2>1. \E i \in 1 .. n : TierAt(n, i) = t
    <3>1. 1 \in 1 .. q /\ q + 1 \in (q + 1) .. (n - q) /\ n \in (n - q + 1) .. n
      BY <1>1, <1>2
    <3>. QED  BY <1>4, <3>1 DEF Tiers
  <2>2. \A i \in 1 .. n : RegionAt(<<a>>, i) = <<a>>[k]
    <3> SUFFICES ASSUME NEW i \in 1 .. n PROVE RegionAt(<<a>>, i) = <<a>>[k]
      OBVIOUS
    <3>1. (i - 1) % 1 = 0 /\ k = 1 /\ Len(<<a>>) = 1
      OBVIOUS
    <3>. QED  BY <3>1 DEF RegionAt
  <2>. QED  BY <2>1, <2>2
<1>. QED  BY <1>5, <1>6

=============================================================================
