SPECIFICATION WorkloadSpec
CONSTANTS
  Rounds = {r1}
  Batch = 1
  east1 = east1
  Tenants = {east1}
  HomeRegion <- MCHomeRegion
  NoTenant = NoTenant
  PoolRegions = {"eu-central", "us-east"}
  MaxConns = 1
  MaxRetries = 1
  FaultyRegions = {}
  MaxCrashes = 0
  ReadRounds = {q1, q2}
  Regions <- TwoRegions
  Populated = {"us-east"}
  CutNodes = {1, 4}
INVARIANTS WorkloadType
PROPERTIES GlobalNeverStarves GlobalReadsProceed RegionDrains RoundsEnd
CHECK_DEADLOCK FALSE
