SPECIFICATION Spec
CONSTANTS
  Rounds = {r1, r2}
  Batch = 1
  east1 = east1
  west1 = west1
  Tenants = {east1}
  HomeRegion <- MCHomeRegion
  NoTenant = NoTenant
  PoolRegions = {"us-east", "us-west"}
  MaxConns = 2
  MaxRetries = 1
  FaultyRegions = {}
  MaxCrashes = 1
SYMMETRY RoundSymmetry
INVARIANTS AtMostOneRow MetricsBracket
PROPERTY ImplementsLedger
CHECK_DEADLOCK FALSE
