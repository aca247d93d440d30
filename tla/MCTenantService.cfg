SPECIFICATION Spec
CONSTANTS
  east1 = east1
  west1 = west1
  Tenants = {east1, west1}
  HomeRegion <- MCHomeRegion
  Writes = {w1, w2, w3}
  Attempts = {1}
  PolicyOn = TRUE
SYMMETRY WriteSymmetry
INVARIANTS ListIsASnapshot StatusIsComplete GetCountsOwnRows NoFalseAlarm
CHECK_DEADLOCK FALSE
