SPECIFICATION Spec
CONSTANTS
  Configs <- OneConfig
  AttemptCosts = {0, 5}
  MaxFaults = 1
INVARIANT EveryTierServed
CHECK_DEADLOCK FALSE
