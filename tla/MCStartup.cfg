SPECIFICATION LiveSpec
CONSTANTS
  Configs <- MixedConfigs
  AttemptCosts = {0, 5}
  MaxFaults = 3
INVARIANTS TypeOK ServesReady PoolNeverEmpty PoliciesStay TableIsPrefix PoolPersists RetryWindow
PROPERTY EventuallyServes
CHECK_DEADLOCK FALSE
