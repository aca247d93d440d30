SPECIFICATION Spec
CONSTANTS
  MaxNodes = 3
  Sizes = {1, 2}
  MaxCommands = 5
  MaxFaults = 1
INVARIANTS TypeOK DestroyLeavesOnlyOrphans CreateComplete NoOtherObstacle ChaosSetupRepairs
PROPERTY DataSurvives
CHECK_DEADLOCK FALSE
