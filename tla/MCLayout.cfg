SPECIFICATION Spec
CONSTANTS
  MaxNodes = 12
  Counts <- ManyCounts
INVARIANTS LayoutReadsBack ReplicasFit GatewaysAtHome HomesConnected TenantsDealt
CHECK_DEADLOCK FALSE
