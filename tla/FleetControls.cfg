SPECIFICATION FairSpec
CONSTANTS
  Caps = {"30"}
  Traffic <- MCTraffic
  Policies <- MCPolicies
  MaxOrders = 3
  MaxBatch = 2
  MaxCrashes = 2
CHECK_DEADLOCK FALSE
INVARIANTS
  TypeOK
  FleetFollowsOrders
  LedgerTellsTheFleet
  EveryOrderOnRecord
PROPERTIES
  SettledOrdersRest
  EveryOrderHandled
