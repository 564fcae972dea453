SPECIFICATION Spec
CONSTANTS
  Quota = 2
  MaxRequests = 2
  MaxCrashes = 0
INVARIANTS
  UncalledIsUnbilled
