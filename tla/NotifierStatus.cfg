SPECIFICATION Spec
CONSTANTS
  timer = timer  hand = hand
  Runs <- OneRun
  Manual <- NoManual
  MaxEntries = 4
  MaxTroubles = 1
CHECK_DEADLOCK FALSE
INVARIANTS
  StatusKnowsTheDigest
