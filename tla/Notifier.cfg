SPECIFICATION FairSpec
CONSTANTS
  timer = timer  hand = hand
  Runs <- MCRuns
  Manual <- MCManual
  MaxEntries = 3
  MaxTroubles = 1
CHECK_DEADLOCK FALSE
INVARIANTS
  NothingSkipped
  RepeatsHaveAReason
PROPERTIES
  EveryEventTold
