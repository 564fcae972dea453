SPECIFICATION MCSpec
CONSTANTS
  Limit = 4
  MaxLen = 9
  CallbackMax = 5
  Routes <- MCRoutes
  MaxIncoming = 6
CHECK_DEADLOCK FALSE
INVARIANTS
  ChunksFit
  NothingReadableLost
  LinesStayWhole
  TidyTextsAreReadable
  TextsMeanWhatTheySay
