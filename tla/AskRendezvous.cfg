SPECIFICATION RFairSpec
CONSTANTS
  op = op  t1 = t1  nobody = nobody  p1 = p1  a1 = a1
  Chats <- MCChats
  Operator = op
  NoChat = nobody
  NoMessage = nobody
  Cap = 1
  StoreMayFail = FALSE
  Admissible <- MCAdmissible
  Prompts <- MCPrompts
  Askers <- MCAskers
  Traffic <- MCTraffic
  MaxUpdates = 2
  MaxBatch = 2
  MaxCrashes = 1
INVARIANTS
  AskEntriesTellTheTap
PROPERTIES
  KeepsThePromise
  EveryUpdateHandled
  EveryAskEnds
  TappedAskEnds
