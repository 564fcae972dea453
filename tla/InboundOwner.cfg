SPECIFICATION FairSpec
CONSTANTS
  op = op  t1 = t1  s1 = s1  s2 = s2  nobody = nobody  p1 = p1
  Chats <- MCChats
  Operator = op
  NoChat = nobody
  Admissible <- MCAdmissible
  Prompts <- MCPrompts
  Traffic <- OwnerTraffic
  Cap = 1
  StoreMayFail = TRUE
  MaxUpdates = 2
  MaxBatch = 2
  MaxEntries = 4
  MaxCrashes = 0
PROPERTIES
  OwnerNeverLockedOut
