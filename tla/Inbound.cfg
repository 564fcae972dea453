SPECIFICATION MCSpec
CONSTANTS
  op = op  t1 = t1  s1 = s1  s2 = s2  nobody = nobody  p1 = p1
  Chats <- MCChats
  Operator = op
  NoChat = nobody
  Admissible <- MCAdmissible
  Prompts <- MCPrompts
  Traffic <- MCTraffic
  Cap = 2
  StoreMayFail = TRUE
  MaxUpdates = 3
  MaxBatch = 2
  MaxEntries = 4
  MaxCrashes = 2
SYMMETRY MCSymmetry
INVARIANTS
  TypeOK
  NothingLost
  OncePerProcess
  FirstTapDecides
  TapsAreRecorded
  KnocksBounded
  KnockNotLost
PROPERTIES
  CommittedNeverReplayed
  OnlyTheEnabledAreServed
