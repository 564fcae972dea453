SPECIFICATION FairSpec
CONSTANTS
  Subjects = {"idea:1", "idea:2"}
  NoSubject = "none"
  MaxUpdates = 2
  MaxReplies = 2
  MaxChunks = 2
  MaxCrashes = 1
  MaxLate = 1
CHECK_DEADLOCK FALSE
INVARIANTS
  ThreadsChain
  RepliesHaveNoHoles
  NoPhantomTyping
PROPERTIES
  EveryDrainEnds
