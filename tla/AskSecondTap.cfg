SPECIFICATION RSpec
CONSTANTS
  op = op  t1 = t1  nobody = nobody  p1 = p1  a1 = a1
  Chats <- MCChats
  Operator = op
  NoChat = nobody
  NoMessage = nobody
  Cap = 1
  StoreMayFail = FALSE
  Admissible <- Nobody
  Prompts <- MCPrompts
  Askers <- MCAskers
  Traffic <- TapTraffic
  MaxUpdates = 2
  MaxBatch = 1
  MaxCrashes = 0
INVARIANTS
  PromptSaysWhatWasDecided
