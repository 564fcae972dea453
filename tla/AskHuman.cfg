SPECIFICATION MCSpec
CONSTANTS
  a1 = a1  a2 = a2  p1 = p1  p2 = p2
  Askers <- MCAskers
  Prompts <- MCPrompts
  NoMessage = NoMessage
  MaxEntries = 4
SYMMETRY MCSymmetry
CHECK_DEADLOCK FALSE
INVARIANTS
  AllowedOnlyByTap
