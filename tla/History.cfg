SPECIFICATION Spec
CONSTANTS
  ch1 = ch1
  ch2 = ch2
  ch3 = ch3
  ch4 = ch4
  rec1 = rec1
  Lists <- WithRecording
  All <- TwoChannels
  Recs <- OneRecording
  Keep = 1
  Blocks = {w1, w2}
  None = None
  MaxPlays = 3
  MaxJumps = 1
CHECK_DEADLOCK FALSE
SYMMETRY Symmetric
INVARIANTS TypeOK NoDuplicates AtMostTwenty
PROPERTY LeavesOnlyFor
