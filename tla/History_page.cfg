SPECIFICATION Spec
CONSTANTS
  ch1 = ch1
  ch2 = ch2
  ch3 = ch3
  ch4 = ch4
  rec1 = rec1
  Lists <- OneCategory
  All <- FourChannels
  Recs <- NoRecordings
  Keep = 3
  Blocks = {w1}
  None = None
  MaxPlays = 4
  MaxJumps = 0
CHECK_DEADLOCK FALSE
INVARIANT DeletesWhatWasTouched
