SPECIFICATION FairSpec
CONSTANTS
  Frames <- MCFrames
  Cuts <- MCCuts
  MaxFrames = 3
INVARIANTS
  TypeOK
  InOrderOnce
  WholeReadIsHandled
  StopsForCause
PROPERTIES TakesAll IsDelivery
CHECK_DEADLOCK FALSE
