SPECIFICATION Spec
CONSTANTS
  Channels = {c1, c2}
  None = None
  MaxTouches = 2
  MaxTroubles = 1
  MaxEvents = 1
INVARIANTS TypeOK AwayIsQuiet SettledPlaysTheChosen NoLabelOverPicture
PROPERTY RingStops
CHECK_DEADLOCK FALSE
