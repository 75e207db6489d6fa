SPECIFICATION Spec
CONSTANTS
  Frames <- MCFrames
  Cuts = {}
  MaxFrames = 3
INVARIANT RecordingOrDialog
CHECK_DEADLOCK FALSE
