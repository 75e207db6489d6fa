SPECIFICATION Spec
CONSTANTS
  s1 = s1
  s2 = s2
  s3 = s3
  s4 = s4
  Sockets = {s1, s2, s3, s4}
  NoSocket = NoSocket
  OpenResults = {TRUE, FALSE}
  MaxStatus = 5
  MaxLeaked = 2
  MaxReads = 2
  MaxRestarts = 3
SYMMETRY Symmetry
INVARIANTS
  TypeOK
  HeartbeatWhileOnline
  OnlineShowsNoOutage
  OneReadAtATime
PROPERTY StaysOneChain
