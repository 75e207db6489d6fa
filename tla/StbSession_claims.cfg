SPECIFICATION Spec
CONSTANTS
  s1 = s1
  s2 = s2
  s3 = s3
  Sockets = {s1, s2, s3}
  NoSocket = NoSocket
  OpenResults = {TRUE}
  MaxStatus = 5
  MaxLeaked = 1
  MaxReads = 2
  MaxRestarts = 1
INVARIANT OutageOrHeartbeat
