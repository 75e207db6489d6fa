SPECIFICATION Spec
CONSTANTS
  Multicast = {m1}
  Response = {r1}
  Handler = handler
  NoOne = NoOne
  u1 = u1
  u2 = u2
  l1 = l1
  l2 = l2
  Udns = {u1, u2}
  Locations = {l1, l2}
  Offers <- MCOffers
  Slots = {a1, a2, a3}
  Null = Null
  MaxPackets = 3
  MaxMisnamed = 1
  MaxTime = 2
PROPERTY PointersLeasesOrNames
CHECK_DEADLOCK FALSE
