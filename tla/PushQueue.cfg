SPECIFICATION Spec
CONSTANTS
  c1 = c1
  c2 = c2
  r1 = r1
  Channels = {c1, c2}
  Recordings = {r1}
  None = None
  Orders <- MCOrders
  Seconds = 2
  MaxPushes = 4
  MaxLists = 2
INVARIANTS TypeOK OneAtATime OffersItsHead
PROPERTIES QueueRunsEmpty IsOfferQueue
