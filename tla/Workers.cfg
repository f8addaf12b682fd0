SPECIFICATION FairSpec
CONSTANTS
  w1 = w1  w2 = w2  p1 = p1  p2 = p2  p3 = p3
  Workers = {w1, w2}  Master = Master
  Requests = {p1, p2, p3}
  Ids <- MCIds  IdOf <- MCIdOf
  Nothing = Nothing  Torn = Torn
  QueueCap = 1  MaxCrashes = 2
INVARIANTS KeysAgree OwnConnection
PROPERTIES EventuallyServing EventuallyStored
CHECK_DEADLOCK FALSE
