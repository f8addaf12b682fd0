SPECIFICATION FairSpec
CONSTANTS
  b1 = b1  b2 = b2  p1 = p1  p2 = p2  p3 = p3
  Backends = {b1, b2}
  Posts = {p1, p2, p3}
  At <- MCAt  Ids = {p1, p2}  IdOf <- MCIdOf
  QueueCap = 1  BatchMax = 2  Fit = 1
  MaxFaults = 1  MaxResets = 1
INVARIANTS Accounted SettledStaysGone
PROPERTY EventuallyReplicated
CHECK_DEADLOCK FALSE
