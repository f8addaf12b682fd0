SPECIFICATION Spec
CONSTANTS
  p1 = p1  p2 = p2  p3 = p3  f1 = f1  i1 = i1
  Rest = {p1, p2}  Frames = {}  Ingests = {}
  Genesis = Genesis
  Malformed = {}
  Ids <- OwnIds  IdOf <- OwnIdOf
  QueueCap = 2  BatchMax = 2
  SharedHost = TRUE
  MaxResets = 0  MaxCrashes = 0  MaxFailures = 0
INVARIANT ChainIntact
CHECK_DEADLOCK FALSE
