SPECIFICATION Spec
CONSTANTS
  p1 = p1  p2 = p2  p3 = p3  f1 = f1  i1 = i1
  Rest = {p1, p2}  Frames = {}  Ingests = {i1}
  Genesis = Genesis
  Malformed = {}
  Ids <- SharedIds  IdOf <- SharedIdOf
  QueueCap = 1  BatchMax = 2
  SharedHost = FALSE
  MaxResets = 1  MaxCrashes = 1  MaxFailures = 2
INVARIANTS FeedDistinct Durable Settled ReplicatedIsStored
PROPERTY Refines
CHECK_DEADLOCK FALSE
