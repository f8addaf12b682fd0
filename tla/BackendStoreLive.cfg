SPECIFICATION FairSpec
CONSTANTS
  p1 = p1  p2 = p2  p3 = p3  f1 = f1  i1 = i1
  Rest = {p1, p3}  Frames = {f1}  Ingests = {i1}
  Genesis = Genesis
  Malformed = {p3}
  Ids <- IngestedIds  IdOf <- IngestedIdOf
  QueueCap = 1  BatchMax = 2
  SharedHost = FALSE
  MaxResets = 0  MaxCrashes = 1  MaxFailures = 1
PROPERTY EventuallyStored
CHECK_DEADLOCK FALSE
