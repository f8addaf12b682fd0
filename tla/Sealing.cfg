SPECIFICATION Spec
CONSTANTS
  p1 = p1  p2 = p2  f1 = f1  f2 = f2  c1 = c1
  Posts = {p1, p2}  Frames = {f1, f2}  Conns = {c1}
  ConnOf <- MCConnOf
  Username <- MCUsername  Text <- MCText  Timestamp <- MCTimestamp
  None = None
  CacheMax = 0
  QueueMax = 1
  MaxEmptied = 1
SYMMETRY EqualFrames
INVARIANTS SealsVerify OneKeyPerSender SequentialChain TamperEvident
CHECK_DEADLOCK FALSE
