SPECIFICATION FairSpec
CONSTANTS
  b1 = b1  b2 = b2  p1 = p1  f1 = f1  i1 = i1
  Browsers = {b1}
  Posts = {p1}  Frames = {f1}  Ingested = {}
  Author <- AuthorIsB1
  Nobody = Nobody
  HistoryLimit = 2
  MaxConnects <- AllReturn
PROPERTIES Delivered Unregistered
CHECK_DEADLOCK FALSE
