SPECIFICATION Spec
CONSTANTS
  b1 = b1  b2 = b2  b3 = b3  g1 = g1  g2 = g2
  Batches = {b1, b2, b3}
  Decodable = {b1, b2}
  ItemsOf <- MCItemsOf
  Values <- MCValues
  Empty = ""
  Getters = {g1, g2}
  Resetter = Resetter  Free = Free
  MaxResets = 2
INVARIANTS IndexExact Linearizable
PROPERTIES Refines CacheAdvances
