SPECIFICATION Spec
CONSTANTS
  c1 = c1  c2 = c2  c3 = c3  c4 = c4  c5 = c5  r1 = r1
  Calls = {c1, c2, c3, c4, c5}
  Body <- MCBody
  Ids = {"m1", "m2", "m3", "m4"}
  NoId = "none"  Unbindable = "list"  NoObject = "7"
  Resets = {r1}
  Free = Free
  MaxFailures = 1  MaxCrashes = 1
INVARIANTS AllOrNothing AnsweredHonestly
PROPERTY Refines
CHECK_DEADLOCK FALSE
