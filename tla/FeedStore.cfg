SPECIFICATION FairSpec
CONSTANTS
  r1 = r1  r2 = r2  r4 = r4  g1 = g1
  Worker = Worker  NoReq = NoReq
  Reqs = {r1, r2, r4}
  WellFormed = {r1, r2}
  Unquotable = {}
  Ids <- OwnIds  IdOf <- OwnIdOf
  Getters = {g1}
  ChanCap = 1  BufCap = 4
  OpenOutcomes = {TRUE, FALSE}
  MaxResets = 1  MaxCrashes = 1
INVARIANTS HeldOnce NothingVanishes Drained BackupFaithful PurgedReturnOnlyLate
PROPERTIES Refines EventuallyVisible EventuallyOnDisk
