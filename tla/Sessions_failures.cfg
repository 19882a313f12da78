CONSTANTS
  Ids = {s1, s2}
  Clients = {c1}
  GC = GC
  Free = Free
  Ops = {"create", "resume", "delete", "purge"}
  MaxLaunches = 2
  MaxCrashes = 0
  SaveMayFail = TRUE
  KillMayFail = TRUE
SPECIFICATION FairSpec
INVARIANT RecordsAreSound
PROPERTIES ResumedStaysOnDisk DeadIsCollected
