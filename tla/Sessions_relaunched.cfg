CONSTANTS
  Ids = {s1}
  Clients = {c1}
  GC = GC
  Free = Free
  Ops = {"create", "resume"}
  MaxLaunches = 2
  MaxCrashes = 0
  SaveMayFail = FALSE
  KillMayFail = FALSE
SPECIFICATION Spec
PROPERTIES CollectorSparesLivePanes
