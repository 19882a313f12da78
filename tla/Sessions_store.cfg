CONSTANTS
  Ids = {s1, s2}
  Clients = {c1, c2}
  GC = GC
  Free = Free
  Ops = {"create", "resume", "delete", "rename"}
  MaxLaunches = 2
  MaxCrashes = 1
  SaveMayFail = FALSE
  KillMayFail = FALSE
SPECIFICATION Spec
SYMMETRY Symmetric
INVARIANTS WindowIsOwned DiskMatchesMemory
