CONSTANTS
  Ids = {s1, s2, s3}
  Dirs = {d1}
  Trees = {w1}
  NoTree = NoTree
  PmName = pm
  Remotes = {h1}
  Local = Local
  NoSession = NoSession
  MaxWindows = 3
  KillMayFail = TRUE
  Requests = {r1, r2}
  Visits = {{"send"}, {"worker"}, {"pm"}, {"local"}, {"resume"}}
  Ops <- MCOps
  SendFails = TRUE
SPECIFICATION Spec
INVARIANTS StoreIsSound MessageReachesRecipient WorkerJoinsCaller
CHECK_DEADLOCK FALSE
SYMMETRY Symmetry
