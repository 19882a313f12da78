CONSTANTS
  Ids = {s1, s2}
  Stray = Stray
  NoId = NoId
  Connections = 2
  Callers = {c1, c2}
  Kinds = {"create", "worktree", "resume", "delete", "lookup"}
  SubBuffer = 2
  LocalBuffer = 1
  WireSize = 2
  Visits <- MCVisits
  MaxEvents = 2
  Strays = TRUE
  Drops = TRUE
SPECIFICATION FairSpec
INVARIANTS CreatedStaysCached PromptsInOrder
PROPERTIES SidebarFollows ActivityArrives
CHECK_DEADLOCK FALSE
