CONSTANTS
  Popups = {p1, p2, p3, p4}
  Sessions = {1, 2}
  Targets = {1, 2}
  Visits = {"popups", "keys", "scroll", "changes"}
  KeyQueueSize = 2
  ViewHeight = 2
  MouseScrollLines = 2
  MaxHistory = 3
  MaxKeys = 4
  MaxChanges = 1
  MaxGen = 3
SPECIFICATION ScreenFairSpec
INVARIANTS AnsweredOnce KeysInOrder SettledView ScrollStateIsSound
PROPERTIES NoPopupLost OnlyVisibleAnswered BackgroundWorkEnds
CHECK_DEADLOCK FALSE
