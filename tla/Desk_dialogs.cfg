CONSTANTS
  Sessions = {s1, s2}
  NoSession = NoSession
  Prompts = {p1, p2}
  NoPrompt = NoPrompt
  Free = Free
  MaxCalls = 2
  MaxPopups = 1
SPECIFICATION Spec
INVARIANTS DialogHasFocus InputsMatchTitles
PROPERTIES AskpassEnds NoDialogTraps
CHECK_DEADLOCK FALSE
