SPECIFICATION Spec
CONSTANTS
  Waiting = Waiting
  Failed = Failed
  Done = Done
  None = None
  MaxCalls = 2
  Name = {n1, n2}
  MaxChanges = 1
  PanelSize = 1
  MaxNotes = 2
  MaxTouches = 1
  MaxClicks = 2
INVARIANTS
  TypingIsKept
PROPERTIES
  BoardIsLive
  BadgeCatchesUp
CHECK_DEADLOCK FALSE
