SPECIFICATION Spec
CONSTANTS
  None = None
  Hours = 4
  MaxDay = 1
  MaxOffset = 1
INVARIANT EnteredIsKept
