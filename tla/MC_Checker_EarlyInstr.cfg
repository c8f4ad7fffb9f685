CONSTANTS
  None = None
  Trees <- EarlyInstr
SPECIFICATION Spec
INVARIANT NoCrash
CHECK_DEADLOCK FALSE
