CONSTANTS
  None = None
  Globals <- MCGlobals
  FLocals <- MCFLocals
  GLocals <- MCGLocals
  Programs <- ShortCall
  Runs = 2
SPECIFICATION Spec
INVARIANTS Idempotent

CHECK_DEADLOCK FALSE
