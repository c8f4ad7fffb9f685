CONSTANTS
  None = None
  Globals <- MCGlobals
  FLocals <- MCFLocals
  GLocals <- MCGLocals
  Programs <- ShortThenFullCall
  Runs = 1
SPECIFICATION Spec
INVARIANTS InferredWidths

CHECK_DEADLOCK FALSE
