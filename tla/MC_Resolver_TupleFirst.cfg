CONSTANTS
  None = None
  Globals <- MCGlobals
  FLocals <- MCFLocals
  GLocals <- MCGLocals
  Programs <- TupleFirstCall
  Runs = 1
SPECIFICATION Spec
INVARIANTS InferredWidths

CHECK_DEADLOCK FALSE
