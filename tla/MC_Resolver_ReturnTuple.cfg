CONSTANTS
  None = None
  Globals <- MCGlobals
  FLocals <- MCFLocals
  GLocals <- MCGLocals
  Programs <- TupleReturn
  Runs = 1
SPECIFICATION Spec
INVARIANTS NoCrash

CHECK_DEADLOCK FALSE
