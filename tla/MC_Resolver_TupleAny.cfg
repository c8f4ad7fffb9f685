CONSTANTS
  None = None
  Globals <- MCGlobals
  FLocals <- MCFLocals
  GLocals <- MCGLocals
  Programs <- TupleToAnyCall
  Runs = 1
SPECIFICATION Spec
INVARIANTS WidthsAssigned

CHECK_DEADLOCK FALSE
