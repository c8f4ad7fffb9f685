CONSTANTS
  None = None
  Globals <- MCGlobals
  FLocals <- MCFLocals
  GLocals <- MCGLocals
  Programs <- AllPrograms
  Runs = 2
SPECIFICATION FrontSpec
INVARIANTS TypeOK CountsUnresolved WidthsAssigned InferredWidths CheckerTypeOK ValidIffClean DiagnosticsJustified
CHECK_DEADLOCK FALSE
