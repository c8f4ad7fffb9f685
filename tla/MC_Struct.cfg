CONSTANTS
  None = None
  Junk = Junk
  Undefined = Undefined
  v1 = v1
  v2 = v2
  r1 = r1
  r2 = r2
SPECIFICATION Spec
INVARIANT TypeOK OffsetsMatchLayout
PROPERTY Implements
CHECK_DEADLOCK FALSE
