SPECIFICATION Spec
INVARIANTS TypeOK LinesCounted BinpacLinesCounted QuadsAreAddresses DeclaredTypes
PROPERTIES NewlineTokens
CHECK_DEADLOCK FALSE
