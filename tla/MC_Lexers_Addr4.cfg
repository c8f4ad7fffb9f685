SPECIFICATION Spec
INVARIANT AbortsReported
CHECK_DEADLOCK FALSE
