SPECIFICATION Spec
INVARIANT EscapedQuotes
CHECK_DEADLOCK FALSE
