SPECIFICATION Spec
CONSTANTS
  Files <- Recursions
  IgnoreHTTPHandlers = TRUE
  MaxDepth = 4
INVARIANT NoReentry
CHECK_DEADLOCK FALSE
