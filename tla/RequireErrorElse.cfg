SPECIFICATION Spec
CONSTANTS
  Files <- ElseBranches
  Patterns <- MCPatterns
INVARIANT NothingRunsAfterLast
CHECK_DEADLOCK FALSE
