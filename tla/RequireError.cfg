SPECIFICATION Spec
CONSTANTS
  Files <- MCFiles
  Patterns <- MCPatterns
INVARIANTS ReportsDetermined LastIsLast
CHECK_DEADLOCK FALSE
