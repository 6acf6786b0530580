SPECIFICATION Spec
CONSTANTS
  Files <- MCFiles
  IgnoreHTTPHandlers = FALSE
  MaxDepth = 4
INVARIANTS TypeOK StackMirrorsContext VerdictsAreExact WalkReportsExactly HandlersReportExactly ReentryIsMutual
CHECK_DEADLOCK FALSE
