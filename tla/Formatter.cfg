SPECIFICATION FairSpec
CONSTANTS
  Assertions <- MCAssertions
  Arguments <- MCArguments
INVARIANTS FixesAgree CleanMeansConventional
PROPERTIES FixesKeepTheMessage FixesEnd
CHECK_DEADLOCK FALSE
