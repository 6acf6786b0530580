SPECIFICATION FairSpec
CONSTANTS
  Assertions <- MCAssertions
  Arguments <- MCArguments
PROPERTY SprintfIsUnnecessary
CHECK_DEADLOCK FALSE
