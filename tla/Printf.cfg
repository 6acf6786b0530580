SPECIFICATION FairSpec
CONSTANTS
  Calls <- MCCalls
INVARIANTS OneReport ComplaintsAreExact
PROPERTY Terminates
CHECK_DEADLOCK FALSE
