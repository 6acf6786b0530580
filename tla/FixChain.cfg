\* Every chain of fixes, from every assertion, in every order of checkers.
CONSTANTS
  ExpectedNames <- MCExpectedNames
  JSONNames <- MCJSONNames
  YAMLNames <- MCYAMLNames
  JSONTexts <- MCJSONTexts
  Calls <- MCCalls
  Settings <- MCSettings
SPECIFICATION FairSpec
INVARIANTS NilChecksSurvive OneOutcome TestsHold
PROPERTIES FixesCompile FixesKeepTheVerdict MessagesSurvive ChainsEnd
CHECK_DEADLOCK FALSE
