\* Every order of fixes for every method.
CONSTANT Methods <- MCMethods
SPECIFICATION FairSpec
INVARIANTS OneOutcome QuietMethodsRun
PROPERTIES FixesCompile FixesEnd
CHECK_DEADLOCK FALSE
