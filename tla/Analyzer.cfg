SPECIFICATION Spec
CONSTANTS
  Registry <- MCRegistry
  Stranger = "unknown"
  Sections <- MCSections
  PatternSections <- MCPatternSections
  Options = {"default", "custom"}
  DefaultOption = "default"
  Nil = "nil"
  Passes = {p1, p2}
  Configs <- MCConfigs
  Inputs <- MCInputs
INVARIANTS TypeOK OneDiagnosticPerAssertion HighestPriorityWins ReportIsLent
PROPERTY ImplementsLinter
CHECK_DEADLOCK FALSE
