SPECIFICATION CLSpec
CONSTANTS
  Registry <- MCRegistry
  Stranger = "unknown"
  Sections <- MCSections
  PatternSections <- MCSections
  Options = {"default", "custom"}
  DefaultOption = "default"
  Nil = "nil"
  MaxFlags = 3
INVARIANT OnlyContradictionsFail
CHECK_DEADLOCK FALSE
