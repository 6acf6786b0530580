SPECIFICATION Spec
CONSTANTS
  Registry <- MCRegistry
  Stranger = "unknown"
  Sections <- MCSections
  PatternSections <- MCPatternSections
  Options = {"default", "custom"}
  DefaultOption = "default"
  Nil = "nil"
INVARIANTS TypeOK ResultListsWanted ErrorsAreJustified ExpectedActualHasPattern
PROPERTY ImplementsSelection
CHECK_DEADLOCK FALSE
