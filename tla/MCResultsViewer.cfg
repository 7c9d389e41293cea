SPECIFICATION Spec
CONSTANTS
  Files = {"seeded", "rerun", "empty", "notes", "noScenarios", "noTables"}
  Kind <- MCKind
  Rows <- MCRows
  Controls = {"L1"}
  MaxLoads = 3
CHECK_DEADLOCK FALSE
INVARIANTS
  CellsComeFromSource
  BlankOnlyByPartialFile
PROPERTY LoneChoiceShown
