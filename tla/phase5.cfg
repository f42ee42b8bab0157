SPECIFICATION PatchSpec
CONSTANTS
  MaxRuns = 4
  Texts <- MCTexts
INVARIANTS
  OneBlock
  UserCodeKept
  RefusedRunChangesNothing
  RerunAddsOnlyLineEnds
  ImportableUnlessReanchored
  ServedWhenRun
CHECK_DEADLOCK FALSE
