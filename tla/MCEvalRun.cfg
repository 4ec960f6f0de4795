SPECIFICATION EvalSpec
CONSTANTS
  Drafts <- MCDrafts
  NoDraft = NoDraft
  FieldCount = 2
  PageCounts = {0, 1, 4}
  Reference <- MCReference
  Outputs <- MCOutputs
  Unbound = Unbound
  Canon <- MCCanon
  Threshold = 85
  MaxCommits = 2
INVARIANTS
  GateHolds
  ScoresSound
  SameHasNoGaps
PROPERTIES
  EvalEnds
CHECK_DEADLOCK FALSE
