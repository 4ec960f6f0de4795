SPECIFICATION Spec
CONSTANTS
  i1 = i1
  i2 = i2
  i3 = i3
  r1 = r1
  r2 = r2
  r3 = r3
  NoId = NoId
  Overlapping = FALSE
  Ids <- MCIds
  Requests <- MCRequests
SYMMETRY MCSymmetry
CHECK_DEADLOCK FALSE
INVARIANTS
  RepliesSaved
  OneSessionPerRow
PROPERTIES
  ReopenedByOperatorOnly
