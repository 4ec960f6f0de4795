SPECIFICATION Spec
CONSTANTS
  p1 = p1
  p2 = p2
  rest = rest
  mcp = mcp
  Pages = {p1, p2}
  Numeric = {p1}
  Assignments <- MCAssignments
  Legacy = {p1}
  Rest = {rest}
  Mcp = {mcp}
  Worker = {}
  NoPage = NoPage
  Edited = {p1}
  MaxVersion = 2
  MaxRuns = 1
INVARIANTS
  PinnedReachable
  CompletedCounted
PROPERTIES
  NoRegression
  JobsEnd
CHECK_DEADLOCK FALSE
