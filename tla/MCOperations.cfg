SPECIFICATION OpsSpec
CONSTANTS
  c1 = c1
  r1 = r1
  q1 = q1
  v1 = v1
  k1 = k1
  k2 = k2
  NoCall = NoCall
  Calls = {c1}
  Reports = {r1}
  Demands = {q1}
  Reviews = {v1}
  ErrorKinds = {k1, k2}
  Flaws <- MCFlaws
  CritiqueBugs = {1}
  ReadOrder <- MCReadOrder
  MaxCalls = 3
  MaxWrites = 2
  MaxCommands = 1
INVARIANTS
  AuditAfterBugs
  CriticalTrue
  FirstReportSeen
SYMMETRY MCSymmetry
CHECK_DEADLOCK FALSE
