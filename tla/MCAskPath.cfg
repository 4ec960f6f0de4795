SPECIFICATION Spec
CONSTANTS
  s1 = s1
  s2 = s2
  p1 = p1
  p2 = p2
  Skills = {s1, s2}
  Pages = {p1, p2}
  Spaces = {"FA", "OPS"}
  NoSkill = NoSkill
  NoPage = NoPage
  NoConfig = NoConfig
  NoEntry = NoEntry
  Unknown = Unknown
  Configs <- MCConfigs
  Initial <- MCInitial
  Disk <- MCDisk
  SpaceOf <- MCSpaceOf
  HasAdapter = TRUE
  CacheCap = 1
  Asker = Asker
  Evals = {e1}
  MaxTime = 1
  MaxChanges = 1
INVARIANTS
  OnePage
  FreshEnough
  Backfilled
  Disclosed
