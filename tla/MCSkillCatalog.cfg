SPECIFICATION Spec
CONSTANTS
  s1 = s1
  s2 = s2
  Skills <- MCSkills
  Workers = {w1}
  Tasks = {t1, t2}
  NoSkill = NoSkill
  NoWorker = NoWorker
  MaxCommits <- MCCommits
SYMMETRY Interchangeable
INVARIANTS
  CardsArePromoted
  RoutedWasPromoted
  NoOrphanCard
PROPERTIES
  ServedWhenAnswered
CHECK_DEADLOCK FALSE
