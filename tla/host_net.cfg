SPECIFICATION Spec
CONSTANTS
  s1 = s1
  s2 = s2
  Shells <- MCShells
  Length <- MCLength
  Place <- MCPlace
  MaxRuns = 3
  MaxLocked = 1
INVARIANTS
  CopiesFollow
  BridgesSettle
CHECK_DEADLOCK FALSE
