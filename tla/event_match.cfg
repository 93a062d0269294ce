SPECIFICATION Spec
CONSTANTS
  Values <- SomeValues
  Size <- SomeSize
  Datas <- SomeDatas
  Criteria <- SomeCriteria
  MaxEvents = 2
INVARIANTS EventsKept
PROPERTIES TakesOldestMatch
CHECK_DEADLOCK FALSE
