SPECIFICATION Spec
CONSTANTS
  Qtest = FALSE
  FixedAddress = FALSE
  Faults <- AllFaults
  MaxLaunches = 1
INVARIANTS NothingLeftBehind
