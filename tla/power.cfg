SPECIFICATION Spec
CONSTANTS
  s1 = s1
  s2 = s2
  Shells = {s1, s2}
  Nprocs = {3, 4, 12, 20}
  Governors = {"powersave", "performance", "schedutil"}
  Calls = {"performance", "toggle"}
  Swept = 2
  MaxEvents = 4
  MaxStops = 1
INVARIANTS CpusFollow AllCpus GovernorFollows
PROPERTIES DisableEmpties
CHECK_DEADLOCK FALSE
