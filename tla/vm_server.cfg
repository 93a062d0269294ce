SPECIFICATION Spec
CONSTANTS
  server = server
  desktop = desktop
  s1 = s1
  s2 = s2
  Names <- OneName
  Server = server
  Desktop = server
  Covers <- Distinct
  Saved = {}
  Ops = {"start", "stop", "load"}
  Scripts = {s1, s2}
  MaxPolls = 2
  MaxRuns = 2
  MaxQemus = 3
INVARIANTS OneQEMUPerName MonitorReachable
SYMMETRY AnyScript
CHECK_DEADLOCK FALSE
