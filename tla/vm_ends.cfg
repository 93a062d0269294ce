SPECIFICATION Spec
CONSTANTS
  server = server
  desktop = desktop
  s1 = s1
  s2 = s2
  Names <- TwoNames
  Server = server
  Desktop = desktop
  Covers <- Prefix
  Saved = {desktop}
  Ops = {"start", "stop", "wakeup", "resume", "pause", "save", "load", "status"}
  Scripts = {s1, s2}
  MaxPolls = 2
  MaxRuns = 2
  MaxQemus = 1
INVARIANTS StopStops
PROPERTIES RunsEnd ShellsEnd
CHECK_DEADLOCK FALSE
