SPECIFICATION FairSpec
CONSTANTS
  Qtest = TRUE
  FixedAddress = FALSE
  Faults <- CleanFaults
  MaxLaunches = 3
INVARIANTS NoOrphan DownUnlessLaunched KillOnlyUnreaped LogOfLastRun NothingLeftBehind
PROPERTIES ShutdownReturns LaunchReturns
