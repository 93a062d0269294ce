SPECIFICATION Spec
CONSTANTS
  shutdown = shutdown
  stop = stop
  Names <- TwoNames
  Waits = {"no", "timed"}
  Timeouts = {}
  TornLines = FALSE
  MaxCmds = 4
  MaxEvents = 1
INVARIANTS OwnReply
