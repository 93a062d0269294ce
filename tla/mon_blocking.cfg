SPECIFICATION FairSpec
CONSTANTS
  shutdown = shutdown
  stop = stop
  Names <- TwoNames
  Waits = {"no", "block"}
  Timeouts = {}
  TornLines = FALSE
  MaxCmds = 3
  MaxEvents = 2
INVARIANTS OwnReply WaitEndsWithEvent EventsConserved
PROPERTIES ImplementsService CmdReturns WaitFindsMatch
