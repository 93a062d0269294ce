SPECIFICATION Spec
CONSTANTS
  shutdown = shutdown
  stop = stop
  Names <- TwoNames
  Waits = {"no", "block", "timed"}
  Timeouts = {"blocking"}
  TornLines = TRUE
  MaxCmds = 3
  MaxEvents = 2
SYMMETRY NameSymmetry
INVARIANTS OwnReplyWhileClean AnswersInOrder PendingInOrder
PROPERTIES OldestFirst CmdRaisesOnlyAfterFailure
