CONSTANTS
  Streams = {stdout, stderr}
  ExitTask = ExitTask
  MaxOutput = 1
  Reads = TRUE
SPECIFICATION EFairSpec
INVARIANT EInv
INVARIANT DrainedBeforeFailure
PROPERTY ImplementsEventStream
PROPERTY SessionFails
PROPERTY ClosedDelivered
CHECK_DEADLOCK FALSE
