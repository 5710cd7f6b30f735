CONSTANTS
  Requests = {r1, r2, r3}
  Ops = {"cancel", "pause", "resume", "budget"}
  Runner = Runner
  NoOne = NoOne
  MaxTurns = 1
  MaxCrashes = 1
  IdleTicks = 2
  ReaderRequests = 1
  Extensions = 2
SPECIFICATION MCSpec
SYMMETRY Symmetry
INVARIANTS EventLogGapFree AtMostOneVerdict CompletedHasEvidence PausedMeansHeld ReaderMissesNothing
PROPERTIES CancelOutlivesExecution LifecycleSpec
