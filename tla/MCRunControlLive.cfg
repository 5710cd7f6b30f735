CONSTANTS
  Requests = {r1, r2}
  Ops = {"cancel", "pause", "resume", "budget", "archive"}
  Runner = Runner
  NoOne = NoOne
  MaxTurns = 2
  MaxCrashes = 1
SPECIFICATION FairSpec
INVARIANTS PauseHoldsAtNextBoundary
PROPERTIES CancelReleasesRunner EveryRunEnds EveryRequestAnswered
