CONSTANTS
  Requests = {r1, r2}
  Ops = {"cancel", "pause", "resume", "budget", "archive"}
  Runner = Runner
  NoOne = NoOne
  MaxTurns = 1
  MaxCrashes = 1
SPECIFICATION FairSpec
PROPERTIES CancelIsTerminal
