CONSTANTS
  Requests = {r1, r2}
  Ops = {"pause", "resume"}
  Runner = Runner
  NoOne = NoOne
  MaxTurns = 1
  MaxCrashes = 1
SPECIFICATION Spec
INVARIANTS ControlNeverFailsRun
