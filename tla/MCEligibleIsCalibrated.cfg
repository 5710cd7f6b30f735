CONSTANTS
  Calls <- MCCalls
  MaxTrail = 4
  Findings <- MCFindings
  TerminalTruth <- MCTerminalTruth
  ReleaseTruth <- MCReleaseTruth
  Topologies <- MCTopologies
  SoftCalls = 600
  HardCalls = 2200
  Overruns <- MCOverruns
  SuccessScore = 900
SPECIFICATION ScorecardSpec
INVARIANT EligibleIsCalibrated
CHECK_DEADLOCK FALSE
