CONSTANTS
  Creds = {c1}
  Profiles = {p1, p2}
  Runs = {r1}
  Clients = {u1, u2}
  Asked = {"anthropic"}
  None = None
  MaxRotations = 1
  MaxAborts = 1
  Together = 2
  Users = {a1, a2}
  Tokens = {t1, t2}
  Requests = {q1, q2}
  Nobody = Nobody
  MaxRetries = 2
  HardLimit = 9
  MaxCalls = 2
  Responses <- MCResponses
  BatchLimit = 2
  ResultSizes = {1, 6}
  AnswerSizes = {2}
  Notices = 1
  CheckpointLeast = 2
  CheckpointMost = 12
  Soft = 14
  Target = 10
  Emergency = 8
  Floor = 4
  PolicyTarget = 8
  Limits <- MCLimits
  MaxTurns = 1
  Calls <- MCCalls
  MaxTrail = 4
  Findings <- MCFindings
  TerminalTruth <- MCTerminalTruth
  ReleaseTruth <- MCReleaseTruth
  Topologies <- MCTopologies
  SoftCalls = 600
  HardCalls = 2200
  Overruns <- MCOverruns
  SuccessScore = 900
  Targets = {s1}
  Views = {v1}
  Tickets = {i1}
  VisibleAt <- MCVisibleAt
  Phases = {"triage", "recovery"}
  PhaseAt <- MCPhaseAt
  Catalogue = {"acknowledge_no_change", "pause_rollout", "disable_validation"}
  AskedModes = {"baseline", "canary", "replay", "soak"}
  Horizon = 4
  MinTicks = 4
  MinPhaseViews = 1
  ReplayAfter = 1
  SoakAfter = 1
  SoakMin = 3
  SnapshotBudget = 2
  ActionBudget = 1
SPECIFICATION MCSpec
SYMMETRY Symmetry
INVARIANTS ReauthOnlyIfLost RunKeepsItsModel RequestsAccounted WiresPaired SentBounded AllOrNothing SuccessIsEarned
  SequenceFollowsGates EarlyDamageIsPermanent CompleteMeansGuarded
PROPERTIES DeletionSparesUsers AdminRemains DisabledHasNoSession RetiresOldest LadderSpec
CHECK_DEADLOCK FALSE
