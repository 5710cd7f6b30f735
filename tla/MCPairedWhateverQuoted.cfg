CONSTANTS
  Responses <- MCResponses
  BatchLimit = 2
  ResultSizes = {1, 6}
  AnswerSizes = {2}
  Notices = 1
  CheckpointLeast = 2
  CheckpointMost = 12
  Soft = 14
  Target = 10
  Emergency = 8
  Floor = 4
  PolicyTarget = 8
  Limits <- MCLimits
  MaxTurns = 1
SPECIFICATION TalkSpec
INVARIANT PairedWhateverQuoted
CHECK_DEADLOCK FALSE
