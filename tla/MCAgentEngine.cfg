SPECIFICATION Spec
CONSTANTS
    Reads = {f1}
    MaxBatch = 2
    DefaultBudget <- MCDefault
    MinCalls = 2
    Requests <- MCRequests
    MaxAdjusts = 2
    MaxUse <- MCMaxUse
    Script <- MCScript
    MaxRetries = 1
    MaxRecoveries = 1
    MaxMalformed = 2
    MaxRejections = 1
INVARIANTS ConversationAnswered CancelIsPrompt AcceptedBudgetsTakeForce ReportedMetIsMet
PROPERTIES EngineEnds
