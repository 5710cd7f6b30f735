SPECIFICATION Spec
CONSTANTS
    Reads = {f1}
    MaxBatch = 1
    DefaultBudget <- MCDefault
    MinCalls = 2
    Requests = {}
    MaxAdjusts = 0
    MaxUse <- MCMaxUse
    Script <- MCPassthrough
    MaxRetries = 0
    MaxRecoveries = 1
    MaxMalformed = 1
    MaxRejections = 0
PROPERTIES RereadShowsSource
