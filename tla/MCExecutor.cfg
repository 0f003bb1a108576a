CONSTANTS
    a = a
    b = b
    Name <- TwoJobs
    NoName = NoName
    Pipelines <- ChainAndPair
    Configs <- AllConfigs
    MaxServices = 1
    MaxRetries = 1
    Controllers = {TRUE, FALSE}
SPECIFICATION MCSpec
INVARIANTS
    DependenciesAreGone
    RunLeavesNothingBehind
    VerdictIsRight
    OnePromptAtATime
PROPERTIES
    RunReturns
