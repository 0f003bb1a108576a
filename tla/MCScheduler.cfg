CONSTANTS
    a = a
    b = b
    c = c
    d = d
    Name <- Job4
    NoName = NoName
    Pipelines <- SmallPipelines
SPECIFICATION FairSpec
INVARIANTS
    TypeOK
    DoneMeansFinal
    SkippedForAnAncestorsFailure
    FailureStopsDescendants
    ResultIsTrue
    LoggerProtocol
    NoGoroutineOutlivesRun
PROPERTIES
    ImplementsPipelineSpec
    HungBranchHoldsUpNoOther
    ImplementsFairness
