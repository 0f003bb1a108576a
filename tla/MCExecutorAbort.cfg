CONSTANTS
    a = a
    b = b
    Name <- TwoJobs
    NoName = NoName
    Pipelines <- PairOnly
    Configs <- OneStepConfigs
    MaxServices = 1
    MaxRetries = 0
    Controllers = {TRUE}
SPECIFICATION Spec
PROPERTIES
    AbortStopsThePipeline
