CONSTANTS
    Name <- OneJob
    NoName = NoName
    Configs <- SmallConfigs
    MaxServices = 2
    MaxRetries = 2
    Controllers = {TRUE, FALSE}
SPECIFICATION Spec
INVARIANTS
    TypeOK
    NothingLeftBehind
    StepsHaveTheirContainers
    AfterScriptAlwaysRuns
    StepsFollowDecisions
    ErrorIsTheRightOne
