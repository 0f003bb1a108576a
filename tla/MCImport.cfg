CONSTANTS
    Name = {"a", "b", "c", ".h", "none"}
    Build = "c"
    Value = {1, 2}
    Key = {"X", "Y", "Z"}
    Text = {"own", "container", "parent", "other", "service", "top", "default"}
    MaxFollowed = 4
    Hidden <- SomeHidden
    Stage <- SomeStages
    TestStage = "test"
    DefaultStages <- SomeDefaultStages
    CircleCIFiles <- SomeCircleCIFiles
    GitHubFiles <- SomeGitHubFiles
    GitLabFiles <- SomeGitLabFiles
SPECIFICATION LocalSpec
INVARIANTS
    AcceptedIsRunnable
    EveryJobIsAccountedFor
    SkipsAreContained
    NeedsCoverEveryCombination
    StagesAreBarriers
    SettingsComeFromTheNearest
    RunFollowsTheFile
