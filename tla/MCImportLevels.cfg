CONSTANTS
    Name = {"a", "b", "c", ".h", "none"}
    Build = "c"
    Value = {1, 2}
    Key = {"X", "Y", "Z"}
    Text = {"own", "container", "parent", "other", "service", "top", "default"}
    MaxFollowed = 3
    Hidden <- SomeHidden
    Stage <- SomeStages
    TestStage = "test"
    DefaultStages <- SomeDefaultStages
    CircleCIFiles <- SomeCircleCIFiles
    GitHubFiles <- NoFiles
    GitLabFiles <- NoFiles
SPECIFICATION LocalSpec
INVARIANT
    LevelsRunInTurn
