CONSTANTS
    Words <- SomeWords
    MaxTyped = 3
    MaxCalls = 2
    Setups <- AllSetups
SPECIFICATION FairSpec
INVARIANTS
    PromptOwnsTheTerminal
    DecisionsAreTheUsers
PROPERTIES
    PromptsEndAtEof
    ShellReturnsOnItsOwn
