CONSTANTS
    Name <- Names5
    Arguments <- SmallArguments
SPECIFICATION ResolveSpec
INVARIANTS
    NothingSkippedInVain
    NothingDoomedIsKept
    ReasonsArePaths
    ErrorsAreRight
    LevelsAreLongestChains
    OrderIsStableAndTopological
    SkippingBreaksNothing
PROPERTIES
    ResolutionEnds
