SPECIFICATION Spec
CONSTANTS
    Names = {A}
    Order <- TwoPaths
    Leftovers <- SomeLeftovers
    OptionSets <- SomeOptions
    Kinds = {"struct"}
    Targets = {T, U}
    ContentSizes = {0, 8}
    MinSizes = {16}
    Sizes = {8, 16}
    None = None
    MaxHints = 1
    MaxBuilds = 1
    FreshBaseline = TRUE
CHECK_DEADLOCK FALSE
INVARIANT VerifiedStampTrue
