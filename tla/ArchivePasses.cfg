SPECIFICATION Spec
CONSTANTS
    Names = {A}
    Order <- TwoPaths
    Leftovers <- SomeLeftovers
    OptionSets <- SomeOptions
    Kinds = {"struct", "typedef", "enum", "function"}
    Targets = {T, U}
    ContentSizes = {0, 8}
    MinSizes = {8, 16}
    Sizes = {8, 16}
    None = None
    MaxHints = 2
    MaxBuilds = 1
    FreshBaseline = FALSE
CHECK_DEADLOCK FALSE
INVARIANTS
    TypeOK
    OutputsAgree
    PaddedToHints
    ArchiveOfThisBuild
    WrongLayoutsFlagged
    JsonLosesNothing
