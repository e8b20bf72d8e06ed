SPECIFICATION FairSpec
CONSTANTS
    Runs = {r1, r2}
    NumPatches = 2
    EditKinds = {"untracked"}
INVARIANTS
    TypeOK
    LoneRunFullyPatched
    PristineUnlessGitFailed
PROPERTY NextRunHeals
