SPECIFICATION Spec
CONSTANTS
    Runs = {r1, r2}
    NumPatches = 2
    EditKinds = {}
INVARIANT ArchiveFullyPatched
CHECK_DEADLOCK FALSE
