SPECIFICATION Spec
CONSTANTS
    Runs = {r1}
    NumPatches = 2
    EditKinds = {"staged", "modified", "untracked"}
PROPERTY RunKeepsEdits
