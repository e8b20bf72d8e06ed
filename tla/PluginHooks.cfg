SPECIFICATION Spec
CONSTANTS
  Threads = {t1, t2}
  Contexts = {c1}
  Others = {other}
  Contested = {"Flying"}
  Save = Save
  Null = Null
  None = None
  SaveLists <- Lists
INVARIANTS
  TypeOK
  CallsComplete
  NeverCrashes
  NothingLeftBehind
  LogFollowsHookedUpdates
  OnlyStepsLogged
  DumpIsCurrent
SYMMETRY ThreadSymmetry
CHECK_DEADLOCK FALSE
