SPECIFICATION FairSpec
CONSTANTS
  Actors = {a1, a2}
  Packages = {p0, p1}
  Threads = {t1, t2}
  Listener = Listener
  None = None
INVARIANTS
  TypeOK
  LogFollowsMap
PROPERTIES
  OnlyTransitionsLogged
  AnswersAtomically
  CallsAnswered
CHECK_DEADLOCK FALSE
