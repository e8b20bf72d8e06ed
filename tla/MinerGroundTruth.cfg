SPECIFICATION Spec
CONSTANTS
  A = A
  B = B
  Names <- MCNames
  Parameter = T
  AssertedNames <- MCAssertedNames
  Sizes = {s1, s2}
  None = None
  MaxNesting = 2
  MaxAsserts = 2
  Constructs = {}
SYMMETRY Symmetry
CHECK_DEADLOCK FALSE
INVARIANTS TypeOK NeverGuessed NothingLostOrInvented PublishedTrue
