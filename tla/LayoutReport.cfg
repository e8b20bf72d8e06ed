SPECIFICATION Spec
CONSTANTS
  Revisions = {"right", "older"}
  Header <- Headers
  Game <- GameHeader
  Assertion <- Assertions
  Imported <- ImportedSizes
  MaxBlocks = 3
INVARIANTS
  TypeOK
  LayoutOfOneBuild
  ExitStatusTrue
  IdsVerified
  QuietWhenRight
  MisplacedFieldsShow
CHECK_DEADLOCK FALSE
