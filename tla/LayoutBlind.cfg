SPECIFICATION Spec
CONSTANTS
  Revisions = {"right", "swapped", "older"}
  Header <- Headers
  Game <- GameHeader
  Assertion <- Assertions
  Imported <- ImportedSizes
  MaxBlocks = 1
INVARIANT MisplacedFieldReported
CHECK_DEADLOCK FALSE
