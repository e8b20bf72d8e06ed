SPECIFICATION ProbesSpec
CONSTANTS
  Units <- TwoUnits
  Info <- TypeInfo
  Targets = {"ArmorRatingVisitor", "NiStream"}
  Nested = {"Directional", "NiStream"}
  DivedInto = "ArmorRatingVisitor"
  MaxMatches = 2
  MaxRefs = 1
  MaxArgs = 1
  MaxLayers = 2
  Upsets <- OneUpset
  NoType = NoType
INVARIANTS
  ProbesTypeOK
  DiffMeansDisorder
  UpsetShows
  KindsUnwrapped
CHECK_DEADLOCK FALSE
