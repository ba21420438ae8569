SPECIFICATION Spec
CONSTANTS
  Blank = "blank"
  Texts = {"x", "y"}
  AltTexts = {"v"}
  AttrIds = 3
  Limit = 2
  Keep = 3
  Page = 2
  Plans <- Lives
INVARIANTS
  TypeOK
  ScreenAgrees
  NoLineTwice
  ClearsReach
CHECK_DEADLOCK FALSE
