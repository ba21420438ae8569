SPECIFICATION Spec
CONSTANTS
  Blank = "blank"
  Texts = {}
  AltTexts = {}
  AttrIds = 3
  Limit = 2
  Keep = 3
  Page = 2
  Plans <- Padding
INVARIANTS
  HistoryIsHosts
CHECK_DEADLOCK FALSE
