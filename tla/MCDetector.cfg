SPECIFICATION MCSpec
CONSTANTS
  None = None
  Blank = Blank
  Families <- MCFamilies
  View <- MCView
  Depth = 2
  Selectors <- MCSelectors
  Pages <- MCPages
  MaxDecls = 3
INVARIANTS StylesAreTheBrowsers EnginesAgreeSoundly
CHECK_DEADLOCK FALSE
