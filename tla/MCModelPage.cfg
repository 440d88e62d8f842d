SPECIFICATION MCSpec
CONSTANTS
  None = None
  Blank = Blank
  q1 = q1
  q2 = q2
  Slot = {q1, q2}
  Theirs <- MCTheirs
  Values = {0, 1, 2}
  Entries = {0, 2}
  Scopes <- MCScopes
  Defaults <- MCDefaults
  MaxMoves = 1
  MaxEdits = 2
  MaxCalcs = 2
  Tabs <- MCTabs
  FamilyLabels = {"QUARTER", "LTM", "YTD"}
  Anchors <- MCAnchors
  SegmentIds = {"seg"}
  Debt <- MCDebt
INVARIANTS DraftIsSound SheetIsSound
PROPERTY DraftsAreKept
CHECK_DEADLOCK FALSE
