SPECIFICATION Spec
CONSTANTS
  None = None
  s1 = s1
  c1 = c1
  p1 = p1
  p2 = p2
  page = page
  sheet = sheet
  tpl = tpl
  ra = ra
  rb = rb
  v1 = v1
  x1 = x1
  x2 = x2
  Session = {s1, c1}
  Cursor = {c1}
  Proc = {p1, p2}
  File = {page, sheet}
  KindOf <- MCKind
  SheetsOf <- MCSheets
  Batch <- MCBatch
  Finding = {x1, x2}
  RuleOf <- MCRule
  ValueOf <- MCValue
  Rule = {ra, rb}
  Value = {v1}
  Threshold = 1
  MaxSessions = 1
  Quiet = FALSE
  StartConf <- MCStart
  MaxEdits = 3
  MaxRacing = 2
  MaxAdmin = 1
SYMMETRY Symmetric
CHECK_DEADLOCK FALSE
INVARIANT RememberedWasTold
PROPERTY FindingsReachTheAgent
PROPERTY IgnoresAreNarrow
