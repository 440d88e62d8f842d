SPECIFICATION MCSpec
CONSTANTS
  None = None
  Nil = Nil
  c1 = c1
  c2 = c2
  cx = cx
  r1 = r1
  r2 = r2
  r3 = r3
  r4 = r4
  n1 = n1
  n2 = n2
  Case = {c1, c2}
  Run = {r1, r2, r3, r4, n1, n2}
  CaseOf <- MCCaseOf
  Fresh <- MCFresh
  Opening <- MCOpening
  Links <- MCLinks
  Writes = {"start", "intake", "upload", "resume", "accept", "evidence"}
  Failing = {"start"}
  RouteRaces = FALSE
  AskRaces = FALSE
  EarlyBack = FALSE
  MaxGestures = 2
  MaxDrops = 1
  MaxRushes = 1
  MaxEnds = 1
  Over = {r1, r3, r4}
  MaxEdits = 2
  MaxForms = 1
  MaxClicks = 2
  MaxEvents = 2
  Incomplete = {}
  Slips = {}
CHECK_DEADLOCK FALSE
INVARIANTS TabStaysCoherent ReportStaysSound
PROPERTIES TabDraftKept ReportStepsSound
