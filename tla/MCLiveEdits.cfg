SPECIFICATION MCSpec
CONSTANTS
  Sessions = {s1, s2}
  e1 = e1
  e2 = e2
  w1 = w1
  w2 = w2
  Elements = {e1, e2}
  Pages = {p1, p2}
  Kinds = {"html", "jsx", "svelte", "generated"}
  Word <- MCWord
  Odd = e2
  None = none
  N = 2
  Overlap = {"html", "jsx"}
  Nested = FALSE
  MaxEdits = 1
  Box = Box
  Preview = Preview
  Slips = {}
  MaxGestures = 8
  MaxSessions = 2
  MaxSteers = 2
SYMMETRY MCSymmetry
INVARIANTS FileIsSound PageIsSafe
PROPERTIES TheVariantIsPut SteerEndsByItsOwn
CHECK_DEADLOCK FALSE
