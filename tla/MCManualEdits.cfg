SPECIFICATION FairSpec
CONSTANTS
  Refs = {1, 2}
  pa = pa
  pb = pb
  fa = fa
  fb = fb
  Pages = {pa}
  PageOf <- MCPageOf
  FileOf <- MCFileOf
  None = None
  ChunkSize = 1
  MaxAttempts = 1
  MaxSaves = 2
  MaxCommits = 2
  MaxCrashes = 1
  Faults = {}
CHECK_DEADLOCK FALSE
INVARIANT EditsAreSafe
PROPERTY ApplyEnds
