SPECIFICATION Spec
CONSTANTS
    Sessions = {s1, s2}
    None = none
    N = 2
    Results = {"plain", "carbonize", "failed"}
    SlowFetch = FALSE
    MaxAsks = 2
    Faults = {"stop", "reload", "drop", "kill"}
    MaxFaults = 1
SYMMETRY MCSymmetry
CHECK_DEADLOCK FALSE
INVARIANT SessionsAgree
INVARIANT NoBarWaitsForNothing
PROPERTY DecidedOnce
