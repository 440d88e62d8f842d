SPECIFICATION Spec
CONSTANTS
    Sources = {s1}
    Analysts = {a1, a2}
    Nobody = nobody
    Outcomes = {"result", "invalid", "raise"}
    MaxSnapshots = 2
    MaxRevisions = 2
    MaxCrashes = 1
CHECK_DEADLOCK FALSE
SYMMETRY MCSymmetry
INVARIANT JobsSound
PROPERTY ReadyIsFinal
PROPERTY PublishedOnLiveEvidence
PROPERTY SignedOnAuthority
