SPECIFICATION FairSpec
CONSTANTS
    Sources = {s1}
    Analysts = {a1}
    Nobody = nobody
    Outcomes = {"result", "invalid"}
    MaxSnapshots = 2
    MaxRevisions = 1
    MaxCrashes = 1
CHECK_DEADLOCK FALSE
PROPERTY JobsSettle
