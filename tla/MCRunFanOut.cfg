SPECIFICATION Spec
CONSTANTS
    Modules <- MCModules
    Deps <- MCDeps
    Gated = {}
    Sources = {"s1","s2"}
    Conts = {c1, c2}
    Api = api
    Nobody = nobody
    MaxRetries = 1
    MaxFaults = 2
    MaxCrashes = 1
    FaultSites = {"inline", "drive", "timer"}
    MayExpire = FALSE
CHECK_DEADLOCK FALSE
INVARIANT ModulesRunOnce
INVARIANT PlanAgreement
PROPERTY SuccessIsEarned
PROPERTY OnlyOpenCallLands
SYMMETRY MCSymmetry
