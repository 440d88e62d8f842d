SPECIFICATION FairSpec
CONSTANTS
    Modules <- MCModules
    Deps <- MCDeps
    Gated <- MCGated
    Sources = {"s1"}
    Conts = {c1, c2}
    Api = api
    Nobody = nobody
    MaxRetries = 1
    MaxFaults = 2
    MaxCrashes = 1
    FaultSites = {"drive"}
    MayExpire = TRUE
CHECK_DEADLOCK FALSE
INVARIANT RunRowsSound
INVARIANT ApprovalBindsExecution
INVARIANT SlotHasDriver
PROPERTY RunKeepsContract
PROPERTY RunSettles
PROPERTY EmptyGateClears
