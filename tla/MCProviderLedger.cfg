SPECIFICATION FairSpec
CONSTANTS
    Runs = {r1}
    Tokens = {"input_tokens", "output_tokens"}
    Limit <- MCLimit
    Asks <- MCAsks
    Bills <- MCBills
    Segments = {0, 1, 2}
    Slots = 1
    ModuleCount = 2
    MaxCrashes = 2
CHECK_DEADLOCK FALSE
INVARIANT LedgerSound
PROPERTY NoRespend
PROPERTY LedgerMeters
PROPERTY ModulesEnd
