\* Two Restart rules that delay and cancel each other's delays.
SPECIFICATION Spec
CONSTANTS
    r1 = r1
    r2 = r2
    Rules <- Both
    Actions <- Cancelling
    Keys = {"k"}
    MaxCallDepth = 1
    MaxRuns = 2
    RunMode <- Restart
    MaxQueue <- Two
    CooldownSecs <- Zero
    CancelOnFalse = {r1}
    StopsTheChain = {r1}
    Rank <- InOrder
    RingSize = 1
    Removable = {}
    MaxCells = 2
    MaxTime = 0
INVARIANTS RestartSupersedes RegistryExact
CHECK_DEADLOCK FALSE
