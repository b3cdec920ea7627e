\* One Single rule with a cooldown, taken out and put back by reloads.
SPECIFICATION Spec
CONSTANTS
    r1 = r1
    r2 = r2
    Rules <- One
    Actions <- Do
    Keys = {"k"}
    MaxCallDepth = 1
    MaxRuns = 2
    RunMode <- Single
    MaxQueue <- Two
    CooldownSecs <- Cooldown2
    CancelOnFalse = {}
    StopsTheChain = {}
    Rank <- InOrder
    RingSize = 2
    Removable = {r1}
    MaxCells = 2
    MaxTime = 3
INVARIANTS TypeOK SingleAlone CooldownKept DrainedClean
CHECK_DEADLOCK FALSE
