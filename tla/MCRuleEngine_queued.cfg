\* One Queued rule that runs its own actions.
SPECIFICATION FairSpec
CONSTANTS
    r1 = r1
    r2 = r2
    Rules <- One
    Actions <- Calling
    Keys = {"k"}
    MaxCallDepth = 1
    MaxRuns = 3
    RunMode <- Queued
    MaxQueue <- Two
    CooldownSecs <- Zero
    CancelOnFalse = {}
    StopsTheChain = {}
    Rank <- InOrder
    RingSize = 1
    Removable = {}
    MaxCells = 1
    MaxTime = 0
INVARIANTS CountsExact QueueBounded QueueOneAtATime
PROPERTIES RunsFinish KeepsRunModes
CHECK_DEADLOCK FALSE
