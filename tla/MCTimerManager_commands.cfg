\* Three of any commands, with a process restart.
SPECIFICATION FairSpec
CONSTANTS
    Lengths = {1, 2}
    Commands <- AllCommands
    Tasks <- ThreeTasks
    t1 = t1
    t2 = t2
    t3 = t3
    NoTask = NoTask
    MaxSecs = 4
    MaxCmds = 3
    MaxCrashes = 1
INVARIANTS OneArmed RunningHasTask RemainingAgrees
PROPERTIES RunningEnds
CHECK_DEADLOCK FALSE
