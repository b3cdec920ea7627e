\* All commands, crashes and shutdown, from a plugin that is not enabled.
SPECIFICATION FairSpec
CONSTANTS
    Enabled = FALSE
    Commands <- AllCommands
    ChannelSize = 2
    BusSize = 2
    MinBackoff = 2
    MaxBackoff = 6
    MaxCmds = 3
    MaxCrashes = 3
INVARIANTS NoStrayProcess
PROPERTIES ShutdownCompletes RunningShowsActive
CHECK_DEADLOCK FALSE
