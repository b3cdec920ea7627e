CONSTANTS
    MinuteLen = 3
    DayLenMins = 4
    CatchupMins = 2
    MaxLate = 1
    TriggerChoices <- AnyRule
    MaxSeconds = 26
    MaxBoots = 2
SPECIFICATION SchedulerSpec
PROPERTIES FiresWhatCame CatchupComplete PeriodKept
CHECK_DEADLOCK FALSE
