CONSTANTS
    ModeIds = {night, day, away}
    Night = night
    Day = day
    NoMode = NoMode
    DayLen = 4
    Sunrise = 1
    Sunset = 3
    Offsets = {0, 1}
    MaxApiCalls = 1
    MaxModeCmds = 1
    MaxEdits = 1
    MaxModeCrashes = 1
SPECIFICATION ModeSpec
INVARIANTS SolarRight
PROPERTIES SolarHeals ModesSettle
CHECK_DEADLOCK FALSE
