CONSTANTS
    Kind = "heater"
    Temps = {0, 4}
    Setpoints = {2}
    HoldSetpoints = {6}
    Half = 1
    StaleOff = TRUE
    SensorTimeout = 1
    MinOn = 1
    MinOff = 2
    MaxRun = 2
    OverrideFor = 1
    HoldFor = 1
    Confirm = 1
    MaxRetry = 2
    StartupGrace = 1
    FirstReading = 1
    Room = 2
    MaxInputs = 2
    MaxFaults = 0
SPECIFICATION ThermostatSpec
PROPERTIES HandsOff
CHECK_DEADLOCK FALSE
