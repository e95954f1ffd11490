SPECIFICATION Spec
CHECK_DEADLOCK FALSE
CONSTANTS
    Grid = 1
    Joule = 48
    Configs <- MCConfigs
    Period = 8
    MaxInterval = 2
    MaxControls = 2
    Counters <- MCCounters
    Rated = {"reg", "mc", "wires", "router"}
    Fields <- MCFields
    Sensors = {350}
    Controls <- MCControls
PROPERTY OwnSettingKept
