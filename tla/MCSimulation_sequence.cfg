SPECIFICATION Spec
CHECK_DEADLOCK FALSE
CONSTANTS
    Grid = 1
    Joule = 48
    Configs <- MCConfigs
    Period = 8
    MaxInterval = 2
    MaxControls = 1
    Counters <- MCCounters
    Rated = {"reg", "mc", "wires", "router"}
    Fields <- MCFields
    Sensors = {350}
    Controls <- MCControls
INVARIANTS TypeOK NeverExits ProbesAnswered TemperatureFollowsTree PowerSumsUp
INVARIANTS SolvedForFloorplanPower AreaSumsUp McpatAtOperatingPoint NetworkAtOperatingPoint
PROPERTIES FailureAccumulates ControlReachesBelow
