SPECIFICATION Spec
CONSTANTS
    s1 = s1
    s2 = s2
    s3 = s3
    k1 = k1
    k2 = k2
    k3 = k3
    k4 = k4
    Servers = {s1, s2, s3}
    Connected <- MCConnected
    IDRange <- MCIDRange
    Components = {1, 11, 21}
    Remote <- MCRemote
    Clients = {k1, k2, k3, k4}
    Home <- MCHome
    Programs <- MCPrograms
INVARIANTS ConnectionsCounted StopsLast
PROPERTIES ReachableWhileConnected EveryServerStops
CHECK_DEADLOCK FALSE
