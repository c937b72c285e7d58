CONSTANTS
    Nodes = {a, b}
    Instances = {1, 2}
    HelloInterval = 2
    DeadFactor = 3
    MaxNeighbors = 1
    MaxLost = 1
    MaxStops = 2
SPECIFICATION FairSpec
INVARIANTS TypeOK UpIsWatched NoFalseAlarm
PROPERTIES LossReroutes DeathNoticed AdjacencyForms
