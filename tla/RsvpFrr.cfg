SPECIFICATION Spec
CONSTANTS
    Keys <- FrrKeys
    LocalAddrs = {1}
    Hops = {0, 11}
    Ifs = {1, 2}
    Labels = {101}
    OutLabels = {201}
    Flows = {}
    Null = Null
    Dangling = Dangling
    OwnSrcs = {1}
    BypassTids = {9}
    LspIdSpace = 2
    FrrRequests = {"none", "facility", "one_to_one"}
    OwnPathLoops = FALSE
INVARIANTS
    TransitForwards
    RoutesOwned
PROPERTIES
    FrrSticks
VIEW AllButSent
CHECK_DEADLOCK FALSE
