SPECIFICATION Spec
CONSTANTS
    Keys <- HeadKeys
    LocalAddrs = {1}
    Hops = {0, 11}
    Ifs = {1}
    Labels = {101}
    OutLabels = {201}
    Flows = {1}
    Null = Null
    Dangling = Dangling
    OwnSrcs = {1}
    BypassTids = {}
    LspIdSpace = 2
    FrrRequests = {"none"}
    OwnPathLoops = FALSE
INVARIANTS
    IngressForwards
CHECK_DEADLOCK FALSE
