SPECIFICATION SilenceSpec
CONSTANTS
    Keys <- SilenceKeys
    LocalAddrs = {1}
    Hops = {0, 11}
    Ifs = {1}
    Labels = {101}
    OutLabels = {201}
    Flows = {}
    Null = Null
    Dangling = Dangling
    OwnSrcs = {1}
    BypassTids = {}
    LspIdSpace = 2
    FrrRequests = {"none"}
    OwnPathLoops = FALSE
PROPERTIES
    SilenceClears
VIEW AllButSent
CHECK_DEADLOCK FALSE
