SPECIFICATION Spec
CONSTANTS
    Keys <- IngressKeys
    LocalAddrs = {1}
    Hops = {11}
    Ifs = {1}
    Labels = {101}
    OutLabels = {0, 201}
    Flows = {}
    Null = Null
    Dangling = Dangling
    OwnSrcs = {1, 3}
    BypassTids = {}
    LspIdSpace = 2
    FrrRequests = {"none"}
    OwnPathLoops = TRUE
INVARIANTS
    Linked
    LabelsOwned
    MbbPending
PROPERTIES
    MbbTakesOne
VIEW AllButSent
CHECK_DEADLOCK FALSE
