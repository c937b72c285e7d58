SPECIFICATION Spec
CONSTANTS
    Keys <- TransitKeys
    LocalAddrs = {1}
    Hops = {0, 11}
    Ifs = {1}
    Labels = {101}
    OutLabels = {201}
    Flows = {0, 1}
    Null = Null
    Dangling = Dangling
    OwnSrcs = {1}
    BypassTids = {}
    LspIdSpace = 2
    FrrRequests = {"none"}
    OwnPathLoops = FALSE
INVARIANTS
    TypeOK
    LabelsOwned
    RoutesOwned
    TransitForwards
    SoftState
    ShutdownClean
PROPERTIES
    WithdrawalAnnounced
    BlockadeHolds
VIEW AllButSent
CHECK_DEADLOCK FALSE
