SPECIFICATION Spec
CONSTANTS
    Blocks = {b1}
    Workers = {w1, w2}
    MaxActive = 3
    MaxSeq = 4
PROPERTY
    CallbackOnLiveBlock
SYMMETRY WorkerSymmetry
CHECK_DEADLOCK FALSE
