SPECIFICATION Spec
CONSTANTS
    Blocks = {b1}
    Workers = {w1, w2}
    MaxActive = 2
    MaxSeq = 4
INVARIANT
    FiresOnce
SYMMETRY WorkerSymmetry
CHECK_DEADLOCK FALSE
