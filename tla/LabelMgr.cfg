SPECIFICATION Spec
CONSTANTS
    label_min = 3
    label_max = 8
INVARIANT
    NoFreeBelowCursor
PROPERTY
    ImplementsPool
