SPECIFICATION Spec
CONSTANTS
    Values = {v1, v2}
    MaxWrites = 4
    MaxDepth = 5
SYMMETRY Symmetry
INVARIANT ShowsTheLatest
INVARIANT ReleaseIsHonest
CHECK_DEADLOCK FALSE
