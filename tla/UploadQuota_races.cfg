SPECIFICATION Spec
CONSTANTS
    Workers = {w1, w2, w3}
    Uploads = {1, 2, 3, 4, 5}
    Size <- Sizes
    MaxCount = 2
    MaxBytes = 3
    None = None
SYMMETRY Interchangeable
CHECK_DEADLOCK FALSE
INVARIANTS
    CountWithinQuota
    BytesWithinQuota
