SPECIFICATION Spec
CONSTANTS
    Uploads = {u1}
    Diary = {u1}
    Workers = {w1, w2, w3}
    Tokens = {t1, t2}
    Staging = Staging
    None = None
    MaxStamp = 2
    LeaseCovers = FALSE
SYMMETRY Interchangeable
CHECK_DEADLOCK FALSE
INVARIANTS
    TypeOK
    ReadyObjectIntact
PROPERTIES
    PromiseKept
