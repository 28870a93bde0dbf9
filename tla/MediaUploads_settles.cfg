SPECIFICATION FairSpec
CONSTANTS
    Uploads = {u1}
    Diary = {u1}
    Workers = {w1, w2}
    Tokens = {t1, t2}
    Staging = Staging
    None = None
    MaxStamp = 1
    LeaseCovers = TRUE
CHECK_DEADLOCK FALSE
PROPERTIES
    Settles
INVARIANTS
    NoOrphan
    SoleFinalizer
