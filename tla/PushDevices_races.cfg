SPECIFICATION Spec
CONSTANTS
    Participants = {1, 2}
    Installs = {f1, f2, f3, f4}
    Workers = {w1, w2}
    MaxActive = 2
    None = None
SYMMETRY Interchangeable
CHECK_DEADLOCK FALSE
INVARIANTS
    ActiveWithinLimit
    RowsStayFew
    SwapsNeverDeadlock
PROPERTIES
    NewestStay
