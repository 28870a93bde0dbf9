SPECIFICATION Spec
CONSTANTS
    Clicks = {1, 2}
    Windows = {p1, p2}
    Paths = {history, diary}
    Deaf = {}
    LoggedOut = TRUE
    PostFails = FALSE
    MaxMessages = 1
    None = None
    Gone = Gone
SYMMETRY Interchangeable
CHECK_DEADLOCK FALSE
INVARIANTS
    MovesOnePage
    NewestIsStored
PROPERTIES
    ConsumedWhenReached
