SPECIFICATION FairSpec
CONSTANTS
    Clicks = {1}
    Windows = {p1, p2}
    Paths = {history}
    Deaf = {p1}
    LoggedOut = TRUE
    PostFails = TRUE
    MaxMessages = 1
    None = None
    Gone = Gone
CHECK_DEADLOCK FALSE
PROPERTIES
    Arrives
