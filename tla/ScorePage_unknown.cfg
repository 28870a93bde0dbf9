SPECIFICATION PageSpec
CONSTANTS
    MaxPosts = 1
    MaxReloads = 1
    MaxElsewhere = 0
CHECK_DEADLOCK FALSE
INVARIANTS
    UnknownLocksUntilRefresh
