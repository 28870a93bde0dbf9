SPECIFICATION Spec
CONSTANTS
    Entries = {1, 2}
    Mine = {1, 2}
    PageNumbers = {1, 2}
    PageSize = 1
    MaxLoads = 3
    MaxRequests = 2
    MaxVersion = 2
    MaxElsewhere <- OnTheSecond
CHECK_DEADLOCK FALSE
INVARIANTS
    RefusalsAreTrue
PROPERTIES
    SavedStaysShown
    DraftsSurviveRefreshes
