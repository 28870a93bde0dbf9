SPECIFICATION FairPageSpec
CONSTANTS
    MaxPosts = 2
    MaxReloads = 2
    MaxElsewhere = 1
CHECK_DEADLOCK FALSE
INVARIANTS
    OneSubmissionAtATime
    ListHasConfirmedChanges
PROPERTIES
    ListNeverGoesBack
    SubmissionsEnd
