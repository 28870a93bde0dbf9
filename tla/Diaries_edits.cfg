SPECIFICATION Spec
CONSTANTS
    one = one
    two = two
    Participants = {one, two}
    Partner <- TheOther
    Workers = {w1, w2}
    Entries = {e1, e2}
    Uploads = {1, 2}
    Uploader <- AllByOne
    Kind <- Images
    None = None
    MaxImages = 2
    MaxVideos = 1
    Sent <- Orders
    Asked <- Asking
    MaxComments = 1
SYMMETRY Interchangeable
CHECK_DEADLOCK FALSE
INVARIANTS
    NothingOutlivesItsEntry
    NoticesTellTheTruth
    EntryShowsLastChoice
    ShownFilesAreStored
    NoCircle
PROPERTIES
    BookKept
