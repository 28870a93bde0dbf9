SPECIFICATION FairSpec
CONSTANTS
    one = one
    two = two
    Participants = {one, two}
    Partner <- TheOther
    Workers = {w1, w2}
    Uploads = {1, 2, 3}
    Uploader <- Uploader3
    Purpose <- Purpose3
    None = None
    Sent <- OneOrBoth
    MaxScore = 1
    MaxChanges <- Once
    MaxComments <- Twice
CHECK_DEADLOCK FALSE
INVARIANTS
    TypeOK
    HistoryAddsUp
    MediaUsedOnce
    NoticesTellTheTruth
PROPERTIES
    LedgerKept
    RequestsEnd
