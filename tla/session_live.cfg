CONSTANTS
    b3 = b3
    b1 = b1
    b2 = b2
    scan = scan
    user = user
    Bulk = {b1, b2}
    Meta = {}
    Openers = {scan}
    Closers = {user}
    NumTags = 5
    NumPipes = 2
    Backlog = 1
    MaxLen = 1
    BulkBuf = 2
    MetaBuf = 2
    BulkReads = 3
    MetaReads = 2
    MaxSleeps = 1
    Lossy = TRUE
    Merging = FALSE
SPECIFICATION FairSpec
PROPERTIES CallReturns BusyReleased
