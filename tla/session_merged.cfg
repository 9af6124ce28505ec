CONSTANTS
    b3 = b3
    b1 = b1
    b2 = b2
    scan = scan
    user = user
    Bulk = {b1}
    Meta = {}
    Openers = {scan}
    Closers = {}
    NumTags = 3
    NumPipes = 2
    Backlog = 2
    MaxLen = 2
    BulkBuf = 2
    MetaBuf = 2
    BulkReads = 3
    MetaReads = 2
    MaxSleeps = 2
    Lossy = FALSE
    Merging = TRUE
SPECIFICATION Spec
INVARIANTS ServedIsDelivered
