CONSTANTS
    b3 = b3
    b1 = b1
    b2 = b2
    scan = scan
    user = user
    Bulk = {b1, b2, b3}
    Meta = {}
    Openers = {scan}
    Closers = {}
    NumTags = 3
    NumPipes = 2
    Backlog = 2
    MaxLen = 3
    BulkBuf = 2
    MetaBuf = 2
    BulkReads = 4
    MetaReads = 2
    MaxSleeps = 2
    Lossy = FALSE
    Merging = FALSE
SPECIFICATION ServingSpec
INVARIANTS ServedIsDelivered
PROPERTIES KeepsContract
