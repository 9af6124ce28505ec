CONSTANTS
    b3 = b3
    b1 = b1
    b2 = b2
    scan = scan
    user = user
    Bulk = {b1, b2}
    Meta = {scan}
    Openers = {scan}
    Closers = {user}
    NumTags = 3
    NumPipes = 2
    Backlog = 1
    MaxLen = 2
    BulkBuf = 2
    MetaBuf = 2
    BulkReads = 3
    MetaReads = 2
    MaxSleeps = 1
    Lossy = TRUE
    Merging = TRUE
SYMMETRY Symmetric
SPECIFICATION Spec
INVARIANTS TypeOK BulkExclusion 
