SPECIFICATION Spec
CONSTANTS
    None = None
    Orphan = Orphan
    p1 = p1
    p2 = p2
    d1 = d1
    d2 = d2
    d3 = d3
    d4 = d4
    Requests = {r1}
    Paths = {p1, p2}
    Digests = {d1, d2, d3, d4}
    Size <- UnitSize
    Releases <- Overlap
    Budget = 2
    Share = 2
    Chunked = {p2}
    MayCancel = FALSE
    MayFailUnlink = TRUE
    ReaderBound = 0
    ExcessBound = 1
INVARIANTS BudgetExact IndexedBlobsExist
