SPECIFICATION FairSpec
CONSTANTS
    None = None
    Orphan = Orphan
    p1 = p1
    p2 = p2
    d1 = d1
    d2 = d2
    d3 = d3
    d4 = d4
    Requests = {r1, r2}
    Paths = {p1, p2}
    Digests = {d1, d2}
    Size <- UnitSize
    Releases <- OneUpdate
    Budget = 1
    Share = 1
    Chunked = {}
    MayCancel = TRUE
    MayFailUnlink = FALSE
    ReaderBound = 0
    ExcessBound = 0
INVARIANTS TypeOK SingleFlight ReadersCounted EntryHasLeader LockHeldByEvictor
PROPERTIES RequestsEnd
