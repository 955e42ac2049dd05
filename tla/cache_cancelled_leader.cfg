SPECIFICATION Spec
CONSTANTS
    None = None
    Orphan = Orphan
    p1 = p1
    p2 = p2
    d1 = d1
    d2 = d2
    d3 = d3
    d4 = d4
    Requests = {r1, r2}
    Paths = {p1}
    Digests = {d1, d2}
    Size <- UnitSize
    Releases <- AnyRelease
    Budget = 2
    Share = 2
    Chunked = {}
    MayCancel = TRUE
    MayFailUnlink = TRUE
    ReaderBound = 1
    ExcessBound = 1
INVARIANTS WaitsForAFill
