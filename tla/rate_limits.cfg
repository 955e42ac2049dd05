SPECIFICATION IntakeSpec
CONSTANTS
    Width <- MCWidth
    Trusted <- MCTrusted
    NoAddress = NoAddress
    Clients <- MCClients
    Classes <- MCClasses
    Limit <- MCLimit
    MaxCount = 2
    MaxEntries = 1
    Window = 1
    Workers = {w1, w2}
    Pause = 1
    None = None
    Requests <- MCRequests
SYMMETRY Sym
INVARIANTS TypeOK CapOvershoot
PROPERTIES RefusedIsReported KeepsQuotas CountedUnderPeer
