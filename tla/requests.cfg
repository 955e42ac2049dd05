SPECIFICATION Spec
CONSTANTS
    Absent = Absent
    old = old
    new = new
    Agents = {a1}
    Nonces = {n1}
    Keys <- MCKeys
    Entries <- Rotation
    Workers = {w1, w2}
    Skew = 2
    Ttl = 2
    Pause = 1
    MaxTime = 5
INVARIANTS TypeOK
PROPERTIES SpacedByTtl AcceptedOnce AcceptedUnderCurrentEntry
