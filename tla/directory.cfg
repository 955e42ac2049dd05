SPECIFICATION FairSpec
CONSTANTS
    k1 = k1
    Agents = {a1}
    Nonces = {n1}
    Keys = {k1}
    Entries <- MCEntries
    Workers = {w1}
    Skew = 0
    Ttl = 2
    Pause = 0
    MaxTime = 1
    Absent = Absent
    Tokens = {x1}
    Bound <- MCBound
    Handlers = {h1}
    MaxChanges = 2
    MaxRestarts = 1
INVARIANTS TypeOK AcceptedWasRegistered
PROPERTIES VerifiesRequests Converges SpentTokensRefused
