SPECIFICATION FairSpec
CONSTANTS
    p1 = p1
    p2 = p2
    fresh = fresh
    renew = renew
    rebind = rebind
    None = None
    Torn = Torn
    Proxies = {p1}
    Keys = {k1, k2}
    Tokens = {fresh, rebind}
    TokenBound <- MCTokenBound
    Settings <- RebindForced
    LiveForget = FALSE
    MayDelete = FALSE
PROPERTIES RevocationStops
