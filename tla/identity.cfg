SPECIFICATION Spec
CONSTANTS
    p1 = p1
    p2 = p2
    fresh = fresh
    renew = renew
    rebind = rebind
    None = None
    Torn = Torn
    Proxies = {p1, p2}
    Keys = {k1, k2, k3}
    Tokens = {fresh, renew, rebind}
    TokenBound <- MCTokenBound
    Settings <- EverySetting
    LiveForget = FALSE
    MayDelete = TRUE
SYMMETRY TokenSymmetry
INVARIANTS TypeOK DiskPairAccepted WorkingPairOnDisk
PROPERTIES WorkingCredentialsKept
