CONSTANTS
    r1 = r1
    r2 = r2
    r3 = r3
    r4 = r4
    c1 = c1
    c2 = c2
    k1 = k1
    k2 = k2
    k3 = k3
    rp = rp
    rs = rs
    rx = rx
    NoRequest = NoRequest
    Requests = {r1, r2, r3}
    Customers = {c1, c2}
    Keys = {k1, k2, k3}
    Rewards = {rp, rs, rx}
    Enrolled = {c1}
    ReplicaSet = TRUE
    HelloFails = TRUE
    Catalogue <- MCCatalogue
    Intents <- MixedIntents
SPECIFICATION Spec
SYMMETRY RequestSymmetry
INVARIANTS WritesInOrder
CHECK_DEADLOCK FALSE
