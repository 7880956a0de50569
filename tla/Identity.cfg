CONSTANTS
    r1 = r1
    r2 = r2
    r3 = r3
    owner = owner
    cust = cust
    code = code
    alice = alice
    m1 = m1
    o = o
    x = x
    f = f
    p = p
    q = q
    Platform = Platform
    Anywhere = Anywhere
    Nothing = Nothing
    Requests = {r1, r2, r3}
    Tenants = {m1}
    Addresses = {o, x, f}
    Passwords = {p, q}
    MaxAttempts = 1
    Seeds <- MCSeeds
    Intents <- MCIntents
SPECIFICATION Spec
SYMMETRY RequestSymmetry
INVARIANTS AdmissionsAreDue GuessesAreLimited RegistrationIsWhole
CHECK_DEADLOCK FALSE
