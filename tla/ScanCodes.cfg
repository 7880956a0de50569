CONSTANTS
    r1 = r1
    r2 = r2
    r3 = r3
    t1 = t1
    t2 = t2
    c1 = c1
    q1 = q1
    q2 = q2
    k1 = k1
    k2 = k2
    k3 = k3
    Never = Never
    Requests = {r1, r2, r3}
    Tenants = {t1, t2}
    Customers = {c1}
    Keys = {k1, k2, k3}
    Codes = {q1, q2}
    Owner <- MCOwner
    Membership <- MCMembership
    Intents <- MixedIntents
    Interval = 1
    Throttle = 1
    MaxTime = 2
SPECIFICATION Spec
SYMMETRY RequestSymmetry
INVARIANTS UsedOnce ThrottledUnlessRaced CheckinRetryIsAnswered AnsweredIsRecorded
CHECK_DEADLOCK FALSE
