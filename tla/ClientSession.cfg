CONSTANTS
    t1 = t1
    t2 = t2
    t3 = t3
    t4 = t4
    ann = ann
    bob = bob
    None = None
    Tasks = {t1, t2, t3, t4}
    Accounts = {ann, bob}
    Fitting = {ann}
    Apps = {"phone", "customer", "merchant", "admin"}
SPECIFICATION SessionSpec
SYMMETRY TaskSymmetry
INVARIANTS OutMeansOut InMeansIn
CHECK_DEADLOCK FALSE
