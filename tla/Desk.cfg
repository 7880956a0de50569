CONSTANTS
    q1 = q1
    q2 = q2
    q3 = q3
    e1 = e1
    e2 = e2
    new = new
    old = old
    Nothing = Nothing
    Slots = {q1, q2, q3}
    Entries = {e1, e2}
    Vals = {new, old}
    Pages = {"settings", "rate", "rewards", "staff", "customers", "transactions", "scan", "merchants", "detail"}
SPECIFICATION Spec
SYMMETRY Alike
INVARIANTS CacheConverges EditsHitTheirRow
CHECK_DEADLOCK FALSE
