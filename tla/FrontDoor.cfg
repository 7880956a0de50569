CONSTANTS
    q1 = q1
    q2 = q2
    e1 = e1
    e2 = e2
    points = points
    stamps = stamps
    Nothing = Nothing
    Slots = {q1, q2}
    Emails = {e1, e2}
    Admin = e1
    Programmes = {points, stamps}
    Doors = {"web", "phone", "dashboard", "admin"}
    Rotation = 4
    MinRefresh = 1
    FirstGuess = 2
    Patience = 1
    MaxFetches = 2
    MaxTime = 9
    MaxStall = 2
SPECIFICATION Spec
SYMMETRY Alike
INVARIANTS ClaimsAreTrue FinishIsAsChosen ShownCodeWorks
CHECK_DEADLOCK FALSE
