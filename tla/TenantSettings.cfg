CONSTANTS
    r1 = r1
    r2 = r2
    r3 = r3
    shop = shop
    home = home
    away = away
    tel = tel
    x = x
    w = w
    Nothing = Nothing
    Requests = {r1, r2, r3}
    Shop = shop
    Home = home
    Addresses = {home, away}
    Phones = {tel}
    Emails = {x}
    FirstRewards = {w}
    Intents <- MCIntents
SPECIFICATION Spec
SYMMETRY RequestSymmetry
INVARIANTS OnTheMapWhereItIs InvitesStand CatalogueStands OnboardingIsRecorded
CHECK_DEADLOCK FALSE
