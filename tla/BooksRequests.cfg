CONSTANTS
    r1 = r1
    r2 = r2
    r3 = r3
    r4 = r4
    m1 = m1
    m2 = m2
    c1 = c1
    c2 = c2
    k1 = k1
    k2 = k2
    w1 = w1
    w2 = w2
    NoOne = NoOne
    Requests = {r1, r2, r3, r4}
    Merchants = {m1, m2}
    StampRewards = {w1, w2}
    Customers = {c1, c2}
    Keys = {k1, k2}
    Members <- MCMembers
    Intents <- BookIntents
    Plans <- BookPlans
    PageSize = 1
    DayLength = 2
    Week = 2
    Recent = 2
    Top = 1
SPECIFICATION Spec
SYMMETRY RequestSymmetry
INVARIANTS StatementMatchesLedger BalanceAfterUnlessRaced NothingLeftBehind  ReversalRecorded CardsShowBalances VolumesMatchBooks
PROPERTY ClosedDaysStay
CHECK_DEADLOCK FALSE
