CONSTANTS
    q1 = q1
    q2 = q2
    q3 = q3
    earn = earn
    redeem = redeem
    All = All
    Near = Near
    None = None
    Reads = {q1, q2, q3}
    Kinds = {earn, redeem}
    PageSize = 2
    MaxEntries = 4
    Screens = {"customers", "transactions", "home", "directory", "detail", "overview", "logs", "audit", "wallet", "discover", "activity"}
SPECIFICATION ListsSpec
SYMMETRY Alike
INVARIANTS RowsAreAsAsked PageExists NothingSkipped
CHECK_DEADLOCK FALSE
