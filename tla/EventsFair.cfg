CONSTANTS
    t1 = t1
    c1 = c1
    rw = rw
    NoTenant = NoTenant
    Tenants = {t1}
    CustomerIds = {c1}
    RewardIds = {rw}
    Polls = {p1, p2}
    Consumers = {k1}
    BatchSize = 1
    MaxRetries = 2
    MaxInbox = 1
    Feed <- TwoIssues
    Faults <- MarkFaults
SPECIFICATION FairSpec
INVARIANTS ActivityIsComplete GivenUpAfterRetries
PROPERTIES Settles ReachesReadModels
CHECK_DEADLOCK FALSE
