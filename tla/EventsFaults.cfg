CONSTANTS
    t1 = t1
    c1 = c1
    rw = rw
    NoTenant = NoTenant
    Tenants = {t1}
    CustomerIds = {c1}
    RewardIds = {rw}
    Polls = {p1}
    Consumers = {k1}
    BatchSize = 2
    MaxRetries = 2
    MaxInbox = 1
    Feed <- TwoIssues
    Faults <- AllFaults
SPECIFICATION DeliverySpec
INVARIANTS PublishedWasSent
CHECK_DEADLOCK FALSE
