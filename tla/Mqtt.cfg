SPECIFICATION Spec
CONSTANTS
    Clients = {c1}
    NDevices = 1
    Topic <- MCTopic
    Forms <- MCForms
    Filters <- MCFilters
    MaxConns = 2
    MaxOps = 3
    QueueSize = 1
INVARIANTS NoValueMissed SubscribeOkMeansSubscribed InboxIsNewest
CHECK_DEADLOCK FALSE
