\* Two senders with overlapping leases, one member, one product, changing watches.
SPECIFICATION FairSpec
CONSTANTS
    w1 = w1
    w2 = w2
    i1 = i1
    u1 = u1
    any = any
    minimum = minimum
    Users = {u1}
    Items = {i1}
    Facets = {"cheap", "dear"}
    NoFacet = "gone"
    Queries = {any, minimum}
    Wants <- WantsOf
    MAX_WATCHES = 1
    MAX_REQUESTS = 1
    MAX_REVISION = 1
    ALERT_LIFETIME = 2
    LEASE = 1
    Delays = {1}
    Workers = {w1, w2}
    NoWorker = NoWorker
    TrialsEnabled = TRUE
    MAX_TIME = 3
CHECK_DEADLOCK FALSE
INVARIANTS
    AlertInvariant
PROPERTIES
    CommittedForCurrentWatch
    EveryAlertSettles
