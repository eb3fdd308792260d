\* Repeated commands; the welcome offer while a member comes and goes; failures
\* and changes around a trial that the role and saved requests must follow.
SPECIFICATION FairSpec
CONSTANTS
    u1 = u1
    grant = grant
    extend = extend
    revoke = revoke
    until = until
    open = open
    close = close
    reopen = reopen
    Users = {u1}
    Interactions = {open, close, reopen, grant, until, extend, revoke}
    Payload <- PayloadOf
    WELCOME = 2
    MAX_DURATION = 3
    ATTEMPTS = 2
    MAX_DELIVERIES = 2
    MAX_FAULTS = 2
    MAX_CHANGES = 2
    MAX_TIME = 4
    Spent <- Scenarios
CHECK_DEADLOCK FALSE
INVARIANTS
    TypeInvariant
PROPERTIES
    GrantsAreEarned
    RoleFollowsTrial
    LapsedRequestsGo
