\* Two rewards, one perhaps the member's own; lost answers, crashes, changes.
SPECIFICATION FairSpec
CONSTANTS
    r1 = r1
    r2 = r2
    Rewards = {r1, r2}
    Own = {r2}
    LEASE = 1
    REPLAY = 2
    MAX_GENERATION = 1
    MAX_FAULTS = 2
    MAX_CHANGES = 1
    MAX_TIME = 4
CHECK_DEADLOCK FALSE
INVARIANTS
    RewardInvariant
PROPERTIES
    ApplicationsResolve
