\* One item on a paid and the history feed that changes, disappears, returns or is seeded.
SPECIFICATION FairSpec
CONSTANTS
    Categories = {"pets", "toys"}
    Bands = {}
    i1 = i1
    i2 = i2
    t1 = t1
    t2 = t2
    t3 = t3
    NoToken = NoToken
    NoObs = NoObs
    LegacyObs <- Pets
    Items = {i1}
    Routes <- PetsAndFree
    Tokens = {t1, t2}
    JOB_LIFETIME = 1
    FREE_DELAY = 1
    FREE_LIFETIME = 1
    LEASE = 1
    COHORT = 1
    PAID_SIZE = 2
    FREE_SIZE = 1
    LegacyJobs <- OneLegacyJob
    Services = {"server"}
    CONCURRENCY = 1
    MAX_ATTEMPTS = 2
    RETRY_DELAY = 1
    COOLDOWN = 1
    Unconfigured <- FreeOnly
    Answers = {"sent", "unknown", "limited", "rejected", "unsent"}
    Inputs <- AllInputs
    SeedInputs = {TRUE, FALSE}
    MAX_TIME = 3
    INTAKE_UNTIL = 1
    MAX_STOPS = 1
    MAX_AUDIT_LIMITS = 1
INVARIANTS
    SeededStaysSilent
PROPERTIES
    EveryJobSettles
    KeepsThePromise
