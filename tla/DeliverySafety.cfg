\* Two services on one queue, two items on one paid feed, one crash.
SPECIFICATION Spec
CONSTANTS
    Categories = {"pets", "toys"}
    Bands = {}
    i1 = i1
    i2 = i2
    t1 = t1
    t2 = t2
    t3 = t3
    Items = {i1, i2}
    Routes <- PetsOnly
    Tokens = {t1, t2, t3}
    NoToken = NoToken
    NoObs = NoObs
    JOB_LIFETIME = 2
    FREE_DELAY = 9
    FREE_LIFETIME = 9
    LEASE = 1
    COHORT = 1
    PAID_SIZE = 2
    FREE_SIZE = 2
    LegacyJobs <- NoLegacyJobs
    LegacyObs <- Pets
    Services = {"server", "bridge"}
    CONCURRENCY = 1
    MAX_ATTEMPTS = 2
    RETRY_DELAY = 1
    COOLDOWN = 1
    Unconfigured <- NoRoutes
    Answers = {"sent", "unknown", "limited", "too_large"}
    Inputs <- JustPets
    SeedInputs <- Unseeded
    MAX_TIME = 2
    INTAKE_UNTIL = 0
    MAX_STOPS = 1
    MAX_AUDIT_LIMITS = 0
SYMMETRY ItemSymmetry
INVARIANTS
    NonceInvariant
    ClaimsAgree
PROPERTIES
    NoncesKeepTheirJobs
