\* Two requests relay two items; torn and failed writes, compaction, a kill or a
\* stop.  Or Telegram: two messages to the bot, or two alerts and five periods, two
\* failures.  Or the supervisor: a heartbeat is stale after one unit; pages two
\* apart, one in an hour of three; two events within four units.
SPECIFICATION HostSpec
CONSTANTS
    i1 = i1
    i2 = i2
    r1 = r1
    r2 = r2
    Ids = {i1, i2}
    Requests = {r1, r2}
    Markers = {"offset", "chat", "relay"}
    RETENTION = 1
    MAX_ENTRIES = 1
    MIN_COMPACT_LINES = 2
    MAX_TIME = 3
    MAX_VERSION = 1
    MAX_LINES = 5
    MAX_STOPS = 1
    MAX_FAILURES = 2
    Groups = {2}
    STALE_AFTER = 2
    MAX_LIMITS = 1
    Waits = {1, 2}
    MAX_UPDATES = 2
    MAX_ALERTS = 2
    MAX_PERIODS = 5
    STALE = 1
    COOLDOWN = 2
    HOUR = 3
    MAX_LAUNCHES = 1
    GRACE = 1
    BACKEND_RETRY = 1
    DOCKER_RETRY = 2
    MAX_CLOCK = 4
    MAX_EVENTS = 2
VIEW Moving
SYMMETRY RelaySymmetry
CHECK_DEADLOCK FALSE
INVARIANTS
    SeenInvariant
    RecoveryInvariant
    TelegramInvariant
PROPERTIES
    FilesNeverForget
    OneTabPerOutage
    AttemptsAreSpaced
    WaitsAreKept
