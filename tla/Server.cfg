\* Greetings: two members, pages of one, an outbox of two, one greeting a cycle;
\* three messages or changes of roles over two days, or two over three.  Setup: two
\* roles, three categories, a channel and the optional ones; two changes by the
\* owner, or one and a failure, beside grants and ranks.
SPECIFICATION ServerSpec
CONSTANTS
    Users = {1, 2}
    PAGE = 1
    MAX_PENDING = 2
    BATCH = 1
    RETENTION = 1
    MAX_EVENTS = 3
    MAX_DAYS = 2
    Roles <- RoleOrder
    Categories <- Layout
    Channels <- ChannelOrder
    Audience <- AudienceOf
    CategoryOf <- PlaceOf
    Retired = {"starter"}
    MAX_IDS = 12
    MAX_CHANGES = 2
    MAX_SETUP_FAILURES = 1
INVARIANTS
    OutboxIsTrue
    GreetingsAreEarned
    SetupInvariant
PROPERTY
    FileNamesForGood
