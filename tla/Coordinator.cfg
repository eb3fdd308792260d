\* Up to two reviewer tabs over two pages; two of: bot checks, a restart, an event.
\* Or two options pages, an edit by hand and a loss; or two restarts of each scan,
\* two verifications and two stops of the worker; or a status reported meanwhile.
SPECIFICATION ExtensionSpec
CONSTANTS
    t1 = t1
    t2 = t2
    p1 = p1
    p2 = p2
    Tabs = {t1, t2}
    PAGES = 2
    MAX_CHECKS = 2
    MAX_RESTARTS = 1
    MAX_EVENTS = 1
    MAX_DISTURBANCES = 2
    MAX_LEASES = 3
    OptionsPages = {p1, p2}
    ScannerKeys = {"a"}
    RelayKeys = {"c"}
    MAX_EDITS = 1
    MAX_LOSSES = 1
    MAX_IDS = 2
    MAX_REQUESTS = 2
    MAX_CHANGES = 2
    MAX_WORKERS = 2
    MAX_REPORTS = 1
CONSTRAINT Scenario
SYMMETRY Symmetry
CHECK_DEADLOCK FALSE
INVARIANTS
    LeaseInvariant
    ProgressIsTrue
    ControlInvariant
    CommandsInvariant
PROPERTIES
    
    OnlyEditsAreSaved
