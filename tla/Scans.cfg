\* Two lanes, one with a discovery; failures, stops, closed tabs and pauses.
SPECIFICATION Spec
CONSTANTS
    Lanes <- TwoLanes
    t1 = t1
    t2 = t2
    t3 = t3
    Tabs = {t1, t2, t3}
    Ticks = {1}
    Initial <- Lists
    Found <- Departments
    Urls = {"/", "/a", "/q1", "/q2"}
    Home = "/"
    Dest <- Shown
    Pages <- ResultPages
    SPACING = 1
    RESTART = 1
    LATER = 1
    RETRIES <- Retry
    MAX_TARGETS = 3
    PERIODIC = FALSE
    MAX_ROUNDS = 1
    MAX_FAULTS = 1
SYMMETRY TabSymmetry
CHECK_DEADLOCK FALSE
INVARIANTS
    LaneInvariant
    ReceiptsSurvive
PROPERTIES
    LoadsAreSpaced
