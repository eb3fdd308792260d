\* Two callers and two connections on two channels whose endpoints change buckets.
SPECIFICATION ClientSpec
CONSTANTS
    c1 = c1
    c2 = c2
    post = post
    list = list
    ch1 = ch1
    ch2 = ch2
    A = A
    B = B
    Callers = {c1, c2}
    Endpoints = {post, list}
    Majors = {ch1, ch2}
    NoMajor = NoMajor
    Resources <- TwoChannels
    Buckets = {A, B}
    NoBucket = NoBucket
    GLOBAL_REQUESTS = 4
    WINDOW = 1
    MAX_CONNECTIONS = 2
    Delays = {1, 2}
    MAX_TIME = 1
CHECK_DEADLOCK FALSE
SYMMETRY BucketSymmetry
INVARIANTS
    ClientInvariant
PROPERTIES
    CooldownsAreKept
