SPECIFICATION MCSpec
CONSTANTS
    fa = fa  fb = fb  fc = fc  red = red  blue = blue  pro = pro  ten = ten  plan = plan
    None = None  On = On  Off = Off  Absent = Absent  Malformed = Malformed
    NoContext = NoContext  Nothing = Nothing  Asked = Asked  Done = Done
    Number <- Numbers
    Fits <- Patterns
    Hashes = 128
    Keys <- Three
    Catalog <- Flags
    Attributes <- Plan
    Documents <- Attrs
    UserHashes <- Users
    Threads = {t1}
    MaxDepth = 2
    MaxWrites = 1
    Threshold = 3
    MaxVersion = 2
    MaxConnects = 3
    Requests = {q1, q2}
    Fetches = {d1, d2}
    NoFetch = NoFetch
    Ttl = 1
    Swr = 1
    MaxFetch = 1
    MaxSnapshot = 2
    MaxFailures = 2
CHECK_DEADLOCK FALSE
INVARIANT StoreTypeOK FailsClosed OnIsAnswered InProportion RolloutReaches LiveHoldsSent
INVARIANT StreamFollowsConnect
PROPERTY NeverBackOnceReady ConnectResolves CatchesUp NeverOlder StaleWithinWindows EdgeCatchesUp
