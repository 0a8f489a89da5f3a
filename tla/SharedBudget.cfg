CONSTANTS
    TicksPerSecond = 2
    MaxTTL = 1
    MaxLeeway = 0
    RateWindow = 1
    MaxTime = 4
    None = None
    task = task
    lapsed = lapsed
    early = early
    renewed = renewed
    root = root
    child = child
    stray = stray
    plain = plain
    boss = boss
    peer = peer
    worker = worker
    ghs = ghs
    r1 = r1
    r2 = r2
    Token = {early, renewed, root, child, stray, plain}
    Claims <- MCClaims
    Budget = {task, lapsed}
    Rules <- MCRules
    Pins <- MCPins
    RequireBudget = FALSE
    Amount = {1}
    Request = {r1, r2}
    Stores = {"memory", "redis", "node"}
    MaxRetries = 2
SYMMETRY Symmetry
SPECIFICATION Spec
INVARIANTS CapsHold EntriesExact ContentionIsProgress
PROPERTIES ImplementsLedger
