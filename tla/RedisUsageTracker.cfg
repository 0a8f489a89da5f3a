CONSTANTS
    TicksPerSecond = 2
    MaxTTL = 1
    MaxLeeway = 0
    RateWindow = 1
    KeyTTL = 1
    MaxDrops = 1
    MaxTime = 4
    None = None
    parent = parent
    elder = elder
    younger = younger
    r1 = r1
    r2 = r2
    r3 = r3
    Token <- MCTokens
    Claims <- MCClaims
    Amount <- MCAmounts
    Request = {r1, r2, r3}
SYMMETRY Symmetry
SPECIFICATION Spec
INVARIANTS RateCap KeysExact
PROPERTIES RefusalJustified ImplementsLedger
