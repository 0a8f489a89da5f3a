CONSTANTS
    TicksPerSecond = 2
    MaxTTL = 1
    MaxLeeway = 0
    RateWindow = 1
    KeyTTL = 1
    MaxDrops = 1
    MaxTime = 5
    None = None
    parent = parent
    elder = elder
    younger = younger
    r1 = r1
    r2 = r2
    r3 = r3
    Token <- MCTokens
    Claims <- MCClaims
    Amount <- MCAmounts
    Request = {r1, r2}
SPECIFICATION FairSpec
PROPERTIES Settles
