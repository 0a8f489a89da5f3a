CONSTANTS
    TicksPerSecond = 2
    MaxTTL = 2
    MaxLeeway = 1
    RateWindow = 1
    MaxTime = 8
    None = None
    parent = parent
    elder = elder
    younger = younger
    solo = solo
    r1 = r1
    r2 = r2
    r3 = r3
    Token <- Tokens4
    Claims <- Claims4
    Amount <- Amounts3
    Request = {r1, r2, r3}
SYMMETRY Symmetry
SPECIFICATION Spec
INVARIANTS CallCap AmountCap RateCap TrackerInv
PROPERTIES MemoryBounded ImplementsLedger
