CONSTANTS
    TicksPerSecond = 4
    MaxTTL = 1
    MaxLeeway = 0
    MaxTime = 13
    None = None
    t1 = t1
    o1 = o1
    o2 = o2
    o3 = o3
    Token = {t1}
    Operator = {o1, o2, o3}
    ExpiryArgs = {1, 2}
SYMMETRY Symmetry
SPECIFICATION Spec
INVARIANTS SharedMarkersRetained
PROPERTIES SharedNeverShortened
