CONSTANTS
    TicksPerSecond = 2
    MaxTTL = 2
    MaxLeeway = 1
    MaxTime = 9
    MaxRevokes = 2
    None = None
    parent = parent
    child = child
    r1 = r1
    r2 = r2
    Token <- Tokens2
    Claims <- Claims2
    ExpiryArgs <- Args2
    Request = {r1, r2}
    Guards <- Guards3
SYMMETRY Symmetry
SPECIFICATION Spec
INVARIANTS TypeOK RevokedNeverRuns NeverDuringAcceptance MarkersRetained
PROPERTIES NeverShortened
