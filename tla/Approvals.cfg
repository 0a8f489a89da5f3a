CONSTANTS
    TicksPerSecond = 2
    MaxTTL = 1
    MaxLeeway = 0
    MaxTime = 5
    None = None
    first = first
    second = second
    order = order
    agreed = agreed
    changed = changed
    k1 = k1
    k2 = k2
    r1 = r1
    r2 = r2
    Approval = {first, second}
    Grants <- Approvals2
    Resource = {order}
    Content = {agreed, changed}
    Token = {k1, k2}
    Lifetimes = {1}
    Request = {r1, r2}
    Stores = {"memory", "redis"}
    MaxRetries = 2
SYMMETRY Symmetry
SPECIFICATION Spec
INVARIANTS AtMostOnce StoreExact ContentionCostsOneTry
PROPERTIES RefusalJustified ImplementsPromise
