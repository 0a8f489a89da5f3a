CONSTANTS
    server = server
    t1 = t1
    t2 = t2
    w1 = w1
    w2 = w2
    None = None
    Server = {server}
    Spare = {t1, t2}
    Work = {w1, w2}
    Tools <- EveryTool
    MaxDepth = 2
SYMMETRY Symmetry
SPECIFICATION Spec
INVARIANTS OwnCredential ContextRestored GuardedOnce
CHECK_DEADLOCK FALSE
