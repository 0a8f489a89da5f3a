CONSTANTS
    TicksPerSecond = 1
    MaxTTL = 2
    MaxLeeway = 0
    MaxTime = 0
    None = None
    boss = boss
    worker = worker
    kb1 = kb1
    kb2 = kb2
    kw = kw
    pay = pay
    mail = mail
    flag = flag
    t1 = t1
    t2 = t2
    r1 = r1
    budget_id = budget_id
    Agent = {boss, worker}
    Key = {kb1, kb2, kw}
    Token = {t1, t2}
    Request = {r1}
    Audience = {pay, mail}
    Param = {budget_id, flag}
    Value <- MCValue
    Grant <- MCGrant
    PolicyKey = {kb1, kb2}
    RootKeys <- MCRootKeys
    HolderKeys <- MCHolderKeys
    Proposal <- FewProposals
    Call <- FewCalls
    Anchors = {None}
    Skews = {0}
SYMMETRY Symmetry
SPECIFICATION Spec
INVARIANTS RevokedKeyIsOut
PROPERTIES RotationIsSeamless
