CONSTANTS
    c1 = c1
    c2 = c2
    None = None
    Call = {c1, c2}
    Guards <- GuardKinds
    Asks <- AskKinds
SPECIFICATION FairSpec
INVARIANTS TypeOK LimitsCharged RecordTruthful
PROPERTIES Settles ImplementsPromise
CHECK_DEADLOCK FALSE
