SPECIFICATION FairSpec
CONSTANTS
    s1 = s1
    s2 = s2
    t1 = t1
    None = None
    Sigs = {s1, s2}
    Sessions = {t1}
    SessionOf <- OneSession
    StepOf <- Steps
    TierOf <- CompAndSafe
    MaxMonth = 2
    AutoApprove = FALSE
    Calls = {c1, c2}
    Sweepers = {}
    LockMaxAttempts = 2
    RpcMaxAttempts = 2
INVARIANTS CompensableOnce
PROPERTIES RequestsFinish
