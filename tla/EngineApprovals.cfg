SPECIFICATION SweepSpec
CONSTANTS
    s1 = s1
    s2 = s2
    t1 = t1
    None = None
    Sigs = {s1, s2}
    Sessions = {t1}
    SessionOf <- OneSession
    StepOf <- Steps
    TierOf <- Irreversible
    MaxMonth = 1
    AutoApprove = TRUE
    Calls = {c1}
    Sweepers = {w1}
    LockMaxAttempts = 2
    RpcMaxAttempts = 1
INVARIANTS  OneHumanDecision PendingCounterExact
PROPERTIES TimeoutsHappen
