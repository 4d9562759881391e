SPECIFICATION Spec
CONSTANTS
    s1 = s1
    s2 = s2
    t1 = t1
    None = None
    Sigs = {s1}
    Sessions = {t1}
    SessionOf <- OneSession
    StepOf <- Steps
    TierOf <- Compensable
    MaxMonth = 1
    AutoApprove = FALSE
    Calls = {c1, c2}
    Sweepers = {}
    LockMaxAttempts = 2
    RpcMaxAttempts = 1
SYMMETRY Symm
INVARIANTS FailedCanRetry
