SPECIFICATION SystemSpec
CONSTANTS
    s1 = s1
    s2 = s2
    t1 = t1
    None = None
    Sigs = {s1, s2}
    Sessions = {t1}
    SessionOf <- OneSession
    StepOf <- Steps
    TierOf <- Compensable
    MaxMonth = 1
    AutoApprove = FALSE
    Calls = {c1}
    Sweepers = {}
    LockMaxAttempts = 1
    RpcMaxAttempts = 1
    Runners = {r1}
    MaxRetries = 0
    NoEndpoint = {}
VIEW WithoutAnswers
INVARIANTS RollbackComplete
