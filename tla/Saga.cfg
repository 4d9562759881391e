SPECIFICATION FairSagaSpec
CONSTANTS
    s1 = s1
    s2 = s2
    s3 = s3
    t1 = t1
    Sigs = {s1, s2, s3}
    Sessions = {t1}
    SessionOf <- OneSession
    StepOf <- Steps
    TierOf <- Compensable
    MaxMonth = 1
    AutoApprove = FALSE
    Runners = {r1, r2}
    MaxRetries = 1
    NoEndpoint = {s2}
INVARIANTS LifoOrder 
PROPERTIES HaltedStays ImplementsLifoUndo 
