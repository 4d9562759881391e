SPECIFICATION Spec
CONSTANTS
    s1 = s1
    s2 = s2
    t1 = t1
    None = None
    Sigs = {s1, s2}
    Sessions = {t1}
    SessionOf <- OneSession
    StepOf <- Steps
    TierOf <- Mixed
    MaxMonth = 1
    AutoApprove = FALSE
    Calls = {c1, c2}
    Sweepers = {w1}
    LockMaxAttempts = 2
    RpcMaxAttempts = 2
SYMMETRY Symm
INVARIANTS AtMostOneRun UndoRegisteredFirst ResultIsGenuine IndInv
PROPERTIES CommitSticks
