SPECIFICATION FairGuardSpec
CONSTANTS
    Calls = {c1, c2, c3}
    MaxInFlight = 1
    QueueMax = 1
    Threshold = 2
INVARIANTS GateExact NoLostWakeup NoLeakedProbe
PROPERTIES CallsReturn Recovers
