SPECIFICATION FairSpec
CONSTANTS
    End = End
    Emitters = {h1, h2}
    Streams = {r1, r2}
    QueueSize = 2
    MaxEvents = 3
CHECK_DEADLOCK FALSE
INVARIANTS EventOrder NoMissedEvent
 
