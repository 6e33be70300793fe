SPECIFICATION MCSpec
CONSTANTS
    x1 = x1  x2 = x2  d1 = d1
    Txns = {x1, x2}
    NoTxn = NoTxn
    Destinations = {d1}
    DestOf <- MCDestOf
    MaxDepth = 1
    MaxRetries = 2
    BaseInterval = 1
    MaxInterval = 2
    MaxAttempt = 1
    MaxStarts = 1
    MaxFaults = 1
    MaxRotations = 1
INVARIANTS
    QueueIsSound
PROPERTIES
    ImplementsOutbox WorkerFinishes
