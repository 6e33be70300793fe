SPECIFICATION ServingSpec
CONSTANTS
    Threads = {t1, t2}
    NoThread = NoThread
    MaxPushes = 4
INVARIANTS
    BlockingWorkHoldsNothing ClosedByItsOwnerOnce EndsByItsDeadline
PROPERTIES
    NeverStranded ShutdownDrains
