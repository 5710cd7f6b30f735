SPECIFICATION Spec
CONSTANTS
    Runs = {r1, r2, r3}
    PoolSize = 2
    MaxCancels = 1
    MaxFailures = 1
INVARIANTS RunningHasThread
PROPERTIES QueueIsServed SlotComesBack LimitTakesForce
