\* As many threads as workers, or fewer.  CHECK_DEADLOCK is off: apply ends.
CONSTANTS
    Nibbles <- MCNibbles
    Keys <- MCKeys
    StoredKeys <- MCStoredKeys
    PoolSizes = {1, 2}
    MaxOps = 2
    MaxFaults = 1
SPECIFICATION Spec
INVARIANT HistoryIndependent
INVARIANT IterationExact
INVARIANT ParallelEqualsSerial
INVARIANT FailureReported
PROPERTY ApplyReturns
CHECK_DEADLOCK FALSE
