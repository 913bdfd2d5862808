\* Three writes and a submission queue of one: the queue fills, the completion
\* queue overflows, writes are cut short.  CHECK_DEADLOCK is off: a batch ends.
CONSTANTS
    Offsets = {1, 2, 3}
    Length = 2
    SqSize = 1
    CqSize = 2
    MaxAgain = 1
    MaxErrors = 1
SPECIFICATION Spec
INVARIANT OutcomeTrue
PROPERTY BatchReturns
CHECK_DEADLOCK FALSE
