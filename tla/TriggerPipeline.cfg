SPECIFICATION Spec
CONSTANTS
    a = a
    w1 = w1
    None = None
    Workers = {w1}
    Tasks <- MCTasks
    Match <- MCMatch
    WorkerOf <- MCWorkerOf
    BufSize = 1
    ChanSize = 2
    MaxAttempts = 2
    Last = 3
    Skipped = {2}
    Empty = {}
    StartFromNow = TRUE
INVARIANTS CheckpointPublished FirstAttemptsInOrder AttemptsBounded OneHolder
PROPERTIES ReadyCovers
CHECK_DEADLOCK FALSE
