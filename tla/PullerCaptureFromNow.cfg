SPECIFICATION Spec
CONSTANTS
    Events <- MCEvents
    Keys <- MCKeys
    Key <- MCKey
    Group <- MCGroup
    Last = 3
    FromBeginning = FALSE
    BatchSize = 2
    QueueSize = 3
INVARIANTS NoHistoryGap
