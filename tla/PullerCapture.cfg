SPECIFICATION Spec
CONSTANTS
    Events <- MCEvents
    Keys <- MCKeys
    Key <- MCKey
    Group <- MCGroup
    Last = 3
    FromBeginning = TRUE
    BatchSize = 2
    QueueSize = 2
INVARIANTS TypeOK CheckpointCovered ActiveMeansRecaptured HeadReplayable NoHistoryGap
PROPERTIES BoundarySettles AcceptedBecomesDurable
