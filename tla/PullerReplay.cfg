SPECIFICATION Spec
CONSTANTS
    Events <- MCEvents
    Keys <- MCKeys
    Key <- MCKey
    Group <- MCGroup
    BatchSize = 2
    QueueSize = 2
INVARIANTS CloseDrains
PROPERTIES ScanComplete
