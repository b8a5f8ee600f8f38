SPECIFICATION Spec
CONSTANTS
    Last = 4
    Time <- WideTime
    Key <- WideKey
    ChannelSize = 1
    IngressSize = 2
    MaxOutages = 0
    MaxConnects = 0
CHECK_DEADLOCK FALSE
INVARIANTS FirstGroupKept
