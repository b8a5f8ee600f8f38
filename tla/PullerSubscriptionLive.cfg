SPECIFICATION Spec
CONSTANTS
    Last = 2
    Time <- ShortTime
    Key <- ShortKey
    ChannelSize = 1
    IngressSize = 1
    MaxOutages = 1
    MaxConnects = 1
CHECK_DEADLOCK FALSE
PROPERTIES EventuallyDelivered
