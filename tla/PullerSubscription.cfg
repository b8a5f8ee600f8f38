SPECIFICATION Spec
CONSTANTS
    Last = 3
    Time <- ResumeTime
    Key <- ResumeKey
    ChannelSize = 1
    IngressSize = 1
    MaxOutages = 1
    MaxConnects = 1
CHECK_DEADLOCK FALSE
INVARIANTS NoGap NoDuplicate RefusedOnlyIfPruned
PROPERTIES AdmittedCaughtUp
