SPECIFICATION SignalsSpec
VIEW view
CHECK_DEADLOCK FALSE
CONSTANTS
    Names = {n1}
    MaxId = 2
    MaxNames = 2
INVARIANTS
    SignalsTypeOK
    UnracedViewsSettle
PROPERTIES
    ReplyFollowsSignals
