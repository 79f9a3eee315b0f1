SPECIFICATION SignalsSpec
CHECK_DEADLOCK FALSE
CONSTANTS
    Names = {n1}
    MaxId = 2
    MaxNames = 2
INVARIANTS
    ViewsSettle
