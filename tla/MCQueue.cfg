\* One name and four connections competing for it.  The behaviour ends when
\* all unique names of the bound are used up, so a state without a successor is
\* no error.
SPECIFICATION Spec
CHECK_DEADLOCK FALSE
CONSTANTS
    Names = {n1}
    MaxId = 4
    MaxNames = 2
INVARIANTS
    TypeOK
    QueuesWellFormed
    WaitersAgreedToWait
    ReplyTellsPlace
PROPERTIES
    OwnerYieldsInTurn
    WaitersKeepOrder
    ImplementsPromise
