\* Two writers, a socket of three pieces, one to three messages each; every scenario
\* ends, so a state without a successor is no error.  The limits of the format are
\* small enough for messages on both sides of each.
SPECIFICATION FairWireSpec
CHECK_DEADLOCK FALSE
CONSTANTS
    Writers = {"w1", "w2"}
    Cancellable = {"w2"}
    Scenarios <- MCScenarios
    Capacity = 3
    max_message_size = 176
    MAX_ARRAY_DEPTH = 2
    MAX_STRUCT_DEPTH = 2
    MAX_SIGNATURE_LEN = 20
    MAX_ARRAY_LEN = 96
    BadPaths = {"//", "nul"}
INVARIANTS
    WireTypeOK
    UnmixedReadsIntact
PROPERTIES
    ForwardedIntact
    WritesEnd
