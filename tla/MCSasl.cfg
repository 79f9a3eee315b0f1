\* Every configuration of the bus and of the client, and an arbitrary peer; four
\* failures instead of six: still more than the client has mechanisms to try.
SPECIFICATION SaslSpec
CHECK_DEADLOCK FALSE
CONSTANT MAX_FAILURES = 4
INVARIANTS
    SaslTypeOK
    BeginIsEarned
    BothSidesAgree
PROPERTIES
    NoChallengeTwice
    ClientSettles
    ExternalConnects
