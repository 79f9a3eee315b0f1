\* Four sockets of two users; three tasks and two connections per user are
\* allowed, so either limit can be the one that is reached.
SPECIFICATION FairAdmissionSpec
CONSTANTS
    Sockets = {s1, s2, s3, s4}
    Users = {u1, u2}
    MaxIncomplete = 3
    MaxPerUser = 2
    AuthTimeout = 2
INVARIANTS
    AdmissionTypeOK
    GuardsBalance
    SequentialUsersWithinLimit
PROPERTIES
    HandshakesEnd
