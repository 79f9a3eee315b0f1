SPECIFICATION AdmissionSpec
CONSTANTS
    Sockets = {s1, s2, s3}
    Users = {u1}
    MaxIncomplete = 2
    MaxPerUser = 1
    AuthTimeout = 1
INVARIANTS
    UsersWithinLimit
