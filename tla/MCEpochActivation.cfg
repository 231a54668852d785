CONSTANTS
    a = a
    b = b
    c = c
    d = d
    Devices = {a, b, c, d}
    Founders = {a, b}
    FirstEpoch = 1
    MaxStaged = 2
    MaxCommitments = 2
    MaxRows = 5
    MaxSigned = 4
SPECIFICATION Spec
SYMMETRY Interchangeable
CHECK_DEADLOCK FALSE
INVARIANTS
    TypeOK
    MembershipRebuilds
    HistoryVerifies
    RemovedStaysOut
    MembersHoldKeys
    WriterIsMember
