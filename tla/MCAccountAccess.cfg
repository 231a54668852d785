SPECIFICATION Spec
CHECK_DEADLOCK FALSE
CONSTANTS
    None = None
    a1 = a1  a2 = a2  d1 = d1  d2 = d2  d3 = d3  r1 = r1  r2 = r2  r3 = r3
    Transitions <- RacingTransitions
    Accounts = {a1, a2}
    Devices = {d1, d2, d3}
    Revisions = {r1, r2, r3}
    Callers = {p1, p2}
    ChallengeLifetime = 2
    SessionLifetime = 1
    MaxAccounts = 1
    MaxDevices = 3
    MaxChallenges = 2
    MaxChallengesPerDevice = 2
    MaxSessions = 1
    MaxSessionsPerDevice = 1
    VerificationLimit <- FewProofs
    Window = 2
    MaxTime = 2
    MaxIssued = 2
INVARIANTS TypeOK SessionsAreEarned SlotsAreExact RegistryLineage
PROPERTY AdmissionGoverned
