SPECIFICATION FairSpec
CONSTANTS
    None = None
    u1 = u1
    u2 = u2
    Units = {u1, u2}
    Unfetched = {}
    Legacy = {"accepted_pending"}
    MaxUnits = 2
    MaxVersion = 2
    MaxFaults = 1
    MaxKills = 1
INVARIANTS TypeOK AcknowledgedIsPublished
PROPERTIES NothingFetchedOverDebt PublishedOnce EventuallyDrained
