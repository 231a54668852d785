SPECIFICATION FairSpec
CONSTANTS
    None = None
    u1 = u1
    u2 = u2
    Units = {u1, u2}
    Unfetched = {u1}
    Legacy = {}
    MaxUnits = 1
    MaxVersion = 1
    MaxFaults = 0
    MaxKills = 0
PROPERTY EventuallyDrained
