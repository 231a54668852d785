SPECIFICATION FairSpec
CHECK_DEADLOCK FALSE
CONSTANTS
    None = None
    a = a
    Devices = {1, 2}
    Revisions = {11, 12, 21}
    Operations <- LocalEdits
    DigestRank <- Rank
    Objects = {a}
    Names = {11, 12, 21}
    MaxLamport = 2
    Deletions = {21}
    MaximumOperations = 3
    MaxBaselines = 2
    MaxCrashes = 1
INVARIANTS TypeOK NoStaleWinner NewestBaselineWins
PROPERTIES DeletionIsFinal EventuallyAgree
