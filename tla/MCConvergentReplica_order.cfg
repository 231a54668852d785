SPECIFICATION Spec
CHECK_DEADLOCK FALSE
CONSTANTS
    None = None
    a = a
    Devices = {1, 2}
    Revisions = {11, 21}
    Operations <- LocalEdits
    DigestRank <- Rank
    Objects = {a}
    Names = {11, 21}
    MaxLamport = 2
    Deletions = {}
    MaximumOperations = 3
    MaxBaselines = 1
    MaxCrashes = 0
INVARIANTS DeliveryOrderDoesNotMatter
