SPECIFICATION Spec
CONSTANTS
    None = None
    a = a  b = b
    MaxSequence = 2
    MaxLamport = 3
    Devices = {1, 2}
    Objects = {a, b}
    Revisions <- RevisionNames
    Operations <- AnyOperations
    MaximumOperations = 3
INVARIANTS AlwaysLoadable
PROPERTY ImplementsLog
