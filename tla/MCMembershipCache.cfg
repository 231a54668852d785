SPECIFICATION Spec
CONSTANTS
    None = None
    Connections = {c1, c2}
    MaxTries = 2
    MaxVersion = 2
    MaxChanges = 2
SYMMETRY AnyConnection
INVARIANTS TypeOK CacheIsCurrent EnrolledOnCurrent WriterIsEnrolling
PROPERTY AnswersAreCurrent
