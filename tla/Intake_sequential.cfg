SPECIFICATION Spec
CONSTANTS
    Jobs = {j1, j2}
    Size = 1
    Deliveries = {}
    Messages = {}
    Identity <- AllTheSame
    Unidentified = Unidentified
    NoPhoto = NoPhoto
    Requests = {q1}
    Edits = {"answer", "settle", "line"}
    Nothing = Nothing
    MaxCommits = 3
    DailyLimit = 0
SYMMETRY JobSymmetry
INVARIANTS
    TypeOK
    NoTwins
    NoDeadImages
PROPERTY SkippedNeverStored
CHECK_DEADLOCK FALSE
