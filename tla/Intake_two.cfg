SPECIFICATION Spec
CONSTANTS
    Jobs = {j1, j2}
    Size = 1
    Deliveries = {}
    Messages = {}
    Identity <- AllTheSame
    Unidentified = Unidentified
    NoPhoto = NoPhoto
    Requests = {q1, q2}
    Edits = {"answer", "settle"}
    Nothing = Nothing
    MaxCommits = 2
    DailyLimit = 0
SYMMETRY SlotJobSymmetry
INVARIANTS
    TwinsOnlyFromOverlap
    DeletionErases
    NoDeadImages
    ReceiptsKeepPhotos
PROPERTY SkippedNeverStored
CHECK_DEADLOCK FALSE
