SPECIFICATION Spec
CONSTANTS
    Jobs = {j1}
    Size = 2
    Deliveries = {d1, d2}
    Messages = {m1}
    Identity <- AllTheSame
    Unidentified = Unidentified
    NoPhoto = NoPhoto
    Requests = {q1}
    Edits = {}
    Nothing = Nothing
    MaxCommits = 2
    DailyLimit = 2
SYMMETRY SlotSymmetry
INVARIANTS
    TwinsOnlyFromOverlap
    AgainOnlyFromOverlap
    StraysAreKnown
CHECK_DEADLOCK FALSE
