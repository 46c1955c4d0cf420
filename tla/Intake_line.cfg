SPECIFICATION Spec
CONSTANTS
    Jobs = {j1}
    Size = 1
    Deliveries = {}
    Messages = {}
    Identity <- AllTheSame
    Unidentified = Unidentified
    NoPhoto = NoPhoto
    Requests = {q1}
    Edits = {"line"}
    Nothing = Nothing
    MaxCommits = 2
    DailyLimit = 0
INVARIANT DeletionErases
CHECK_DEADLOCK FALSE
