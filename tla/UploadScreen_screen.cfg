\* Two uploads, one of which the assistant may start; two requests open at once.
SPECIFICATION Spec
CONSTANTS
    r1 = r1
    r2 = r2
    Uploads = {j1, j2}
    Items = {r1, r2}
    Files = {f1, f2}
    Chats = {f2}
    Questions = {"duplicate", "total"}
    Corrections = {"discount"}
    Calls = {c1, c2}
    Readings <- MCReadings
    None = None
    POLL_FAILURES_TOLERATED = 2
    MaxEdits = 2
    MaxStores = 2
SYMMETRY ScreenSymmetry
CONSTRAINT Bounds
INVARIANTS
    TypeOK
    ReviewsItsOwnJob
    ReadingIsFollowed
    StoredOnce
    PhotosAreKept
    ReviewIsCurrent
    SelectionIsStorable
CHECK_DEADLOCK FALSE
