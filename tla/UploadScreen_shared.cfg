\* One upload, two photos, one of them shared at any moment of it.
SPECIFICATION Spec
CONSTANTS
    r1 = r1
    r2 = r2
    Uploads = {j1}
    Items = {r1, r2}
    Files = {f1, f2}
    Chats = {}
    Questions = {"duplicate", "total"}
    Corrections = {"discount"}
    Calls = {c1, c2}
    Readings <- MCReadings
    None = None
    POLL_FAILURES_TOLERATED = 2
    MaxEdits = 2
    MaxStores = 2
SYMMETRY ScreenSymmetry
CONSTRAINT Bounds
INVARIANT SharedBecomeNext
CHECK_DEADLOCK FALSE
