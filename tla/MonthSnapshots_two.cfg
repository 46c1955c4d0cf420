\* Two requests at once over one receipt.
SPECIFICATION Spec
CONSTANTS
    Receipts = {r1}
    Months = {1, 2}
    Amounts = {5}
    Requests = {q1, q2}
    TripKinds = {"personal", "business"}
    None = None
    Unstored = Unstored
    Deleted = Deleted
SYMMETRY RequestSymmetry
INVARIANTS TypeOK StaleOnlyByOverlap
CHECK_DEADLOCK FALSE
