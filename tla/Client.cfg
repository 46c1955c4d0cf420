\* Each store of the client in behaviours of its own.
SPECIFICATION ClientSpec
CONSTANTS
    Trips = {work, leisure}
    Personal = {leisure}
    Items = {r1}
    Receipts = {a, b}
    MaxRevisions = 2
    Views = {v, w}
    PageSize = 2
    MaxReceipts = 3
    Tabs = {t1, t2}
    Families = {f1, f2}
    MaxTokens = 3
    Users = {u1, u2}
    Counting = {budget}
    Numbering = {products}
    Plain = {goals}
    Requests = {q1, q2}
    MaxMessages = 3
    MaxThreads = 3
    Calls = {c1, c2}
    None = None
    Nobody = Nobody
SYMMETRY ClientSymmetry
CONSTRAINTS Bounds Unused
INVARIANTS
    ClientTypeOK
    PlacedAsShown
    FromTripIsThePages
    ShowsTheSelected
    DeletesTheAsked
    CorrectsWhatWasRead
    DraftsAreKept
    NoEmptyPage
    StaysSignedIn
    OutStaysOut
    NeverAnothersFigures
    LandsTogether
PROPERTY BusinessOnlyWhenSaid
CHECK_DEADLOCK FALSE
