\* Two instances: one may start, and sweep, while the other reads.
SPECIFICATION Spec
CONSTANTS
    Jobs = {j1, j2}
    Items = {r1, r2}
    Instances = {i1, i2}
    Nobody = Nobody
    MaxConcurrency = 1
    RefusesEnds = TRUE
    MaxCrashes = 1
SYMMETRY JobItemSymmetry
INVARIANTS
    TypeOK
    ResultIsWhole
    NoSurvivors
    ToldIsTrue
CHECK_DEADLOCK FALSE
