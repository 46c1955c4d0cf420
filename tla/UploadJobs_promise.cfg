\* One instance, which may die and come back, under fairness.
SPECIFICATION FairSpec
CONSTANTS
    Jobs = {j1, j2}
    Items = {r1, r2}
    Instances = {i1}
    Nobody = Nobody
    MaxConcurrency = 2
    RefusesEnds = FALSE
    MaxCrashes = 2
PROPERTIES
    KeepsPromise
    ClientIsTold
\* Every upload was read, told and swept: nothing is left to do.
CHECK_DEADLOCK FALSE
