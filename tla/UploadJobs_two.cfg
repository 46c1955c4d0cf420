\* Two instances, as infra/terraform/run.tf allows: one starts while the other reads.
SPECIFICATION Spec
CONSTANTS
    Jobs = {j1}
    Items = {r1}
    Instances = {i1, i2}
    Nobody = Nobody
    MaxConcurrency = 1
    RefusesEnds = FALSE
    MaxCrashes = 0
PROPERTY SweptOrphansOnly
CHECK_DEADLOCK FALSE
