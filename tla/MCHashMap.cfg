\* Four keys in two to eight buckets; malloc may fail at any time.
CONSTANTS
    Keys = {1, 2, 3, 4}
    Vals = {v1, v2}
    Hashes <- MCHashes
    Capacities = {0, 3}
    MinCap = 2
    GrowPercent = 75
    ShrinkPercent = 25
    AllocFails = TRUE
SYMMETRY ValSymmetry
SPECIFICATION Spec
CHECK_DEADLOCK FALSE
INVARIANTS TypeOK RobinHood WellSized
PROPERTIES MapSpec
