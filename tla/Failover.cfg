SPECIFICATION Spec
CONSTANTS
    Calls = {c1, c2}
    Providers = {p1}
    ChainLength = 2
    Threshold = 2
    MaxRetries = 2
    DayCap = 1
    Cap <- MCCap
    MaxPrice = 2
INVARIANTS
    TypeOK
    ClosedBelowThreshold
    OpenDrains
    SpendBounded
PROPERTIES
    OpenLasts
    CallsSettle
CHECK_DEADLOCK FALSE
