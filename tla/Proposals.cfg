SPECIFICATION Spec
CONSTANTS
    Ids = {t1, t2}
    Calls = {c1, c2, c3, c4}
    Approvers = {a1, a2}
    Required = {2}
INVARIANTS
    TypeOK
    ApprovedByQuorum
    ReplacedIsClosed
PROPERTIES
    DenialsStand
    ApprovedInTime
SYMMETRY IdSymmetry
CHECK_DEADLOCK FALSE
