SPECIFICATION Spec
CONSTANTS
    Calls = {c1, c2}
    Agents = {a}
    Rooms = {r, s}
    Ceiling = 2
    DefaultScore = 2
    DenyBelow = 1
    MinTrust = 2
    Deltas <- MCDeltas
    TTL = 1
    MaxTime = 2
    MaxChanges = 2
    None = None
    Cap = 1
    MaxAnswers = 1
SYMMETRY MCSymmetry
INVARIANTS TypeOK VerdictFresh ChargedOnlyAdmitted ChargedApart
CHECK_DEADLOCK FALSE
