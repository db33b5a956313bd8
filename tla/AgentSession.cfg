SPECIFICATION Spec
CONSTANTS
    Calls = {c1, c2}
    Sessions = {s1}
    Stores = {"file", "postgres"}
    Backends = {"durable", "process"}
    MaxTurns = 2
    Budget = 1
    Prices = {0, 2}
    Keep = 2
    MaxCrashes = 1
INVARIANTS
    TypeOK
    PromptsAnswered
    RefusedNeverStored
    RepliesRemembered
    HistoryKept
    BudgetHolds
SYMMETRY CallSymmetry
VIEW OfLiveCalls
CHECK_DEADLOCK FALSE
