SPECIFICATION Spec
CONSTANTS
    Calls = {c1, c2}
    Sessions = {s1}
    Stores = {"file"}
    Backends = {"durable"}
    MaxTurns = 2
    Budget = 2
    Prices = {1}
    Keep = 2
    MaxCrashes = 0
INVARIANT ToolCallOnce
CHECK_DEADLOCK FALSE
