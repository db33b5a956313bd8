SPECIFICATION Spec
CONSTANTS
    Requests = {q1, q2, q3}
    Rooms = {r1}
    AgentRooms = {r1}
    PolledRooms = {r1}
    ClientIds = {u1}
    Uuids = {u1}
    Impatient = {q1, q2, q3}
    Unlucky = {}
    Backends = {"memory"}
    Limit = 1
    LoadRooms = 1
    LoadMessages = 2
    MaxRestarts = 0
INVARIANTS
    GateExact
    LockExact
    LogDense
    NoMessageSkipped
SYMMETRY RequestSymmetry
CHECK_DEADLOCK FALSE
