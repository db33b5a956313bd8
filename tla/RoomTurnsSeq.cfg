SPECIFICATION Spec
CONSTANTS
    Requests = {q1, q2}
    Rooms = {r1}
    AgentRooms = {r1}
    PolledRooms = {}
    ClientIds = {u1}
    Uuids = {u1}
    Impatient = {q1}
    Unlucky = {}
    Backends = {"postgres"}
    Limit = 1
    LoadRooms = 1
    LoadMessages = 2
    MaxRestarts = 1
INVARIANT NumbersIncrease
CHECK_DEADLOCK FALSE
