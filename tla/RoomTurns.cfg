SPECIFICATION Spec
CONSTANTS
    Requests = {q1, q2}
    Rooms = {r1, r2}
    AgentRooms = {r1}
    PolledRooms = {}
    ClientIds = {u1, x1}
    Uuids = {u1}
    Impatient = {q1}
    Unlucky = {q1}
    Backends = {"memory", "postgres"}
    Limit = 1
    LoadRooms = 1
    LoadMessages = 2
    MaxRestarts = 1
INVARIANTS
    TypeOK
    DurableBeforeVisible
    StoredOnce
PROPERTIES
    ForgottenBeyondLoad
    GateSerial
    LockSerial
    CallsSettle
CHECK_DEADLOCK FALSE
