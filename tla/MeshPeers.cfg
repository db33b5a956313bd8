SPECIFICATION Spec
CONSTANTS
    Peers = {p}
    Paths = {grpc}
    Calls = {c1}
    Sender = Sender
    Monitor = Monitor
    Reaper = Reaper
    SuspectAt = 2
    DownAt = 3
    None = None
INVARIANTS TypeOK LadderAgrees Registered
PROPERTY RouterFollows
