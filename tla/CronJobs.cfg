SPECIFICATION Spec
CONSTANTS
    Procs = {p1, p2}
    Calls = {c1}
    hourly = hourly
    once = once
    Jobs = {hourly}
    Delivering = {hourly}
    Occurs <- MCOccurs
    Period = 2
    Slack = 1
    MaxTime = 3
    MaxFaults = 1
    Torn = Torn
    None = None
INVARIANTS TypeOK NoRerun TickExclusive
PROPERTY LockFreed
CHECK_DEADLOCK FALSE
