SPECIFICATION Spec
CONSTANTS
    Ids = {t1, t2}
    Calls = {c1, c2, c3}
    Approvers = {a1, a2}
    Required = {1, 2}
PROPERTY TerminalStates
CHECK_DEADLOCK FALSE
