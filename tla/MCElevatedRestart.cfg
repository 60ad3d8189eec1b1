SPECIFICATION RunSpec
CONSTANTS
    phase2 = phase2
    helper = helper
    Codes = {0, 3010}
    NoCode = NoCode
    Kids = {phase2}
    Waiters = {phase2}
CHECK_DEADLOCK FALSE
INVARIANTS
    RestartIsSuccess
