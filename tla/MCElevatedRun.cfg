SPECIFICATION RunFairSpec
CONSTANTS
    phase2 = phase2
    helper = helper
    Codes = {0, 7, 3010}
    NoCode = NoCode
    Kids = {phase2, helper}
    Waiters = {phase2}
INVARIANTS
    RunTypeOK
    RequesterHearsTheProgram
    NothingLeftBehind

    
CHECK_DEADLOCK FALSE
