CONSTANTS
    Workers = {w1}
    NoWorker = NoWorker
    Submissions = {}
    Matches = {m1}
    UserTests = {u1}
    Testcases = {t1}
    NoTestcase = NoTestcase
    Operations <- ESOperation
    MAX_OPERATIONS_PER_BATCH = 2
    CallIds = {1, 2}
    NoCall = NoCall
    Budget <- Matched
    MaxEvents = 4
SPECIFICATION Spec
INVARIANTS
    MatchEndedOnce
CHECK_DEADLOCK FALSE
