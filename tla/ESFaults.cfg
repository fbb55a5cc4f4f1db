CONSTANTS
    Workers = {w1}
    NoWorker = NoWorker
    Submissions = {s1}
    Matches = {}
    UserTests = {}
    Testcases = {t1}
    NoTestcase = NoTestcase
    Operations <- ESOperation
    MAX_OPERATIONS_PER_BATCH = 2
    CallIds = {1, 2}
    NoCall = NoCall
    Budget <- Faults
    MaxEvents = 2
SPECIFICATION Spec
INVARIANTS
    EvaluatedIsComplete
PROPERTIES
    PoolRefined
CHECK_DEADLOCK FALSE
