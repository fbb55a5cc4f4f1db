CONSTANTS
    Workers = {w1, w2}
    NoWorker = NoWorker
    Submissions = {s1}
    Matches = {}
    UserTests = {}
    Testcases = {t1, t2}
    NoTestcase = NoTestcase
    Operations <- ESOperation
    MAX_OPERATIONS_PER_BATCH = 2
    CallIds = {1, 2, 3}
    NoCall = NoCall
    Budget <- Rejudged
    MaxEvents = 3
SYMMETRY Symmetric
SPECIFICATION Spec
INVARIANTS
    PoolConsistent
    OnePlace
PROPERTIES
    NoOutdatedResultAccepted
CHECK_DEADLOCK FALSE
