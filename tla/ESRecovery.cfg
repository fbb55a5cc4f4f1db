CONSTANTS
    Workers = {w1}
    NoWorker = NoWorker
    Submissions = {s1}
    Matches = {}
    UserTests = {}
    Testcases = {t1}
    NoTestcase = NoTestcase
    Operations <- ESOperation
    MAX_OPERATIONS_PER_BATCH = 2
    CallIds = {1, 2}
    NoCall = NoCall
    Budget <- Recovering
    MaxEvents = 3
SPECIFICATION FairSpec
PROPERTIES
    EventuallyJudged
CHECK_DEADLOCK FALSE
