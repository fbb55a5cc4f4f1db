CONSTANTS
    Null = Null
    Initial <- Databases
    Addable <- MoreRows
    Order <- Titles
    Ranked <- RankedContest
    Options = {"submissions", "user_tests", "users", "print_jobs", "generated"}
    Careful = TRUE
    MaxRequests = 2
    ImportedTasks = {t1, t2}
    ImportedUsers = {u1}
    Detects = TRUE
    MaxEdits = 1
    MaxImports = 3
    Procs = {p1, p2}
    Digests = {d1, d2}
    NoDigest = NoDigest
    MaxObjects = 3
SPECIFICATION Spec
INVARIANTS
    
    DumpRestores
    CacheSound
PROPERTIES
    
    ImportsSound
CHECK_DEADLOCK FALSE
