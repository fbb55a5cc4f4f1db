CONSTANTS
    Items = {i1, i2, i3}
    Priorities = {1, 2}
    Timestamps = {1, 2}
    BatchSize = 2
    MaxPushes = 3
    MaxRequests = 1
    MaxFailures = 1
    Calls = {c1, c2}
    MaxConnections = 3
    LocalServices = {s1, s2}
    Pids = {1, 2, 3, 4, 5, 6, 7}
    NoProcess = NoProcess
    MaxDeaths = 1
    MaxLaunches = 1
    MaxToggles = 1
    CheckedServices = {s1, s2}
    Unasked = Unasked
    CheckPeriod = 2
    MaxCheckTime = 6
    PrintJobs = {p1, p2}
    NoJob = NoJob
    MaxErrors = 1
    MaxNotices = 1
SPECIFICATION Spec
INVARIANTS
    TriggeredSound
    StuckIsReported
PROPERTIES
    InOrder
    ResultGivenOnce
    
    ServicesRestarted
    JobsHandled
CHECK_DEADLOCK FALSE
