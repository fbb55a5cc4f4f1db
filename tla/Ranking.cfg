CONSTANTS
    Results = {r1, r2}
    NoResult = NoResult
    MaxEvaluations = 2
    MaxRescores = 1
    MaxFaults = 1
    Submissions = {s1}
    Rankings = {k1}
    MaxScores = 2
    MaxEvents = 1
    MaxHandlers = 2
    RankedUsers = {u1, u2}
    NoUser = NoUser
    Keys = {1, 2}
    ChangeKeys = {1, 2}
    SubmissionTime <- Times
    ChangeTime <- ChangeTimes
    Values <- Changes
    Token = Token
    Viewed = {v1, v2}
    MaxPoints = 1
    CacheSize = 3
    MaxPuts = 4
    MaxDrops = 1
    Announcers = {a1}
    Questions = {q1}
    NotYet = NotYet
    MaxMoment = 3
    MaxPosts = 2
SPECIFICATION Spec
INVARIANTS
    ScoringSound
    StoresSound
    PageSound
PROPERTIES
    EventuallyScored
    RankingsCatchUp
    
CHECK_DEADLOCK FALSE
