CONSTANTS
    Components = {"batches", "submissions", "ratings"}
    MaxCodes = 2
    MaxStarted = 2
    MaxTries = 1
    Contestants = {1, 2, 3, 4}
    NumRounds = 2
    S_RATING = 5
    K = 2
    InitialWindow = 1
    WindowStep = 1
    MaxWindow = 2
    MaxBatches = 2
    MaxMatches = 2
    TaskRounds = 2
    ManualRounds = {0, 1}
    Budget <- Anything
SPECIFICATION MCSpec
INVARIANTS
    RestMatchesZero
    EvaluatedAfterAllRounds
    
    CompetitionSound
PROPERTIES
    RoundsDoNotOverlap
    
CHECK_DEADLOCK FALSE
