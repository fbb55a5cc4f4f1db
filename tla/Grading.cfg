CONSTANTS
    None = None
    NumProcesses = 2
    TimeLimit = 1
    TrustedTime = 1
    BoxesPerWorker = 3
    MaxCommands = 2
    MaxJobs = 1
    Public <- PublicTestcases
    Parameters <- TwoSubtasks
    Threshold = 1
    NumSubmissions = 2
    Missing = Missing
    Unscored = Unscored
    Uncompiled = Uncompiled
    Letters = {"a", "b"}
    MaxFile = 3
SPECIFICATION Spec
INVARIANTS
    
    
    ScoresSound
    SameWords
PROPERTIES
    GroupAnswered
CHECK_DEADLOCK FALSE
