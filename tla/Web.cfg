CONSTANTS
    Handlers = {h1, h2}
    Tasks = {t1, t2}
    Contests <- ContestSettings
    None = None
    Idle = Idle
    MaxTime = 3
    MaxHandling = 1
    Users = {u1, u2}
    Browsers = {b1}
    Passwords = {p1, p2}
    Addresses = {a1, a2}
    NoValue = NoValue
    CookieDuration = 1
    MaxClock = 3
    MaxChanges = 2
    Absent = Absent
    Formats <- FormatsToMatch
    Received <- FilesToMatch
    LANGUAGES <- SomeLanguages
    AllowedNames = {"C", "C++", "C++17"}
    MaxUploads = 3
SYMMETRY Symmetric
SPECIFICATION Spec
INVARIANTS
    
    TokensAsAnnounced
PROPERTIES
    MatchingSound
    
CHECK_DEADLOCK FALSE
