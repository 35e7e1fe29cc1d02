SPECIFICATION Spec
CONSTANTS
    None = None
    Empty = Empty
    Malformed = Malformed
    Uuid <- Hash
    Tracked <- Story
    GeoIp <- Places
    Keep = 2
    MaxFailures = 1
    MaxRuns = 2
INVARIANTS
    TypeOK
    
    NewestWins
CONSTRAINT Bounded
VIEW View
CHECK_DEADLOCK FALSE
