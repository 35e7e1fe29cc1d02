SPECIFICATION FairSpec
CONSTANTS
    e1 = e1
    e2 = e2
    e3 = e3
    k1 = k1
    k2 = k2
    Events = {e1, e2}
    Keys = {k1, k2}
    KeyOf <- OneEach
    BufferItems = 2
    ChannelSlots = 1
    MaxTopic = 2
    MaxCrashes = 1
    MaxRuns = 0
    NoOffset = NoOffset
    NoRace = NoRace
INVARIANTS
    TypeOK
    CountedOnce
PROPERTIES
    BacklogDrains
CHECK_DEADLOCK FALSE
