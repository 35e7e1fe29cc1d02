SPECIFICATION Spec
CONSTANTS
    e1 = e1
    e2 = e2
    e3 = e3
    k1 = k1
    k2 = k2
    Events = {e1, e2, e3}
    Keys = {k1, k2}
    KeyOf <- TwoAndOne
    BufferItems = 1
    ChannelSlots = 1
    MaxTopic = 2
    MaxCrashes = 1
    MaxRuns = 2
    NoOffset = NoOffset
    NoRace = NoRace
INVARIANTS
    HealedStays
    RaceIsBounded
CONSTRAINT Bounded
SYMMETRY Symmetry
VIEW WithoutCounts
CHECK_DEADLOCK FALSE
