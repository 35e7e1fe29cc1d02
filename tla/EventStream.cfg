SPECIFICATION FairSpec
CONSTANTS
    Clients = {c1, c2}
    Text <- TextButSecond
    ChannelSlots = 1
    MaxTopic = 3
    MaxCrashes = 1
    NoOffset = NoOffset
INVARIANTS
    TypeOK
    NothingMissed
    BroadcastNeverWaits
    OneSenderEach
PROPERTIES
    ImplementsFeed
    RequestAnswered
    EventuallyReceived
    DeadSenderDropped
CHECK_DEADLOCK FALSE
