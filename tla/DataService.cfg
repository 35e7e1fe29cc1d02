SPECIFICATION FairSpec
CONSTANTS
    Requests = {r1, r2, r3}
    PoolSize = 2
    QueueMax = 1
    Retries = 1
    MaxKills = 1
    MaxOutages = 1
    Nobody = Nobody
INVARIANTS
    TypeOK
    
    StoredBeforeStreamed
    AnswerIsTruthful
    MissingIsExplained
PROPERTIES
    ImplementsJournal
    EmptyPoolIsFatal
    ServesAgain
    StreamSettles
CHECK_DEADLOCK FALSE
