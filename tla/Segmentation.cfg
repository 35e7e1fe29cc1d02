SPECIFICATION Spec
CONSTANTS
    None = None
    Empty = Empty
    GroupBys = {"hour", "day"}
    Dates = {"past", "now"}
    Quick <- QuickChoices
    Texts = {"firefox"}
    MaxSegments = 2
    MaxFilters = 1
    MaxRounds = 3
    MaxActs = 3
    MaxEvents = 1
    MaxFailures = 1
INVARIANTS
    TypeOK
    KeepsWhatIsSet
    ChartFitsItsLabels
CONSTRAINT Bounded
CHECK_DEADLOCK FALSE
