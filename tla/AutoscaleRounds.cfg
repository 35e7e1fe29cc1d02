SPECIFICATION FairSpec
CONSTANTS
    Apps = {a1, a2}
    Labels = {NoLabel, NotNumber, 4}
    NoLabel = NoLabel
    NotNumber = NotNumber
    Slaves = {s1}
    MaxOption = 2
    NotGiven = NotGiven
    Target = 2
    MaxEvents = 2
    Nobody = Nobody
INVARIANTS
    TypeOK
    NeverAboveMaximum
PROPERTIES
    OverloadIsDealtWith
CHECK_DEADLOCK FALSE
