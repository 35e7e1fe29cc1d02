SPECIFICATION FairSpec
CONSTANTS
    Apps = {a1}
    Labels = {NoLabel}
    NoLabel = NoLabel
    NotNumber = NotNumber
    Slaves = {s1}
    MaxOption = 10
    NotGiven = NotGiven
    Target = 2
    MaxEvents = 1
    Nobody = Nobody
PROPERTIES
    ScalingIsAnswered
CHECK_DEADLOCK FALSE
