SPECIFICATION Spec
CONSTANTS
    Apps = {a1}
    Labels = {NoLabel}
    NoLabel = NoLabel
    NotNumber = NotNumber
    Slaves = {s1}
    MaxOption = 10
    NotGiven = NotGiven
    Target = 8
    MaxEvents = 1
    Nobody = Nobody
INVARIANTS
    RefusedAtMaximum
CHECK_DEADLOCK FALSE
