SPECIFICATION FairSpec
CONSTANTS
    j1 = j1
    j2 = j2
    p1 = p1
    p2 = p2
    c1 = c1
    Names = {j1, j2}
    Polls = {p1, p2}
    Clicks = {c1}
    MaxEvents = 3
INVARIANTS
    TypeOK
    ClickFindsItsJob
PROPERTIES
    AnswerIsOneMoment
    SettlesOnTruth
