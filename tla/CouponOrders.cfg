SPECIFICATION FairSpec
CONSTANTS
    m1 = m1
    m2 = m2
    m3 = m3
    Members = {m1}
    TopRating = 1
    Events = {"e1"}
    EventForms <- FromDay1
    Limit = 1
    Workers = {w1}
    MaxEdits = 2
    MaxDay = 2
INVARIANTS
    TypeOK
    HeldIsNotOffered
PROPERTIES
    EveryEndedExpired
