SPECIFICATION FairSpec
CONSTANTS
    m1 = m1
    m2 = m2
    m3 = m3
    Members = {m1, m2}
    TopRating = 1
    Events = {"e1"}
    EventForms <- OnDay1
    Limit = 1
    Workers = {}
    MaxEdits = 2
    MaxDay = 1
INVARIANTS
    OneCouponPerTarget
PROPERTIES
    EveryTargetedIssued
