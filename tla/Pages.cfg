SPECIFICATION PagesSpec
CHECK_DEADLOCK FALSE
CONSTANTS
    Kinds <- AllKinds
    Queries = {"all", "none"}
    TotalPages <- MCTotalPages
    Details = {"d1", "d2"}
    NoDetail = "none"
    MaxActs = 5
INVARIANTS
    ListIsLastAsked
    PagerHoldsPage
    
