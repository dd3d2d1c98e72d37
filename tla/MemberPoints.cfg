SPECIFICATION Spec
CONSTANTS
    w1 = w1
    w2 = w2
    a = a
    b = b
    o1 = o1
    OrderItems = {a, b}
    Purchases = {o1}
    Workers = {w1, w2}
    Pays = {1}
    Minus = {1}
    Plus = {0}
    Rewards = {1}
    Uses = {1}
    Opening = 1
    MaxReviews = 2
    MaxPayRows = 2
    MaxClash = 1
    MaxUpdates = 2
    MaxHandlers = 2
SYMMETRY Symmetry
INVARIANTS
    TypeOK
    ReviewPaidOnce
    OneReviewPerItem
    PointsExplained
