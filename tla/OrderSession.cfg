SPECIFICATION Spec
CHECK_DEADLOCK FALSE
CONSTANTS
    m1 = m1
    m2 = m2
    c1 = c1
    Members = {m1, m2}
    Orders = {o1, o2}
    Coupons = {}
    NoCoupon = NoCoupon
    Workers = {w1, w2}
    Totals = {100100}
    Points = {0, 900}
    Percent <- MCPercent
    Threshold <- MCThreshold
    TopRating = 3
    Owner <- MCOwner
    InitReserves = 1000
    AdminStatuses = {"REQUESTED"}
    MaxDeliveries = 2
    SessionLimit = 1
    FreshAdminPage = FALSE
    GatewayMayFail = TRUE
    ResponseMayFail = FALSE
    ServerMayCrash = FALSE
SYMMETRY Symmetry
INVARIANTS
    TypeOK
    BalanceExplained
    CancelReversesPlacement
PROPERTIES
    ImplementsContract
    
