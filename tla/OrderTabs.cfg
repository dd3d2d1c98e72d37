SPECIFICATION FairSpec
CHECK_DEADLOCK FALSE
CONSTANTS
    m1 = m1
    m2 = m2
    c1 = c1
    Members = {m1}
    Orders = {o1, o2}
    Coupons = {c1}
    NoCoupon = NoCoupon
    Workers = {w1, w2}
    Totals = {100100}
    Points = {0, 900}
    Percent <- MCPercent
    Threshold <- MCThreshold
    TopRating = 3
    Owner <- MCOwner
    InitReserves = 1000
    AdminStatuses = {}
    MaxDeliveries = 1
    SessionLimit = 2
    FreshAdminPage = FALSE
    GatewayMayFail = FALSE
    ResponseMayFail = TRUE
    ServerMayCrash = TRUE
INVARIANTS
    CancelReversesPlacement
    UsedCouponHeld
PROPERTIES
    PaidIsSettled
