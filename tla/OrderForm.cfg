SPECIFICATION Spec
CHECK_DEADLOCK FALSE
CONSTANTS
    Baskets <- MCBaskets
    Coupons <- MCCoupons
    CouponData <- MCCouponData
    NoCoupon = "none"
    Typed <- MCTyped
    Points = 25000
    MaxCheckouts = 2
INVARIANTS
    PaidAsRecorded
    DiscountOfItsCoupon
    CouponOncePerPage
    ChargeIsSound
