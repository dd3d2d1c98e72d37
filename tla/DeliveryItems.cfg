SPECIFICATION Spec
CONSTANTS
    w1 = w1
    w2 = w2
    Deliveries = {"d1", "d2"}
    First = "d1"
    NoDelivery = NoDelivery
    Items = {"a"}
    Counts = {1}
    Ordered = 2
    AdminStatuses = {"REQUESTED", "SHIPPED"}
    Tabs = {t1}
    Workers = {w1, w2}
    MaxRows = 2
SYMMETRY Symmetry
INVARIANTS
    TypeOK
    OneRowPerItem
PROPERTIES
    FrozenOnceShipped
    OwnDelivery
