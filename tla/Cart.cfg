SPECIFICATION Spec
CONSTANTS
    t1 = t1
    t2 = t2
    m1 = m1
    m2 = m2
    NoTab = NoTab
    Members = {m1, m2}
    Tabs = {t1, t2}
    Options = {"a"}
    MaxRows = 2
    MaxCount = 2
SYMMETRY Symmetry
INVARIANTS
    TypeOK
    OneRowPerOption
    OrderedOnce
    ChargedAsOrdered
