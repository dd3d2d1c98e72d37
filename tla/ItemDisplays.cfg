SPECIFICATION Spec
CHECK_DEADLOCK FALSE
CONSTANTS
    a = a
    b = b
    w1 = w1
    w2 = w2
    Masters = {a, b}
    Prices = {10, 20}
    Ratio = 50
    Workers = {w1, w2}
    NoId = NoId
    MaxActs = 6
    MaxPending = 1
SYMMETRY Symmetry
INVARIANTS
    TypeOK
    OneDisplayPerMaster
    HistoryExplainsPrice
