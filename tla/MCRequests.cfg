SPECIFICATION Spec
CONSTANTS
    c1 = c1  c2 = c2  w1 = w1  w2 = w2
    None = None
    Conns = {c1, c2}
    Keys <- TwoKeys
    Waiter = {w1, w2}
    KeysOf <- OwnTwoKeys
    Kinds = {"insert", "query"}
    Faults = {"send"}
    MaxRequests = 2
SYMMETRY WaiterSymmetry
CHECK_DEADLOCK FALSE
INVARIANTS
    TableHoldsLiveWaiters OnlyRefusalsStray
    AnsweredAtMostOnce NoEntryLeftBehind
