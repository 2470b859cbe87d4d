SPECIFICATION FairSpec
CONSTANTS
    c1 = c1  c2 = c2  c3 = c3  k1 = k1  w1 = w1  w2 = w2
    None = None
    Conns = {c1, c2, c3}
    Keys = {k1}
    Waiter = {w1, w2}
    KeysOf <- SharedKeys
    Kinds = {"join"}
    Faults = {"alloc", "build", "break"}
    MaxRequests = 2
CHECK_DEADLOCK FALSE
INVARIANTS WaiterStaysRegistered
PROPERTIES EveryWaitEnds
