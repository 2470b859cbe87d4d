SPECIFICATION SubFairSpec
CONSTANTS
    c1 = c1  c2 = c2  c3 = c3  k1 = k1  k2 = k2  k3 = k3  kauto = kauto
    None = None
    NoSub = nosub
    Conns = {c1, c2}
    Keys = {k1, k2, kauto}
    Waiter = {w1, w2, w3}
    KeysOf <- OwnKeys
    AutoKey <- SeparateAutoKey
    IndKey <- OwnIndKey
    SubIds = {s1}
    Kinds = {"subscribe", "unsubscribe"}
    Faults = {"break"}
    MaxRequests = 1
    Wakes = TRUE
    Hipdex = FALSE
    MaxInd = 1
CHECK_DEADLOCK FALSE
PROPERTIES DeadSubscriberIsDropped
