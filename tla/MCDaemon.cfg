SPECIFICATION DaemonSpec
CONSTANTS
    Peer = {p1, p2, p3}
    Entry = {a1, a2, a3}
    Caller = {k1}
    Hit = {h1, h2}
    Thread = {t1, t2, t3}
    NULL = NULL
    MaxCalls = 4
    Hits <- MCHits
    HitLen = 4
    Nonces <- MCNonces
    Datas <- MCDatas
    Damages = {1, 128}
    Cmac <- MCCmac
SYMMETRY Symmetry
INVARIANTS
    OneEntryPerPeer UsesOwnEntry
    DeletedOnlyWhenOvertaken ExactUnlessMixed
    ReceivedAsSent DamageRefused
CHECK_DEADLOCK FALSE
