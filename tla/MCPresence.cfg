SPECIFICATION FairSpec
CONSTANTS
    ann = ann
    bob = bob
    a1 = a1
    b1 = b1
    p1 = p1
    User = {ann, bob}
    Tab = {a1, b1}
    Pod = {p1}
    Owner <- MCOwner
    Home <- MCHome
    Peers <- MCPeers
    MaxConnects <- MCConnects
    Faults = {"crash", "late", "error", "reply", "bridge"}
    MaxMishaps = 1
INVARIANTS TypeOK ConnectedSeeEachOther UndisturbedStaysOnline
PROPERTY PresenceSelfHeals
CHECK_DEADLOCK FALSE
