SPECIFICATION Spec
CONSTANTS
    h1 = h1
    x1 = x1
    x2 = x2
    a1 = a1
    a2 = a2
    b1 = b1
    b2 = b2
    Hosts = {h1}
    Clients = {x1, x2}
    Conns = {a1, a2, b1, b2}
    OwnerOf <- TwoClients
    Public = {}
    MaxPending = 1
    NoConn = NoConn
    NoMsg = NoMsg
    MaxSent <- TwoNone
    Kinds = {"subscribe", "offer", "answer", "acl"}
    Acls = {{}, {x1, x2}}
    MayLeave = {a1}
    MayVanish = {b1}
INVARIANTS TypeOK NoGhostEntry PresenceExact OfferAnswerable PendingBounded FreshAccepted
CHECK_DEADLOCK FALSE
