SPECIFICATION Spec
CONSTANTS
    Nodes = {n1}
    Clients = {c1}
    Links = {l1, l2, l3}
    Sids = {s1}
    Reconnecting = {n1}
    Silent = {}
    MaxHandlers = 1
    NoLink = NoLink
    NoPeer = NoPeer
    NoSid = NoSid
INVARIANTS TypeOK PeerMapLive NoOrphanLink OpenSessionsAreKept OnlyPairsBlock
SYMMETRY LinkSymmetry
CHECK_DEADLOCK FALSE
