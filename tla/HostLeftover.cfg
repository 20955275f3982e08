SPECIFICATION Spec
CONSTANTS
    Nodes = {n1}
    Clients = {c1}
    Links = {l1, l2}
    Sids = {s1}
    Reconnecting = {}
    Silent = {}
    MaxHandlers = 1
    NoLink = NoLink
    NoPeer = NoPeer
    NoSid = NoSid
INVARIANTS GonePeerLeavesNothing
CHECK_DEADLOCK FALSE
