SPECIFICATION FairSpec
CONSTANTS
    Nodes = {n1}
    Clients = {c1}
    Links = {l1, l2}
    Sids = {}
    Reconnecting = {}
    Silent = {}
    MaxHandlers = 1
    NoLink = NoLink
    NoPeer = NoPeer
    NoSid = NoSid
PROPERTIES LinkDropPurged
CHECK_DEADLOCK FALSE
