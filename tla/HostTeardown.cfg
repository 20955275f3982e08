SPECIFICATION FairSpec
CONSTANTS
    Nodes = {n1}
    Clients = {}
    Links = {l1, l2}
    Sids = {}
    Reconnecting = {n1}
    Silent = {n1}
    MaxHandlers = 1
    NoLink = NoLink
    NoPeer = NoPeer
    NoSid = NoSid
PROPERTIES DeadLinkTornDown StaleRegistrationReaped
CHECK_DEADLOCK FALSE
