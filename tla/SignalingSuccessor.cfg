SPECIFICATION Spec
CONSTANTS
    h1 = h1
    x1 = x1
    x2 = x2
    a1 = a1
    a2 = a2
    b1 = b1
    b2 = b2
    Hosts = {h1}
    Clients = {}
    Conns = {a1, a2}
    OwnerOf <- OneHost
    Public = {}
    MaxPending = 1
    NoConn = NoConn
    NoMsg = NoMsg
    MaxSent <- One
    Kinds = {"subscribe", "acl"}
    Acls = {{}}
    MayLeave = {a1, a2}
    MayVanish = {}
PROPERTIES SuccessorSurvives
CHECK_DEADLOCK FALSE
