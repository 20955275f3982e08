\* One client, two links, two uploads, a write that fails.
SPECIFICATION Spec
CONSTANTS
    l1 = l1  l2 = l2  c1 = c1  v = v  w = w
    Links = {l1, l2}
    Clients = {c1}
    ClientOf <- OneClient
    Versions = {v, w}
    IdOf <- OtherSize
    N = 2
    FlushAt = {}
    MaxUploads = 2
    MaxCancels = 1
    MaxFails = 1
    Resumes = {0, 1, 2}
    Downloads = {0, 1}
SYMMETRY SymLinks
CONSTRAINT Continued
INVARIANTS TypeOK PartialIsHashed NoStrandedSession DownloadConsistent
PROPERTIES CopySpec
CHECK_DEADLOCK FALSE
