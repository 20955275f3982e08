\* Two clients pair with a private host, one of them over two links.
SPECIFICATION Spec
CONSTANTS
    c1 = c1
    c2 = c2
    Clients <- MCClients
    Links <- MCLinks
    Owner <- MCOwner
    Tries <- MCTries
    MaxTroubles = 2
INVARIANTS TypeOK RoleIsEarned CredentialsAgree PendingCleared AnswerOwed ListPublished
PROPERTY YoungKept
CHECK_DEADLOCK FALSE
