SPECIFICATION FairSpec
CONSTANTS MaxCalls = 2 MaxFaults = 3 MaxSwitches = 2
INVARIANTS TypeOK EscapeTimer NothingLeft DisconnectHolds AuthenticatedIsLive
PROPERTY AttemptEnds
CONSTRAINT Quiet
CHECK_DEADLOCK FALSE
