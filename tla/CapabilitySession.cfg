\* One session with everything that may happen to it, and two on one screen.
SPECIFICATION Spec
CONSTANTS
    MaxSess = 2
    Trickles = {1}
    MayFail = {1}
    MayDrop = TRUE
CONSTRAINT Explored
INVARIANTS TypeOK ClientIsTold NoCandidateStuck OneShown
CHECK_DEADLOCK FALSE
