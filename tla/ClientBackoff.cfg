SPECIFICATION Spec
CONSTANTS MaxCalls = 1 MaxFaults = 1 MaxSwitches = 0
INVARIANTS BackoffActive
CHECK_DEADLOCK FALSE
