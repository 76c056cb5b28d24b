\* The deadline against an answer that has just been sent; no client resets.
CONSTANTS
    Requests <- MCAnswered
    Pages <- AllPages
    PeerMay <- Closing
    DEADLINE = 2
    MaxClock = 4
SPECIFICATION Spec
INVARIANTS TimeoutClosesRequest
CHECK_DEADLOCK FALSE
