\* A page is missing, a body is no object, clients close or reset; a client
\* comes before or after the deadline has expired.
CONSTANTS
    Requests <- MCRequests
    Pages <- OnePage
    PeerMay <- Anything
    DEADLINE = 2
    MaxClock = 4
SPECIFICATION Spec
INVARIANTS HttpInv
PROPERTIES EveryConnectionEnds RequestAnswered
\* A connection ends; one without a client waits.
CHECK_DEADLOCK FALSE
