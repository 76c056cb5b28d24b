\* Three messages of two parts each.
CONSTANTS
    Parts = 2
    MaxMsgs = 3
SPECIFICATION Spec
INVARIANTS EchoInv TypeOfLatest
PROPERTIES PeerCloseReleases StreamSpec
\* A connection ends; an idle one waits for its client.
CHECK_DEADLOCK FALSE
