\* Six frames, two parts per answer, a send queue that can overflow.
CONSTANTS
    MAX_SENDQUE = 1
    Parts = 2
    MaxFrames = 6
    Registered <- AllButSecond
    Throwing <- Last
SPECIFICATION CoSpec
INVARIANTS CoSessionInv
PROPERTIES AsyncSpec
\* A session ends; an idle one waits for its peer.
CHECK_DEADLOCK FALSE
