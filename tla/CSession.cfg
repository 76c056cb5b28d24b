\* Six frames, two parts per answer, a send queue that can overflow.
CONSTANTS
    MAX_SENDQUE = 1
    Parts = 2
    MaxFrames = 6
    Registered <- AllButSecond
    Throwing <- Last
SPECIFICATION Spec
INVARIANTS SessionInv OneWriteOfTheFront AnswersFollowFrames
PROPERTIES PeerCloseNoticed ClosedIsReleased FramesAnswered StreamSpec IOSafety
\* A session ends; an idle one waits for its peer.
CHECK_DEADLOCK FALSE
