\* Messages that go out in up to two writes, nodes that fill in up to two reads.
CONSTANTS
    Parts = 2
    RecvSize = 2
    MaxMsgs = 3
    MaxReads = 2
SPECIFICATION Spec
INVARIANTS StudyInv WireInOrder NodeFilled
PROPERTIES SentUnlessFailed
\* A program that writes and reads no more stops.
CHECK_DEADLOCK FALSE
