\* Data of no bytes, of as many as the limit allows, and of one more; ids
\* within and over the limit.
CONSTANTS
    Base = 4
    MAX_LENGTH = 2
    MaxId = 5
    Ids <- MCIds
    Payloads <- MCPayloads
    MaxFrames = 3
SPECIFICATION Spec
INVARIANTS WireInv FramesRecovered ClosedForCause
PROPERTIES EveryFrameArrives
\* The reader may wait for ever, or have closed.
CHECK_DEADLOCK FALSE
