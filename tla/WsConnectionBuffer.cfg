\* A message that does not go out in one part.
CONSTANTS
    Parts = 2
    MaxMsgs = 3
SPECIFICATION Spec
INVARIANTS SentBack
CHECK_DEADLOCK FALSE
