\* Two network threads, two messages each, a callback that throws, a stop at
\* any time.
CONSTANTS
    t1 = t1
    t2 = t2
    hello = hello
    unknown = unknown
    broken = broken
    Threads <- MCThreads
    Requests <- MCRequests
    Registered <- MCRegistered
    Throwing <- MCThrowing
    MaxPosts = 2
SPECIFICATION Spec
INVARIANTS LogicInv NoLostWakeup AnswersFollowPosts
PROPERTIES StopOutsideWindowJoins ServiceSpec
\* The server may be idle, or stopped.
CHECK_DEADLOCK FALSE
