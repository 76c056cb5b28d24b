\* Two network threads, two messages each, a stop at any time.
CONSTANTS
    t1 = t1
    t2 = t2
    hello = hello
    unknown = unknown
    broken = broken
    Threads <- MCThreads
    Requests <- MCRequests
    Registered <- MCRegistered
    Throwing <- MCThrowing
    MaxPosts = 2
SPECIFICATION CoSpec
INVARIANTS CoLogicInv
PROPERTIES DealtUnlessStopped LeftOnlyFromTheTop
\* The server may be idle, or stopped.
CHECK_DEADLOCK FALSE
