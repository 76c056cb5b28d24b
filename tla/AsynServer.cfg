\* Two contexts of one thread each, two clients, one accept that fails.
CONSTANTS
    t1 = t1
    t2 = t2
    NContexts = 2
    Threads <- MCThreads
    ContextOf <- MCContextOf
    MAX_SENDQUE = 1
    Orders <- BothOrders
    MaxClients = 2
    MaxFailures = 1
    MaxFrames = 1
SPECIFICATION Spec
INVARIANTS ServerInv OneHandlerAtATime RoundRobin DealtBeforeExit
PROPERTIES EveryClientServed ProcessEnds SessionsKept
\* The process may wait for clients, or have exited.
CHECK_DEADLOCK FALSE
