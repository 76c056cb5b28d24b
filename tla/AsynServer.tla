----------------------------- MODULE AsynServer -----------------------------
(***************************************************************************)
(* The process of asynServer as a whole: the main thread that accepts, the *)
(* pool whose threads run the handlers of every session, the one logic     *)
(* queue, and the end of the process, where main's frame goes first and    *)
(* the two singletons after it.                                            *)
(*                                                                         *)
(* The parts are taken as their own modules show them to be: the logic     *)
(* queue is a MsgService (LogicSystem implements it), a session is the     *)
(* read, the write and the length of the send queue of a CSession.  What   *)
(* is added here is what they share: io_contexts, threads and lifetimes.   *)
(* A message is the session it came from.  Which message has a callback,   *)
(* and whose callback throws, is chosen when it is dealt with, so that no  *)
(* message is Fatal beforehand: CallBackThrows is the service's Crash.     *)
(*                                                                         *)
(* A pool is a set of contexts and the context each thread runs, which     *)
(* covers AsioIOContextPool (a thread per context) and AsioThreadPool (all *)
(* threads on one context).  Using an object that has been destroyed is    *)
(* undefined behaviour: misuse records it and the model ends there.  So it *)
(* does where an exception nothing catches ends the process.               *)
(***************************************************************************)
EXTENDS Naturals, Sequences, FiniteSets

CONSTANTS NContexts,      \* the size of m_ioContexts
          Threads,        \* the threads of the pool
          ContextOf,      \* the context each of them runs
          MAX_SENDQUE,    \* const.h
          Orders,         \* orders in which the statics may be destroyed
          MaxClients,     \* bound: clients that connect
          MaxFailures,    \* bound: accepts that fail
          MaxFrames       \* bound: frames each client sends

Context == 0 .. NContexts - 1
PoolFirst == <<"pool", "logic">>
LogicFirst == <<"logic", "pool">>

ASSUME ServerAssumption ==
    /\ NContexts \in Nat \ {0}
    /\ ContextOf \in [Threads -> Context]
    /\ MAX_SENDQUE \in Nat
    /\ Orders \subseteq {PoolFirst, LogicFirst}
    /\ MaxClients \in Nat /\ MaxFailures \in Nat /\ MaxFrames \in Nat

(* Every accept, failed or not, makes a session, and one is being waited   *)
(* for.                                                                    *)
MaxSessions == MaxClients + MaxFailures + 1
Session == 1 .. MaxSessions

VARIABLES main,           \* where main() is
          order,          \* the order of destruction this build has
          destroyed,      \* how many of the statics are destroyed
          pool,           \* "running", or "stopped": its contexts are
          m_nextIOContext,
          created,        \* sessions made; the last one awaits a client
          context,        \* the context each session was made with
          accept,         \* the pending async_accept and its result
          sessions,       \* CServer's _sessions
          arrived,        \* clients that have connected
          served,         \* those whose connection has been accepted
          open,           \* sessions whose socket is open
          read, write,    \* the pending operations of each session
          send_que,       \* the length of each _send_que
          thread,         \* the handler each pool thread is in
          posted, dealt,  \* the logic queue, as MsgService has it,
          status,         \* and the state of its worker
          stop,           \* its destructor's stop: "none" yet, "heard" by
                          \* the worker, or "missed"
          misuse,         \* destroyed objects that have been used
          terminated      \* the process has ended by an exception

lives == <<main, order, destroyed, pool>>
acceptor == <<m_nextIOContext, created, context, accept, sessions>>
ops == <<open, read, write, send_que, thread>>
queue == <<posted, dealt, status, stop>>
clients == <<arrived, served>>
process == <<lives, acceptor, clients, ops, queue, misuse>>
vars == <<process, terminated>>

Logic == INSTANCE MsgService WITH Message <- Session, Fatal <- {}

OpState == {"none", "io", "ok", "err"}
Idle == [op |-> "none", of |-> 0, st |-> "none"]
Handler == [op : {"read", "write"}, of : Session, st : {"ok", "err"}]

TypeOK ==
    /\ main \in {"run", "insert", "unwind", "statics", "exited"}
    /\ order \in Orders
    /\ destroyed \in 0 .. 2
    /\ pool \in {"running", "stopped"}
    /\ m_nextIOContext \in Context
    /\ created \in Session
    /\ context \in [Session -> Context]
    /\ accept \in OpState
    /\ sessions \in SUBSET Session
    /\ arrived \in 0 .. MaxClients /\ served \in 0 .. arrived
    /\ open \in SUBSET Session
    /\ read \in [Session -> OpState]
    /\ write \in [Session -> OpState]
    /\ send_que \in [Session -> 0 .. MAX_SENDQUE + 1]
    /\ thread \in [Threads -> Handler \cup {Idle}]
    /\ posted \in Seq(Session) /\ dealt \in Seq(Session)
    /\ status \in {"open", "closed"}
    /\ stop \in {"none", "heard", "missed"}
    /\ misuse \in SUBSET {"server", "queue", "context"}
    /\ terminated \in BOOLEAN

(* The constructors have run: the first session is made and waits.         *)
Init ==
    /\ main = "run" /\ order \in Orders /\ destroyed = 0 /\ pool = "running"
    /\ m_nextIOContext = 1 % NContexts
    /\ created = 1 /\ context = [s \in Session |-> 0]
    /\ accept = "io" /\ sessions = {} /\ arrived = 0 /\ served = 0
    /\ open = {} /\ send_que = [s \in Session |-> 0]
    /\ read = [s \in Session |-> "none"] /\ write = [s \in Session |-> "none"]
    /\ thread = [t \in Threads |-> Idle]
    /\ Logic!Init /\ stop = "none"
    /\ misuse = {} /\ terminated = FALSE

(* The process runs; every step is one it survives, or its last one.       *)
Running == misuse = {} /\ main # "exited" /\ ~terminated
Survive == Running /\ UNCHANGED terminated
Terminate == Running /\ terminated' = TRUE /\ UNCHANGED process

Gone(static) == \E i \in 1 .. destroyed : order[i] = static
ServerAlive == main \in {"run", "insert", "unwind"}
Started(s) == s < created \/ (s = created /\ main = "insert")
Handling(t, op, s) == thread[t].op = op /\ thread[t].of = s
Use(object, alive) == misuse' = IF alive THEN misuse ELSE misuse \cup {object}

-----------------------------------------------------------------------------
(* The acceptor.  Wrong variants of GetIOContext: the index is wrapped one *)
(* too early; a failed accept is not followed by the next.                 *)
WrappedEarly == IF m_nextIOContext + 2 >= NContexts THEN 0 ELSE m_nextIOContext + 1
Wrapped == IF m_nextIOContext + 1 = NContexts THEN 0 ELSE m_nextIOContext + 1

GetIOContext(s) ==
    /\ context' = [context EXCEPT ![s] = m_nextIOContext]
    /\ m_nextIOContext' = Wrapped

StartAccept ==
    /\ created' = created + 1
    /\ GetIOContext(created + 1)
    /\ accept' = "io"

AcceptNoMore == accept' = "none" /\ UNCHANGED <<m_nextIOContext, created, context>>
AcceptAgain == StartAccept

ClientConnects ==
    /\ ServerAlive /\ arrived < MaxClients
    /\ arrived' = arrived + 1
    /\ UNCHANGED <<lives, acceptor, served, ops, queue, misuse>>

AcceptCompletes ==
    /\ ServerAlive /\ accept = "io"
    /\ \/ /\ served < arrived
          /\ served' = served + 1
          /\ accept' = "ok"
          /\ open' = open \cup {created}
       \/ /\ created - served <= MaxFailures
          /\ accept' = "err"
          /\ UNCHANGED <<served, open>>
    /\ UNCHANGED <<lives, m_nextIOContext, created, context, sessions, arrived,
                   read, write, send_que, thread, queue, misuse>>

Pending(s) == IF s \in open THEN "io" ELSE "err"

(* HandleAccept starts the session, and only then inserts it.              *)
HandleAccept ==
    /\ main = "run" /\ accept \in {"ok", "err"}
    /\ IF accept = "ok"
       THEN /\ read' = [read EXCEPT ![created] = Pending(created)]
            /\ main' = "insert" /\ accept' = "none"
            /\ UNCHANGED <<m_nextIOContext, created, context>>
       ELSE /\ AcceptAgain
            /\ UNCHANGED <<main, read>>
    /\ UNCHANGED <<order, destroyed, pool, sessions, clients, open, write,
                   send_que, thread, queue, misuse>>

Insert ==
    /\ main = "insert"
    /\ sessions' = sessions \cup {created}
    /\ StartAccept
    /\ main' = "run"
    /\ UNCHANGED <<order, destroyed, pool, clients, ops, queue, misuse>>

-----------------------------------------------------------------------------
(* The kernel completes what is pending on open sockets.                   *)
FramesOf(s) == Cardinality({i \in DOMAIN posted : posted[i] = s})

ReadCompletes(s) ==
    /\ pool = "running" /\ read[s] = "io"
    /\ \/ FramesOf(s) < MaxFrames /\ read' = [read EXCEPT ![s] = "ok"]
       \/ read' = [read EXCEPT ![s] = "err"]
    /\ UNCHANGED <<lives, acceptor, clients, open, write, send_que, thread, queue, misuse>>

WriteCompletes(s) ==
    /\ pool = "running" /\ write[s] = "io"
    /\ \E st \in {"ok", "err"} : write' = [write EXCEPT ![s] = st]
    /\ UNCHANGED <<lives, acceptor, clients, open, read, send_que, thread, queue, misuse>>

(* A thread inside run() of its context takes a completed operation of a   *)
(* session made with that context.  The wrong variant takes any.           *)
AnyContext(t, s) == s <= created
SameContext(t, s) == ContextOf[t] = context[s] /\ s <= created

Dispatch(t, s) ==
    /\ pool = "running" /\ thread[t] = Idle /\ SameContext(t, s)
    /\ \/ /\ read[s] \in {"ok", "err"}
          /\ thread' = [thread EXCEPT ![t] = [op |-> "read", of |-> s, st |-> read[s]]]
          /\ read' = [read EXCEPT ![s] = "none"]
          /\ UNCHANGED write
       \/ /\ write[s] \in {"ok", "err"}
          /\ thread' = [thread EXCEPT ![t] = [op |-> "write", of |-> s, st |-> write[s]]]
          /\ write' = [write EXCEPT ![s] = "none"]
          /\ UNCHANGED read
    /\ UNCHANGED <<lives, acceptor, clients, open, send_que, queue, misuse>>

-----------------------------------------------------------------------------
(* The handlers.  Close aborts what is pending; ClearSession is a call on  *)
(* a CServer that may have gone with main's frame.  The wrong variant does *)
(* not close.                                                              *)
Aborted(op, s) == IF op[s] = "io" THEN [op EXCEPT ![s] = "err"] ELSE op

ClearSession(s) ==
    /\ sessions' = IF ServerAlive THEN sessions \ {s} ELSE sessions
    /\ Use("server", ServerAlive)

ClearOnly(s) == UNCHANGED <<open, read, write>> /\ ClearSession(s)

CloseAndClear(s) ==
    /\ open' = open \ {s}
    /\ read' = Aborted(read, s) /\ write' = Aborted(write, s)
    /\ ClearSession(s)

(* A post to an empty queue notifies the worker, which then sees a stop it *)
(* has missed.                                                             *)
PostMsgToQue(s) ==
    /\ Logic!Post(s)
    /\ stop' = IF stop = "missed" THEN "heard" ELSE stop

(* A head of negative length, from which HandleReadHead cannot make a node.*)
NegativeLength(t) ==
    /\ thread[t].op = "read" /\ thread[t].st = "ok"
    /\ Terminate

(* HandleReadMsg posts and reads the next message.                         *)
HandleRead(t) ==
    LET s == thread[t].of
    IN  /\ thread[t].op = "read"
        /\ thread' = [thread EXCEPT ![t] = Idle]
        /\ IF thread[t].st = "ok"
           THEN /\ PostMsgToQue(s)
                /\ Use("queue", ~Gone("logic"))
                /\ read' = [read EXCEPT ![s] = Pending(s)]
                /\ UNCHANGED <<open, write, sessions>>
           ELSE CloseAndClear(s) /\ UNCHANGED queue
        /\ UNCHANGED <<lives, m_nextIOContext, created, context, accept, clients, send_que>>

(* HandleWrite pops what was written and writes the next.                  *)
HandleWrite(t) ==
    LET s == thread[t].of
    IN  /\ thread[t].op = "write"
        /\ thread' = [thread EXCEPT ![t] = Idle]
        /\ IF thread[t].st = "ok"
           THEN /\ send_que' = [send_que EXCEPT ![s] = @ - 1]
                /\ write' = IF send_que[s] > 1 THEN [write EXCEPT ![s] = Pending(s)] ELSE write
                /\ UNCHANGED <<open, read, sessions, misuse>>
           ELSE CloseAndClear(s) /\ UNCHANGED send_que
        /\ UNCHANGED <<lives, m_nextIOContext, created, context, accept, clients, queue>>

-----------------------------------------------------------------------------
(* The logic worker deals with the message that is due.  One that has a    *)
(* callback is answered: Send queues the answer, unless the queue is full, *)
(* and writes it when nothing else is queued.  The socket belongs to a     *)
(* context, which is destroyed with the pool; the last message of a        *)
(* session also destroys the session, and so the socket.                   *)
LastOf(s) == \A i \in Len(dealt) + 2 .. Len(posted) : posted[i] # s

Send(s) ==
    /\ send_que[s] <= MAX_SENDQUE
    /\ send_que' = [send_que EXCEPT ![s] = @ + 1]
    /\ write' = IF send_que[s] = 0 THEN [write EXCEPT ![s] = Pending(s)] ELSE write

NoAnswer == UNCHANGED <<send_que, write>>

Deal ==
    LET s == Logic!Due
    IN  /\ Logic!Deal
        /\ \/ Send(s) /\ Use("context", ~Gone("pool") \/ (send_que[s] > 0 /\ ~LastOf(s)))
           \/ NoAnswer /\ Use("context", ~Gone("pool") \/ ~LastOf(s))
        /\ UNCHANGED <<lives, acceptor, clients, open, read, thread, stop>>

CallBackThrows ==
    /\ status = "open" /\ Len(dealt) < Len(posted)
    /\ Terminate

-----------------------------------------------------------------------------
(* The end: a signal stops main's io_context; main's frame takes the       *)
(* acceptor and the map with it; then the statics go one by one.           *)
Signal ==
    /\ main = "run"
    /\ main' = "unwind"
    /\ UNCHANGED <<order, destroyed, pool, acceptor, clients, ops, queue, misuse>>

LeaveMain ==
    /\ main = "unwind"
    /\ main' = "statics"
    /\ accept' = "none" /\ sessions' = {}
    /\ UNCHANGED <<order, destroyed, pool, m_nextIOContext, created, context,
                   clients, ops, queue, misuse>>

DueToGo(static) ==
    main = "statics" /\ destroyed < 2 /\ order[destroyed + 1] = static

(* Stop: the work guards are released and the contexts stopped; the wrong  *)
(* variant releases the guards only.  A thread leaves run() when its       *)
(* context is stopped, once the handler it is in has returned.             *)
ReleaseWork == pool' = pool
StopContexts == pool' = "stopped"

StopPool ==
    /\ DueToGo("pool") /\ pool = "running"
    /\ StopContexts
    /\ UNCHANGED <<main, order, destroyed, acceptor, clients, ops, queue, misuse>>

(* The wrong variant does not wait for the threads.                        *)
LeaveThem == pool = "stopped"
Joined == pool = "stopped" /\ \A t \in Threads : thread[t] = Idle

JoinPool ==
    /\ DueToGo("pool") /\ Joined
    /\ destroyed' = destroyed + 1
    /\ UNCHANGED <<main, order, pool, acceptor, clients, ops, queue, misuse>>

(* ~LogicSystem takes no lock: its flag and its notification may both fall *)
(* between a worker's test of the empty queue and its wait, which then     *)
(* lasts until the next post or a spurious wake-up.                        *)
StopQueue ==
    /\ DueToGo("logic") /\ stop = "none"
    /\ \/ stop' = "heard"
       \/ dealt = posted /\ stop' = "missed"
    /\ UNCHANGED <<lives, acceptor, clients, ops, posted, dealt, status, misuse>>

SpuriousWakeup ==
    /\ stop = "missed"
    /\ stop' = "heard"
    /\ UNCHANGED <<lives, acceptor, clients, ops, posted, dealt, status, misuse>>

(* The worker returns when nothing is left, and is joined.                 *)
CloseQueue ==
    /\ stop = "heard"
    /\ Logic!Close
    /\ UNCHANGED <<lives, acceptor, clients, ops, stop, misuse>>

JoinWorker ==
    /\ DueToGo("logic") /\ status = "closed"
    /\ destroyed' = destroyed + 1
    /\ UNCHANGED <<main, order, pool, acceptor, clients, ops, queue, misuse>>

Exit ==
    /\ main = "statics" /\ destroyed = 2
    /\ main' = "exited"
    /\ UNCHANGED <<order, destroyed, pool, acceptor, clients, ops, queue, misuse>>

-----------------------------------------------------------------------------
Main == HandleAccept \/ Insert \/ LeaveMain \/ StopPool \/ JoinPool
            \/ StopQueue \/ JoinWorker \/ Exit
Worker == Deal \/ CloseQueue
Run(t) == HandleRead(t) \/ HandleWrite(t) \/ \E s \in Session : Dispatch(t, s)

Step ==
    /\ Survive
    /\ \/ ClientConnects \/ AcceptCompletes \/ Signal \/ SpuriousWakeup
       \/ \E s \in Session : ReadCompletes(s) \/ WriteCompletes(s)
       \/ Main \/ Worker \/ \E t \in Threads : Run(t)

Next == Step \/ CallBackThrows \/ \E t \in Threads : NegativeLength(t)

(* The threads run, and the kernel completes an accept.                    *)
Fairness ==
    /\ WF_vars(Survive /\ Main)
    /\ WF_vars((Survive /\ Worker) \/ CallBackThrows)
    /\ WF_vars(Survive /\ AcceptCompletes)
    /\ \A t \in Threads : WF_vars((Survive /\ Run(t)) \/ NegativeLength(t))

Safety == Init /\ [][Next]_vars
Spec == Safety /\ Fairness

-----------------------------------------------------------------------------
(* The handlers of a session run one at a time, which CSession relies on:  *)
(* a session has one context, and a context of AsioIOContextPool has one   *)
(* thread.  (AsioThreadPool, the other value const.h line 17 offers, has   *)
(* several.)                                                               *)
OneThreadEach == \A t, u \in Threads : ContextOf[t] = ContextOf[u] => t = u
OneHandlerAtATime ==
    OneThreadEach =>
        \A t, u \in Threads :
            thread[t] # Idle /\ thread[u] # Idle /\ thread[t].of = thread[u].of => t = u

(* "round-robin" (AsioIOContextPool.h, above GetIOContext): no context has *)
(* been given two sessions more than another.                              *)
Given(c) == Cardinality({s \in 1 .. created : context[s] = c})
RoundRobin == \A c, d \in Context : Given(c) <= Given(d) + 1

(* When the pool is destroyed first (coroutineServer, whose statics go in  *)
(* the reverse order of construction; one of the orders of asynServer), no *)
(* handler posts to a logic queue that has gone ...                        *)
QueueOutlivesHandlers == order = PoolFirst => "queue" \notin misuse

(* ... and everything that was posted has been dealt with by the time the  *)
(* process exits.                                                          *)
DealtBeforeExit == order = PoolFirst /\ main = "exited" => dealt = posted

(* When the queue is destroyed first it is the worker that is safe: it has *)
(* returned before the contexts of the sockets it writes to go.            *)
ContextOutlivesWorker == order = LogicFirst => "context" \notin misuse

(* Failed accepts do not make the server deaf: the k-th client is accepted *)
(* and its session started, unless the server is stopped or terminated.    *)
EveryClientServed ==
    \A k \in 1 .. MaxClients :
        (arrived >= k) ~> ((served >= k /\ accept # "ok") \/ main \notin {"run", "insert"}
                                \/ terminated)

(* Short of a liveness property, what it takes: outside the two halves of  *)
(* HandleAccept an accept is pending, or has completed, while main runs.   *)
AlwaysAccepting == main \in {"run", "unwind"} => accept # "none"

(* An open session is attended to, whatever the other sessions and the     *)
(* logic thread do: it is in the map, or is being put there, it reads, and *)
(* what it has queued is being written.                                    *)
OpenInMap ==
    \A s \in open : Started(s) =>
        s \in sessions \/ ~ServerAlive \/ (main = "insert" /\ s = created)
OpenMeansReading ==
    \A s \in open : Started(s) =>
        read[s] # "none" \/ \E t \in Threads : Handling(t, "read", s)
StalledOnlyWhenClosed ==
    \A s \in open : send_que[s] > 0 =>
        write[s] # "none" \/ \E t \in Threads : Handling(t, "write", s)

(* A signal ends the process, sessions, pending operations and queued      *)
(* messages notwithstanding, unless a destroyed object is used or the      *)
(* process is terminated before, or ~LogicSystem joins for ever a worker   *)
(* that has missed its stop and that nothing wakes.                        *)
ProcessEnds ==
    (main = "unwind") ~>
        (main = "exited" \/ misuse # {} \/ terminated \/ [](stop = "missed"))

-----------------------------------------------------------------------------
(* Each part behaves as its own abstract specification says.  A handler in *)
(* a thread still counts as the operation it handles.                      *)
StateOf(s) == IF Started(s) THEN IF s \in open THEN "started" ELSE "closed"
                            ELSE IF s \in open THEN "open" ELSE "new"

InHand(op, pending, s) ==
    IF \E t \in Threads : Handling(t, op, s)
    THEN thread[CHOOSE t \in Threads : Handling(t, op, s)].st
    ELSE pending[s]

Asked(s) == Cardinality({i \in Len(dealt) + 1 .. Len(posted) : posted[i] = s})

IO(s) == INSTANCE SessionIO
            WITH state <- StateOf(s), reading <- InHand("read", read, s),
                 writing <- InHand("write", write, s),
                 queued <- send_que[s], asked <- Asked(s)

(* The sessions, with the pool, the acceptor and the one logic queue       *)
(* between them: a step of the process is of each of them a step or none.  *)
SessionsKept == [][\A s \in Session : [IO(s)!Next]_(IO(s)!iovars)]_vars
SessionsSafety == \A s \in Session : IO(s)!Safety

-----------------------------------------------------------------------------
(* The inductive invariant.  Accepts: sessions made against the bounds.    *)
AcceptInv ==
    /\ created <= served + MaxFailures + 1
    /\ accept \in {"ok", "err"} \/ main = "insert" => created <= served + MaxFailures
    /\ main = "insert" => accept = "none"
    /\ AlwaysAccepting

(* Threads run handlers of their own context's sessions.  Of the writes of *)
(* a session that are pending or handled there is one at most, and its     *)
(* answer is in the queue.                                                 *)
ThreadInv ==
    /\ \A t \in Threads : thread[t] # Idle =>
          ContextOf[t] = context[thread[t].of] /\ thread[t].of <= created
    /\ \A s \in Session, t \in Threads :
          Handling(t, "write", s) => /\ send_que[s] > 0 /\ write[s] = "none"
                                     /\ \A u \in Threads : Handling(u, "write", s) => u = t
    /\ \A s \in Session : write[s] # "none" => send_que[s] > 0

(* A session that is waited for is not open before its client has come.    *)
OpenInv ==
    /\ \A s \in open : s <= created
    /\ accept \in {"io", "err"} => created \notin open
    /\ accept = "ok" => created \in open

(* A session that has not been started has nothing to do.  Of the reads of *)
(* a session, too, there is one at most.                                   *)
StartInv ==
    /\ \A s \in Session : read[s] # "none" \/ write[s] # "none" => Started(s)
    /\ \A t \in Threads : thread[t] # Idle => Started(thread[t].of)
    /\ \A i \in 1 .. Len(posted) : Started(posted[i])
    /\ \A s \in Session, t \in Threads :
          Handling(t, "read", s) => /\ read[s] = "none"
                                    /\ \A u \in Threads : Handling(u, "read", s) => u = t

(* Lifetimes: what is gone has been stopped, drained and joined before.    *)
EndInv ==
    /\ destroyed > 0 => main \in {"statics", "exited"}
    /\ main = "exited" => destroyed = 2
    /\ Gone("pool") => pool = "stopped" /\ \A t \in Threads : thread[t] = Idle
    /\ Gone("logic") => status = "closed"
    /\ status = "closed" => main \in {"statics", "exited"}
    /\ order = PoolFirst /\ status = "closed" => Gone("pool") /\ dealt = posted
    /\ QueueOutlivesHandlers
    /\ ContextOutlivesWorker

(* Rounds: the contexts before the next one have been given a session more *)
(* than those from it on.                                                  *)
RoundInv ==
    \E rounds \in 0 .. created : \A c \in Context :
        Given(c) = IF c < m_nextIOContext THEN rounds + 1 ELSE rounds

(* The logic queue: a stop is missed by a worker with nothing to deal with *)
(* only, and no worker returns that has not heard it.                      *)
QueueInv ==
    /\ Len(dealt) <= Len(posted)
    /\ stop = "missed" => status = "open" /\ dealt = posted
    /\ status = "closed" => stop = "heard"
    /\ stop # "none" => main \in {"statics", "exited"}
    /\ order = PoolFirst /\ stop # "none" => Gone("pool")

(* Nothing is queued for a session that has not been started.              *)
LiveInv ==
    /\ OpenInMap /\ OpenMeansReading /\ StalledOnlyWhenClosed
    /\ \A s \in Session : send_que[s] > 0 => Started(s)

ServerInv ==
    /\ TypeOK /\ AcceptInv /\ RoundInv /\ OpenInv /\ StartInv /\ ThreadInv
    /\ QueueInv /\ EndInv /\ LiveInv

-----------------------------------------------------------------------------
(* CSession.h line 60: _server is there "for clearing itself out of        *)
(* CServer".                                                               *)
ServerThereToClear == "server" \notin misuse
=============================================================================
