------------------------------ MODULE CoSession ------------------------------
(***************************************************************************)
(* One session of coroutineServer.  It differs from asynServer's in two    *)
(* ways.  A coroutine reads: Start only spawns it, and at the top of its   *)
(* loop it tests m_flag_close, which Close sets together with closing the  *)
(* socket.  And Send and HandleWrite release m_send_lock before they start *)
(* the async_write they have decided on: decision and write are two steps. *)
(* That it implements asynServer's session all the same is AsyncSpec.      *)
(*                                                                         *)
(* What the coroutine throws its own handler catches, bad_array_new_length *)
(* included, so that a negative length is a bad head like any other; only  *)
(* of -1, for which new does not throw, is a node made, and overrun.       *)
(***************************************************************************)
EXTENDS CSession

VARIABLES looping,        \* the coroutine is at the top of its loop
          starting        \* async_writes decided on and not yet started

cosession == <<session, looping, starting>>
covars == <<vars, looping, starting>>

CoSessionOK ==
    /\ SessionOK
    /\ looping \in BOOLEAN
    /\ starting \in SUBSET [by : {"worker", "pool"}, node : Nat \ {0}]

CoTypeOK == CoSessionOK /\ terminated \in BOOLEAN

CoInit == Init /\ looping = FALSE /\ starting = {}

(* The worker and the pool thread, between unlock and async_write.         *)
Busy(thread) == \E s \in starting : s.by = thread

StartWrite(s) ==
    /\ starting' = starting \ {s}
    /\ writes' = writes \cup {AsyncWrite(s.node)}
    /\ UNCHANGED <<acceptor, m_socket, peer, receiving, logic_que, send_que, accepted, dropped, wire, looping>>

-----------------------------------------------------------------------------
(* Start only spawns the coroutine; co_spawn posts it to the pool thread.  *)
CoStartSession ==
    /\ accept = "start"
    /\ accept' = "insert"
    /\ looping' = TRUE
    /\ UNCHANGED <<in_sessions, late, m_socket, peer, receiving, logic_que, sending, starting>>

(* while (!m_flag_close): read a head, or leave the loop by an exception.  *)
Leave == Close(NoRead, writes) /\ ClearSession

Loop ==
    /\ looping
    /\ looping' = FALSE
    /\ IF m_socket = "closed"
       THEN Leave
       ELSE Start /\ UNCHANGED <<acceptor, m_socket, writes>>
    /\ UNCHANGED <<peer, body, frames, logic_que, send_que, accepted, dropped, wire, starting>>

(* PostMsgToQue waits for a callback, which runs under the queue's mutex.  *)
CoReadMsg ==
    /\ read.op = "body" /\ read.st \in {"ok", "err"}
    /\ IF read.st = "ok"
       THEN /\ ~Busy("worker")
            /\ logic_que' = Append(logic_que, Len(body))
            /\ looping' = TRUE
            /\ read' = NoRead
            /\ UNCHANGED <<acceptor, m_socket, writes>>
       ELSE /\ Leave
            /\ UNCHANGED <<logic_que, looping>>
    /\ UNCHANGED <<peer, body, frames, send_que, accepted, dropped, wire, starting>>

CoReadHead == HandleReadHead /\ UNCHANGED <<looping, starting>>

Resume == ~Busy("pool") /\ (Loop \/ CoReadHead \/ CoReadMsg)
CoNegativeLength == ~Busy("pool") /\ NegativeLength /\ UNCHANGED <<looping, starting>>

-----------------------------------------------------------------------------
(* Whose write comes next.  Wrong variants: everybody who queues a message *)
(* writes; nobody goes on after a write.                                   *)
StartAlways(queue) == {[by |-> "worker", node |-> Head(queue)]}
StartFirst(queue) == IF Len(queue) > 1 THEN {} ELSE {[by |-> "worker", node |-> Head(queue)]}
NoNextStart(queue) == {}
StartNext(queue) == IF queue = <<>> THEN {} ELSE {[by |-> "pool", node |-> Head(queue)]}

CoHandleWrite(w) ==
    /\ w.st # "io" /\ ~Busy("pool") /\ ~looping
    /\ IF w.st = "ok"
       THEN /\ send_que' = Pop
            /\ starting' = starting \cup StartNext(send_que')
            /\ writes' = writes \ {w}
            /\ UNCHANGED <<acceptor, m_socket, read>>
       ELSE /\ Close(read, writes \ {w})
            /\ ClearSession
            /\ UNCHANGED <<send_que, starting>>
    /\ UNCHANGED <<peer, body, frames, logic_que, accepted, dropped, wire, looping>>

CoSend(reply) ==
    IF SendQueFull
    THEN /\ dropped' = dropped \cup {reply}
         /\ UNCHANGED <<send_que, accepted, starting>>
    ELSE /\ accepted' = Append(accepted, reply)
         /\ send_que' = Append(send_que, Len(accepted'))
         /\ starting' = starting \cup StartFirst(send_que')
         /\ UNCHANGED dropped

CoDealMsg ==
    /\ logic_que # <<>> /\ ~Busy("worker")
    /\ body[Head(logic_que)] \notin Throwing
    /\ logic_que' = Tail(logic_que)
    /\ IF body[Head(logic_que)] \in Registered
       THEN CoSend(body[Head(logic_que)])
       ELSE UNCHANGED <<send_que, accepted, dropped, starting>>
    /\ UNCHANGED <<acceptor, m_socket, peer, receiving, writes, wire, looping>>

CoCallBackThrows == ~Busy("worker") /\ CallBackThrows /\ UNCHANGED <<looping, starting>>

-----------------------------------------------------------------------------
(* The rest is asynServer's; async_read reads a whole head, never a part.  *)
OwnUnchanged == UNCHANGED <<looping, starting>>
CoAcceptCompletes == AcceptCompletes /\ OwnUnchanged
CoInsert == Insert /\ OwnUnchanged

Kernel ==
    /\ \/ PeerCloses \/ ReadFails \/ BodyArrives \/ Writing
       \/ \E st \in {"ok", "bad", "negative"} : HeadArrives(st)
    /\ OwnUnchanged

CoStep ==
    \/ Kernel
    \/ CoAcceptCompletes \/ CoStartSession \/ CoInsert
    \/ Resume
    \/ \E w \in writes : CoHandleWrite(w)
    \/ \E s \in starting : StartWrite(s)
    \/ CoDealMsg

CoNext == (Survive /\ CoStep) \/ CoNegativeLength \/ CoCallBackThrows

(* As in CSession; a thread that has unlocked goes on to its async_write.  *)
CoFairness ==
    /\ WF_covars(Survive /\ (CoStartSession \/ CoInsert))
    /\ WF_covars((Survive /\ Resume) \/ CoNegativeLength)
    /\ WF_covars(Survive /\ \E w \in writes : CoHandleWrite(w))
    /\ WF_covars(Survive /\ \E s \in starting : StartWrite(s))
    /\ WF_covars((Survive /\ CoDealMsg) \/ CoCallBackThrows)
    /\ WF_covars(Survive /\ ReadFails /\ OwnUnchanged)
    /\ WF_covars(Survive /\ Writing /\ OwnUnchanged)

CoSafety == CoInit /\ [][CoNext]_covars
CoSpec == CoSafety /\ CoFairness

-----------------------------------------------------------------------------
(* Although the lock is released in between: of all writes pending or      *)
(* decided on there is one at most, and it is of the front, which stays    *)
(* in the queue and so in memory.                                          *)
OneWriterOfTheFront ==
    /\ \A w \in writes :
          writes = {w} /\ starting = {} /\ send_que # <<>> /\ w.node = Head(send_que)
    /\ \A s \in starting :
          starting = {s} /\ writes = {} /\ send_que # <<>> /\ s.node = Head(send_que)

(* The invariant the refinement needs.                                     *)
CoInv ==
    /\ OneWriterOfTheFront
    /\ looping => read = NoRead /\ accept \in {"insert", "accepted"}
    /\ Early => read = NoRead /\ logic_que = <<>> /\ send_que = <<>>
    /\ read.op = "body" => body # <<>>
    /\ \A w \in writes : w.st = "io" => w.sent < Parts

CoSessionInv == CoTypeOK /\ CoInv

(* A session of coroutineServer behaves like one of asynServer whose       *)
(* async_writes start when they are decided on, and whose next read is     *)
(* pending when the coroutine is at the top of its loop.  So all that is   *)
(* proved of CSession, its liveness included, holds of it.                 *)
reading == IF looping THEN [op |-> "head", st |-> Pending] ELSE read
writing == writes \cup {AsyncWrite(s.node) : s \in starting}
Async == INSTANCE CSession WITH read <- reading, writes <- writing
AsyncSafety == Async!Safety
AsyncSpec == Async!Spec
=============================================================================
