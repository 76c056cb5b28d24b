---------------------------- MODULE LogicSystem ----------------------------
(***************************************************************************)
(* The logic queue of asynServer: network threads post messages, one       *)
(* worker thread deals with them, the destructor stops the worker.         *)
(*                                                                         *)
(* A critical section is one action where nothing else can happen inside   *)
(* it; the worker is split where the mutex is released or where the        *)
(* destructor, which takes no lock, can step in between.  A request stands *)
(* for the id and the body of a message: whether a callback is registered  *)
(* for the id and whether the callback throws is all the queue can tell.   *)
(***************************************************************************)
EXTENDS Naturals, Sequences

CONSTANTS Threads,        \* the network threads (one per io_context)
          Requests,       \* kinds of request
          Registered,     \* those whose id is a key of m_fun_callback
          Throwing,       \* those whose callback ends in an exception
          MaxPosts        \* bound: messages each thread posts

ASSUME LogicAssumption ==
    /\ Registered \subseteq Requests
    /\ Throwing \subseteq Registered
    /\ MaxPosts \in Nat

Message == [thread : Threads, n : 1 .. MaxPosts, request : Requests]

VARIABLES m_msg_que,      \* the queue
          m_b_stop,       \* the stop flag, written without the mutex
          m_mutex,        \* "free", or "worker" while DealMsg owns it
          worker,         \* where DealMsg is
          dtor,           \* where ~LogicSystem is
          posted,         \* history: messages pushed, in order
          count,          \* how many of them each thread posted
          dealt,          \* history: messages popped, in order
          answered        \* history: the places in posted of the messages
                          \* whose callback returned, in the order it did

history == <<posted, count, dealt, answered>>
vars == <<m_msg_que, m_b_stop, m_mutex, worker, dtor, history>>

WorkerPC == {"lock",      \* at the top of the loop, about to lock
             "test",      \* holds the mutex, about to read queue and flag
             "sleep",     \* holds the mutex, found nothing, about to wait
             "blocked",   \* inside m_consume.wait, mutex released
             "woken",     \* notified, about to take the mutex again
             "deal",      \* holds the mutex, about to deal with the front
             "drain",     \* holds the mutex, stopping
             "done",      \* returned from DealMsg
             "terminated"}\* a callback threw: std::terminate, process gone

TypeOK ==
    /\ m_msg_que \in Seq(Message)
    /\ m_b_stop \in BOOLEAN
    /\ m_mutex \in {"free", "worker"}
    /\ worker \in WorkerPC
    /\ dtor \in {"none", "notify", "join", "joined"}
    /\ posted \in Seq(Message)
    /\ count \in [Threads -> 0 .. MaxPosts]
    /\ dealt \in Seq(Message)
    /\ answered \in Seq(Nat)

Init ==
    /\ m_msg_que = <<>>
    /\ m_b_stop = FALSE
    /\ m_mutex = "free"
    /\ worker = "lock"
    /\ dtor = "none"
    /\ posted = <<>> /\ dealt = <<>> /\ answered = <<>>
    /\ count = [t \in Threads |-> 0]

(* m_consume.notify_one(): there is one waiter at most.                    *)
NotifyOne == worker' = IF worker = "blocked" THEN "woken" ELSE worker

-----------------------------------------------------------------------------
(* Notify when the queue has grown to one; the wrong variant, to two.      *)
NotifySecond == IF Len(m_msg_que') = 2 THEN NotifyOne ELSE UNCHANGED worker
NotifyFirst == IF Len(m_msg_que') = 1 THEN NotifyOne ELSE UNCHANGED worker

PostMsgToQue(t, request) ==
    LET m == [thread |-> t, n |-> count[t] + 1, request |-> request]
    IN  /\ m_mutex = "free"
        /\ dtor # "joined"
        /\ count[t] < MaxPosts
        /\ m_msg_que' = Append(m_msg_que, m)
        /\ posted' = Append(posted, m)
        /\ count' = [count EXCEPT ![t] = @ + 1]
        /\ NotifyFirst
        /\ UNCHANGED <<m_b_stop, m_mutex, dtor, dealt, answered>>

-----------------------------------------------------------------------------
Lock ==
    /\ worker \in {"lock", "woken"}
    /\ m_mutex = "free"
    /\ m_mutex' = "worker"
    /\ worker' = "test"
    /\ UNCHANGED <<m_msg_que, m_b_stop, dtor, history>>

(* The while condition and, once it is false, the test of m_b_stop.        *)
Test ==
    /\ worker = "test"
    /\ worker' = IF m_b_stop THEN "drain"
                 ELSE IF m_msg_que = <<>> THEN "sleep" ELSE "deal"
    /\ UNCHANGED <<m_msg_que, m_b_stop, m_mutex, dtor, history>>

Wait ==
    /\ worker = "sleep"
    /\ worker' = "blocked"
    /\ m_mutex' = "free"
    /\ UNCHANGED <<m_msg_que, m_b_stop, dtor, history>>

SpuriousWakeup ==
    /\ worker = "blocked"
    /\ worker' = "woken"
    /\ UNCHANGED <<m_msg_que, m_b_stop, m_mutex, dtor, history>>

(* pop(); the wrong variants leave a message without a callback in the     *)
(* queue, or pop the one behind it as well.                                *)
PopRegistered == m_msg_que' = IF Head(m_msg_que).request \in Registered
                              THEN Tail(m_msg_que) ELSE m_msg_que
PopTwice == m_msg_que' = SubSeq(m_msg_que, 3, Len(m_msg_que))
Pop == m_msg_que' = Tail(m_msg_que)

(* Find the callback of the front message, run it under the mutex, pop.    *)
CallBackAndPop ==
    /\ Head(m_msg_que).request \notin Throwing
    /\ answered' = IF Head(m_msg_que).request \in Registered
                   THEN Append(answered, Len(dealt) + 1) ELSE answered
    /\ dealt' = Append(dealt, Head(m_msg_que))
    /\ Pop

(* One message per turn of the loop; the mutex is released at its end.     *)
Deal ==
    /\ worker = "deal"
    /\ CallBackAndPop
    /\ worker' = "lock"
    /\ m_mutex' = "free"
    /\ UNCHANGED <<m_b_stop, dtor, posted, count>>

(* Stopping: all messages in one critical section.                         *)
Drain ==
    /\ worker = "drain"
    /\ m_msg_que # <<>>
    /\ CallBackAndPop
    /\ UNCHANGED <<m_b_stop, m_mutex, worker, dtor, posted, count>>

(* When the stopping loop ends; the wrong variant leaves at once, as the   *)
(* worker of coroutineServer does.                                         *)
StoppedAtOnce == TRUE
Emptied == m_msg_que = <<>>

Return ==
    /\ worker = "drain"
    /\ Emptied
    /\ worker' = "done"
    /\ m_mutex' = "free"
    /\ UNCHANGED <<m_msg_que, m_b_stop, dtor, history>>

(* Nothing catches an exception of a callback.  The mutex stays taken: no  *)
(* thread of the process takes another step.                               *)
CallBackThrows ==
    /\ worker \in {"deal", "drain"}
    /\ m_msg_que # <<>>
    /\ Head(m_msg_que).request \in Throwing
    /\ worker' = "terminated"
    /\ UNCHANGED <<m_msg_que, m_b_stop, m_mutex, dtor, history>>

DealMsg == Lock \/ Test \/ Wait \/ Deal \/ Drain \/ Return \/ CallBackThrows

-----------------------------------------------------------------------------
SetStop ==
    /\ dtor = "none"
    /\ m_b_stop' = TRUE
    /\ dtor' = "notify"
    /\ UNCHANGED <<m_msg_que, m_mutex, worker, history>>

(* Wrong variant: the stop flag is set and nobody is told.                 *)
StopSilently ==
    /\ dtor = "notify"
    /\ dtor' = "join"
    /\ UNCHANGED <<m_msg_que, m_b_stop, m_mutex, worker, history>>

NotifyStop ==
    /\ dtor = "notify"
    /\ NotifyOne
    /\ dtor' = "join"
    /\ UNCHANGED <<m_msg_que, m_b_stop, m_mutex, history>>

Join ==
    /\ dtor = "join"
    /\ worker = "done"
    /\ dtor' = "joined"
    /\ UNCHANGED <<m_msg_que, m_b_stop, m_mutex, worker, history>>

Destruct == worker # "terminated" /\ (SetStop \/ NotifyStop \/ Join)

-----------------------------------------------------------------------------
Next ==
    \/ \E t \in Threads, r \in Requests : PostMsgToQue(t, r)
    \/ DealMsg
    \/ SpuriousWakeup
    \/ Destruct

(* The worker and a destructor that has begun are threads the scheduler    *)
(* runs; nobody has to post, to stop, or to wake a waiter for no reason.   *)
Fairness == WF_vars(DealMsg) /\ WF_vars(worker # "terminated" /\ (NotifyStop \/ Join))

Safety == Init /\ [][Next]_vars
Spec == Safety /\ Fairness

-----------------------------------------------------------------------------
(* The worker owns the mutex in exactly these places.                      *)
Holding == {"test", "sleep", "deal", "drain", "terminated"}

(* No message is lost, dealt with twice or out of order between the push   *)
(* of PostMsgToQue and the pop of DealMsg.                                 *)
ExactlyOnceInOrder == posted = dealt \o m_msg_que

(* A worker inside m_consume.wait that nobody has notified has nothing to  *)
(* do: PostMsgToQue may notify only when the queue grows to one.           *)
NoLostWakeup == worker = "blocked" => m_msg_que = <<>>

(* The inductive invariant: who owns the mutex, and what the worker knows  *)
(* of the queue from its last look at it.                                  *)
LogicInv ==
    /\ TypeOK
    /\ m_mutex = "worker" <=> worker \in Holding
    /\ worker \in {"sleep", "blocked"} => m_msg_que = <<>>
    /\ worker = "deal" => m_msg_que # <<>>
    /\ worker \in {"drain", "done"} => m_b_stop
    /\ ExactlyOnceInOrder

(* DealMsg returns only after a stop, and with the queue empty: what was   *)
(* posted before the worker saw the flag is dealt with (LogicSystem.cpp    *)
(* line 40).                                                               *)
DrainedAtReturn ==
    [][worker # "done" /\ worker' = "done" => m_b_stop /\ dealt = posted]_vars

(* A stop that does not hit the worker between its test of the flag and    *)
(* the wait ends the worker, and the destructor returns.  One that does    *)
(* leaves the worker asleep, whatever lines 13 and 15 say (wake it, wait   *)
(* for it to exit): the flag and the notification are both missed.         *)
StopOutsideWindowJoins ==
    (dtor = "notify" /\ worker # "sleep") ~> (dtor = "joined" \/ worker = "terminated")

(* Between the push and the callback: of the messages dealt with, the      *)
(* requests that have a callback are answered, once and in the order of    *)
(* the pushes; those without one are dropped without holding up the rest.  *)
AnswersFollowPosts ==
    /\ \A i, j \in DOMAIN answered : i < j => answered[i] < answered[j]
    /\ {answered[i] : i \in DOMAIN answered}
          = {p \in 1 .. Len(dealt) : posted[p].request \in Registered}

(* The queue implements the abstract service.  It is closed when the       *)
(* worker has returned; it crashes on a request whose callback throws.     *)
status == CASE worker = "done" -> "closed"
            [] worker = "terminated" -> "crashed"
            [] OTHER -> "open"
Service == INSTANCE MsgService WITH Fatal <- {m \in Message : m.request \in Throwing}
ServiceSafety == Service!Safety
ServiceSpec == Service!Spec
=============================================================================
