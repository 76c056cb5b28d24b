--------------------------- MODULE CoLogicSystem ---------------------------
(***************************************************************************)
(* The logic queue of coroutineServer.  It is that of asynServer but for   *)
(* the loop of DealMsg: while (!m_is_stop) reads the flag at the top of    *)
(* each turn, without the mutex, and a worker that reads TRUE there        *)
(* returns at once.  m_b_stop stands for its m_is_stop.                    *)
(***************************************************************************)
EXTENDS LogicSystem

VARIABLE entered          \* the worker has read FALSE at the top of the loop

covars == <<vars, entered>>

CoInit == Init /\ entered = FALSE

(* The condition of the loop.                                              *)
Loop ==
    /\ worker = "lock" /\ ~entered
    /\ IF m_b_stop
       THEN worker' = "done" /\ UNCHANGED entered
       ELSE entered' = TRUE /\ UNCHANGED worker
    /\ UNCHANGED <<m_msg_que, m_b_stop, m_mutex, dtor, history>>

(* The top of the turn, or the end of a wait.                              *)
CoLock ==
    /\ worker = "lock" => entered
    /\ Lock
    /\ entered' = FALSE

CoDealMsg ==
    \/ Loop \/ CoLock
    \/ UNCHANGED entered /\ (Test \/ Wait \/ Deal \/ Drain \/ Return \/ CallBackThrows)

CoNext ==
    \/ CoDealMsg
    \/ UNCHANGED entered /\ ( \/ \E t \in Threads, r \in Requests : PostMsgToQue(t, r)
                              \/ SpuriousWakeup
                              \/ Destruct )

CoStopping == worker # "terminated" /\ (NotifyStop \/ Join) /\ UNCHANGED entered
CoFairness == WF_covars(CoDealMsg) /\ WF_covars(CoStopping)

CoSafety == CoInit /\ [][CoNext]_covars
CoSpec == CoSafety /\ CoFairness

-----------------------------------------------------------------------------
(* The inductive invariant: that of the queue of asynServer, and where the *)
(* condition of the loop is known.                                         *)
CoLogicInv ==
    /\ LogicInv
    /\ entered \in BOOLEAN
    /\ entered => worker = "lock"

(* Every message is dealt with, unless the server is stopped first.  The   *)
(* queue notifies at size one only, and a turn ends after one message.     *)
DealtUnlessStopped ==
    \A n \in 1 .. 2 * MaxPosts : (Len(posted) >= n) ~>
            \/ Len(dealt) >= n \/ m_b_stop
            \/ worker = "terminated"

(* A stop that finds the worker waiting empties the queue, as a stop of    *)
(* asynServer always does; DealMsg returns with messages only from the     *)
(* top of its loop.  (LogicSystem.cpp line 42, "when the thread stops the  *)
(* queue has to be emptied", is true of that branch alone.)                *)
LeftOnlyFromTheTop ==
    [][worker # "done" /\ worker' = "done" => worker = "lock" \/ dealt = posted]_covars
=============================================================================
