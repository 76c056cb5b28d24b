------------------------- MODULE LogicSystemProofs -------------------------
(***************************************************************************)
(* Theorems about the logic queues of asynServer and, at the end, of       *)
(* coroutineServer, for any number of network threads, messages and kinds  *)
(* of request.  LogicInv is inductive; the rest follows from it one step   *)
(* at a time.                                                              *)
(***************************************************************************)
EXTENDS CoLogicSystem, SequenceTheorems, TLAPS

-----------------------------------------------------------------------------
(* What a push and a pop do to the equation posted = dealt \o queue.       *)
LEMMA PushKeepsOrder ==
    ASSUME NEW S, NEW d \in Seq(S), NEW q \in Seq(S), NEW e \in S,
           NEW p \in Seq(S), p = d \o q
    PROVE  Append(p, e) = d \o Append(q, e)
  <1>1. Append(p, e) = (d \o q) \o <<e>>
    BY ConcatProperties, AppendIsConcat
  <1>2. Append(q, e) = q \o <<e>>
    BY AppendIsConcat
  <1>3. <<e>> \in Seq(S)
    OBVIOUS
  <1>4. (d \o q) \o <<e>> = d \o (q \o <<e>>)
    BY <1>3, ConcatAssociative
  <1> QED
    BY <1>1, <1>2, <1>4

LEMMA PopKeepsOrder ==
    ASSUME NEW S, NEW d \in Seq(S), NEW q \in Seq(S), q # <<>>
    PROVE  d \o q = Append(d, Head(q)) \o Tail(q)
  <1>1. Head(q) \in S /\ Tail(q) \in Seq(S)
    BY HeadTailProperties
  <1>2. q = <<Head(q)>> \o Tail(q)
    OBVIOUS
  <1>3. Append(d, Head(q)) = d \o <<Head(q)>>
    BY <1>1, AppendIsConcat
  <1>4. <<Head(q)>> \in Seq(S)
    BY <1>1
  <1>5. (d \o <<Head(q)>>) \o Tail(q) = d \o (<<Head(q)>> \o Tail(q))
    BY <1>1, <1>4, ConcatAssociative
  <1> QED
    BY <1>2, <1>3, <1>5

(* One pop keeps the types and the order; Deal and Drain share it.         *)
LEMMA CallBackAndPopStep ==
    ASSUME TypeOK, ExactlyOnceInOrder, m_msg_que # <<>>, CallBackAndPop,
           posted' = posted
    PROVE  /\ m_msg_que' \in Seq(Message)
           /\ dealt' \in Seq(Message)
           /\ answered' \in Seq(Nat)
           /\ ExactlyOnceInOrder'
  <1>1. Head(m_msg_que) \in Message /\ Tail(m_msg_que) \in Seq(Message)
    BY HeadTailProperties DEF TypeOK
  <1>2. m_msg_que' \in Seq(Message) /\ dealt' \in Seq(Message) /\ answered' \in Seq(Nat)
    BY <1>1, AppendProperties DEF TypeOK, CallBackAndPop, Pop
  <1>3. dealt \o m_msg_que = Append(dealt, Head(m_msg_que)) \o Tail(m_msg_que)
    BY PopKeepsOrder DEF TypeOK
  <1> QED
    BY <1>2, <1>3 DEF ExactlyOnceInOrder, CallBackAndPop, Pop

-----------------------------------------------------------------------------
LEMMA InitIInv == Init => LogicInv
  <1> SUFFICES ASSUME Init PROVE LogicInv
    OBVIOUS
  <1>1. TypeOK
    <2>1. <<>> \in Seq(Message) /\ <<>> \in Seq(Nat)
      OBVIOUS
    <2>2. 0 \in 0 .. MaxPosts
      BY LogicAssumption DEF LogicAssumption
    <2> QED
      BY <2>1, <2>2 DEF Init, TypeOK, WorkerPC
  <1>2. ExactlyOnceInOrder
    BY DEF Init, ExactlyOnceInOrder
  <1> QED
    BY <1>1, <1>2 DEF Init, LogicInv, Holding

LEMMA NextIInv == LogicInv /\ [Next]_vars => LogicInv'
  <1> SUFFICES ASSUME LogicInv, [Next]_vars PROVE LogicInv'
    OBVIOUS
  <1> USE LogicAssumption DEF LogicAssumption, WorkerPC, Holding
  <1>1. ASSUME NEW t \in Threads, NEW r \in Requests, PostMsgToQue(t, r)
        PROVE  LogicInv'
    <2> DEFINE m == [thread |-> t, n |-> count[t] + 1, request |-> r]
    <2>1. m \in Message
      <3>1. count[t] \in 0 .. MaxPosts /\ count[t] < MaxPosts
        BY <1>1 DEF LogicInv, TypeOK, PostMsgToQue
      <3>2. count[t] + 1 \in 1 .. MaxPosts
        BY <3>1
      <3> QED
        BY <3>2 DEF Message
    <2>2. /\ m_msg_que' = Append(m_msg_que, m)
          /\ posted' = Append(posted, m)
          /\ dealt' = dealt
          /\ worker' \in {worker, "woken"}
          /\ worker = "blocked" => worker' = "woken"
          /\ worker # "blocked" => worker' = worker
      <3>1. worker = "blocked" => Len(Append(m_msg_que, m)) = 1
        BY DEF LogicInv, TypeOK
      <3> QED
        BY <1>1, <3>1 DEF PostMsgToQue, NotifyFirst, NotifyOne
    <2>3. Append(m_msg_que, m) \in Seq(Message) /\ Append(m_msg_que, m) # <<>>
      BY <2>1, AppendProperties DEF LogicInv, TypeOK
    <2>4. TypeOK'
      BY <1>1, <2>1, <2>2, <2>3, AppendProperties DEF LogicInv, TypeOK, PostMsgToQue
    <2>5. ExactlyOnceInOrder'
      <3>1. /\ dealt \in Seq(Message) /\ m_msg_que \in Seq(Message)
            /\ posted \in Seq(Message) /\ posted = dealt \o m_msg_que
        BY DEF LogicInv, TypeOK, ExactlyOnceInOrder
      <3>2. Append(posted, m) = dealt \o Append(m_msg_que, m)
        BY <2>1, <3>1, PushKeepsOrder
      <3> QED
        BY <2>2, <3>2 DEF ExactlyOnceInOrder
    <2>6. worker \notin Holding
      BY <1>1 DEF LogicInv, PostMsgToQue
    <2> QED
      BY <1>1, <2>2, <2>3, <2>4, <2>5, <2>6 DEF LogicInv, PostMsgToQue
  <1>2. CASE Lock
    BY <1>2 DEF LogicInv, TypeOK, Lock, history, ExactlyOnceInOrder
  <1>3. CASE Test
    BY <1>3 DEF LogicInv, TypeOK, Test, history, ExactlyOnceInOrder
  <1>4. CASE Wait
    BY <1>4 DEF LogicInv, TypeOK, Wait, history, ExactlyOnceInOrder
  <1>5. CASE SpuriousWakeup
    BY <1>5 DEF LogicInv, TypeOK, SpuriousWakeup, history, ExactlyOnceInOrder
  <1>6. CASE Deal
    <2>1. /\ m_msg_que' \in Seq(Message)
          /\ dealt' \in Seq(Message)
          /\ answered' \in Seq(Nat)
          /\ ExactlyOnceInOrder'
      BY <1>6, CallBackAndPopStep DEF LogicInv, Deal
    <2> QED
      BY <1>6, <2>1 DEF LogicInv, TypeOK, Deal
  <1>7. CASE Drain
    <2>1. /\ m_msg_que' \in Seq(Message)
          /\ dealt' \in Seq(Message)
          /\ answered' \in Seq(Nat)
          /\ ExactlyOnceInOrder'
      BY <1>7, CallBackAndPopStep DEF LogicInv, Drain
    <2> QED
      BY <1>7, <2>1 DEF LogicInv, TypeOK, Drain
  <1>8. CASE Return
    BY <1>8 DEF LogicInv, TypeOK, Return, history, ExactlyOnceInOrder
  <1>9. CASE CallBackThrows
    BY <1>9 DEF LogicInv, TypeOK, CallBackThrows, history, ExactlyOnceInOrder
  <1>10. CASE SetStop
    BY <1>10 DEF LogicInv, TypeOK, SetStop, history, ExactlyOnceInOrder
  <1>11. CASE NotifyStop
    BY <1>11 DEF LogicInv, TypeOK, NotifyStop, NotifyOne, history, ExactlyOnceInOrder
  <1>12. CASE Join
    BY <1>12 DEF LogicInv, TypeOK, Join, history, ExactlyOnceInOrder
  <1>13. CASE UNCHANGED vars
    BY <1>13 DEF LogicInv, TypeOK, vars, history, ExactlyOnceInOrder
  <1> QED
    BY <1>1, <1>2, <1>3, <1>4, <1>5, <1>6, <1>7, <1>8, <1>9, <1>10, <1>11,
       <1>12, <1>13 DEF Next, DealMsg, Destruct

(* The inductive invariant holds in every reachable state: the mutex is    *)
(* owned where DealMsg says, and nothing posted is lost or reordered.      *)
THEOREM InductiveInvariant == Safety => []LogicInv
  BY InitIInv, NextIInv, PTL DEF Safety

(* The types, the order, and that a worker waiting un-notified has an      *)
(* empty queue although PostMsgToQue notifies only at size one.            *)
THEOREM TypeCorrect == Spec => []TypeOK
  <1>1. LogicInv => TypeOK
    BY DEF LogicInv
  <1> QED
    BY <1>1, InductiveInvariant, PTL DEF Spec

THEOREM OrderKept == Spec => []ExactlyOnceInOrder
  <1>1. LogicInv => ExactlyOnceInOrder
    BY DEF LogicInv
  <1> QED
    BY <1>1, InductiveInvariant, PTL DEF Spec

THEOREM WakeupNotLost == Spec => []NoLostWakeup
  <1>1. LogicInv => NoLostWakeup
    BY DEF LogicInv, NoLostWakeup
  <1> QED
    BY <1>1, InductiveInvariant, PTL DEF Spec

-----------------------------------------------------------------------------
(* DealMsg returns only after a stop and with everything posted dealt with.*)
LEMMA ReturnStep ==
    ASSUME LogicInv, [Next]_vars, worker # "done", worker' = "done"
    PROVE  m_b_stop /\ dealt = posted
  <1>1. Return
    BY DEF Next, PostMsgToQue, NotifyFirst, NotifyOne, Lock, Test, Wait, Deal, Drain,
           CallBackThrows, DealMsg, SpuriousWakeup, SetStop, NotifyStop, Join,
           Destruct, vars
  <1>2. m_b_stop /\ m_msg_que = <<>>
    BY <1>1 DEF LogicInv, Return, Emptied
  <1>3. dealt \o <<>> = dealt
    BY ConcatEmptySeq DEF LogicInv, TypeOK
  <1> QED
    BY <1>2, <1>3 DEF LogicInv, ExactlyOnceInOrder

THEOREM Drained == Spec => DrainedAtReturn
  <1>1. LogicInv /\ [Next]_vars => [worker # "done" /\ worker' = "done" => m_b_stop /\ dealt = posted]_vars
    BY ReturnStep
  <1> QED
    BY <1>1, InductiveInvariant, PTL DEF Spec, Safety, DrainedAtReturn

-----------------------------------------------------------------------------
(* The front of the queue is the message the abstract service deals with   *)
(* next, or crashes on.                                                    *)
LEMMA FrontIsDue ==
    ASSUME LogicInv, m_msg_que # <<>>
    PROVE  /\ Len(dealt) < Len(posted)
           /\ Service!Due = Head(m_msg_que)
           /\ Head(m_msg_que) \in Message
  <1>1. /\ dealt \in Seq(Message) /\ m_msg_que \in Seq(Message)
        /\ posted = dealt \o m_msg_que
    BY DEF LogicInv, TypeOK, ExactlyOnceInOrder
  <1>2. Len(m_msg_que) > 0 /\ Head(m_msg_que) = m_msg_que[1]
    BY <1>1
  <1>3. /\ Len(dealt) \in Nat
        /\ Len(dealt) < Len(posted)
        /\ posted[Len(dealt) + 1] = Head(m_msg_que)
    BY <1>1, <1>2, ConcatProperties
  <1>4. Head(m_msg_que) \in Message
    BY <1>1, <1>2
  <1> QED
    BY <1>3, <1>4 DEF Service!Due

LEMMA PopIsDeal ==
    ASSUME LogicInv, m_msg_que # <<>>, CallBackAndPop, posted' = posted,
           status = "open", status' = "open"
    PROVE  Service!Deal
  <1>1. Service!Due \notin {m \in Message : m.request \in Throwing}
    BY FrontIsDue DEF CallBackAndPop
  <1> QED
    BY <1>1, FrontIsDue DEF CallBackAndPop, Service!Deal

(* The queue with its lock, its condition variable and its stop implements *)
(* the abstract service: dealt in order, once, and closed only when done.  *)
THEOREM ImplementsService == Spec => ServiceSafety
  <1>1. Init => Service!Init
    BY DEF Init, Service!Init, status
  <1>2. LogicInv /\ [Next]_vars => [Service!Next]_Service!svars
    <2> SUFFICES ASSUME LogicInv, [Next]_vars
                 PROVE  [Service!Next]_Service!svars
      OBVIOUS
    <2> USE DEF Service!svars, Service!Next
    <2>1. ASSUME NEW t \in Threads, NEW r \in Requests, PostMsgToQue(t, r)
          PROVE  [Service!Next]_Service!svars
      <3> DEFINE m == [thread |-> t, n |-> count[t] + 1, request |-> r]
      <3>1. count[t] \in 0 .. MaxPosts /\ count[t] < MaxPosts
        BY <2>1 DEF LogicInv, TypeOK, PostMsgToQue
      <3>2. count[t] + 1 \in 1 .. MaxPosts
        BY <3>1, LogicAssumption DEF LogicAssumption
      <3>3. m \in Message
        BY <3>2 DEF Message
      <3>4. posted' = Append(posted, m) /\ dealt' = dealt
        BY <2>1 DEF PostMsgToQue
      <3>5. status' = status
        BY <2>1 DEF PostMsgToQue, NotifyFirst, NotifyOne, status
      <3>6. Service!Post(m)
        BY <3>4, <3>5 DEF Service!Post
      <3> QED
        BY <3>3, <3>6
    <2>2. CASE Lock
      BY <2>2 DEF Lock, history, status
    <2>3. CASE Test
      BY <2>3 DEF Test, history, status
    <2>4. CASE Wait
      BY <2>4 DEF Wait, history, status
    <2>5. CASE SpuriousWakeup
      BY <2>5 DEF SpuriousWakeup, history, status
    <2>6. CASE Deal
      <3>1. m_msg_que # <<>> /\ status = "open" /\ status' = "open"
        BY <2>6 DEF LogicInv, Deal, status
      <3> QED
        BY <2>6, <3>1, PopIsDeal DEF Deal
    <2>7. CASE Drain
      <3>1. m_msg_que # <<>> /\ status = "open" /\ status' = "open"
        BY <2>7 DEF LogicInv, Drain, status
      <3> QED
        BY <2>7, <3>1, PopIsDeal DEF Drain
    <2>8. CASE Return
      <3>1. status = "open" /\ status' = "closed"
        BY <2>8 DEF Return, status
      <3>2. dealt = posted
        BY <2>8, ReturnStep DEF Return
      <3> QED
        BY <2>8, <3>1, <3>2 DEF Return, history, Service!Close
    <2>9. CASE CallBackThrows
      <3>1. /\ m_msg_que # <<>> /\ Head(m_msg_que).request \in Throwing
            /\ UNCHANGED <<posted, dealt>>
        BY <2>9 DEF CallBackThrows, history
      <3>2. status = "open" /\ status' = "crashed"
        BY <2>9 DEF CallBackThrows, status
      <3>3. Service!Due \in {m \in Message : m.request \in Throwing}
        BY <3>1, FrontIsDue
      <3> QED
        BY <3>1, <3>2, <3>3, FrontIsDue DEF Service!Crash
    <2>10. CASE SetStop
      BY <2>10 DEF SetStop, history, status
    <2>11. CASE NotifyStop
      BY <2>11 DEF NotifyStop, NotifyOne, history, status
    <2>12. CASE Join
      BY <2>12 DEF Join, history, status
    <2>13. CASE UNCHANGED vars
      BY <2>13 DEF vars, history, status
    <2> QED
      BY <2>1, <2>2, <2>3, <2>4, <2>5, <2>6, <2>7, <2>8, <2>9, <2>10, <2>11,
         <2>12, <2>13 DEF Next, DealMsg, Destruct
  <1> QED
    BY <1>1, <1>2, InductiveInvariant, PTL
    DEF Spec, Safety, ServiceSafety, Service!Safety

-----------------------------------------------------------------------------
(* What one more answer does to the places that are answered.              *)
LEMMA OneMoreAnswer ==
    ASSUME NEW a \in Seq(Nat), NEW p \in Nat, \A i \in DOMAIN a : a[i] < p,
           \A i, j \in DOMAIN a : i < j => a[i] < a[j]
    PROVE  LET b == Append(a, p)
           IN  /\ \A i, j \in DOMAIN b : i < j => b[i] < b[j]
               /\ {b[i] : i \in DOMAIN b} = {a[i] : i \in DOMAIN a} \cup {p}
  <1> DEFINE b == Append(a, p)
  <1>1. /\ DOMAIN a = 1 .. Len(a) /\ Len(a) \in Nat
        /\ DOMAIN b = 1 .. Len(a) + 1
        /\ \A i \in 1 .. Len(a) : b[i] = a[i] /\ a[i] \in Nat
        /\ b[Len(a) + 1] = p
    OBVIOUS
  <1> HIDE DEF b
  <1>2. \A i, j \in DOMAIN b : i < j => b[i] < b[j]
    <2> TAKE i, j \in DOMAIN b
    <2> HAVE i < j
    <2>1. i \in 1 .. Len(a)
      BY <1>1
    <2>2. CASE j = Len(a) + 1
      BY <1>1, <2>1, <2>2
    <2>3. CASE j # Len(a) + 1
      <3>1. j \in 1 .. Len(a)
        BY <1>1, <2>3
      <3> QED
        BY <1>1, <2>1, <3>1
    <2> QED
      BY <2>2, <2>3
  <1>3. {b[i] : i \in DOMAIN b} = {a[i] : i \in DOMAIN a} \cup {p}
    <2>1. ASSUME NEW x PROVE (\E i \in DOMAIN b : x = b[i]) <=> (x = p \/ \E i \in DOMAIN a : x = a[i])
      <3>1. 1 .. Len(a) + 1 = (1 .. Len(a)) \cup {Len(a) + 1}
        BY <1>1
      <3> QED
        BY ONLY <1>1, <3>1
    <2> QED
      BY ONLY <2>1
  <1> QED
    BY <1>2, <1>3 DEF b

LEMMA PopAnswers ==
    ASSUME LogicInv, AnswersFollowPosts, m_msg_que # <<>>, CallBackAndPop,
           posted' = posted
    PROVE  AnswersFollowPosts'
  <1> DEFINE p == Len(dealt) + 1
  <1>1. /\ Len(dealt) \in Nat /\ Len(dealt') = p
        /\ posted[p] = Head(m_msg_que)
    <2>1. /\ dealt \in Seq(Message) /\ m_msg_que \in Seq(Message)
          /\ Head(m_msg_que) \in Message
      BY FrontIsDue DEF LogicInv, TypeOK
    <2> QED
      BY <2>1, FrontIsDue DEF Service!Due, CallBackAndPop
  <1>2. answered \in Seq(Nat)
    BY DEF LogicInv, TypeOK
  <1>3. \A i \in DOMAIN answered : answered[i] < p
    <2> TAKE i \in DOMAIN answered
    <2>1. answered[i] \in 1 .. Len(dealt)
      BY DEF AnswersFollowPosts
    <2> QED
      BY <1>1, <2>1
  <1>4. {q \in 1 .. Len(dealt') : posted'[q].request \in Registered}
            = {q \in 1 .. Len(dealt) : posted[q].request \in Registered}
                 \cup (IF Head(m_msg_que).request \in Registered THEN {p} ELSE {})
    <2>1. 1 .. p = (1 .. Len(dealt)) \cup {p}
      BY <1>1
    <2> QED
      BY <1>1, <2>1
  <1> HIDE DEF p
  <1>5. CASE Head(m_msg_que).request \in Registered
    <2>1. answered' = Append(answered, p)
      BY <1>5 DEF CallBackAndPop, p
    <2>2. p \in Nat
      BY <1>1 DEF p
    <2>3. /\ \A i, j \in DOMAIN answered : i < j => answered[i] < answered[j]
          /\ {answered[i] : i \in DOMAIN answered}
                = {q \in 1 .. Len(dealt) : posted[q].request \in Registered}
      BY DEF AnswersFollowPosts
    <2>4. /\ \A i, j \in DOMAIN answered' : i < j => answered'[i] < answered'[j]
          /\ {answered'[i] : i \in DOMAIN answered'}
                = {answered[i] : i \in DOMAIN answered} \cup {p}
      <3>1. \A i, j \in DOMAIN answered : i < j => answered[i] < answered[j]
        BY <2>3
      <3>2. LET b == Append(answered, p)
            IN  /\ \A i, j \in DOMAIN b : i < j => b[i] < b[j]
                /\ {b[i] : i \in DOMAIN b} = {answered[i] : i \in DOMAIN answered} \cup {p}
        BY ONLY <1>2, <1>3, <2>2, <3>1, OneMoreAnswer, Zenon
      <3> QED
        BY ONLY <2>1, <3>2, Zenon
    <2>5. {q \in 1 .. Len(dealt') : posted'[q].request \in Registered}
              = {q \in 1 .. Len(dealt) : posted[q].request \in Registered} \cup {p}
      BY ONLY <1>4, <1>5
    <2> QED
      BY ONLY <2>3, <2>4, <2>5 DEF AnswersFollowPosts
  <1>6. CASE Head(m_msg_que).request \notin Registered
    BY <1>4, <1>6 DEF AnswersFollowPosts, CallBackAndPop
  <1> QED
    BY <1>5, <1>6

(* Only a pop answers, and it answers the front.                           *)
LEMMA AnswersStep == LogicInv /\ AnswersFollowPosts /\ [Next]_vars => AnswersFollowPosts'
  <1> SUFFICES ASSUME LogicInv, AnswersFollowPosts, [Next]_vars
               PROVE  AnswersFollowPosts'
    OBVIOUS
  <1>1. ASSUME NEW t \in Threads, NEW r \in Requests, PostMsgToQue(t, r)
        PROVE  AnswersFollowPosts'
    <2>1. /\ posted \in Seq(Message) /\ Len(dealt) \in Nat
          /\ Len(dealt) <= Len(posted)
      BY ConcatProperties DEF LogicInv, TypeOK, ExactlyOnceInOrder
    <2>2. PICK m : posted' = Append(posted, m)
      BY <1>1 DEF PostMsgToQue
    <2>3. \A p \in 1 .. Len(dealt) : posted'[p] = posted[p]
      BY <2>1, <2>2
    <2>4. dealt' = dealt /\ answered' = answered
      BY <1>1 DEF PostMsgToQue
    <2> QED
      BY <2>3, <2>4 DEF AnswersFollowPosts
  <1>2. CASE Deal
    <2>1. m_msg_que # <<>>
      BY <1>2 DEF LogicInv, Deal
    <2> QED
      BY <1>2, <2>1, PopAnswers DEF Deal
  <1>3. CASE Drain
    BY <1>3, PopAnswers DEF Drain
  <1>4. CASE UNCHANGED history
    BY <1>4 DEF history, AnswersFollowPosts
  <1> QED
    BY <1>1, <1>2, <1>3, <1>4
    DEF Next, DealMsg, Destruct, Lock, Test, Wait, SpuriousWakeup, Return,
        CallBackThrows, SetStop, NotifyStop, Join, vars

(* The requests that have a callback are answered in the order of the      *)
(* pushes, each of them once; the others hold up nothing.                  *)
THEOREM AnswersOrdered == Spec => []AnswersFollowPosts
  <1>1. Init => AnswersFollowPosts
    BY DEF Init, AnswersFollowPosts
  <1> QED
    BY <1>1, AnswersStep, InductiveInvariant, PTL DEF Spec, Safety

-----------------------------------------------------------------------------
(* The stop.  A worker is missed by it only between its test of the flag   *)
(* and the wait; a worker that has found the flag set does not wait again. *)
StopsOutsideWindow == [][NotifyStop => worker # "sleep"]_vars

StopInv ==
    /\ dtor # "none" => m_b_stop
    /\ dtor \in {"join", "joined"} => worker \notin {"sleep", "blocked"}

LEMMA StopStep ==
    ASSUME LogicInv, StopInv, [Next]_vars, [NotifyStop => worker # "sleep"]_vars
    PROVE  StopInv'
  <1>1. ASSUME NEW t \in Threads, NEW r \in Requests, PostMsgToQue(t, r)
        PROVE  StopInv'
    BY <1>1 DEF PostMsgToQue, NotifyFirst, NotifyOne, StopInv
  <1>2. CASE Lock \/ Test \/ Wait \/ Return \/ CallBackThrows \/ SpuriousWakeup
    BY <1>2 DEF Lock, Test, Wait, Return, CallBackThrows, SpuriousWakeup, StopInv
  <1>3. CASE Deal \/ Drain
    BY <1>3 DEF Deal, Drain, StopInv
  <1>4. CASE SetStop
    BY <1>4 DEF SetStop, StopInv
  <1>5. CASE NotifyStop
    <2>1. dtor' = "join" /\ dtor = "notify" /\ m_b_stop' = m_b_stop
          /\ worker' = IF worker = "blocked" THEN "woken" ELSE worker
      BY <1>5 DEF NotifyStop, NotifyOne
    <2>2. worker # "sleep"
      BY <1>5, <2>1 DEF vars
    <2> QED
      BY <2>1, <2>2 DEF StopInv
  <1>6. CASE Join \/ UNCHANGED vars
    BY <1>6 DEF Join, vars, StopInv
  <1> QED
    BY <1>1, <1>2, <1>3, <1>4, <1>5, <1>6 DEF Next, DealMsg, Destruct

(* While the destructor joins, the worker is running or has returned: it   *)
(* neither waits for a notification nor is about to.                       *)
THEOREM StopHeard ==
    Safety /\ StopsOutsideWindow =>
        [](dtor \in {"join", "joined"} => worker \notin {"sleep", "blocked"})
  <1>1. Init => StopInv
    BY DEF Init, StopInv
  <1>2. StopInv => (dtor \in {"join", "joined"} => worker \notin {"sleep", "blocked"})
    BY DEF StopInv
  <1> QED
    BY <1>1, <1>2, StopStep, InductiveInvariant, PTL DEF Safety, StopsOutsideWindow

-----------------------------------------------------------------------------
(* The logic queue of coroutineServer.  A step other than the test of the  *)
(* loop condition is a step of asynServer's queue, so its inductive        *)
(* invariant carries over.                                                 *)

(* The queue seen without the loop condition.                              *)
LEMMA CoStep ==
    ASSUME CoLogicInv, [CoNext]_covars
    PROVE  Loop \/ [Next]_vars
  BY DEF CoNext, CoDealMsg, CoLock, Next, DealMsg, covars

LEMMA LoopIInv ==
    ASSUME CoLogicInv, Loop
    PROVE  CoLogicInv'
  <1>1. UNCHANGED <<m_msg_que, m_b_stop, m_mutex, dtor, posted, count, dealt, answered>>
    BY DEF Loop, history
  <1>2. /\ worker = "lock"
        /\ \/ m_b_stop /\ worker' = "done" /\ entered' = entered
           \/ ~m_b_stop /\ worker' = "lock" /\ entered' = TRUE
    BY DEF Loop
  <1>3. TypeOK'
    BY <1>1, <1>2 DEF CoLogicInv, LogicInv, TypeOK, WorkerPC
  <1>4. LogicInv'
    BY <1>1, <1>2, <1>3 DEF CoLogicInv, LogicInv, Holding, ExactlyOnceInOrder
  <1>5. entered' \in BOOLEAN /\ (entered' => worker' = "lock")
    <2>1. CASE m_b_stop
      <3>1. ~entered /\ entered' = entered
        BY <2>1 DEF Loop
      <3> QED
        BY <3>1 DEF CoLogicInv
    <2>2. CASE ~m_b_stop
      <3>1. entered' = TRUE /\ worker' = "lock"
        BY <2>2 DEF Loop
      <3> QED
        BY <3>1
    <2> QED
      BY <2>1, <2>2
  <1> QED
    BY <1>4, <1>5 DEF CoLogicInv

LEMMA CoNextIInv == CoLogicInv /\ [CoNext]_covars => CoLogicInv'
  <1> SUFFICES ASSUME CoLogicInv, [CoNext]_covars PROVE CoLogicInv'
    OBVIOUS
  <1>1. CASE Loop
    BY <1>1, LoopIInv
  <1>2. CASE ~Loop
    <2>1. LogicInv'
      BY <1>2, CoStep, NextIInv DEF CoLogicInv
    <2>2. CASE entered' = FALSE
      BY <2>1, <2>2 DEF CoLogicInv
    <2>3. CASE entered' = entered /\ entered = TRUE
      <3>1. worker = "lock"
        BY <2>3 DEF CoLogicInv
      <3>2. worker' = "lock"
        BY <1>2, <2>3, <3>1
        DEF CoNext, CoDealMsg, CoLock, covars, vars, PostMsgToQue, NotifyFirst, NotifyOne,
            Lock, Test, Wait, Deal, Drain, Return, CallBackThrows, SpuriousWakeup,
            Destruct, SetStop, NotifyStop, Join
      <3> QED
        BY <2>1, <2>3, <3>2 DEF CoLogicInv
    <2>4. entered' = FALSE \/ entered' = entered
      BY <1>2 DEF CoNext, CoDealMsg, CoLock, covars
    <2> QED
      BY <2>2, <2>3, <2>4 DEF CoLogicInv
  <1> QED
    BY <1>1, <1>2

-----------------------------------------------------------------------------
(* The queue of coroutineServer loses, repeats and reorders nothing, and a *)
(* worker that waits has an empty queue.                                   *)
THEOREM CoInductiveInvariant == CoSafety => []CoLogicInv
  <1>1. CoInit => CoLogicInv
    <2> SUFFICES ASSUME CoInit PROVE CoLogicInv
      OBVIOUS
    <2>1. LogicInv
      BY InitIInv DEF CoInit
    <2> QED
      BY <2>1 DEF CoInit, CoLogicInv
  <1> QED
    BY <1>1, CoNextIInv, PTL DEF CoSafety

(* What is left behind at the return of DealMsg was left at the top of the *)
(* loop: a worker that has entered a turn, or waits, drains the queue.     *)
THEOREM CoLeftOnlyFromTheTop == CoSafety => LeftOnlyFromTheTop
  <1>1. CoLogicInv /\ [CoNext]_covars =>
           [worker # "done" /\ worker' = "done" => worker = "lock" \/ dealt = posted]_covars
    <2> SUFFICES ASSUME CoLogicInv, [CoNext]_covars, worker # "done", worker' = "done"
                 PROVE  worker = "lock" \/ dealt = posted
      OBVIOUS
    <2>1. CASE Loop
      BY <2>1 DEF Loop
    <2>2. CASE ~Loop
      BY <2>2, CoStep, ReturnStep DEF CoLogicInv
    <2> QED
      BY <2>1, <2>2
  <1> QED
    BY <1>1, CoInductiveInvariant, PTL DEF CoSafety, LeftOnlyFromTheTop

(* Up to there nothing is lost, repeated or reordered, and the requests    *)
(* that have a callback are answered in the order of the pushes.           *)
THEOREM CoOrderKept == CoSafety => [](ExactlyOnceInOrder /\ NoLostWakeup /\ AnswersFollowPosts)
  <1>1. CoInit => AnswersFollowPosts
    BY DEF CoInit, Init, AnswersFollowPosts
  <1>2. CoLogicInv /\ AnswersFollowPosts /\ [CoNext]_covars => AnswersFollowPosts'
    <2> SUFFICES ASSUME CoLogicInv, AnswersFollowPosts, [CoNext]_covars PROVE AnswersFollowPosts'
      OBVIOUS
    <2>1. CASE Loop
      BY <2>1 DEF Loop, history, AnswersFollowPosts
    <2>2. CASE ~Loop
      BY <2>2, CoStep, AnswersStep DEF CoLogicInv
    <2> QED
      BY <2>1, <2>2
  <1>3. CoLogicInv => ExactlyOnceInOrder /\ NoLostWakeup
    BY DEF CoLogicInv, LogicInv, NoLostWakeup
  <1> QED
    BY <1>1, <1>2, <1>3, CoInductiveInvariant, PTL DEF CoSafety

(* A stop outside the window is heard here as well.                        *)
THEOREM CoStopHeard ==
    CoSafety /\ [][NotifyStop => worker # "sleep"]_covars =>
        [](dtor \in {"join", "joined"} => worker \notin {"sleep", "blocked"})
  <1>1. CoInit => StopInv
    BY DEF CoInit, Init, StopInv
  <1>2. CoLogicInv /\ StopInv /\ [CoNext]_covars /\ [NotifyStop => worker # "sleep"]_covars
            => StopInv'
    <2> SUFFICES ASSUME CoLogicInv, StopInv, [CoNext]_covars, [NotifyStop => worker # "sleep"]_covars
                 PROVE  StopInv'
      OBVIOUS
    <2>1. CASE Loop
      BY <2>1 DEF Loop, StopInv
    <2>2. CASE ~Loop
      <3>1. LogicInv /\ [Next]_vars
        BY <2>2, CoStep DEF CoLogicInv
      <3>2. [NotifyStop => worker # "sleep"]_vars
        BY DEF covars
      <3> QED
        BY <3>1, <3>2, StopStep
    <2> QED
      BY <2>1, <2>2
  <1>3. StopInv => (dtor \in {"join", "joined"} => worker \notin {"sleep", "blocked"})
    BY DEF StopInv
  <1> QED
    BY <1>1, <1>2, <1>3, CoInductiveInvariant, PTL DEF CoSafety
=============================================================================
