-------------------------- MODULE AsynServerProofs --------------------------
(***************************************************************************)
(* Theorems about the process of asynServer, for any pool, any order of    *)
(* destruction and any number of clients, failures and frames.             *)
(***************************************************************************)
EXTENDS AsynServer, SequenceTheorems, FiniteSetTheorems, TLAPS

LEMMA ContextsAreNumbers ==
    /\ NContexts \in Nat \ {0}
    /\ MaxSessions \in Nat \ {0} /\ 1 \in Session /\ 0 \in Context
    /\ 1 % NContexts \in Context
  BY ServerAssumption DEF ServerAssumption, MaxSessions, Session, Context

(* GetIOContext stays in range, and there is a session left to make.       *)
LEMMA StartAcceptTypes ==
    ASSUME TypeOK, StartAccept, created <= served + MaxFailures
    PROVE  /\ created' \in Session /\ context' \in [Session -> Context]
           /\ m_nextIOContext' \in Context /\ accept' = "io"
  <1>1. /\ NContexts \in Nat \ {0} /\ MaxClients \in Nat /\ MaxFailures \in Nat
        /\ arrived \in 0 .. MaxClients /\ served \in 0 .. arrived
        /\ created \in Session /\ m_nextIOContext \in Context
        /\ context \in [Session -> Context]
    BY ServerAssumption DEF ServerAssumption, TypeOK
  <1>2. created' = created + 1 /\ m_nextIOContext' = Wrapped /\ accept' = "io"
        /\ context' = [context EXCEPT ![created + 1] = m_nextIOContext]
    BY DEF StartAccept, GetIOContext
  <1>3. Wrapped \in Context
    BY <1>1 DEF Wrapped, Context
  <1>4. created + 1 \in Session
    BY <1>1 DEF Session, MaxSessions
  <1> QED
    BY <1>1, <1>2, <1>3, <1>4

-----------------------------------------------------------------------------
(* Rounds.  Counting: a session more for the context it is made with.      *)
LEMMA GivenIsNumber ==
    ASSUME created \in Nat, NEW c
    PROVE  /\ IsFiniteSet({s \in 1 .. created : context[s] = c})
           /\ Given(c) \in Nat
  <1>1. IsFiniteSet(1 .. created)
    BY FS_Interval
  <1>2. {s \in 1 .. created : context[s] = c} \in SUBSET (1 .. created)
    OBVIOUS
  <1>3. IsFiniteSet({s \in 1 .. created : context[s] = c})
    BY <1>1, <1>2, FS_Subset
  <1> QED
    BY <1>3, FS_CardinalityType DEF Given

LEMMA GivenOneMore ==
    ASSUME TypeOK, StartAccept, created + 1 \in Session, NEW c \in Context
    PROVE  Given(c)' = IF c = m_nextIOContext THEN Given(c) + 1 ELSE Given(c)
  <1> DEFINE S == {s \in 1 .. created : context[s] = c}
             T == {s \in 1 .. created' : context'[s] = c}
  <1>1. created \in Nat /\ created' = created + 1 /\ context \in [Session -> Context]
        /\ created \in Session /\ MaxSessions \in Nat
        /\ context' = [context EXCEPT ![created + 1] = m_nextIOContext]
    BY ContextsAreNumbers DEF TypeOK, Session, StartAccept, GetIOContext
  <1>2. \A s \in 1 .. created : s \in Session /\ context'[s] = context[s]
    BY <1>1 DEF Session
  <1>3. context'[created + 1] = m_nextIOContext
    BY <1>1
  <1>4. \A s : s \in 1 .. created' <=> s \in 1 .. created \/ s = created + 1
    BY <1>1
  <1>5. CASE c = m_nextIOContext
    <2>1. T = S \cup {created + 1} /\ created + 1 \notin S
      BY <1>1, <1>2, <1>3, <1>4, <1>5
    <2>2. IsFiniteSet(S)
      BY <1>1, GivenIsNumber
    <2>3. Cardinality(T) = Cardinality(S) + 1
      BY <2>1, <2>2, FS_AddElement
    <2> QED
      BY <1>5, <2>3 DEF Given
  <1>6. CASE c # m_nextIOContext
    <2>1. T = S
      BY <1>2, <1>3, <1>4, <1>6
    <2> QED
      BY <1>6, <2>1 DEF Given
  <1> QED
    BY <1>5, <1>6

(* A session more takes the turn on, or begins the next round.             *)
LEMMA RoundNewSession ==
    ASSUME TypeOK, RoundInv, StartAccept, created + 1 \in Session
    PROVE  RoundInv'
  <1>1. PICK q \in 0 .. created : \A c \in Context :
            Given(c) = IF c < m_nextIOContext THEN q + 1 ELSE q
    BY DEF RoundInv
  <1>2. /\ created \in Nat /\ created' = created + 1 /\ NContexts \in Nat \ {0}
        /\ m_nextIOContext \in 0 .. NContexts - 1
        /\ m_nextIOContext' = IF m_nextIOContext + 1 = NContexts THEN 0 ELSE m_nextIOContext + 1
    BY ServerAssumption
    DEF ServerAssumption, TypeOK, Session, Context, StartAccept, GetIOContext, Wrapped
  <1>3. \A c \in Context :
            Given(c)' = IF c <= m_nextIOContext THEN q + 1 ELSE q
    BY <1>1, <1>2, GivenOneMore DEF Context
  <1>4. CASE m_nextIOContext + 1 = NContexts
    <2>1. \A c \in Context : Given(c)' = IF c < m_nextIOContext' THEN q + 2 ELSE q + 1
      BY <1>2, <1>3, <1>4 DEF Context
    <2>2. q + 1 \in 0 .. created'
      BY <1>2
    <2> QED
      BY <2>1, <2>2 DEF RoundInv
  <1>5. CASE m_nextIOContext + 1 # NContexts
    <2>1. \A c \in Context : Given(c)' = IF c < m_nextIOContext' THEN q + 1 ELSE q
      BY <1>2, <1>3, <1>5 DEF Context
    <2>2. q \in 0 .. created'
      BY <1>2
    <2> QED
      BY <2>1, <2>2 DEF RoundInv
  <1> QED
    BY <1>4, <1>5

LEMMA RoundSame ==
    ASSUME RoundInv, UNCHANGED <<m_nextIOContext, created, context>>
    PROVE  RoundInv'
  BY DEF RoundInv, Given

(* The constructor has made the first session, with the first context.     *)
LEMMA InitRound == Init => RoundInv
  <1> SUFFICES ASSUME Init PROVE RoundInv
    OBVIOUS
  <1>1. /\ NContexts \in Nat \ {0} /\ created = 1 /\ m_nextIOContext = 1 % NContexts
        /\ context[1] = 0
    BY ContextsAreNumbers DEF Init
  <1>2. Given(0) = 1
    <2>1. {s \in 1 .. created : context[s] = 0} = {1}
      BY <1>1
    <2> QED
      BY <2>1, FS_Singleton DEF Given
  <1>3. \A c \in Context : c # 0 => Given(c) = 0
    <2> SUFFICES ASSUME NEW c \in Context, c # 0 PROVE Given(c) = 0
      OBVIOUS
    <2>1. {s \in 1 .. created : context[s] = c} = {}
      BY <1>1
    <2> QED
      BY <2>1, FS_EmptySet DEF Given
  <1>4. CASE NContexts = 1
    <2>1. m_nextIOContext = 0 /\ Context = {0}
      BY <1>1, <1>4 DEF Context
    <2>2. \A c \in Context : Given(c) = IF c < m_nextIOContext THEN 1 + 1 ELSE 1
      BY <1>2, <2>1
    <2> QED
      BY <1>1, <2>2 DEF RoundInv
  <1>5. CASE NContexts # 1
    <2>1. m_nextIOContext = 1
      BY <1>1, <1>5
    <2>2. \A c \in Context : Given(c) = IF c < m_nextIOContext THEN 0 + 1 ELSE 0
      BY <1>2, <1>3, <2>1 DEF Context
    <2> QED
      BY <1>1, <2>2 DEF RoundInv
  <1> QED
    BY <1>4, <1>5

LEMMA RoundStep == ServerInv /\ Step => RoundInv'
  <1> SUFFICES ASSUME ServerInv, Step PROVE RoundInv'
    OBVIOUS
  <1>0. TypeOK /\ AcceptInv /\ RoundInv
    BY DEF ServerInv
  <1>1. ASSUME StartAccept, created <= served + MaxFailures PROVE RoundInv'
    BY <1>0, <1>1, StartAcceptTypes, RoundNewSession DEF StartAccept
  <1>2. CASE HandleAccept \/ Insert
    <2>1. \/ StartAccept
          \/ UNCHANGED <<m_nextIOContext, created, context>>
      BY <1>2 DEF HandleAccept, AcceptAgain, Insert
    <2>2. created <= served + MaxFailures
      BY <1>0, <1>2 DEF AcceptInv, HandleAccept, Insert
    <2> QED
      BY <1>0, <1>1, <2>1, <2>2, RoundSame
  <1>3. CASE ClientConnects \/ AcceptCompletes \/ Signal \/ LeaveMain \/ StopPool \/ JoinPool
             \/ JoinWorker \/ CloseQueue \/ StopQueue \/ SpuriousWakeup \/ Exit \/ Deal
    BY <1>0, <1>3, RoundSame DEF ClientConnects, AcceptCompletes, Signal, LeaveMain, StopPool,
       JoinPool, JoinWorker, CloseQueue, StopQueue, SpuriousWakeup, Exit, Deal, acceptor
  <1>4. ASSUME NEW s \in Session, ReadCompletes(s) \/ WriteCompletes(s) PROVE RoundInv'
    BY <1>0, <1>4, RoundSame DEF ReadCompletes, WriteCompletes, acceptor
  <1>5. ASSUME NEW t \in Threads, Run(t) PROVE RoundInv'
    BY <1>0, <1>5, RoundSame DEF Run, HandleRead, HandleWrite, Dispatch, acceptor
  <1> QED
    BY <1>2, <1>3, <1>4, <1>5 DEF Step, Main, Worker

-----------------------------------------------------------------------------
(* What a session has done before it is started: nothing.                  *)
LEMMA InitStart == Init => OpenInv /\ StartInv
  BY DEF Init, OpenInv, StartInv, Handling, Idle, Logic!Init

LEMMA InitIInv == Init => ServerInv
  <1> SUFFICES ASSUME Init PROVE ServerInv
    OBVIOUS
  <1>1. \A S : <<>> \in Seq(S)
    OBVIOUS
  <1>2. TypeOK
    <2>1. terminated \in BOOLEAN
      BY DEF Init
    <2>2. posted \in Seq(Session) /\ dealt \in Seq(Session) /\ status = "open"
      BY <1>1 DEF Init, Logic!Init
    <2>3. thread \in [Threads -> Handler \cup {Idle}] /\ context \in [Session -> Context]
      BY ContextsAreNumbers DEF Init
    <2> QED
      BY <2>1, <2>2, <2>3, ContextsAreNumbers, ServerAssumption
      DEF Init, TypeOK, OpState, ServerAssumption
  <1>3. AcceptInv
    BY ServerAssumption DEF Init, AcceptInv, AlwaysAccepting, ServerAssumption
  <1>4. ThreadInv
    BY DEF Init, ThreadInv, Handling, Idle
  <1>5. EndInv
    BY DEF Init, EndInv, Gone, QueueOutlivesHandlers, ContextOutlivesWorker, Logic!Init
  <1>6. QueueInv
    BY DEF Init, QueueInv, Logic!Init
  <1>7. LiveInv
    BY DEF Init, LiveInv, OpenInMap, OpenMeansReading, StalledOnlyWhenClosed
  <1> QED
    BY <1>2, <1>3, <1>4, <1>5, <1>6, <1>7, InitRound, InitStart DEF ServerInv

-----------------------------------------------------------------------------
LEMMA TypeStep == ServerInv /\ Step => TypeOK'
  <1> SUFFICES ASSUME ServerInv, Step PROVE TypeOK'
    OBVIOUS
  <1> USE DEF OpState
  <1>0. TypeOK /\ AcceptInv /\ ThreadInv /\ EndInv
    BY DEF ServerInv
  <1>b. UNCHANGED terminated
    BY DEF Step, Survive
  <1> USE <1>b
  <1>a. /\ MaxSessions = MaxClients + MaxFailures + 1
        /\ MaxClients \in Nat /\ MaxFailures \in Nat /\ MaxFrames \in Nat /\ MAX_SENDQUE \in Nat
    BY ServerAssumption DEF ServerAssumption, MaxSessions
  <1>1. CASE ClientConnects
    BY <1>0, <1>1, <1>a DEF TypeOK, ClientConnects, lives, acceptor, ops, queue
  <1>2. CASE AcceptCompletes
    BY <1>0, <1>2, <1>a DEF TypeOK, AcceptCompletes, lives, queue
  <1>3. CASE Signal \/ LeaveMain
    BY <1>0, <1>3 DEF TypeOK, Signal, LeaveMain, acceptor, clients, ops, queue
  <1>4. ASSUME NEW s \in Session, ReadCompletes(s) \/ WriteCompletes(s) PROVE TypeOK'
    <2>1. CASE ReadCompletes(s)
      BY <1>0, <2>1 DEF TypeOK, ReadCompletes, lives, acceptor, clients, queue
    <2>2. CASE WriteCompletes(s)
      BY <1>0, <2>2 DEF TypeOK, WriteCompletes, lives, acceptor, clients, queue
    <2> QED
      BY <1>4, <2>1, <2>2
  <1>5. CASE HandleAccept
    <2>1. UNCHANGED <<order, destroyed, pool, sessions, clients, open, write,
                      send_que, thread, queue, misuse>>
      BY <1>5 DEF HandleAccept
    <2>2. CASE accept = "ok"
      BY <1>0, <1>5, <2>1, <2>2 DEF TypeOK, HandleAccept, Pending, clients, queue
    <2>3. CASE accept # "ok"
      <3>1. StartAccept /\ UNCHANGED <<main, read>> /\ created <= served + MaxFailures
        BY <1>0, <1>5, <2>3 DEF HandleAccept, AcceptAgain, AcceptInv
      <3> QED
        BY <1>0, <2>1, <3>1, StartAcceptTypes DEF TypeOK, clients, queue
    <2> QED
      BY <2>2, <2>3
  <1>6. CASE Insert
    <2>1. StartAccept /\ created <= served + MaxFailures
      BY <1>0, <1>6 DEF Insert, AcceptInv
    <2>2. sessions' \in SUBSET Session /\ main' = "run"
      BY <1>0, <1>6 DEF Insert, TypeOK
    <2>3. UNCHANGED <<order, destroyed, pool, clients, ops, queue, misuse>>
      BY <1>6 DEF Insert
    <2> QED
      BY <1>0, <2>1, <2>2, <2>3, StartAcceptTypes DEF TypeOK, clients, ops, queue
  <1>7. CASE StopPool \/ JoinPool \/ JoinWorker \/ Exit
    <2>1. /\ main' \in {"run", "insert", "unwind", "statics", "exited"}
          /\ destroyed' \in 0 .. 2 /\ pool' \in {"running", "stopped"}
      BY <1>0, <1>7 DEF TypeOK, StopPool, StopContexts, JoinPool, JoinWorker, Exit, DueToGo
    <2>2. UNCHANGED <<order, acceptor, clients, ops, queue, misuse>>
      BY <1>7 DEF StopPool, JoinPool, JoinWorker, Exit
    <2> QED
      BY <1>0, <2>1, <2>2 DEF TypeOK, acceptor, clients, ops, queue
  <1>8. CASE CloseQueue \/ StopQueue \/ SpuriousWakeup
    <2>1. /\ stop' \in {"none", "heard", "missed"} /\ status' \in {"open", "closed"}
          /\ UNCHANGED <<posted, dealt, misuse>>
      BY <1>0, <1>8 DEF TypeOK, CloseQueue, StopQueue, SpuriousWakeup, Logic!Close
    <2>2. UNCHANGED <<lives, acceptor, clients, ops>>
      BY <1>8 DEF CloseQueue, StopQueue, SpuriousWakeup
    <2> QED
      BY <1>0, <2>1, <2>2 DEF TypeOK, lives, acceptor, clients, ops
  <1>9. CASE Deal
    <2> DEFINE s == Logic!Due
    <2>1. s \in Session /\ dealt' \in Seq(Session)
      <3>1. dealt \in Seq(Session) /\ posted \in Seq(Session) /\ Len(dealt) < Len(posted)
            /\ dealt' = Append(dealt, s) /\ s = posted[Len(dealt) + 1]
        BY <1>0, <1>9 DEF TypeOK, Deal, Logic!Deal, Logic!Due
      <3>2. Len(dealt) + 1 \in 1 .. Len(posted)
        BY <3>1, LenProperties
      <3>3. s \in Session
        BY <3>1, <3>2, ElementOfSeq
      <3> HIDE DEF s
      <3> QED
        BY <3>1, <3>3, AppendProperties
    <2>2. UNCHANGED <<lives, acceptor, clients, open, read, thread, posted, status, stop>>
      BY <1>9 DEF Deal, Logic!Deal
    <2>3. /\ send_que' \in [Session -> 0 .. MAX_SENDQUE + 1]
          /\ write' \in [Session -> OpState]
      <3>1. \/ UNCHANGED <<send_que, write>>
            \/ /\ send_que[s] <= MAX_SENDQUE
               /\ send_que' = [send_que EXCEPT ![s] = @ + 1]
               /\ write' = IF send_que[s] = 0 THEN [write EXCEPT ![s] = Pending(s)] ELSE write
        BY <1>9 DEF Deal, Send, NoAnswer
      <3>2. Pending(s) \in OpState
        BY DEF Pending
      <3>3. /\ send_que \in [Session -> 0 .. MAX_SENDQUE + 1]
            /\ write \in [Session -> OpState]
        BY <1>0 DEF TypeOK
      <3>4. send_que[s] \in Nat /\ (send_que[s] <= MAX_SENDQUE => send_que[s] + 1 \in 0 .. MAX_SENDQUE + 1)
        BY <1>a, <2>1, <3>3
      <3> HIDE DEF s, OpState
      <3>5. send_que' \in [Session -> 0 .. MAX_SENDQUE + 1]
        BY <3>1, <3>3, <3>4
      <3>6. write' \in [Session -> OpState]
        BY <3>1, <3>2, <3>3
      <3> QED
        BY <3>5, <3>6
    <2>4. misuse' \in SUBSET {"server", "queue", "context"}
      BY <1>0, <1>9 DEF TypeOK, Deal, Use
    <2> QED
      BY <1>0, <2>1, <2>2, <2>3, <2>4 DEF TypeOK, lives, acceptor, clients
  <1>10. ASSUME NEW t \in Threads, NEW s \in Session, Dispatch(t, s) PROVE TypeOK'
    <2>1. /\ \/ /\ read[s] \in {"ok", "err"}
                /\ thread' = [thread EXCEPT ![t] = [op |-> "read", of |-> s, st |-> read[s]]]
                /\ read' = [read EXCEPT ![s] = "none"] /\ write' = write
             \/ /\ write[s] \in {"ok", "err"}
                /\ thread' = [thread EXCEPT ![t] = [op |-> "write", of |-> s, st |-> write[s]]]
                /\ write' = [write EXCEPT ![s] = "none"] /\ read' = read
          /\ UNCHANGED <<lives, acceptor, clients, open, send_que, queue, misuse>>
      BY <1>10 DEF Dispatch
    <2>2. /\ thread \in [Threads -> Handler \cup {Idle}]
          /\ read \in [Session -> OpState] /\ write \in [Session -> OpState]
      BY <1>0 DEF TypeOK
    <2>3. /\ thread' \in [Threads -> Handler \cup {Idle}]
          /\ read' \in [Session -> OpState] /\ write' \in [Session -> OpState]
      BY <2>1, <2>2 DEF Handler
    <2> QED
      BY <1>0, <2>1, <2>3 DEF TypeOK, lives, acceptor, clients, queue
  <1>11. ASSUME NEW t \in Threads, HandleRead(t) \/ HandleWrite(t) PROVE TypeOK'
    <2> DEFINE s == thread[t].of
    <2>0. s \in Session
      BY <1>0, <1>11 DEF TypeOK, Handler, Idle, HandleRead, HandleWrite
    <2>1. thread' \in [Threads -> Handler \cup {Idle}]
      BY <1>0, <1>11 DEF TypeOK, HandleRead, HandleWrite
    <2>2. /\ open' \in SUBSET Session /\ sessions' \in SUBSET Session
          /\ read' \in [Session -> OpState] /\ write' \in [Session -> OpState]
      BY <1>0, <1>11, <2>0 DEF TypeOK, HandleRead, HandleWrite, CloseAndClear, ClearSession,
         Aborted, Pending
    <2>3. send_que' \in [Session -> 0 .. MAX_SENDQUE + 1]
      <3>1. CASE send_que' = send_que
        BY <1>0, <3>1 DEF TypeOK
      <3>2. CASE HandleWrite(t) /\ send_que' # send_que
        <4>1. send_que' = [send_que EXCEPT ![s] = @ - 1] /\ Handling(t, "write", s)
          BY <3>2 DEF HandleWrite, Handling
        <4>2. send_que[s] > 0 /\ send_que[s] \in 0 .. MAX_SENDQUE + 1
          BY <1>0, <2>0, <4>1 DEF ThreadInv, TypeOK
        <4>3. send_que \in [Session -> 0 .. MAX_SENDQUE + 1]
          BY <1>0 DEF TypeOK
        <4>4. send_que[s] - 1 \in 0 .. MAX_SENDQUE + 1
          BY <1>a, <4>2
        <4> HIDE DEF s
        <4> QED
          BY <4>1, <4>3, <4>4
      <3> QED
        BY <1>11, <3>1, <3>2 DEF HandleRead
    <2>4. /\ posted' \in Seq(Session) /\ dealt' = dealt /\ status' = status
          /\ stop' \in {stop, "heard"}
      <3>1. /\ posted' = posted \/ posted' = Append(posted, s)
            /\ dealt' = dealt /\ status' = status
            /\ stop' \in {stop, "heard"}
        BY <1>11 DEF HandleRead, HandleWrite, PostMsgToQue, Logic!Post, queue
      <3>2. posted \in Seq(Session)
        BY <1>0 DEF TypeOK
      <3> HIDE DEF s
      <3> QED
        BY <2>0, <3>1, <3>2, AppendProperties
    <2>5. misuse' \in SUBSET {"server", "queue", "context"}
      BY <1>0, <1>11 DEF TypeOK, HandleRead, HandleWrite, CloseAndClear, ClearSession, Use
    <2>6. UNCHANGED <<lives, m_nextIOContext, created, context, accept, clients>>
      BY <1>11 DEF HandleRead, HandleWrite
    <2> QED
      BY <1>0, <2>1, <2>2, <2>3, <2>4, <2>5, <2>6 DEF TypeOK, lives, clients
  <1> QED
    BY <1>1, <1>2, <1>3, <1>4, <1>5, <1>6, <1>7, <1>8, <1>9, <1>10, <1>11 DEF Step, Main,
       Worker, Run

-----------------------------------------------------------------------------
LEMMA AcceptStep == ServerInv /\ Step => AcceptInv'
  <1> SUFFICES ASSUME ServerInv, Step PROVE AcceptInv'
    OBVIOUS
  <1>0. TypeOK /\ AcceptInv
    BY DEF ServerInv
  <1>1. /\ created \in Nat /\ served \in Nat /\ MaxFailures \in Nat
        /\ accept \in OpState
    BY <1>0, ServerAssumption DEF ServerAssumption, TypeOK, Session
  <1>2. CASE AcceptCompletes
    BY <1>0, <1>1, <1>2 DEF AcceptInv, AlwaysAccepting, AcceptCompletes, lives
  <1>3. CASE HandleAccept
    BY <1>0, <1>1, <1>3 DEF AcceptInv, AlwaysAccepting, HandleAccept, AcceptAgain, StartAccept,
       clients
  <1>4. CASE Insert
    BY <1>0, <1>1, <1>4 DEF AcceptInv, AlwaysAccepting, Insert, StartAccept, clients
  <1>5. CASE Signal \/ LeaveMain \/ StopPool \/ JoinPool \/ JoinWorker
             \/ CloseQueue \/ StopQueue \/ SpuriousWakeup \/ Exit
    BY <1>0, <1>5 DEF AcceptInv, AlwaysAccepting, Signal, LeaveMain, StopPool, JoinPool,
       JoinWorker,
                      CloseQueue, StopQueue, SpuriousWakeup, Exit, lives, acceptor, clients,
                      DueToGo
  <1>6. ASSUME UNCHANGED <<main, accept, created, served>> PROVE AcceptInv'
    BY <1>0, <1>6 DEF AcceptInv, AlwaysAccepting
  <1>7. CASE ClientConnects \/ Deal
    BY <1>6, <1>7 DEF ClientConnects, Deal, lives, acceptor, clients
  <1>8. ASSUME NEW s \in Session, ReadCompletes(s) \/ WriteCompletes(s) PROVE AcceptInv'
    BY <1>6, <1>8 DEF ReadCompletes, WriteCompletes, lives, acceptor, clients
  <1>9. ASSUME NEW t \in Threads, Run(t) PROVE AcceptInv'
    BY <1>6, <1>9 DEF Run, HandleRead, HandleWrite, Dispatch, lives, acceptor, clients
  <1> QED
    BY <1>2, <1>3, <1>4, <1>5, <1>7, <1>8, <1>9 DEF Step, Main, Worker

-----------------------------------------------------------------------------
LEMMA ThreadSame ==
    ASSUME ThreadInv, UNCHANGED <<created, context, thread, send_que, write>>
    PROVE  ThreadInv'
  BY DEF ThreadInv, Handling

(* Making a session leaves the contexts of the earlier ones alone.         *)
LEMMA ThreadNewSession ==
    ASSUME TypeOK, ThreadInv, StartAccept, UNCHANGED <<thread, send_que, write>>
    PROVE  ThreadInv'
  <1>1. created \in Nat /\ context \in [Session -> Context]
        /\ \A t \in Threads : thread[t] # Idle => thread[t].of \in Session
    BY DEF TypeOK, Session, Handler
  <1>2. \A t \in Threads : thread[t] # Idle => thread[t].of <= created /\ thread[t].of \in Nat
    BY <1>1 DEF ThreadInv, Session
  <1>3. created' = created + 1 /\ context' = [context EXCEPT ![created + 1] = m_nextIOContext]
    BY DEF StartAccept, GetIOContext
  <1>4. \A t \in Threads : thread[t] # Idle => context'[thread[t].of] = context[thread[t].of]
                                             /\ thread[t].of <= created'
    BY <1>1, <1>2, <1>3
  <1> QED
    BY <1>4 DEF ThreadInv, Handling

LEMMA ThreadStep == ServerInv /\ Step => ThreadInv'
  <1> SUFFICES ASSUME ServerInv, Step PROVE ThreadInv'
    OBVIOUS
  <1>0. TypeOK /\ ThreadInv
    BY DEF ServerInv
  <1>1. CASE HandleAccept
    <2>1. UNCHANGED <<thread, send_que, write>>
      BY <1>1 DEF HandleAccept
    <2>2. StartAccept \/ UNCHANGED <<created, context>>
      BY <1>1 DEF HandleAccept, AcceptAgain
    <2> QED
      BY <1>0, <2>1, <2>2, ThreadSame, ThreadNewSession
  <1>2. CASE Insert
    BY <1>0, <1>2, ThreadNewSession DEF Insert, ops
  <1>3. CASE ClientConnects \/ AcceptCompletes \/ Signal \/ LeaveMain \/ StopPool \/ JoinPool
             \/ JoinWorker \/ CloseQueue \/ StopQueue \/ SpuriousWakeup \/ Exit
    BY <1>0, <1>3, ThreadSame DEF ClientConnects, AcceptCompletes, Signal, LeaveMain, StopPool,
       JoinPool, JoinWorker, CloseQueue, StopQueue, SpuriousWakeup, Exit, acceptor, ops
  <1>4. ASSUME NEW s \in Session, ReadCompletes(s) PROVE ThreadInv'
    BY <1>0, <1>4, ThreadSame DEF ReadCompletes, acceptor
  <1>5. ASSUME NEW s \in Session, WriteCompletes(s) PROVE ThreadInv'
    <2>1. UNCHANGED <<created, context, thread, send_que>> /\ write[s] = "io"
      BY <1>5 DEF WriteCompletes, acceptor
    <2>2. PICK st \in {"ok", "err"} : write' = [write EXCEPT ![s] = st]
      BY <1>5 DEF WriteCompletes
    <2> QED
      BY <1>0, <2>1, <2>2 DEF TypeOK, ThreadInv, Handling
  <1>6. CASE Deal
    <2> DEFINE s == Logic!Due
    <2>1. UNCHANGED <<created, context, thread>>
      BY <1>6 DEF Deal, acceptor
    <2>2. \/ UNCHANGED <<send_que, write>>
          \/ /\ send_que' = [send_que EXCEPT ![s] = @ + 1]
             /\ write' = IF send_que[s] = 0 THEN [write EXCEPT ![s] = Pending(s)] ELSE write
      BY <1>6 DEF Deal, Send, NoAnswer
    <2>3. /\ send_que \in [Session -> 0 .. MAX_SENDQUE + 1] /\ MAX_SENDQUE \in Nat
          /\ write \in [Session -> OpState]
      BY <1>0, ServerAssumption DEF TypeOK, ServerAssumption
    <2> HIDE DEF s
    <2> QED
      BY <1>0, <2>1, <2>2, <2>3 DEF ThreadInv, Handling
  <1>7. ASSUME NEW t \in Threads, NEW s \in Session, Dispatch(t, s) PROVE ThreadInv'
    <2>1. /\ UNCHANGED <<created, context, send_que>>
          /\ thread[t] = Idle /\ ContextOf[t] = context[s] /\ s <= created
      BY <1>7 DEF Dispatch, SameContext, acceptor
    <2>2. thread \in [Threads -> Handler \cup {Idle}] /\ write \in [Session -> OpState]
      BY <1>0 DEF TypeOK
    <2>3. CASE /\ thread' = [thread EXCEPT ![t] = [op |-> "read", of |-> s, st |-> read[s]]]
               /\ UNCHANGED write
      BY <1>0, <2>1, <2>2, <2>3 DEF ThreadInv, Handling
    <2>4. CASE /\ write[s] \in {"ok", "err"}
               /\ thread' = [thread EXCEPT ![t] = [op |-> "write", of |-> s, st |-> write[s]]]
               /\ write' = [write EXCEPT ![s] = "none"]
      BY <1>0, <2>1, <2>2, <2>4 DEF ThreadInv, Handling
    <2> QED
      BY <1>7, <2>3, <2>4 DEF Dispatch
  <1>8. ASSUME NEW t \in Threads, HandleRead(t) \/ HandleWrite(t) PROVE ThreadInv'
    <2>0. PICK s \in Session : s = thread[t].of
      BY <1>0, <1>8 DEF TypeOK, Handler, Idle, HandleRead, HandleWrite
    <2>1. /\ UNCHANGED <<created, context>>
          /\ thread' = [thread EXCEPT ![t] = Idle]
      BY <1>8 DEF HandleRead, HandleWrite
    <2>2. /\ thread \in [Threads -> Handler \cup {Idle}] /\ write \in [Session -> OpState]
          /\ send_que \in [Session -> 0 .. MAX_SENDQUE + 1] /\ MAX_SENDQUE \in Nat
      BY <1>0, ServerAssumption DEF TypeOK, ServerAssumption
    <2>3. \A u \in Threads, r \in Session : ~Handling(t, "write", r)' /\ (Handling(u, "write", r)' => u # t /\ Handling(u, "write", r))
      BY <2>1, <2>2 DEF Handling, Idle
    <2>4. CASE send_que' = send_que /\ (write' = write \/ write' = Aborted(write, s))
      BY <1>0, <2>1, <2>2, <2>3, <2>4 DEF ThreadInv, Aborted
    <2>5. CASE /\ Handling(t, "write", s) /\ send_que' = [send_que EXCEPT ![s] = @ - 1]
               /\ write' = IF send_que[s] > 1 THEN [write EXCEPT ![s] = Pending(s)] ELSE write
      <3>1. write[s] = "none" /\ send_que[s] > 0 /\ \A u \in Threads : Handling(u, "write", s) => u = t
        BY <1>0, <2>1, <2>5 DEF ThreadInv
      <3>2. \A u \in Threads : ~Handling(u, "write", s)'
        BY <2>3, <3>1
      <3>3. \A r \in Session : r # s => send_que'[r] = send_que[r] /\ write'[r] = write[r]
        BY <2>2, <2>5
      <3>4. write'[s] # "none" => send_que'[s] > 0
        BY <2>1, <2>2, <2>5, <3>1
      <3> QED
        BY <1>0, <2>1, <2>2, <2>3, <3>2, <3>3, <3>4 DEF ThreadInv
    <2>6. \/ send_que' = send_que /\ (write' = write \/ write' = Aborted(write, s))
          \/ /\ Handling(t, "write", s) /\ send_que' = [send_que EXCEPT ![s] = @ - 1]
             /\ write' = IF send_que[s] > 1 THEN [write EXCEPT ![s] = Pending(s)] ELSE write
      BY <1>8, <2>0 DEF HandleRead, HandleWrite, CloseAndClear, ClearSession, Handling
    <2> QED
      BY <2>4, <2>5, <2>6
  <1> QED
    BY <1>1, <1>2, <1>3, <1>4, <1>5, <1>6, <1>7, <1>8 DEF Step, Main, Worker, Run
-----------------------------------------------------------------------------
(* Sessions stay started.                                                  *)
LEMMA StartedStays ==
    ASSUME TypeOK, Step, NEW s \in Session, Started(s)
    PROVE  Started(s)'
  <1>1. s \in Nat /\ created \in Nat
    BY DEF TypeOK, Session
  <1>2. CASE HandleAccept
    BY <1>1, <1>2 DEF HandleAccept, AcceptAgain, StartAccept, Started
  <1>3. CASE Insert
    BY <1>1, <1>3 DEF Insert, StartAccept, Started
  <1>4. CASE Signal \/ LeaveMain \/ Exit
    BY <1>1, <1>4 DEF Signal, LeaveMain, Exit, Started, acceptor
  <1>5. CASE UNCHANGED <<main, created>>
    BY <1>5 DEF Started
  <1>6. CASE ClientConnects \/ AcceptCompletes \/ StopPool \/ JoinPool \/ CloseQueue \/ StopQueue \/ SpuriousWakeup
             \/ JoinWorker \/ Deal
    BY <1>5, <1>6 DEF ClientConnects, AcceptCompletes, StopPool, JoinPool, CloseQueue,
       StopQueue, SpuriousWakeup,
                      JoinWorker, Deal, lives, acceptor
  <1>7. ASSUME NEW r \in Session, ReadCompletes(r) \/ WriteCompletes(r) PROVE Started(s)'
    BY <1>5, <1>7 DEF ReadCompletes, WriteCompletes, lives, acceptor
  <1>8. ASSUME NEW t \in Threads, Run(t) PROVE Started(s)'
    BY <1>5, <1>8 DEF Run, HandleRead, HandleWrite, Dispatch, lives, acceptor
  <1> QED
    BY <1>2, <1>3, <1>4, <1>6, <1>7, <1>8 DEF Step, Main, Worker

LEMMA OpenStep == ServerInv /\ Step => OpenInv'
  <1> SUFFICES ASSUME ServerInv, Step PROVE OpenInv'
    OBVIOUS
  <1>0. TypeOK /\ AcceptInv /\ OpenInv /\ StartInv
    BY DEF ServerInv
  <1>1. created \in Nat /\ (\A s \in open : s \in Nat) /\ accept \in OpState
    BY <1>0 DEF TypeOK, Session
  <1> USE DEF OpenInv
  <1>2. CASE AcceptCompletes
    <2>1. UNCHANGED created /\ accept = "io"
      BY <1>2 DEF AcceptCompletes
    <2>2. CASE accept' = "ok" /\ open' = open \cup {created}
      <3>1. \A s \in open' : s <= created
        BY <1>0, <1>1, <2>2
      <3> QED
        BY <2>1, <2>2, <3>1
    <2>3. CASE accept' = "err" /\ UNCHANGED open
      BY <1>0, <2>1, <2>3
    <2> QED
      BY <1>2, <2>2, <2>3 DEF AcceptCompletes
  <1>3. CASE HandleAccept \/ Insert
    <2>1. UNCHANGED open
      BY <1>3 DEF HandleAccept, Insert, ops
    <2>2. CASE created' = created + 1 /\ accept' = "io"
      <3>1. created + 1 \notin open /\ \A s \in open : s <= created + 1
        BY <1>0, <1>1
      <3> QED
        BY <2>1, <2>2, <3>1
    <2>3. CASE accept' = "none" /\ UNCHANGED created
      BY <1>0, <2>1, <2>3
    <2> QED
      BY <1>3, <2>2, <2>3 DEF HandleAccept, AcceptAgain, StartAccept, Insert
  <1>4. CASE Signal \/ LeaveMain \/ StopPool \/ JoinPool \/ JoinWorker
             \/ CloseQueue \/ StopQueue \/ SpuriousWakeup \/ Exit
    BY <1>0, <1>4 DEF Signal, LeaveMain, StopPool, JoinPool, JoinWorker, CloseQueue, StopQueue,
       SpuriousWakeup, Exit,
                      acceptor, ops
  <1>5. CASE UNCHANGED <<accept, created, open>>
    BY <1>0, <1>5
  <1>6. CASE ClientConnects \/ Deal
    BY <1>5, <1>6 DEF ClientConnects, Deal, acceptor, ops
  <1>7. ASSUME NEW s \in Session, ReadCompletes(s) \/ WriteCompletes(s) PROVE OpenInv'
    BY <1>5, <1>7 DEF ReadCompletes, WriteCompletes, acceptor
  <1>8. ASSUME NEW t \in Threads, NEW s \in Session, Dispatch(t, s) PROVE OpenInv'
    BY <1>5, <1>8 DEF Dispatch, acceptor
  <1>9. ASSUME NEW t \in Threads, HandleRead(t) \/ HandleWrite(t) PROVE OpenInv'
    <2> DEFINE s == thread[t].of
    <2>1. Started(s)
      BY <1>0, <1>9 DEF StartInv, HandleRead, HandleWrite, Idle
    <2>2. accept = "ok" => s # created
      BY <1>0, <1>1, <2>1 DEF Started, AcceptInv
    <2>3. /\ UNCHANGED <<accept, created>>
          /\ open' = open \/ open' = open \ {s}
      BY <1>9 DEF HandleRead, HandleWrite, CloseAndClear
    <2> HIDE DEF s
    <2> QED
      BY <1>0, <2>2, <2>3
  <1> QED
    BY <1>2, <1>3, <1>4, <1>6, <1>7, <1>8, <1>9 DEF Step, Main, Worker, Run

LEMMA StartStep == ServerInv /\ Step => StartInv'
  <1> SUFFICES ASSUME ServerInv, Step PROVE StartInv'
    OBVIOUS
  <1>0. TypeOK /\ OpenInv /\ StartInv
    BY DEF ServerInv
  <1>1. /\ \A s \in Session : Started(s) => Started(s)'
        /\ \A t \in Threads : thread[t] # Idle => thread[t].of \in Session
        /\ \A i \in 1 .. Len(posted) : posted[i] \in Session
        /\ read \in [Session -> OpState] /\ write \in [Session -> OpState]
        /\ thread \in [Threads -> Handler \cup {Idle}] /\ created \in Session
        /\ posted \in Seq(Session)
    BY <1>0, StartedStays DEF TypeOK, Handler
  <1>2. ASSUME UNCHANGED <<read, write, thread, posted>> PROVE StartInv'
    BY <1>0, <1>1, <1>2 DEF StartInv, Handling
  <1>3. CASE ClientConnects \/ AcceptCompletes \/ Insert \/ Signal \/ LeaveMain \/ StopPool
             \/ JoinPool \/ CloseQueue \/ StopQueue
             \/ SpuriousWakeup \/ JoinWorker \/ Exit
    BY <1>2, <1>3 DEF ClientConnects, AcceptCompletes, Insert, Signal, LeaveMain, StopPool,
       JoinPool, CloseQueue, StopQueue, SpuriousWakeup, JoinWorker, Exit, Logic!Close, ops, queue
  <1>4. CASE HandleAccept
    <2>1. UNCHANGED <<write, thread, posted>>
      BY <1>4 DEF HandleAccept, queue
    <2>2. CASE accept = "ok"
      <3>1. /\ read' = [read EXCEPT ![created] = Pending(created)]
            /\ \A r \in Session : r = created => Started(r)'
        BY <1>4, <2>2 DEF HandleAccept, Started
      <3>2. \A t \in Threads : ~Handling(t, "read", created)
        <4>1. ~Started(created)
          BY <1>1, <1>4, <2>2 DEF HandleAccept, Started, Session
        <4> QED
          BY <1>0, <4>1 DEF StartInv, Handling, Idle
      <3>3. \A r \in Session : r # created => read'[r] = read[r]
        BY <1>1, <3>1
      <3>4. \A u \in Threads, r \in Session : Handling(u, "read", r)' <=> Handling(u, "read", r)
        BY <2>1 DEF Handling
      <3>5. \A r \in Session : read'[r] # "none" \/ write'[r] # "none" => Started(r)'
        BY <1>0, <1>1, <2>1, <3>1, <3>3 DEF StartInv
      <3>6. (\A t \in Threads : thread[t] # Idle => Started(thread[t].of))'
        <4> SUFFICES ASSUME NEW t \in Threads, thread[t] # Idle PROVE Started(thread[t].of)'
          BY <2>1
        <4>1. PICK r \in Session : r = thread[t].of
          BY <1>1
        <4>2. Started(r)'
          BY <1>0, <1>1, <4>1 DEF StartInv
        <4> QED
          BY <2>1, <4>1, <4>2 DEF Started
      <3>7. (\A i \in 1 .. Len(posted) : Started(posted[i]))'
        <4> SUFFICES ASSUME NEW i \in 1 .. Len(posted) PROVE Started(posted[i])'
          BY <2>1
        <4>1. PICK r \in Session : r = posted[i]
          BY <1>1
        <4>2. Started(r)'
          BY <1>0, <1>1, <4>1 DEF StartInv
        <4> QED
          BY <2>1, <4>1, <4>2 DEF Started
      <3>8. (\A r \in Session, u \in Threads :
                Handling(u, "read", r) => /\ read[r] = "none"
                                          /\ \A v \in Threads : Handling(v, "read", r) => v = u)'
        <4> SUFFICES ASSUME NEW r \in Session, NEW u \in Threads, Handling(u, "read", r)'
                     PROVE  /\ read'[r] = "none"
                            /\ \A v \in Threads : Handling(v, "read", r)' => v = u
          OBVIOUS
        <4>1. read[r] = "none" /\ \A v \in Threads : Handling(v, "read", r) => v = u
          BY <1>0, <3>4 DEF StartInv
        <4>2. r # created
          BY <3>2, <3>4
        <4> QED
          BY <3>3, <3>4, <4>1, <4>2
      <3> QED
        BY <3>5, <3>6, <3>7, <3>8 DEF StartInv
    <2>3. CASE accept # "ok"
      BY <1>2, <1>4, <2>1, <2>3 DEF HandleAccept
    <2> QED
      BY <2>2, <2>3
  <1>5. ASSUME NEW s \in Session, ReadCompletes(s) \/ WriteCompletes(s) PROVE StartInv'
    <2>1. UNCHANGED <<thread, posted>>
      BY <1>5 DEF ReadCompletes, WriteCompletes, queue
    <2>2. CASE ReadCompletes(s)
      <3>1. UNCHANGED write /\ read[s] = "io"
            /\ \E st \in {"ok", "err"} : read' = [read EXCEPT ![s] = st]
        BY <2>2 DEF ReadCompletes
      <3> QED
        BY <1>0, <1>1, <2>1, <3>1 DEF StartInv, Handling
    <2>3. CASE WriteCompletes(s)
      <3>1. UNCHANGED read /\ write[s] = "io"
            /\ \E st \in {"ok", "err"} : write' = [write EXCEPT ![s] = st]
        BY <2>3 DEF WriteCompletes
      <3> QED
        BY <1>0, <1>1, <2>1, <3>1 DEF StartInv, Handling
    <2> QED
      BY <1>5, <2>2, <2>3
  <1>6. ASSUME NEW t \in Threads, NEW s \in Session, Dispatch(t, s) PROVE StartInv'
    <2>1. UNCHANGED posted /\ thread[t] = Idle
      BY <1>6 DEF Dispatch, queue
    <2>2. CASE /\ read[s] \in {"ok", "err"} /\ UNCHANGED write
               /\ thread' = [thread EXCEPT ![t] = [op |-> "read", of |-> s, st |-> read[s]]]
               /\ read' = [read EXCEPT ![s] = "none"]
      BY <1>0, <1>1, <2>1, <2>2 DEF StartInv, Handling
    <2>3. CASE /\ write[s] \in {"ok", "err"} /\ UNCHANGED read
               /\ thread' = [thread EXCEPT ![t] = [op |-> "write", of |-> s, st |-> write[s]]]
               /\ write' = [write EXCEPT ![s] = "none"]
      BY <1>0, <1>1, <2>1, <2>3 DEF StartInv, Handling
    <2> QED
      BY <1>6, <2>2, <2>3 DEF Dispatch
  <1>7. ASSUME NEW t \in Threads, HandleRead(t) \/ HandleWrite(t) PROVE StartInv'
    <2>0. PICK s : s = thread[t].of
      OBVIOUS
    <2>1. /\ thread[t] # Idle /\ s \in Session /\ Started(s) /\ Started(s)'
          /\ thread' = [thread EXCEPT ![t] = Idle]
      BY <1>0, <1>1, <1>7, <2>0 DEF StartInv, HandleRead, HandleWrite, Idle
    <2>2. \A u \in Threads, r \in Session : Handling(u, "read", r)' => u # t /\ Handling(u, "read", r)
      BY <1>1, <2>1 DEF Handling, Idle
    <2>3. /\ \A r \in Session : r # s => read'[r] = read[r] /\ write'[r] = write[r]
          /\ HandleRead(t) => thread[t].op = "read"
          /\ HandleWrite(t) /\ read'[s] # read[s] => read[s] # "none"
      BY <1>1, <1>7, <2>0 DEF HandleRead, HandleWrite, CloseAndClear, Aborted
    <2>4. \A r \in Session : read'[r] # "none" \/ write'[r] # "none" => Started(r)'
      BY <1>0, <1>1, <2>1, <2>3 DEF StartInv
    <2>5. (\A u \in Threads : thread[u] # Idle => Started(thread[u].of))'
      <3> SUFFICES ASSUME NEW u \in Threads, (thread[u] # Idle)' PROVE Started(thread[u].of)'
        OBVIOUS
      <3>1. thread'[u] = thread[u] /\ thread[u] # Idle
        BY <1>1, <2>1
      <3>2. PICK r \in Session : r = thread[u].of
        BY <1>1, <3>1
      <3>3. Started(r)'
        <4>1. Started(r)
          BY <1>0, <3>1, <3>2 DEF StartInv
        <4> QED
          BY <1>1, <4>1
      <3> QED
        BY <3>1, <3>2, <3>3 DEF Started
    <2>6. (\A i \in 1 .. Len(posted) : Started(posted[i]))'
      <3> SUFFICES ASSUME NEW i \in (1 .. Len(posted))' PROVE Started(posted[i])'
        OBVIOUS
      <3>1. posted' = posted \/ posted' = Append(posted, s)
        BY <1>7, <2>0 DEF HandleRead, HandleWrite, PostMsgToQue, Logic!Post, queue
      <3>2. posted'[i] = s \/ (i \in 1 .. Len(posted) /\ posted'[i] = posted[i])
        BY <1>1, <2>1, <3>1, AppendProperties
      <3>3. CASE posted'[i] = s
        BY <2>1, <3>3 DEF Started
      <3>4. CASE i \in 1 .. Len(posted) /\ posted'[i] = posted[i]
        <4>1. PICK r \in Session : r = posted[i]
          BY <1>1, <3>4
        <4>2. Started(r)'
          BY <1>0, <1>1, <3>4, <4>1 DEF StartInv
        <4> QED
          BY <3>4, <4>1, <4>2 DEF Started
      <3> QED
        BY <3>2, <3>3, <3>4
    <2>7. \A r \in Session, u \in Threads :
             Handling(u, "read", r)' => /\ read'[r] = "none"
                                       /\ \A v \in Threads : Handling(v, "read", r)' => v = u
      <3> SUFFICES ASSUME NEW r \in Session, NEW u \in Threads, Handling(u, "read", r)'
                   PROVE  /\ read'[r] = "none"
                          /\ \A v \in Threads : Handling(v, "read", r)' => v = u
        OBVIOUS
      <3>1. u # t /\ Handling(u, "read", r) /\ read[r] = "none"
            /\ \A v \in Threads : Handling(v, "read", r) => v = u
        BY <1>0, <2>2 DEF StartInv
      <3>2. HandleRead(t) => r # s
        BY <2>0, <2>3, <3>1 DEF Handling
      <3>3. read'[r] = read[r]
        BY <1>7, <2>3, <3>1, <3>2
      <3> QED
        BY <2>2, <3>1, <3>3
    <2> QED
      BY <2>4, <2>5, <2>6, <2>7 DEF StartInv
  <1>8. CASE Deal
    <2>0. PICK s : s = Logic!Due
      OBVIOUS
    <2>1. UNCHANGED <<read, thread, posted>>
      BY <1>8 DEF Deal, Logic!Deal
    <2>2. s \in Session /\ Started(s)
      <3>1. dealt \in Seq(Session) /\ Len(dealt) < Len(posted) /\ s = posted[Len(dealt) + 1]
        BY <1>0, <1>8, <2>0 DEF TypeOK, Deal, Logic!Deal, Logic!Due
      <3>2. Len(dealt) + 1 \in 1 .. Len(posted)
        BY <1>1, <3>1, LenProperties
      <3> QED
        BY <1>0, <1>1, <3>1, <3>2 DEF StartInv
    <2>3. \A r \in Session : r # s => write'[r] = write[r]
      BY <1>1, <1>8, <2>0 DEF Deal, Send, NoAnswer
    <2> QED
      BY <1>0, <1>1, <2>1, <2>2, <2>3 DEF StartInv, Handling
  <1> QED
    BY <1>3, <1>4, <1>5, <1>6, <1>7, <1>8 DEF Step, Main, Worker, Run

-----------------------------------------------------------------------------
(* Open sessions are attended to.                                          *)
(* A thread that is in a handler is not the one that takes another, nor    *)
(* is it the one that ends a handler of another session or kind.           *)
LEMMA HandlingStays ==
    ASSUME TypeOK, NEW t \in Threads, NEW u \in Threads, NEW s, NEW op \in {"read", "write"},
           NEW h, thread' = [thread EXCEPT ![t] = h], Handling(u, op, s),
           thread[t] = Idle \/ thread[t].op # op \/ thread[t].of # s
    PROVE  Handling(u, op, s)'
  BY DEF TypeOK, Handling, Idle

LEMMA MapStep == ServerInv /\ Step => OpenInMap'
  <1> SUFFICES ASSUME ServerInv, Step, NEW r \in open', Started(r)'
               PROVE  (r \in sessions \/ ~ServerAlive \/ (main = "insert" /\ r = created))'
    BY DEF OpenInMap
  <1>0. TypeOK /\ AcceptInv /\ OpenInv /\ LiveInv /\ OpenInMap
    BY DEF ServerInv, LiveInv
  <1>1. created \in Nat /\ (\A s \in open : s \in Nat)
    BY <1>0 DEF TypeOK, Session
  <1> USE DEF OpenInMap, ServerAlive
  <1>2. CASE AcceptCompletes
    <2>1. UNCHANGED <<main, created, sessions>> /\ main # "insert" /\ accept = "io"
      BY <1>0, <1>2 DEF AcceptCompletes, AcceptInv, lives
    <2>2. r \in open \/ r = created
      BY <1>2 DEF AcceptCompletes
    <2> QED
      BY <1>0, <1>1, <2>1, <2>2 DEF Started
  <1>3. CASE HandleAccept
    <2>1. UNCHANGED <<open, sessions>> /\ main = "run"
      BY <1>3 DEF HandleAccept
    <2>2. CASE accept = "ok"
      BY <1>0, <1>3, <2>1, <2>2 DEF HandleAccept, Started
    <2>3. CASE accept = "err"
      BY <1>0, <1>1, <1>3, <2>1, <2>3 DEF HandleAccept, AcceptAgain, StartAccept, Started, OpenInv
    <2> QED
      BY <1>3, <2>2, <2>3 DEF HandleAccept
  <1>4. CASE Insert
    BY <1>0, <1>1, <1>4 DEF Insert, StartAccept, Started, ops
  <1>5. CASE Signal \/ LeaveMain \/ Exit
    BY <1>0, <1>5 DEF Signal, LeaveMain, Exit, Started, acceptor, ops
  <1>6. ASSUME UNCHANGED <<main, created, sessions, open>>
        PROVE  (r \in sessions \/ ~ServerAlive \/ (main = "insert" /\ r = created))'
    BY <1>0, <1>6 DEF Started
  <1>7. CASE ClientConnects \/ StopPool \/ JoinPool \/ CloseQueue \/ StopQueue
             \/ SpuriousWakeup \/ JoinWorker \/ Deal
    BY <1>6, <1>7 DEF ClientConnects, StopPool, JoinPool, CloseQueue, StopQueue,
       SpuriousWakeup, JoinWorker, Deal,
                      lives, acceptor, ops
  <1>8. ASSUME NEW s \in Session, ReadCompletes(s) \/ WriteCompletes(s)
        PROVE  (r \in sessions \/ ~ServerAlive \/ (main = "insert" /\ r = created))'
    BY <1>6, <1>8 DEF ReadCompletes, WriteCompletes, lives, acceptor
  <1>9. ASSUME NEW t \in Threads, NEW s \in Session, Dispatch(t, s)
        PROVE  (r \in sessions \/ ~ServerAlive \/ (main = "insert" /\ r = created))'
    BY <1>6, <1>9 DEF Dispatch, lives, acceptor
  <1>10. ASSUME NEW t \in Threads, HandleRead(t) \/ HandleWrite(t)
         PROVE  (r \in sessions \/ ~ServerAlive \/ (main = "insert" /\ r = created))'
    <2> DEFINE s == thread[t].of
    <2>1. /\ UNCHANGED <<main, created>>
          /\ \/ UNCHANGED <<open, sessions>>
             \/ open' = open \ {s} /\ sessions' \in {sessions, sessions \ {s}}
      BY <1>10 DEF HandleRead, HandleWrite, CloseAndClear, ClearSession, lives
    <2> HIDE DEF s
    <2> QED
      BY <1>0, <2>1 DEF Started
  <1> QED
    BY <1>2, <1>3, <1>4, <1>5, <1>7, <1>8, <1>9, <1>10 DEF Step, Main, Worker, Run

(* The read: begun by the start and after every message, ended by a close. *)
LEMMA ReadingStep == ServerInv /\ Step => OpenMeansReading'
  <1> SUFFICES ASSUME ServerInv, Step, NEW r \in open', Started(r)'
               PROVE  (read[r] # "none" \/ \E u \in Threads : Handling(u, "read", r))'
    BY DEF OpenMeansReading
  <1> DEFINE Reads(s) == read[s] # "none" \/ \E u \in Threads : Handling(u, "read", s)
  <1>0. TypeOK /\ AcceptInv /\ OpenInv /\ OpenMeansReading
    BY DEF ServerInv, LiveInv
  <1>1. /\ created \in Nat /\ created \in Session /\ open \subseteq Session
        /\ r \in Session /\ r \in Nat
        /\ read \in [Session -> OpState] /\ thread \in [Threads -> Handler \cup {Idle}]
    BY <1>0, TypeStep DEF TypeOK, Session
  <1>2. ASSUME r \in open, Started(r) PROVE Reads(r)
    BY <1>0, <1>2 DEF OpenMeansReading
  <1>3. CASE AcceptCompletes
    <2>1. /\ UNCHANGED <<main, created, read, thread>> /\ main # "insert" /\ accept = "io"
          /\ r \in open \/ r = created
      BY <1>0, <1>3 DEF AcceptCompletes, AcceptInv, lives
    <2> QED
      BY <1>1, <1>2, <2>1 DEF Started, Handling
  <1>4. CASE HandleAccept
    <2>1. UNCHANGED <<open, thread>> /\ main = "run"
      BY <1>4 DEF HandleAccept
    <2>2. CASE accept = "ok"
      <3>1. /\ read' = [read EXCEPT ![created] = Pending(created)] /\ created' = created
        BY <1>4, <2>2 DEF HandleAccept
      <3>2. CASE r = created
        BY <1>1, <3>1, <3>2 DEF Pending
      <3>3. CASE r # created
        BY <1>1, <1>2, <2>1, <3>1, <3>3 DEF Started, Handling
      <3> QED
        BY <3>2, <3>3
    <2>3. CASE accept = "err"
      <3>1. /\ created' = created + 1 /\ UNCHANGED <<read, main>> /\ r # created
        BY <1>0, <1>4, <2>1, <2>3 DEF HandleAccept, AcceptAgain, StartAccept, OpenInv
      <3> QED
        BY <1>1, <1>2, <2>1, <3>1 DEF Started, Handling
    <2> QED
      BY <1>4, <2>2, <2>3 DEF HandleAccept
  <1>5. CASE Insert
    <2>1. /\ UNCHANGED <<open, read, thread>> /\ main = "insert" /\ main' = "run"
          /\ created' = created + 1
      BY <1>5 DEF Insert, StartAccept, ops
    <2> QED
      BY <1>1, <1>2, <2>1 DEF Started, Handling
  <1>6. CASE Signal \/ LeaveMain \/ Exit
    <2>1. /\ UNCHANGED <<open, read, thread, created>> /\ main # "insert" /\ main' # "insert"
      BY <1>6 DEF Signal, LeaveMain, Exit, acceptor, ops
    <2> QED
      BY <1>2, <2>1 DEF Started, Handling
  <1>7. ASSUME UNCHANGED <<main, created, open, read, thread>> PROVE Reads(r)'
    BY <1>2, <1>7 DEF Started, Handling
  <1>8. CASE ClientConnects \/ StopPool \/ JoinPool \/ CloseQueue \/ StopQueue
             \/ SpuriousWakeup \/ JoinWorker \/ Deal
    BY <1>7, <1>8 DEF ClientConnects, StopPool, JoinPool, CloseQueue, StopQueue,
       SpuriousWakeup, JoinWorker, Deal,
                      lives, acceptor, ops
  <1>9. ASSUME NEW s \in Session, ReadCompletes(s) \/ WriteCompletes(s) PROVE Reads(r)'
    <2>1. /\ UNCHANGED <<main, created, open, thread>>
          /\ UNCHANGED read \/ \E st \in {"ok", "err"} : read' = [read EXCEPT ![s] = st]
      BY <1>9 DEF ReadCompletes, WriteCompletes, lives, acceptor
    <2>2. read[r] # "none" => read'[r] # "none"
      BY <1>1, <2>1
    <2> QED
      BY <1>2, <2>1, <2>2 DEF Started, Handling
  <1>10. ASSUME NEW t \in Threads, NEW s \in Session, Dispatch(t, s) PROVE Reads(r)'
    <2>1. UNCHANGED <<main, created, open>> /\ thread[t] = Idle
      BY <1>10 DEF Dispatch, lives, acceptor
    <2>2. Reads(r)
      BY <1>2, <2>1 DEF Started
    <2>3. ASSUME NEW u \in Threads, Handling(u, "read", r) PROVE Handling(u, "read", r)'
      BY <1>0, <1>10, <2>1, <2>3, HandlingStays DEF Dispatch
    <2>4. CASE read'[r] = read[r]
      BY <2>2, <2>3, <2>4
    <2>5. CASE read'[r] # read[r]
      <3>1. /\ r = s /\ thread' = [thread EXCEPT ![t] = [op |-> "read", of |-> s, st |-> read[s]]]
        BY <1>1, <1>10, <2>5 DEF Dispatch
      <3> QED
        BY <1>1, <3>1 DEF Handling
    <2> QED
      BY <2>4, <2>5
  <1>11. ASSUME NEW t \in Threads, HandleRead(t) \/ HandleWrite(t) PROVE Reads(r)'
    <2>0. PICK s : s = thread[t].of
      OBVIOUS
    <2>1. /\ UNCHANGED <<main, created>> /\ thread[t] # Idle /\ s \in Session
          /\ thread' = [thread EXCEPT ![t] = Idle] /\ open' \in {open, open \ {s}}
      BY <1>1, <1>11, <2>0
      DEF HandleRead, HandleWrite, CloseAndClear, Handler, Idle, lives
    <2>2. Reads(r)
      BY <1>2, <2>1 DEF Started
    <2>3. CASE r = s
      <3>1. thread[t].st = "ok"
        BY <1>11, <2>0, <2>3 DEF HandleRead, HandleWrite, CloseAndClear
      <3>2. CASE HandleRead(t)
        <4>1. read' = [read EXCEPT ![s] = Pending(s)]
          BY <2>0, <3>1, <3>2 DEF HandleRead
        <4> QED
          BY <1>1, <2>3, <4>1 DEF Pending
      <3>3. CASE HandleWrite(t)
        <4>1. UNCHANGED read /\ thread[t].op # "read"
          BY <2>0, <3>1, <3>3 DEF HandleWrite
        <4>2. ASSUME NEW u \in Threads, Handling(u, "read", r) PROVE Handling(u, "read", r)'
          BY <1>0, <2>1, <4>1, <4>2, HandlingStays
        <4> QED
          BY <2>2, <4>1, <4>2
      <3> QED
        BY <1>11, <3>2, <3>3
    <2>4. CASE r # s
      <3>1. read'[r] = read[r]
        BY <1>1, <1>11, <2>0, <2>4 DEF HandleRead, HandleWrite, CloseAndClear, Aborted
      <3>2. ASSUME NEW u \in Threads, Handling(u, "read", r) PROVE Handling(u, "read", r)'
        BY <1>0, <2>0, <2>1, <2>4, <3>2, HandlingStays
      <3> QED
        BY <2>2, <3>1, <3>2
    <2> QED
      BY <2>3, <2>4
  <1> QED
    BY <1>3, <1>4, <1>5, <1>6, <1>8, <1>9, <1>10, <1>11 DEF Step, Main, Worker, Run

(* The queue: Send begins a write when it was empty, HandleWrite when it   *)
(* is not empty yet.                                                       *)
LEMMA StallStep == ServerInv /\ Step => StalledOnlyWhenClosed'
  <1> SUFFICES ASSUME ServerInv, Step, NEW r \in open', send_que'[r] > 0
               PROVE  (write[r] # "none" \/ \E u \in Threads : Handling(u, "write", r))'
    BY DEF StalledOnlyWhenClosed
  <1> DEFINE Writes(s) == write[s] # "none" \/ \E u \in Threads : Handling(u, "write", s)
  <1>0. TypeOK /\ AcceptInv /\ LiveInv /\ StalledOnlyWhenClosed
    BY DEF ServerInv, LiveInv
  <1>1. /\ created \in Nat /\ created \in Session /\ open \subseteq Session /\ r \in Session
        /\ MAX_SENDQUE \in Nat /\ send_que \in [Session -> 0 .. MAX_SENDQUE + 1]
        /\ write \in [Session -> OpState] /\ thread \in [Threads -> Handler \cup {Idle}]
    <2>1. r \in Session
      BY TypeStep DEF TypeOK
    <2>2. MAX_SENDQUE \in Nat
      BY ServerAssumption DEF ServerAssumption
    <2> QED
      BY <1>0, <2>1, <2>2 DEF TypeOK, Session
  <1>2. ASSUME r \in open, send_que[r] > 0 PROVE Writes(r)
    BY <1>0, <1>2 DEF StalledOnlyWhenClosed
  <1>3. CASE AcceptCompletes
    <2>1. /\ UNCHANGED <<write, thread, send_que>> /\ main # "insert"
          /\ r \in open \/ r = created
      BY <1>0, <1>3 DEF AcceptCompletes, AcceptInv
    <2>2. r # created
      BY <1>0, <1>1, <2>1 DEF LiveInv, Started
    <2> QED
      BY <1>2, <2>1, <2>2 DEF Handling
  <1>4. ASSUME UNCHANGED <<open, write, thread, send_que>> PROVE Writes(r)'
    BY <1>2, <1>4 DEF Handling
  <1>5. CASE ClientConnects \/ HandleAccept \/ Insert \/ Signal \/ LeaveMain \/ StopPool
             \/ JoinPool \/ CloseQueue \/ StopQueue
             \/ SpuriousWakeup \/ JoinWorker \/ Exit
    BY <1>4, <1>5 DEF ClientConnects, HandleAccept, Insert, Signal, LeaveMain, StopPool,
       JoinPool, CloseQueue, StopQueue, SpuriousWakeup, JoinWorker, Exit, ops
  <1>6. ASSUME NEW s \in Session, ReadCompletes(s) \/ WriteCompletes(s) PROVE Writes(r)'
    <2>1. /\ UNCHANGED <<open, thread, send_que>>
          /\ UNCHANGED write \/ \E st \in {"ok", "err"} : write' = [write EXCEPT ![s] = st]
      BY <1>6 DEF ReadCompletes, WriteCompletes
    <2>2. write[r] # "none" => write'[r] # "none"
      BY <1>1, <2>1
    <2> QED
      BY <1>2, <2>1, <2>2 DEF Handling
  <1>7. ASSUME NEW t \in Threads, NEW s \in Session, Dispatch(t, s) PROVE Writes(r)'
    <2>1. UNCHANGED <<open, send_que>> /\ thread[t] = Idle
      BY <1>7 DEF Dispatch
    <2>2. Writes(r)
      BY <1>2, <2>1
    <2>3. ASSUME NEW u \in Threads, Handling(u, "write", r) PROVE Handling(u, "write", r)'
      BY <1>0, <1>7, <2>1, <2>3, HandlingStays DEF Dispatch
    <2>4. CASE write'[r] = write[r]
      BY <2>2, <2>3, <2>4
    <2>5. CASE write'[r] # write[r]
      <3>1. /\ r = s /\ thread' = [thread EXCEPT ![t] = [op |-> "write", of |-> s, st |-> write[s]]]
        BY <1>1, <1>7, <2>5 DEF Dispatch
      <3> QED
        BY <1>1, <3>1 DEF Handling
    <2> QED
      BY <2>4, <2>5
  <1>8. ASSUME NEW t \in Threads, HandleRead(t) PROVE Writes(r)'
    <2>0. PICK s : s = thread[t].of
      OBVIOUS
    <2>1. /\ UNCHANGED send_que /\ thread[t].op = "read" /\ open' \in {open, open \ {s}}
          /\ thread' = [thread EXCEPT ![t] = Idle]
      BY <1>8, <2>0 DEF HandleRead, CloseAndClear
    <2>2. Writes(r)
      BY <1>2, <2>1
    <2>3. write'[r] = write[r]
      BY <1>1, <1>8, <2>0 DEF HandleRead, CloseAndClear, Aborted
    <2>4. ASSUME NEW u \in Threads, Handling(u, "write", r) PROVE Handling(u, "write", r)'
      BY <1>0, <2>1, <2>4, HandlingStays
    <2> QED
      BY <2>2, <2>3, <2>4
  <1>9. ASSUME NEW t \in Threads, HandleWrite(t) PROVE Writes(r)'
    <2>0. PICK s : s = thread[t].of
      OBVIOUS
    <2>1. /\ thread[t].op = "write" /\ open' \in {open, open \ {s}} /\ s \in Session
          /\ thread' = [thread EXCEPT ![t] = Idle]
      BY <1>1, <1>9, <2>0 DEF HandleWrite, CloseAndClear, Handler, Idle
    <2>2. CASE r = s
      <3>1. thread[t].st = "ok"
        BY <1>9, <2>0, <2>2 DEF HandleWrite, CloseAndClear
      <3>2. /\ send_que' = [send_que EXCEPT ![s] = @ - 1]
            /\ write' = IF send_que[s] > 1 THEN [write EXCEPT ![s] = Pending(s)] ELSE write
        BY <1>9, <2>0, <3>1 DEF HandleWrite
      <3>3. send_que[s] > 1
        BY <1>1, <2>2, <3>2
      <3> QED
        BY <1>1, <2>2, <3>2, <3>3 DEF Pending
    <2>3. CASE r # s
      <3>1. write'[r] = write[r] /\ send_que'[r] = send_que[r] /\ r \in open
        BY <1>1, <1>9, <2>0, <2>1, <2>3 DEF HandleWrite, CloseAndClear, Aborted
      <3>2. Writes(r)
        BY <1>2, <3>1
      <3>3. ASSUME NEW u \in Threads, Handling(u, "write", r) PROVE Handling(u, "write", r)'
        BY <1>0, <2>0, <2>1, <2>3, <3>3, HandlingStays
      <3> QED
        BY <3>1, <3>2, <3>3
    <2> QED
      BY <2>2, <2>3
  <1>10. CASE Deal
    <2>0. PICK s : s = Logic!Due
      OBVIOUS
    <2>1. UNCHANGED <<open, thread>>
      BY <1>10 DEF Deal, Send, NoAnswer
    <2>2. CASE UNCHANGED <<send_que, write>>
      BY <1>4, <2>1, <2>2
    <2>3. CASE /\ send_que' = [send_que EXCEPT ![s] = @ + 1]
               /\ write' = IF send_que[s] = 0 THEN [write EXCEPT ![s] = Pending(s)] ELSE write
      <3>1. CASE r = s /\ send_que[s] = 0
        BY <1>1, <2>3, <3>1 DEF Pending
      <3>2. CASE r # s \/ send_que[s] # 0
        <4>1. send_que[r] > 0 /\ write'[r] = write[r]
          BY <1>1, <2>3, <3>2
        <4> QED
          BY <1>2, <2>1, <4>1 DEF Handling
      <3> QED
        BY <3>1, <3>2
    <2> QED
      BY <1>10, <2>0, <2>2, <2>3 DEF Deal, Send, NoAnswer
  <1> QED
    BY <1>3, <1>5, <1>6, <1>7, <1>8, <1>9, <1>10 DEF Step, Main, Worker, Run

(* Only Send queues, for a session that has posted.                        *)
LEMMA QueuedStep ==
    ASSUME ServerInv, Step, NEW r \in Session, send_que'[r] > 0
    PROVE  Started(r)'
  <1>0. TypeOK /\ StartInv /\ LiveInv
    BY DEF ServerInv
  <1>1. send_que \in [Session -> 0 .. MAX_SENDQUE + 1] /\ MAX_SENDQUE \in Nat
    BY <1>0, ServerAssumption DEF ServerAssumption, TypeOK
  <1>2. ASSUME Started(r) PROVE Started(r)'
    BY <1>0, <1>2, StartedStays
  <1>3. CASE UNCHANGED send_que
    BY <1>0, <1>2, <1>3 DEF LiveInv
  <1>4. CASE Deal
    <2>1. PICK s : s = Logic!Due
      OBVIOUS
    <2>2. CASE r = s
      <3>1. /\ posted \in Seq(Session) /\ dealt \in Seq(Session)
            /\ Len(dealt) < Len(posted) /\ s = posted[Len(dealt) + 1]
        BY <1>0, <1>4, <2>1 DEF TypeOK, Deal, Logic!Deal, Logic!Due
      <3>2. Len(dealt) + 1 \in 1 .. Len(posted)
        BY <3>1, LenProperties
      <3> QED
        BY <1>0, <1>2, <2>2, <3>1, <3>2 DEF StartInv
    <2>3. CASE r # s
      <3>1. send_que'[r] = send_que[r]
        BY <1>1, <1>4, <2>1, <2>3 DEF Deal, Send, NoAnswer
      <3> QED
        BY <1>0, <1>2, <3>1 DEF LiveInv
    <2> QED
      BY <2>2, <2>3
  <1>5. ASSUME NEW t \in Threads, HandleWrite(t) PROVE Started(r)'
    <2>1. PICK s : s = thread[t].of
      OBVIOUS
    <2>2. /\ thread[t] # Idle
          /\ send_que' = send_que \/ send_que' = [send_que EXCEPT ![s] = @ - 1]
      BY <1>5, <2>1 DEF HandleWrite, Idle
    <2>3. r = s => Started(r)
      BY <1>0, <2>1, <2>2 DEF StartInv
    <2>4. r # s => send_que'[r] = send_que[r]
      BY <1>1, <2>2
    <2> QED
      BY <1>0, <1>2, <2>3, <2>4 DEF LiveInv
  <1>6. ASSUME NEW t \in Threads, NEW s \in Session, HandleRead(t) \/ Dispatch(t, s)
        PROVE  UNCHANGED send_que
    BY <1>6 DEF HandleRead, Dispatch
  <1>7. ASSUME NEW s \in Session, ReadCompletes(s) \/ WriteCompletes(s) PROVE UNCHANGED send_que
    BY <1>7 DEF ReadCompletes, WriteCompletes
  <1>8. ASSUME \/ Main \/ CloseQueue \/ SpuriousWakeup
               \/ ClientConnects \/ AcceptCompletes \/ Signal
        PROVE  UNCHANGED send_que
    BY <1>8 DEF Main, HandleAccept, Insert, LeaveMain, StopPool, JoinPool, CloseQueue,
       StopQueue, SpuriousWakeup,
       JoinWorker, Exit, ClientConnects, AcceptCompletes, Signal, ops
  <1>9. ASSUME NEW t \in Threads, HandleRead(t) PROVE UNCHANGED send_que
    BY <1>9 DEF HandleRead
  <1> QED
    BY <1>3, <1>4, <1>5, <1>6, <1>7, <1>8, <1>9 DEF Step, Worker, Run

LEMMA LiveStep == ServerInv /\ Step => LiveInv'
  BY MapStep, ReadingStep, StallStep, QueuedStep DEF LiveInv

-----------------------------------------------------------------------------
(* Which static has gone, by their number and the order.                   *)
LEMMA GoneByNumber ==
    ASSUME TypeOK
    PROVE  /\ Gone("pool") <=> destroyed = 2 \/ (destroyed = 1 /\ order = PoolFirst)
           /\ Gone("logic") <=> destroyed = 2 \/ (destroyed = 1 /\ order = LogicFirst)
  <1>1. order \in {PoolFirst, LogicFirst} /\ destroyed \in 0 .. 2
    BY ServerAssumption DEF ServerAssumption, TypeOK
  <1>2. CASE order = PoolFirst
    BY <1>1, <1>2 DEF Gone, PoolFirst, LogicFirst
  <1>3. CASE order = LogicFirst
    BY <1>1, <1>3 DEF Gone, PoolFirst, LogicFirst
  <1> QED
    BY <1>1, <1>2, <1>3

(* The logic queue is due to go after the pool, when the pool goes first.  *)
LEMMA PoolGoneBefore ==
    ASSUME TypeOK, DueToGo("logic"), order = PoolFirst
    PROVE  Gone("pool")
  <1>1. destroyed \in 0 .. 2 /\ destroyed < 2 /\ order[destroyed + 1] = "logic"
    BY DEF TypeOK, DueToGo
  <1>2. destroyed = 1
    BY <1>1 DEF PoolFirst
  <1> QED
    BY <1>2, GoneByNumber

(* What is gone stays gone, and main does not come back to its frame.      *)
LEMMA LivesStep ==
    ASSUME TypeOK, Step
    PROVE  /\ UNCHANGED order
           /\ Gone("pool") => Gone("pool")'
           /\ main \in {"statics", "exited"} => main' \in {"statics", "exited"}
  <1> DEFINE Kept == /\ order' = order
                     /\ destroyed' = destroyed \/ destroyed' = destroyed + 1
                     /\ main \in {"statics", "exited"} => main' \in {"statics", "exited"}
  <1>1. ASSUME Main PROVE Kept
    BY <1>1 DEF Main, HandleAccept, Insert, LeaveMain, StopPool, JoinPool, StopQueue, JoinWorker,
                Exit, lives
  <1>2. ASSUME \/ ClientConnects \/ AcceptCompletes \/ Signal
               \/ SpuriousWakeup \/ Deal \/ CloseQueue
        PROVE  Kept
    BY <1>2 DEF ClientConnects, AcceptCompletes, Signal, SpuriousWakeup, Deal, CloseQueue, lives
  <1>3. ASSUME \E s \in Session : ReadCompletes(s) \/ WriteCompletes(s) PROVE Kept
    BY <1>3 DEF ReadCompletes, WriteCompletes, lives
  <1>4. ASSUME \E t \in Threads : Run(t) PROVE Kept
    BY <1>4 DEF Run, HandleRead, HandleWrite, Dispatch, lives
  <1>5. Kept
    BY <1>1, <1>2, <1>3, <1>4 DEF Step, Worker
  <1>6. destroyed \in Nat
    BY DEF TypeOK
  <1> QED
    BY <1>5, <1>6 DEF Gone
(* What a step does to the logic queue: an operation of the queue, a post  *)
(* also being heard by a worker that has missed its stop, or one of its    *)
(* destructor.                                                             *)
LEMMA QueueIsLogic ==
    ASSUME TypeOK, Step
    PROVE  \/ UNCHANGED queue
           \/ Deal \/ CloseQueue \/ StopQueue \/ SpuriousWakeup
           \/ \E s \in Session : PostMsgToQue(s)
  <1>1. CASE \E t \in Threads : Run(t)
    <2>1. PICK t \in Threads : HandleRead(t) \/ HandleWrite(t) \/ \E s \in Session : Dispatch(t, s)
      BY <1>1 DEF Run
    <2>2. CASE HandleRead(t) /\ thread[t].st = "ok"
      <3>1. thread[t] \in Handler
        BY <2>2 DEF TypeOK, HandleRead, Idle
      <3> QED
        BY <2>2, <3>1 DEF HandleRead, Handler
    <2> QED
      BY <2>1, <2>2 DEF HandleRead, HandleWrite, Dispatch
  <1>2. CASE Main
    BY <1>2 DEF Main, HandleAccept, Insert, LeaveMain, StopPool, JoinPool, JoinWorker, Exit
  <1>3. CASE ClientConnects \/ AcceptCompletes \/ Signal
    BY <1>3 DEF ClientConnects, AcceptCompletes, Signal
  <1>4. CASE \E s \in Session : ReadCompletes(s) \/ WriteCompletes(s)
    BY <1>4 DEF ReadCompletes, WriteCompletes
  <1> QED
    BY <1>1, <1>2, <1>3, <1>4 DEF Step, Worker

LEMMA QueueStep == ServerInv /\ Step => QueueInv'
  <1> SUFFICES ASSUME ServerInv, Step PROVE QueueInv'
    OBVIOUS
  <1>0. TypeOK /\ TypeOK' /\ QueueInv /\ EndInv
    BY TypeStep DEF ServerInv
  <1>1. /\ posted \in Seq(Session) /\ dealt \in Seq(Session)
        /\ Len(dealt) <= Len(posted) /\ Len(dealt) \in Nat /\ Len(posted) \in Nat
    BY <1>0, LenProperties DEF TypeOK, QueueInv
  <1>2. stop # "none" => main' \in {"statics", "exited"}
    BY <1>0, LivesStep DEF QueueInv
  <1>3. Gone("pool") => Gone("pool")'
    BY <1>0, LivesStep
  <1>4. UNCHANGED order
    BY <1>0, LivesStep
  <1>5. CASE UNCHANGED queue
    BY <1>0, <1>2, <1>3, <1>4, <1>5 DEF queue, QueueInv
  <1>6. CASE StopQueue
    <2>1. /\ DueToGo("logic") /\ stop = "none" /\ UNCHANGED <<lives, posted, dealt, status>>
          /\ stop' = "heard" \/ (dealt = posted /\ stop' = "missed")
      BY <1>6 DEF StopQueue
    <2>2. status = "open"
      BY <1>0, <2>1 DEF QueueInv, TypeOK
    <2>3. order = PoolFirst => Gone("pool")
      BY <1>0, <2>1, PoolGoneBefore
    <2>4. main = "statics"
      BY <2>1 DEF DueToGo
    <2> QED
      BY <1>0, <1>3, <2>1, <2>2, <2>3, <2>4 DEF QueueInv, lives
  <1>7. CASE SpuriousWakeup \/ CloseQueue
    <2>1. /\ stop # "none" /\ stop' = "heard" /\ UNCHANGED <<posted, dealt>>
      BY <1>7 DEF SpuriousWakeup, CloseQueue, Logic!Close
    <2> QED
      BY <1>0, <1>2, <1>3, <1>4, <2>1 DEF QueueInv
  <1>8. CASE Deal
    <2>1. /\ posted' = posted /\ Len(dealt) < Len(posted) /\ UNCHANGED <<stop, status>>
      BY <1>8 DEF Deal, Logic!Deal
    <2>2. Len(dealt') = Len(dealt) + 1
      BY <1>0, <1>1, <1>8, AppendProperties DEF Deal, Logic!Deal, Logic!Due, TypeOK
    <2>3. stop # "missed"
      BY <1>0, <1>1, <2>1 DEF QueueInv
    <2> QED
      BY <1>0, <1>1, <1>2, <1>3, <1>4, <2>1, <2>2, <2>3 DEF QueueInv
  <1>9. ASSUME NEW s \in Session, PostMsgToQue(s) PROVE QueueInv'
    <2>1. /\ posted' = Append(posted, s) /\ UNCHANGED <<dealt, status>>
          /\ stop' = IF stop = "missed" THEN "heard" ELSE stop
      BY <1>9 DEF PostMsgToQue, Logic!Post
    <2>2. Len(posted') = Len(posted) + 1
      BY <1>1, <2>1, AppendProperties
    <2> QED
      BY <1>0, <1>1, <1>2, <1>3, <1>4, <2>1, <2>2 DEF QueueInv
  <1> QED
    BY <1>0, <1>5, <1>6, <1>7, <1>8, <1>9, QueueIsLogic

-----------------------------------------------------------------------------
LEMMA EndSame ==
    ASSUME EndInv,
           UNCHANGED <<main, order, destroyed, pool, thread, posted, dealt, status, misuse>>
    PROVE  EndInv'
  BY DEF EndInv, Gone, QueueOutlivesHandlers, ContextOutlivesWorker

(* A step inside main() does not touch what is destroyed after it.         *)
LEMMA EndBefore ==
    ASSUME TypeOK, EndInv, main \notin {"statics", "exited"},
           UNCHANGED <<order, destroyed, status, misuse>>, main' # "exited"
    PROVE  EndInv'
  <1>1. destroyed = 0 /\ status # "closed"
    BY DEF TypeOK, EndInv
  <1> QED
    BY <1>1 DEF EndInv, Gone, QueueOutlivesHandlers, ContextOutlivesWorker

LEMMA EndStep == ServerInv /\ Step => EndInv'
  <1> SUFFICES ASSUME ServerInv, Step PROVE EndInv'
    OBVIOUS
  <1>0. TypeOK /\ EndInv /\ TypeOK'
    BY TypeStep DEF ServerInv
  <1>1. order \in {PoolFirst, LogicFirst} /\ destroyed \in 0 .. 2
    BY <1>0, ServerAssumption DEF ServerAssumption, TypeOK
  <1>2. misuse = {} /\ main # "exited"
    BY DEF Step, Survive, Running
  <1>3. CASE HandleAccept \/ Insert \/ Signal \/ LeaveMain
    BY <1>0, <1>3, EndBefore DEF HandleAccept, Insert, Signal, LeaveMain, queue
  <1>4. CASE ClientConnects \/ AcceptCompletes \/ StopQueue \/ SpuriousWakeup
    BY <1>0, <1>4, EndSame
    DEF ClientConnects, AcceptCompletes, StopQueue, SpuriousWakeup, lives, ops, queue
  <1>5. ASSUME NEW s \in Session, ReadCompletes(s) \/ WriteCompletes(s) PROVE EndInv'
    BY <1>0, <1>5, EndSame DEF ReadCompletes, WriteCompletes, lives, queue
  <1>6. CASE StopPool
    <2>1. /\ pool' = "stopped" /\ UNCHANGED <<main, order, destroyed, thread, queue, misuse>>
      BY <1>6 DEF StopPool, StopContexts, ops
    <2> QED
      BY <1>0, <2>1 DEF EndInv, Gone, QueueOutlivesHandlers, ContextOutlivesWorker, queue
  <1>7. CASE JoinPool
    <2>1. /\ pool = "stopped" /\ \A t \in Threads : thread[t] = Idle
          /\ main = "statics" /\ destroyed < 2 /\ order[destroyed + 1] = "pool"
          /\ destroyed' = destroyed + 1
          /\ UNCHANGED <<main, order, pool, thread, queue, misuse>>
      BY <1>7 DEF JoinPool, Joined, DueToGo, ops
    <2>2. Gone("logic")' => Gone("logic")
      <3>1. CASE order = PoolFirst
        BY <1>1, <2>1, <3>1, GoneByNumber, <1>0 DEF PoolFirst, LogicFirst, Gone
      <3>2. CASE order = LogicFirst
        BY <1>1, <2>1, <3>2, GoneByNumber, <1>0 DEF PoolFirst, LogicFirst, Gone
      <3> QED
        BY <1>1, <3>1, <3>2
    <2>3. Gone("pool") => Gone("pool")'
      BY <1>1, <2>1 DEF Gone
    <2> QED
      BY <1>0, <1>2, <2>1, <2>2, <2>3 DEF EndInv, QueueOutlivesHandlers, ContextOutlivesWorker,
         queue
  <1>8. CASE CloseQueue
    <2>1. /\ stop = "heard" /\ status' = "closed" /\ dealt = posted /\ status = "open"
          /\ UNCHANGED <<main, order, destroyed, pool, thread, posted, dealt, misuse>>
      BY <1>8 DEF CloseQueue, Logic!Close, lives, ops
    <2>2. main = "statics" /\ (order = PoolFirst => Gone("pool"))
      BY <1>2, <2>1 DEF ServerInv, QueueInv
    <2> QED
      BY <1>0, <1>2, <2>1, <2>2 DEF EndInv, Gone, QueueOutlivesHandlers, ContextOutlivesWorker
  <1>9. CASE JoinWorker
    <2>1. /\ main = "statics" /\ destroyed < 2 /\ order[destroyed + 1] = "logic"
          /\ status = "closed" /\ destroyed' = destroyed + 1
          /\ UNCHANGED <<main, order, pool, thread, queue, misuse>>
      BY <1>9 DEF JoinWorker, DueToGo, ops
    <2>2. Gone("pool")' <=> Gone("pool")
      <3>1. CASE order = PoolFirst
        BY <1>1, <2>1, <3>1 DEF PoolFirst, Gone
      <3>2. CASE order = LogicFirst
        BY <1>1, <2>1, <3>2 DEF LogicFirst, Gone
      <3> QED
        BY <1>1, <3>1, <3>2
    <2> QED
      BY <1>0, <1>2, <2>1, <2>2 DEF EndInv, QueueOutlivesHandlers, ContextOutlivesWorker, queue
  <1>10. CASE Exit
    BY <1>0, <1>10 DEF EndInv, Exit, Gone, QueueOutlivesHandlers, ContextOutlivesWorker, ops,
       queue
  <1>11. CASE Deal
    <2>1. /\ status = "open" /\ UNCHANGED <<main, order, destroyed, pool, thread, status>>
          /\ misuse' \subseteq misuse \cup {"context"}
          /\ ~Gone("pool") => misuse' = misuse
      BY <1>11 DEF Deal, Logic!Deal, Use, lives
    <2>2. order = LogicFirst => ~Gone("pool")
      BY <1>0, <1>1, <2>1, GoneByNumber DEF EndInv, PoolFirst, LogicFirst
    <2> QED
      BY <1>0, <1>2, <2>1, <2>2 DEF EndInv, Gone, QueueOutlivesHandlers, ContextOutlivesWorker
  <1>12. ASSUME NEW t \in Threads, NEW s \in Session, Dispatch(t, s) PROVE EndInv'
    <2>1. /\ pool = "running" /\ UNCHANGED <<main, order, destroyed, pool, queue, misuse>>
      BY <1>12 DEF Dispatch, lives
    <2> QED
      BY <1>0, <2>1 DEF EndInv, Gone, QueueOutlivesHandlers, ContextOutlivesWorker, queue
  <1>13. ASSUME NEW t \in Threads, HandleRead(t) \/ HandleWrite(t) PROVE EndInv'
    <2>1. /\ thread[t] # Idle
          /\ thread' = [thread EXCEPT ![t] = Idle]
          /\ UNCHANGED <<main, order, destroyed, pool, status>>
      BY <1>13 DEF HandleRead, HandleWrite, PostMsgToQue, Logic!Post, lives, queue, Idle
    <2>2. ~Gone("pool")
      BY <1>0, <2>1 DEF EndInv
    <2>3. ~Gone("pool")' /\ Gone("logic")' = Gone("logic")
      BY <2>1, <2>2 DEF Gone
    <2>4. order = PoolFirst => status # "closed" /\ ~Gone("logic")
      BY <1>0, <2>2 DEF EndInv
    <2>5. order = PoolFirst => "queue" \notin misuse'
      BY <1>2, <1>13, <2>4 DEF HandleRead, HandleWrite, CloseAndClear, ClearSession, Use
    <2>6. "context" \notin misuse'
      BY <1>2, <1>13 DEF HandleRead, HandleWrite, CloseAndClear, ClearSession, Use
    <2> QED
      BY <1>0, <2>1, <2>2, <2>3, <2>4, <2>5, <2>6 DEF EndInv, QueueOutlivesHandlers,
         ContextOutlivesWorker
  <1> QED
    BY <1>3, <1>4, <1>5, <1>6, <1>7, <1>8, <1>9, <1>10, <1>11, <1>12, <1>13 DEF Step, Main,
       Worker, Run

-----------------------------------------------------------------------------
(* The invariant holds of every pool, order and number of clients.         *)
THEOREM InductiveInvariant == Safety => []ServerInv
  <1>1. ServerInv /\ [Next]_vars => ServerInv'
    <2>1. ServerInv /\ Step => ServerInv'
      BY TypeStep, AcceptStep, RoundStep, OpenStep, StartStep, ThreadStep, QueueStep, EndStep,
         LiveStep
      DEF ServerInv
    <2>2. ServerInv /\ terminated' \in BOOLEAN /\ UNCHANGED process => ServerInv'
      <3> SUFFICES ASSUME ServerInv, terminated' \in BOOLEAN, UNCHANGED process PROVE ServerInv'
        OBVIOUS
      <3>1. UNCHANGED <<lives, acceptor, clients, ops, queue, misuse>>
        BY DEF process
      <3>2. TypeOK'
        BY <3>1 DEF ServerInv, TypeOK, lives, acceptor, clients, ops, queue
      <3>3. AcceptInv'
        BY <3>1 DEF ServerInv, AcceptInv, AlwaysAccepting, lives, acceptor, clients
      <3>4. ThreadInv' /\ EndInv'
        BY <3>1, ThreadSame, EndSame DEF ServerInv, lives, acceptor, clients, ops, queue
      <3>5. RoundInv'
        BY <3>1, RoundSame DEF ServerInv, acceptor
      <3>6. OpenInv' /\ StartInv'
        BY <3>1 DEF ServerInv, OpenInv, StartInv, Started, Handling, lives, acceptor, ops, queue
      <3>7. QueueInv'
        BY <3>1 DEF ServerInv, QueueInv, Gone, lives, queue
      <3>8. LiveInv'
        BY <3>1 DEF ServerInv, LiveInv, OpenInMap, OpenMeansReading, StalledOnlyWhenClosed, Started,
           Handling, ServerAlive, lives, acceptor, ops
      <3> QED
        BY <3>2, <3>3, <3>4, <3>5, <3>6, <3>7, <3>8 DEF ServerInv
    <2>3. [Next]_vars => Step \/ (terminated' \in {terminated, TRUE} /\ UNCHANGED process)
      BY DEF Next, CallBackThrows, NegativeLength, Terminate, vars
    <2> QED
      BY <2>1, <2>2, <2>3 DEF ServerInv, TypeOK
  <1> QED
    BY <1>1, InitIInv, PTL DEF Safety

(* Handlers of one session are run by the threads of one context.          *)
THEOREM HandlersOneAtATime == Safety => []OneHandlerAtATime
  <1>1. ServerInv => OneHandlerAtATime
    BY DEF ServerInv, ThreadInv, OneHandlerAtATime, OneThreadEach
  <1> QED
    BY <1>1, InductiveInvariant, PTL

(* A handler that posts is running, so the pool has not been joined.       *)
THEOREM QueueOutlives == Safety => []QueueOutlivesHandlers
  <1>1. ServerInv => QueueOutlivesHandlers
    BY DEF ServerInv, EndInv
  <1> QED
    BY <1>1, InductiveInvariant, PTL

(* The worker returns with the queue empty, and after the last post.       *)
THEOREM NothingLeftAtExit == Safety => []DealtBeforeExit
  <1>1. ServerInv => DealtBeforeExit
    <2> SUFFICES ASSUME ServerInv, order = PoolFirst, main = "exited" PROVE dealt = posted
      BY DEF DealtBeforeExit
    <2>1. TypeOK /\ EndInv /\ destroyed = 2
      BY DEF ServerInv, EndInv
    <2>2. Gone("logic")
      BY <2>1, GoneByNumber
    <2> QED
      BY <2>1, <2>2 DEF EndInv
  <1> QED
    BY <1>1, InductiveInvariant, PTL

(* The worker that writes has returned before the contexts go.             *)
THEOREM ContextOutlives == Safety => []ContextOutlivesWorker
  <1>1. ServerInv => ContextOutlivesWorker
    BY DEF ServerInv, EndInv
  <1> QED
    BY <1>1, InductiveInvariant, PTL

(* HandleAccept asks for the next client whether the accept has failed or  *)
(* not: the server is never left without one pending while it runs.        *)
THEOREM NeverDeaf == Safety => []AlwaysAccepting
  <1>1. ServerInv => AlwaysAccepting
    BY DEF ServerInv, AcceptInv
  <1> QED
    BY <1>1, InductiveInvariant, PTL

(* No session that is open is forgotten, with any number of others: the    *)
(* map keeps it, HandleAccept and HandleReadMsg have it read, and Send and *)
(* HandleWrite have it write what is queued.                               *)
THEOREM OpenAreAttended ==
    Safety => [](OpenInMap /\ OpenMeansReading /\ StalledOnlyWhenClosed)
  <1>1. ServerInv => OpenInMap /\ OpenMeansReading /\ StalledOnlyWhenClosed
    BY DEF ServerInv, LiveInv
  <1> QED
    BY <1>1, InductiveInvariant, PTL

(* GetIOContext hands the contexts out in turn: between any two of them    *)
(* the number of sessions differs by one at most, whatever accepts fail.   *)
THEOREM ContextsInTurn == Safety => []RoundRobin
  <1>1. ServerInv => RoundRobin
    <2> SUFFICES ASSUME ServerInv PROVE RoundRobin
      OBVIOUS
    <2>1. PICK q \in 0 .. created : \A c \in Context :
              Given(c) = IF c < m_nextIOContext THEN q + 1 ELSE q
      BY DEF ServerInv, RoundInv
    <2> QED
      BY <2>1 DEF RoundRobin
  <1> QED
    BY <1>1, InductiveInvariant, PTL
-----------------------------------------------------------------------------
(* Each session, among all others, is a SessionIO.  Of the handlers of its *)
(* reads there is one at most, and while it runs no read is pending; the   *)
(* same of its writes.                                                     *)
ReadsSeen ==
    \A s \in Session :
        /\ \A t \in Threads : Handling(t, "read", s) => InHand("read", read, s) = thread[t].st
        /\ (\A t \in Threads : ~Handling(t, "read", s)) => InHand("read", read, s) = read[s]

WritesSeen ==
    \A s \in Session :
        /\ \A t \in Threads : Handling(t, "write", s) => InHand("write", write, s) = thread[t].st
        /\ (\A t \in Threads : ~Handling(t, "write", s)) => InHand("write", write, s) = write[s]

LEMMA ReadInHand == ServerInv => ReadsSeen
  <1> SUFFICES ASSUME ServerInv, NEW s \in Session
               PROVE  /\ \A t \in Threads : Handling(t, "read", s)
                             => InHand("read", read, s) = thread[t].st
                      /\ (\A t \in Threads : ~Handling(t, "read", s))
                             => InHand("read", read, s) = read[s]
    BY DEF ReadsSeen
  <1>1. \A t, u \in Threads : Handling(t, "read", s) /\ Handling(u, "read", s) => u = t
    BY DEF ServerInv, StartInv
  <1>2. ASSUME NEW t \in Threads, Handling(t, "read", s)
        PROVE  InHand("read", read, s) = thread[t].st
    <2>1. (CHOOSE u \in Threads : Handling(u, "read", s)) = t
      BY <1>1, <1>2
    <2> QED
      BY <1>2, <2>1 DEF InHand
  <1>3. ASSUME \A t \in Threads : ~Handling(t, "read", s)
        PROVE  InHand("read", read, s) = read[s]
    BY <1>3 DEF InHand
  <1> QED
    BY <1>2, <1>3

LEMMA ReadInHandNext == ServerInv' => ReadsSeen'
  BY ReadInHand, PTL

LEMMA ReadSame ==
    ASSUME ServerInv, ServerInv', NEW s \in Session, read'[s] = read[s],
           \A t \in Threads :
               Handling(t, "read", s) \/ Handling(t, "read", s)' => thread'[t] = thread[t]
    PROVE  InHand("read", read, s)' = InHand("read", read, s)
  <1>1. ReadsSeen /\ ReadsSeen'
    BY ReadInHand, ReadInHandNext
  <1>2. \A t \in Threads : Handling(t, "read", s) <=> Handling(t, "read", s)'
    BY DEF Handling
  <1>3. CASE \E t \in Threads : Handling(t, "read", s)
    <2>1. PICK t \in Threads : Handling(t, "read", s)
      BY <1>3
    <2>2. InHand("read", read, s)' = thread'[t].st
      BY <1>1, <1>2, <2>1 DEF ReadsSeen
    <2> QED
      BY <1>1, <2>1, <2>2 DEF ReadsSeen
  <1>4. CASE \A t \in Threads : ~Handling(t, "read", s)
    <2>1. InHand("read", read, s)' = read'[s]
      BY <1>1, <1>2, <1>4 DEF ReadsSeen
    <2> QED
      BY <1>1, <1>4, <2>1 DEF ReadsSeen
  <1> QED
    BY <1>3, <1>4

LEMMA WriteInHand == ServerInv => WritesSeen
  <1> SUFFICES ASSUME ServerInv, NEW s \in Session
               PROVE  /\ \A t \in Threads : Handling(t, "write", s)
                             => InHand("write", write, s) = thread[t].st
                      /\ (\A t \in Threads : ~Handling(t, "write", s))
                             => InHand("write", write, s) = write[s]
    BY DEF WritesSeen
  <1>1. \A t, u \in Threads : Handling(t, "write", s) /\ Handling(u, "write", s) => u = t
    BY DEF ServerInv, ThreadInv
  <1>2. ASSUME NEW t \in Threads, Handling(t, "write", s)
        PROVE  InHand("write", write, s) = thread[t].st
    <2>1. (CHOOSE u \in Threads : Handling(u, "write", s)) = t
      BY <1>1, <1>2
    <2> QED
      BY <1>2, <2>1 DEF InHand
  <1>3. ASSUME \A t \in Threads : ~Handling(t, "write", s)
        PROVE  InHand("write", write, s) = write[s]
    BY <1>3 DEF InHand
  <1> QED
    BY <1>2, <1>3

LEMMA WriteInHandNext == ServerInv' => WritesSeen'
  BY WriteInHand, PTL

LEMMA WriteSame ==
    ASSUME ServerInv, ServerInv', NEW s \in Session, write'[s] = write[s],
           \A t \in Threads :
               Handling(t, "write", s) \/ Handling(t, "write", s)' => thread'[t] = thread[t]
    PROVE  InHand("write", write, s)' = InHand("write", write, s)
  <1>1. WritesSeen /\ WritesSeen'
    BY WriteInHand, WriteInHandNext
  <1>2. \A t \in Threads : Handling(t, "write", s) <=> Handling(t, "write", s)'
    BY DEF Handling
  <1>3. CASE \E t \in Threads : Handling(t, "write", s)
    <2>1. PICK t \in Threads : Handling(t, "write", s)
      BY <1>3
    <2>2. InHand("write", write, s)' = thread'[t].st
      BY <1>1, <1>2, <2>1 DEF WritesSeen
    <2> QED
      BY <1>1, <2>1, <2>2 DEF WritesSeen
  <1>4. CASE \A t \in Threads : ~Handling(t, "write", s)
    <2>1. InHand("write", write, s)' = write'[s]
      BY <1>1, <1>2, <1>4 DEF WritesSeen
    <2> QED
      BY <1>1, <1>4, <2>1 DEF WritesSeen
  <1> QED
    BY <1>3, <1>4

(* The messages of a session that are with the logic thread: one more when *)
(* it posts, one less when the thread deals with one.                      *)
LEMMA AskedIsNumber ==
    ASSUME TypeOK, NEW s
    PROVE  /\ IsFiniteSet({i \in Len(dealt) + 1 .. Len(posted) : posted[i] = s})
           /\ Asked(s) \in Nat
  <1>1. Len(dealt) + 1 \in Int /\ Len(posted) \in Int
    BY LenProperties DEF TypeOK
  <1>2. IsFiniteSet(Len(dealt) + 1 .. Len(posted))
    BY <1>1, FS_Interval
  <1>3. {i \in Len(dealt) + 1 .. Len(posted) : posted[i] = s}
            \in SUBSET (Len(dealt) + 1 .. Len(posted))
    OBVIOUS
  <1>4. IsFiniteSet({i \in Len(dealt) + 1 .. Len(posted) : posted[i] = s})
    BY <1>2, <1>3, FS_Subset
  <1> QED
    BY <1>4, FS_CardinalityType DEF Asked

LEMMA AskedPost ==
    ASSUME TypeOK, QueueInv, NEW r \in Session, Logic!Post(r), NEW s
    PROVE  Asked(s)' = IF s = r THEN Asked(s) + 1 ELSE Asked(s)
  <1> DEFINE S == {i \in Len(dealt) + 1 .. Len(posted) : posted[i] = s}
             T == {i \in Len(dealt') + 1 .. Len(posted') : posted'[i] = s}
  <1>1. /\ posted \in Seq(Session) /\ Len(dealt) \in Nat /\ Len(posted) \in Nat
        /\ Len(dealt) <= Len(posted) /\ dealt' = dealt /\ posted' = Append(posted, r)
    BY LenProperties DEF TypeOK, QueueInv, Logic!Post
  <1>2. /\ Len(posted') = Len(posted) + 1 /\ posted'[Len(posted) + 1] = r
        /\ \A i \in 1 .. Len(posted) : posted'[i] = posted[i]
    BY <1>1, AppendProperties
  <1>3. \A i : i \in Len(dealt') + 1 .. Len(posted')
                   <=> i \in Len(dealt) + 1 .. Len(posted) \/ i = Len(posted) + 1
    BY <1>1, <1>2
  <1>4. \A i \in Len(dealt) + 1 .. Len(posted) : i # Len(posted) + 1 /\ posted'[i] = posted[i]
    BY <1>1, <1>2
  <1>5. IsFiniteSet(S)
    BY AskedIsNumber
  <1>6. CASE s = r
    <2>1. T = S \cup {Len(posted) + 1} /\ Len(posted) + 1 \notin S
      BY ONLY <1>2, <1>3, <1>4, <1>6
    <2>2. Cardinality(T) = Cardinality(S) + 1
      BY <1>5, <2>1, FS_AddElement
    <2> QED
      BY <1>6, <2>2 DEF Asked
  <1>7. CASE s # r
    <2>1. T = S
      BY ONLY <1>2, <1>3, <1>4, <1>7
    <2> QED
      BY <1>7, <2>1 DEF Asked
  <1> QED
    BY <1>6, <1>7

LEMMA AskedDeal ==
    ASSUME TypeOK, TypeOK', Logic!Deal, NEW s
    PROVE  /\ s = Logic!Due => Asked(s) > 0 /\ Asked(s)' = Asked(s) - 1
           /\ s # Logic!Due => Asked(s)' = Asked(s)
  <1> DEFINE S == {i \in Len(dealt) + 1 .. Len(posted) : posted[i] = s}
             T == {i \in Len(dealt') + 1 .. Len(posted') : posted'[i] = s}
  <1>1. /\ Len(dealt) \in Nat /\ Len(posted) \in Nat /\ Len(dealt) < Len(posted)
        /\ posted' = posted /\ Len(dealt') = Len(dealt) + 1
        /\ Logic!Due = posted[Len(dealt) + 1]
    BY LenProperties, AppendProperties, ElementOfSeq DEF TypeOK, Logic!Deal, Logic!Due
  <1>2. \A i : i \in Len(dealt) + 1 .. Len(posted)
                   <=> i \in Len(dealt') + 1 .. Len(posted') \/ i = Len(dealt) + 1
    BY <1>1
  <1>3. Len(dealt) + 1 \notin Len(dealt') + 1 .. Len(posted')
    BY <1>1
  <1>4. CASE s = Logic!Due
    <2>1. S = T \cup {Len(dealt) + 1} /\ Len(dealt) + 1 \notin T
      BY ONLY <1>1, <1>2, <1>3, <1>4
    <2>2. IsFiniteSet(T)
      <3>1. T \in SUBSET S /\ IsFiniteSet(S)
        BY <2>1, AskedIsNumber
      <3> QED
        BY <3>1, FS_Subset
    <2>3. Cardinality(S) = Cardinality(T) + 1 /\ Cardinality(T) \in Nat
      BY <2>1, <2>2, FS_AddElement, FS_CardinalityType
    <2>4. Asked(s) = Cardinality(S) /\ Asked(s)' = Cardinality(T)
      BY DEF Asked
    <2> HIDE DEF S, T
    <2> QED
      BY <1>4, <2>3, <2>4
  <1>5. CASE s # Logic!Due
    <2>1. T = S
      BY ONLY <1>1, <1>2, <1>3, <1>5
    <2> QED
      BY <1>5, <2>1 DEF Asked
  <1> QED
    BY <1>4, <1>5

(* What does not concern a session.                                        *)
LEMMA SessionSame ==
    ASSUME ServerInv, ServerInv', NEW s \in Session,
           StateOf(s)' = StateOf(s), Asked(s)' = Asked(s),
           read'[s] = read[s], write'[s] = write[s], send_que'[s] = send_que[s],
           \A t \in Threads : thread'[t] # thread[t] =>
               \A op \in {"read", "write"} : ~Handling(t, op, s) /\ ~Handling(t, op, s)'
    PROVE  UNCHANGED IO(s)!iovars
  <1>1. InHand("read", read, s)' = InHand("read", read, s)
    BY ReadSame
  <1>2. InHand("write", write, s)' = InHand("write", write, s)
    BY WriteSame
  <1> QED
    BY <1>1, <1>2 DEF IO!iovars

LEMMA StateSame ==
    ASSUME TypeOK, NEW s \in Session, s \in open' <=> s \in open,
           \/ UNCHANGED <<main, created>>
           \/ UNCHANGED created /\ main # "insert" /\ main' # "insert"
    PROVE  StateOf(s)' = StateOf(s)
  BY DEF StateOf, Started

LEMMA AskedSame ==
    ASSUME UNCHANGED <<posted, dealt>>, NEW s
    PROVE  Asked(s)' = Asked(s)
  BY DEF Asked

(* The acceptor makes a session, accepts it and starts it.                 *)
LEMMA AcceptIsIO ==
    ASSUME ServerInv, ServerInv', AcceptCompletes \/ HandleAccept \/ Insert, NEW s \in Session
    PROVE  [IO(s)!Next]_(IO(s)!iovars)
  <1>0. /\ TypeOK /\ AcceptInv /\ OpenInv /\ StartInv /\ created \in Session /\ created \in Nat
        /\ s \in Nat /\ read \in [Session -> OpState]
    <2>1. TypeOK /\ AcceptInv /\ OpenInv /\ StartInv
      BY DEF ServerInv
    <2> QED
      BY <2>1 DEF TypeOK, Session
  <1>1. /\ UNCHANGED <<write, send_que, thread, posted, dealt>>
        /\ Asked(s)' = Asked(s)
    <2>1. UNCHANGED <<write, send_que, thread, posted, dealt>>
      BY DEF AcceptCompletes, HandleAccept, Insert, ops, queue
    <2> QED
      BY <2>1, AskedSame
  <1>2. InHand("write", write, s)' = InHand("write", write, s)
    BY <1>1, WriteSame
  <1>3. CASE AcceptCompletes
    <2>1. /\ UNCHANGED <<main, created, read>> /\ accept = "io" /\ main # "insert"
          /\ open' = open \cup {created} \/ open' = open
      BY <1>0, <1>3 DEF AcceptCompletes, lives, AcceptInv
    <2>2. InHand("read", read, s)' = InHand("read", read, s)
      BY <1>1, <2>1, ReadSame
    <2>3. CASE s = created /\ open' = open \cup {created}
      <3>1. StateOf(s) = "new" /\ StateOf(s)' = "open"
        BY <1>0, <2>1, <2>3 DEF StateOf, Started, OpenInv
      <3> QED
        BY <1>1, <1>2, <2>2, <3>1 DEF IO!Next, IO!Accepted
    <2>4. CASE s # created \/ open' = open
      <3>1. StateOf(s)' = StateOf(s)
        BY <1>0, <2>1, <2>4, StateSame
      <3> QED
        BY <1>1, <1>2, <2>2, <3>1 DEF IO!iovars
    <2> QED
      BY <2>1, <2>3, <2>4
  <1>4. CASE HandleAccept /\ accept = "ok"
    <2>1. /\ UNCHANGED <<created, open>> /\ main = "run" /\ main' = "insert"
          /\ created \in open /\ read' = [read EXCEPT ![created] = Pending(created)]
      BY <1>0, <1>4 DEF HandleAccept, OpenInv
    <2>2. CASE s = created
      <3>1. StateOf(s) = "open" /\ StateOf(s)' = "started"
        BY <1>0, <2>1, <2>2 DEF StateOf, Started
      <3>2. ~Started(s)
        BY <1>0, <2>1, <2>2 DEF Started
      <3>3. \A t \in Threads : ~Handling(t, "read", s)'
        BY <1>0, <1>1, <3>2 DEF StartInv, Handling, Idle
      <3>4. read'[s] = "io"
        BY <1>0, <2>1, <2>2 DEF Pending
      <3>5. InHand("read", read, s)' = "io"
        BY <3>3, <3>4, ReadInHandNext DEF ReadsSeen
      <3> QED
        BY <1>1, <1>2, <3>1, <3>5 DEF IO!Next, IO!Start
    <2>3. CASE s # created
      <3>1. StateOf(s)' = StateOf(s) /\ read'[s] = read[s]
        BY <1>0, <2>1, <2>3 DEF StateOf, Started
      <3>2. InHand("read", read, s)' = InHand("read", read, s)
        BY <1>1, <3>1, ReadSame
      <3> QED
        BY <1>1, <1>2, <3>1, <3>2 DEF IO!iovars
    <2> QED
      BY <2>2, <2>3
  <1>5. CASE (HandleAccept /\ accept # "ok") \/ Insert
    <2>1. UNCHANGED <<read, open>> /\ created' = created + 1 /\ main' # "insert"
      BY <1>5 DEF HandleAccept, AcceptAgain, StartAccept, Insert, ops
    <2>2. InHand("read", read, s)' = InHand("read", read, s)
      BY <1>1, <2>1, ReadSame
    <2>3. CASE HandleAccept /\ s = created
      <3>1. StateOf(s) = "new" /\ StateOf(s)' = "closed"
        BY <1>0, <1>5, <2>1, <2>3 DEF HandleAccept, Insert, StateOf, Started, OpenInv
      <3> QED
        BY <1>1, <1>2, <2>2, <3>1 DEF IO!Next, IO!Accepted
    <2>4. CASE Insert \/ s # created
      <3>1. Started(s)' = Started(s)
        BY <1>0, <1>5, <2>1, <2>4 DEF HandleAccept, Insert, Started
      <3>2. StateOf(s)' = StateOf(s)
        BY <2>1, <3>1 DEF StateOf
      <3> QED
        BY <1>1, <1>2, <2>2, <3>2 DEF IO!iovars
    <2> QED
      BY <1>5, <2>3, <2>4
  <1> QED
    BY <1>3, <1>4, <1>5

(* Its operations complete, and are taken up by a thread.                  *)
LEMMA CompletesIsIO ==
    ASSUME ServerInv, ServerInv', NEW r \in Session, ReadCompletes(r) \/ WriteCompletes(r),
           NEW s \in Session
    PROVE  [IO(s)!Next]_(IO(s)!iovars)
  <1>0. /\ TypeOK /\ read \in [Session -> OpState] /\ write \in [Session -> OpState]
        /\ UNCHANGED <<main, created, open, send_que, thread, posted, dealt>>
    BY DEF ServerInv, TypeOK, ReadCompletes, WriteCompletes, lives, acceptor, queue
  <1>1. StateOf(s)' = StateOf(s) /\ Asked(s)' = Asked(s)
    BY <1>0, StateSame, AskedSame
  <1>2. CASE s # r
    <2>1. read'[s] = read[s] /\ write'[s] = write[s]
      BY <1>0, <1>2 DEF ReadCompletes, WriteCompletes
    <2> QED
      BY <1>0, <1>1, <2>1, SessionSame
  <1>3. CASE s = r /\ ReadCompletes(r)
    <2>1. read[s] = "io" /\ read'[s] \in {"ok", "err"} /\ UNCHANGED write
      BY <1>0, <1>3 DEF ReadCompletes
    <2>2. \A t \in Threads : ~Handling(t, "read", s) /\ ~Handling(t, "read", s)'
      BY <1>0, <2>1 DEF ServerInv, StartInv, Handling
    <2>3. InHand("read", read, s) = "io" /\ InHand("read", read, s)' \in {"ok", "err"}
      BY <2>1, <2>2, ReadInHand, ReadInHandNext DEF ReadsSeen
    <2>4. InHand("write", write, s)' = InHand("write", write, s)
      BY <1>0, <2>1, WriteSame
    <2> QED
      BY <1>0, <1>1, <2>3, <2>4 DEF IO!Next, IO!ReadCompletes
  <1>4. CASE s = r /\ WriteCompletes(r)
    <2>1. write[s] = "io" /\ write'[s] \in {"ok", "err"} /\ UNCHANGED read
      BY <1>0, <1>4 DEF WriteCompletes
    <2>2. \A t \in Threads : ~Handling(t, "write", s) /\ ~Handling(t, "write", s)'
      BY <1>0, <2>1 DEF ServerInv, ThreadInv, Handling
    <2>3. InHand("write", write, s) = "io" /\ InHand("write", write, s)' \in {"ok", "err"}
      BY <2>1, <2>2, WriteInHand, WriteInHandNext DEF WritesSeen
    <2>4. InHand("read", read, s)' = InHand("read", read, s)
      BY <1>0, <2>1, ReadSame
    <2> QED
      BY <1>0, <1>1, <2>3, <2>4 DEF IO!Next, IO!WriteCompletes
  <1> QED
    BY <1>2, <1>3, <1>4

LEMMA DispatchIsIO ==
    ASSUME ServerInv, ServerInv', NEW t \in Threads, NEW r \in Session, Dispatch(t, r), NEW s \in Session
    PROVE  UNCHANGED IO(s)!iovars
  <1>0. /\ TypeOK /\ read \in [Session -> OpState] /\ write \in [Session -> OpState]
        /\ thread \in [Threads -> Handler \cup {Idle}] /\ thread[t] = Idle
        /\ UNCHANGED <<main, created, open, send_que, posted, dealt>>
    BY DEF ServerInv, TypeOK, Dispatch, lives, acceptor, queue
  <1>1. StateOf(s)' = StateOf(s) /\ Asked(s)' = Asked(s)
    BY <1>0, StateSame, AskedSame
  <1>2. CASE /\ read[r] \in {"ok", "err"} /\ UNCHANGED write
             /\ thread' = [thread EXCEPT ![t] = [op |-> "read", of |-> r, st |-> read[r]]]
             /\ read' = [read EXCEPT ![r] = "none"]
    <2>1. InHand("write", write, s)' = InHand("write", write, s)
      BY <1>0, <1>2, WriteSame DEF Handling, Idle
    <2>2. CASE s = r
      <3>1. \A u \in Threads : ~Handling(u, "read", s)
        BY <1>2, <2>2 DEF ServerInv, StartInv
      <3>2. InHand("read", read, s) = read[s]
        BY <3>1, ReadInHand DEF ReadsSeen
      <3>3. Handling(t, "read", s)' /\ thread'[t].st = read[s]
        BY <1>0, <1>2, <2>2 DEF Handling
      <3>4. InHand("read", read, s)' = read[s]
        BY <3>3, ReadInHandNext DEF ReadsSeen
      <3> QED
        BY <1>0, <1>1, <2>1, <3>2, <3>4 DEF IO!iovars
    <2>3. CASE s # r
      <3>1. read'[s] = read[s]
        BY <1>0, <1>2, <2>3
      <3>2. \A u \in Threads :
                Handling(u, "read", s) \/ Handling(u, "read", s)' => u # t
        BY <1>0, <1>2, <2>3 DEF Handling, Idle
      <3>3. \A u \in Threads : u # t => thread'[u] = thread[u]
        BY <1>0, <1>2
      <3>4. InHand("read", read, s)' = InHand("read", read, s)
        BY <3>1, <3>2, <3>3, ReadSame
      <3> QED
        BY <1>0, <1>1, <2>1, <3>4 DEF IO!iovars
    <2> QED
      BY <2>2, <2>3
  <1>3. CASE /\ write[r] \in {"ok", "err"} /\ UNCHANGED read
             /\ thread' = [thread EXCEPT ![t] = [op |-> "write", of |-> r, st |-> write[r]]]
             /\ write' = [write EXCEPT ![r] = "none"]
    <2>1. InHand("read", read, s)' = InHand("read", read, s)
      BY <1>0, <1>3, ReadSame DEF Handling, Idle
    <2>2. CASE s = r
      <3>1. \A u \in Threads : ~Handling(u, "write", s)
        BY <1>3, <2>2 DEF ServerInv, ThreadInv
      <3>2. InHand("write", write, s) = write[s]
        BY <3>1, WriteInHand DEF WritesSeen
      <3>3. Handling(t, "write", s)' /\ thread'[t].st = write[s]
        BY <1>0, <1>3, <2>2 DEF Handling
      <3>4. InHand("write", write, s)' = write[s]
        BY <3>3, WriteInHandNext DEF WritesSeen
      <3> QED
        BY <1>0, <1>1, <2>1, <3>2, <3>4 DEF IO!iovars
    <2>3. CASE s # r
      <3>1. write'[s] = write[s]
        BY <1>0, <1>3, <2>3
      <3>2. \A u \in Threads :
                Handling(u, "write", s) \/ Handling(u, "write", s)' => u # t
        BY <1>0, <1>3, <2>3 DEF Handling, Idle
      <3>3. \A u \in Threads : u # t => thread'[u] = thread[u]
        BY <1>0, <1>3
      <3>4. InHand("write", write, s)' = InHand("write", write, s)
        BY <3>1, <3>2, <3>3, WriteSame
      <3> QED
        BY <1>0, <1>1, <2>1, <3>4 DEF IO!iovars
    <2> QED
      BY <2>2, <2>3
  <1> QED
    BY <1>2, <1>3 DEF Dispatch

(* Its handlers.  Those of other sessions do not touch it.                 *)
LEMMA HandlerOfOther ==
    ASSUME ServerInv, ServerInv', NEW t \in Threads, HandleRead(t) \/ HandleWrite(t),
           NEW s \in Session, s # thread[t].of
    PROVE  UNCHANGED IO(s)!iovars
  <1>0. /\ TypeOK /\ QueueInv /\ read \in [Session -> OpState] /\ write \in [Session -> OpState]
        /\ thread \in [Threads -> Handler \cup {Idle}] /\ thread[t] # Idle
        /\ UNCHANGED <<main, created>> /\ thread' = [thread EXCEPT ![t] = Idle]
        /\ send_que \in [Session -> 0 .. MAX_SENDQUE + 1]
    <2>1. /\ TypeOK /\ QueueInv /\ read \in [Session -> OpState] /\ write \in [Session -> OpState]
          /\ thread \in [Threads -> Handler \cup {Idle}]
          /\ send_que \in [Session -> 0 .. MAX_SENDQUE + 1]
      BY DEF ServerInv, TypeOK
    <2>2. /\ UNCHANGED <<main, created>> /\ thread' = [thread EXCEPT ![t] = Idle]
          /\ thread[t].op \in {"read", "write"}
      BY DEF HandleRead, HandleWrite, lives
    <2>3. thread[t] # Idle
      BY <2>2 DEF Idle
    <2> QED
      BY <2>1, <2>2, <2>3
  <1>1. PICK r \in Session : r = thread[t].of
    BY <1>0 DEF Handler
  <1>2. (s \in open' <=> s \in open) /\ read'[s] = read[s] /\ write'[s] = write[s]
        /\ send_que'[s] = send_que[s]
    BY <1>0, <1>1 DEF HandleRead, HandleWrite, CloseAndClear, Aborted
  <1>3. Asked(s)' = Asked(s)
    <2>1. CASE Logic!Post(r)
      BY <1>0, <1>1, <2>1, AskedPost
    <2>2. CASE UNCHANGED <<posted, dealt>>
      BY <2>2, AskedSame
    <2> QED
      BY <1>1, <2>1, <2>2 DEF HandleRead, HandleWrite, PostMsgToQue, queue
  <1>4. \A u \in Threads : thread'[u] # thread[u] =>
            \A op \in {"read", "write"} : ~Handling(u, op, s) /\ ~Handling(u, op, s)'
    BY <1>0 DEF Handling, Idle
  <1> QED
    BY <1>0, <1>2, <1>3, <1>4, StateSame, SessionSame

LEMMA ReadHandlerIsIO ==
    ASSUME ServerInv, ServerInv', NEW t \in Threads, HandleRead(t), NEW s \in Session, s = thread[t].of
    PROVE  IO(s)!Next
  <1>0. /\ TypeOK /\ QueueInv /\ read \in [Session -> OpState] /\ write \in [Session -> OpState]
        /\ thread \in [Threads -> Handler \cup {Idle}] /\ thread[t] # Idle
        /\ UNCHANGED <<main, created, send_que>> /\ thread' = [thread EXCEPT ![t] = Idle]
        /\ Handling(t, "read", s) /\ Started(s) /\ thread[t].st \in {"ok", "err"}
    BY DEF ServerInv, TypeOK, HandleRead, lives, acceptor, Idle, Handler, StartInv, Handling
  <1>1. read[s] = "none" /\ \A u \in Threads : Handling(u, "read", s) => u = t
    BY <1>0 DEF ServerInv, StartInv
  <1>2. \A u \in Threads : ~Handling(u, "read", s)'
    BY <1>0, <1>1 DEF Handling, Idle
  <1>3. InHand("read", read, s) = thread[t].st /\ InHand("read", read, s)' = read'[s]
    BY <1>0, <1>2, ReadInHand, ReadInHandNext DEF ReadsSeen
  <1>4. CASE thread[t].st = "ok"
    <2>1. /\ Logic!Post(s) /\ UNCHANGED <<open, write>>
          /\ read' = [read EXCEPT ![s] = Pending(s)]
      BY <1>4 DEF HandleRead, PostMsgToQue
    <2>2. Asked(s)' = Asked(s) + 1
      BY <1>0, <2>1, AskedPost
    <2>3. StateOf(s)' = StateOf(s)
      BY <1>0, <2>1, StateSame
    <2>4. InHand("write", write, s)' = InHand("write", write, s)
      BY <1>0, <2>1, WriteSame DEF Handling, Idle
    <2>5. read'[s] = IF StateOf(s) = "started" THEN "io" ELSE "err"
      BY <1>0, <2>1 DEF StateOf, Pending
    <2> QED
      BY <1>0, <1>3, <1>4, <2>2, <2>3, <2>4, <2>5 DEF IO!Next, IO!Post, IO!Begun
  <1>5. CASE thread[t].st = "err"
    <2>1. /\ open' = open \ {s} /\ UNCHANGED <<posted, dealt>>
          /\ read' = Aborted(read, s) /\ write' = Aborted(write, s)
      BY <1>5 DEF HandleRead, CloseAndClear, queue
    <2>2. Asked(s)' = Asked(s)
      BY <2>1, AskedSame
    <2>3. StateOf(s)' = "closed"
      BY <1>0, <2>1 DEF StateOf, Started
    <2>4. read'[s] = "none"
      BY <1>0, <1>1, <2>1 DEF Aborted
    <2>5. InHand("write", write, s)' =
              IF InHand("write", write, s) = "io" THEN "err" ELSE InHand("write", write, s)
      <3>1. \A u \in Threads : Handling(u, "write", s)' <=> Handling(u, "write", s)
        BY <1>0 DEF Handling, Idle
      <3>2. CASE \E u \in Threads : Handling(u, "write", s)
        <4>1. PICK u \in Threads : Handling(u, "write", s)
          BY <3>2
        <4>2. thread'[u] = thread[u] /\ thread[u].st # "io"
          BY <1>0, <4>1 DEF Handling, Handler, Idle
        <4> QED
          BY <3>1, <4>1, <4>2, WriteInHand, WriteInHandNext DEF WritesSeen
      <3>3. CASE \A u \in Threads : ~Handling(u, "write", s)
        <4>1. InHand("write", write, s) = write[s] /\ InHand("write", write, s)' = write'[s]
          BY <3>1, <3>3, WriteInHand, WriteInHandNext DEF WritesSeen
        <4> QED
          BY <1>0, <2>1, <4>1 DEF Aborted
      <3> QED
        BY <3>2, <3>3
    <2> QED
      BY <1>0, <1>3, <1>5, <2>2, <2>3, <2>4, <2>5 DEF IO!Next, IO!Close, IO!Aborted
  <1> QED
    BY <1>0, <1>4, <1>5

LEMMA WriteHandlerIsIO ==
    ASSUME ServerInv, ServerInv', NEW t \in Threads, HandleWrite(t), NEW s \in Session, s = thread[t].of
    PROVE  IO(s)!Next
  <1>0. /\ TypeOK /\ read \in [Session -> OpState] /\ write \in [Session -> OpState]
        /\ thread \in [Threads -> Handler \cup {Idle}] /\ thread[t] # Idle
        /\ UNCHANGED <<main, created, posted, dealt>> /\ thread' = [thread EXCEPT ![t] = Idle]
        /\ Handling(t, "write", s) /\ Started(s) /\ thread[t].st \in {"ok", "err"}
        /\ send_que \in [Session -> 0 .. MAX_SENDQUE + 1]
    <2>1. /\ TypeOK /\ read \in [Session -> OpState] /\ write \in [Session -> OpState]
          /\ thread \in [Threads -> Handler \cup {Idle}]
          /\ send_que \in [Session -> 0 .. MAX_SENDQUE + 1]
      BY DEF ServerInv, TypeOK
    <2>2. /\ UNCHANGED <<main, created, posted, dealt>>
          /\ thread[t].op = "write" /\ thread' = [thread EXCEPT ![t] = Idle]
      BY DEF HandleWrite, lives, queue
    <2>3. thread[t] # Idle /\ Handling(t, "write", s) /\ thread[t].st \in {"ok", "err"}
      BY <2>1, <2>2 DEF Idle, Handler, Handling
    <2>4. Started(s)
      BY <2>3 DEF ServerInv, StartInv
    <2> QED
      BY <2>1, <2>2, <2>3, <2>4
  <1>1. write[s] = "none" /\ \A u \in Threads : Handling(u, "write", s) => u = t
    BY <1>0 DEF ServerInv, ThreadInv
  <1>2. \A u \in Threads : ~Handling(u, "write", s)'
    BY <1>0, <1>1 DEF Handling, Idle
  <1>3. InHand("write", write, s) = thread[t].st /\ InHand("write", write, s)' = write'[s]
    BY <1>0, <1>2, WriteInHand, WriteInHandNext DEF WritesSeen
  <1>a. Asked(s)' = Asked(s)
    BY <1>0, AskedSame
  <1>4. CASE thread[t].st = "ok"
    <2>1. /\ UNCHANGED <<open, read>>
          /\ send_que' = [send_que EXCEPT ![s] = @ - 1]
          /\ write' = IF send_que[s] > 1 THEN [write EXCEPT ![s] = Pending(s)] ELSE write
      BY <1>4 DEF HandleWrite
    <2>2. StateOf(s)' = StateOf(s)
      BY <1>0, <2>1, StateSame
    <2>3. InHand("read", read, s)' = InHand("read", read, s)
      BY <1>0, <2>1, ReadSame DEF Handling, Idle
    <2>4. write'[s] = IF send_que[s] > 1 THEN IF StateOf(s) = "started" THEN "io" ELSE "err"
                                         ELSE "none"
      BY <1>0, <1>1, <2>1 DEF StateOf, Pending
    <2>5. send_que'[s] = send_que[s] - 1
      BY <1>0, <2>1
    <2> QED
      BY <1>3, <1>4, <1>a, <2>2, <2>3, <2>4, <2>5 DEF IO!Next, IO!WriteNext, IO!Begun
  <1>5. CASE thread[t].st = "err"
    <2>1. /\ open' = open \ {s} /\ UNCHANGED send_que
          /\ read' = Aborted(read, s) /\ write' = Aborted(write, s)
      BY <1>5 DEF HandleWrite, CloseAndClear
    <2>3. StateOf(s)' = "closed"
      BY <1>0, <2>1 DEF StateOf, Started
    <2>4. write'[s] = "none"
      BY <1>0, <1>1, <2>1 DEF Aborted
    <2>5. InHand("read", read, s)' =
              IF InHand("read", read, s) = "io" THEN "err" ELSE InHand("read", read, s)
      <3>1. \A u \in Threads : Handling(u, "read", s)' <=> Handling(u, "read", s)
        BY <1>0 DEF Handling, Idle
      <3>2. CASE \E u \in Threads : Handling(u, "read", s)
        <4>1. PICK u \in Threads : Handling(u, "read", s)
          BY <3>2
        <4>2. thread'[u] = thread[u] /\ thread[u].st # "io"
          BY <1>0, <4>1 DEF Handling, Handler, Idle
        <4> QED
          BY <3>1, <4>1, <4>2, ReadInHand, ReadInHandNext DEF ReadsSeen
      <3>3. CASE \A u \in Threads : ~Handling(u, "read", s)
        <4>1. InHand("read", read, s) = read[s] /\ InHand("read", read, s)' = read'[s]
          BY <3>1, <3>3, ReadInHand, ReadInHandNext DEF ReadsSeen
        <4> QED
          BY <1>0, <2>1, <4>1 DEF Aborted
      <3> QED
        BY <3>2, <3>3
    <2> QED
      BY <1>3, <1>5, <1>a, <2>1, <2>3, <2>4, <2>5 DEF IO!Next, IO!Close, IO!Aborted
  <1> QED
    BY <1>0, <1>4, <1>5

(* The logic thread deals with its message, and may queue the answer.      *)
LEMMA DealIsIO ==
    ASSUME ServerInv, ServerInv', Deal, NEW s \in Session
    PROVE  [IO(s)!Next]_(IO(s)!iovars)
  <1>0. /\ TypeOK /\ TypeOK' /\ write \in [Session -> OpState] /\ MAX_SENDQUE \in Nat
        /\ send_que \in [Session -> 0 .. MAX_SENDQUE + 1]
        /\ UNCHANGED <<main, created, open, read, thread, posted>> /\ Logic!Deal
    BY ServerAssumption DEF ServerInv, TypeOK, Deal, lives, acceptor, Logic!Deal, ServerAssumption
  <1>1. StateOf(s)' = StateOf(s)
    BY <1>0, StateSame
  <1>2. InHand("read", read, s)' = InHand("read", read, s)
    BY <1>0, ReadSame
  <1>3. PICK r : r = Logic!Due
    OBVIOUS
  <1>4. \/ UNCHANGED <<send_que, write>>
        \/ /\ send_que[r] <= MAX_SENDQUE
           /\ send_que' = [send_que EXCEPT ![r] = @ + 1]
           /\ write' = IF send_que[r] = 0 THEN [write EXCEPT ![r] = Pending(r)] ELSE write
    BY <1>3 DEF Deal, Send, NoAnswer
  <1>5. CASE s # r
    <2>1. Asked(s)' = Asked(s)
      BY <1>0, <1>3, <1>5, AskedDeal
    <2>2. send_que'[s] = send_que[s] /\ write'[s] = write[s]
      BY <1>0, <1>4, <1>5
    <2> QED
      BY <1>0, <1>1, <2>1, <2>2, SessionSame
  <1>6. CASE s = r
    <2>1. Asked(s) > 0 /\ Asked(s)' = Asked(s) - 1
      BY <1>0, <1>3, <1>6, AskedDeal
    <2>2. Started(s)
      <3>1. Len(dealt) + 1 \in 1 .. Len(posted) /\ s = posted[Len(dealt) + 1]
        BY <1>0, <1>3, <1>6, LenProperties DEF TypeOK, Logic!Deal, Logic!Due
      <3> QED
        BY <3>1 DEF ServerInv, StartInv
    <2>3. CASE UNCHANGED <<send_que, write>>
      <3>1. InHand("write", write, s)' = InHand("write", write, s)
        BY <1>0, <2>3, WriteSame
      <3> QED
        BY <1>1, <1>2, <2>1, <2>3, <3>1 DEF IO!Next, IO!Deal
    <2>4. CASE /\ send_que[s] <= MAX_SENDQUE
               /\ send_que' = [send_que EXCEPT ![s] = @ + 1]
               /\ write' = IF send_que[s] = 0 THEN [write EXCEPT ![s] = Pending(s)] ELSE write
      <3>1. send_que[s] <= MAX_SENDQUE /\ send_que'[s] = send_que[s] + 1
        BY <1>0, <2>4
      <3>2. InHand("write", write, s)' =
                IF send_que[s] = 0 THEN IF StateOf(s) = "started" THEN "io" ELSE "err"
                                   ELSE InHand("write", write, s)
        <4>1. CASE send_que[s] = 0
          <5>1. \A t \in Threads : ~Handling(t, "write", s)
            BY <1>0, <4>1 DEF ServerInv, ThreadInv
          <5>2. InHand("write", write, s)' = write'[s]
            BY <1>0, <5>1, WriteInHandNext DEF WritesSeen, Handling
          <5> QED
            BY <1>0, <2>2, <2>4, <4>1, <5>2 DEF Pending, StateOf
        <4>2. CASE send_que[s] # 0
          BY <1>0, <2>4, <4>2, WriteSame
        <4> QED
          BY <4>1, <4>2
      <3>3. IO(s)!Send
        BY <3>1, <3>2 DEF IO!Send, IO!Begun
      <3> QED
        BY <1>1, <1>2, <2>1, <3>3 DEF IO!Next, IO!Deal
    <2> QED
      BY <1>4, <1>6, <2>3, <2>4
  <1> QED
    BY <1>5, <1>6

(* The end of the process is no step of a session.                         *)
LEMMA EndIsNoIO ==
    ASSUME ServerInv, ServerInv', NEW s \in Session,
           \/ ClientConnects \/ Signal \/ LeaveMain \/ StopPool \/ JoinPool
           \/ CloseQueue \/ StopQueue \/ SpuriousWakeup \/ JoinWorker \/ Exit
    PROVE  UNCHANGED IO(s)!iovars
  <1>1. UNCHANGED <<created, open, read, write, send_que, thread, posted, dealt>>
    BY DEF ClientConnects, Signal, LeaveMain, StopPool, JoinPool, CloseQueue, StopQueue,
       SpuriousWakeup, JoinWorker,
       Exit, acceptor, ops, queue, Logic!Close
  <1>2. UNCHANGED main \/ (main # "insert" /\ main' # "insert")
    BY DEF ClientConnects, Signal, LeaveMain, StopPool, JoinPool, CloseQueue, StopQueue,
       SpuriousWakeup, JoinWorker,
       Exit, lives
  <1>3. StateOf(s)' = StateOf(s) /\ Asked(s)' = Asked(s)
    BY <1>1, <1>2, StateSame, AskedSame DEF ServerInv
  <1> QED
    BY <1>1, <1>3, SessionSame

LEMMA StepIsIO ==
    ServerInv /\ ServerInv' /\ [Next]_vars => \A s \in Session : [IO(s)!Next]_(IO(s)!iovars)
  <1> SUFFICES ASSUME ServerInv, ServerInv', [Next]_vars, NEW s \in Session
               PROVE  [IO(s)!Next]_(IO(s)!iovars)
    OBVIOUS
  <1>1. CASE UNCHANGED process
    <2>1. UNCHANGED <<main, created, open, read, write, send_que, thread, posted, dealt>>
      BY <1>1 DEF process, lives, acceptor, ops, queue
    <2>2. StateOf(s)' = StateOf(s) /\ Asked(s)' = Asked(s)
      BY <2>1, StateSame, AskedSame DEF ServerInv
    <2> QED
      BY <2>1, <2>2, SessionSame
  <1>2. ASSUME NEW t \in Threads, Run(t) PROVE [IO(s)!Next]_(IO(s)!iovars)
    <2>1. CASE s # thread[t].of /\ (HandleRead(t) \/ HandleWrite(t))
      BY <2>1, HandlerOfOther
    <2>2. CASE s = thread[t].of /\ (HandleRead(t) \/ HandleWrite(t))
      BY <2>2, ReadHandlerIsIO, WriteHandlerIsIO
    <2>3. CASE \E r \in Session : Dispatch(t, r)
      BY <2>3, DispatchIsIO
    <2> QED
      BY <1>2, <2>1, <2>2, <2>3 DEF Run
  <1>3. CASE Step
    BY <1>2, <1>3, AcceptIsIO, CompletesIsIO, DealIsIO, EndIsNoIO DEF Step, Main, Worker
  <1> QED
    BY <1>1, <1>3 DEF Next, CallBackThrows, NegativeLength, Terminate, vars

(* Whatever the pool's threads, the acceptor and the one logic thread do   *)
(* between them, every step is of each session a step of it or none.       *)
THEOREM SessionsAsIO == Safety => SessionsKept
  <1>1. Safety => []ServerInv
    BY InductiveInvariant
  <1>2. ServerInv /\ ServerInv' /\ [Next]_vars => [\A s \in Session : [IO(s)!Next]_(IO(s)!iovars)]_vars
    BY StepIsIO
  <1> QED
    BY <1>1, <1>2, PTL DEF Safety, SessionsKept

(* With their beginning, each session is a SessionIO as CSession is one.   *)
THEOREM SessionsAreIO == Safety => SessionsSafety
  <1> SUFFICES ASSUME NEW s \in Session PROVE Safety => IO(s)!Safety
    BY DEF SessionsSafety
  <1>1. Init => IO(s)!Init
    <2> SUFFICES ASSUME Init PROVE IO(s)!Init
      OBVIOUS
    <2>1. ~Started(s) /\ open = {} /\ \A t \in Threads : thread[t].op = "none"
      BY DEF Init, Started, Session, Idle
    <2>2. Asked(s) = 0
      <3>1. {i \in Len(dealt) + 1 .. Len(posted) : posted[i] = s} = {}
        BY DEF Init, Logic!Init
      <3> QED
        BY <3>1, FS_EmptySet DEF Asked
    <2>3. InHand("read", read, s) = "none" /\ InHand("write", write, s) = "none"
      BY <2>1 DEF Init, InHand, Handling
    <2> QED
      BY <2>1, <2>2, <2>3 DEF Init, IO!Init, StateOf
  <1>2. Safety => []ServerInv
    BY InductiveInvariant
  <1>3. ServerInv /\ ServerInv' /\ [Next]_vars => [IO(s)!Next]_(IO(s)!iovars)
    BY StepIsIO
  <1> QED
    BY <1>1, <1>2, <1>3, PTL DEF Safety, IO!Safety
=============================================================================
