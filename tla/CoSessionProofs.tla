--------------------------- MODULE CoSessionProofs ---------------------------
(***************************************************************************)
(* Theorems about one session of coroutineServer: one writer at most, and  *)
(* the refinement of asynServer's session.                                 *)
(***************************************************************************)
EXTENDS CoSession, CSessionProofs

(* The invariant but for the end of the process, which changes nothing     *)
(* else.                                                                   *)
CoCore == CoSessionOK /\ CoInv

LEMMA CoInitIInv == CoInit => CoSessionInv
  <1> SUFFICES ASSUME CoInit PROVE CoSessionInv
    OBVIOUS
  <1>1. TypeOK
    BY InitIInv DEF CoInit, SessionInv
  <1>2. CoTypeOK
    BY <1>1 DEF CoInit, CoTypeOK, CoSessionOK, TypeOK
  <1> QED
    BY <1>2 DEF CoInit, Init, CoSessionInv, CoInv, OneWriterOfTheFront, NoRead

(* What has not changed keeps its part of the invariant.                   *)
LEMMA CoSendingUnchanged ==
    ASSUME OneWriterOfTheFront, UNCHANGED <<send_que, writes, starting>>
    PROVE  OneWriterOfTheFront'
  BY DEF OneWriterOfTheFront

(* A close aborts the one write there may be.                              *)
LEMMA CoClose ==
    ASSUME CoCore, NEW r \in {NoRead, read}, NEW W \in SUBSET writes, Close(r, W),
           UNCHANGED <<send_que, starting>>
    PROVE  /\ OneWriterOfTheFront'
           /\ writes' \in SUBSET Write
           /\ \A v \in writes' : v.st # "io"
           /\ read' \in ReadOp
           /\ read'.op = "body" => read.op = "body"
           /\ r = NoRead => read' = NoRead
           /\ m_socket' = "closed"
  <1>1. SessionOK /\ OneWriterOfTheFront
    BY DEF CoCore, CoInv, CoSessionOK
  <1>2. \A v \in writes' : \E w \in W :
           /\ v = Aborted(w) /\ v \in Write /\ v.node = w.node /\ v.st # "io"
    <2> SUFFICES ASSUME NEW v \in writes'
                 PROVE  \E w \in W : /\ v = Aborted(w) /\ v \in Write
                                     /\ v.node = w.node /\ v.st # "io"
      OBVIOUS
    <2>1. PICK w \in W : v = Aborted(w)
      BY DEF Close
    <2>2. w \in Write
      BY <1>1 DEF SessionOK
    <2> QED
      BY <2>1, <2>2, AbortedWrite
  <1>3. \A v, w \in writes : v = w
    BY <1>1 DEF OneWriterOfTheFront
  <1>4. \A v \in writes' : writes' = {v}
    BY <1>2, <1>3
  <1>5. starting # {} => writes' = {}
    BY <1>1, <1>2 DEF OneWriterOfTheFront
  <1>6. OneWriterOfTheFront'
    BY <1>1, <1>2, <1>4, <1>5 DEF OneWriterOfTheFront
  <1>7. NoRead \in ReadOp /\ NoRead.op = "none"
    BY DEF NoRead, ReadOp
  <1>8. read' \in ReadOp /\ (read'.op = "body" => read.op = "body") /\ (r = NoRead => read' = NoRead)
    BY <1>1, <1>7, AbortedRead DEF SessionOK, Close
  <1> QED
    BY <1>2, <1>6, <1>8 DEF Close

LEMMA StartWriteIInv ==
    ASSUME CoCore, NEW s \in starting, StartWrite(s)
    PROVE  CoCore'
  <1> DEFINE u == AsyncWrite(s.node)
  <1>1. SessionOK /\ OneWriterOfTheFront /\ s.node \in Nat \ {0}
    BY DEF CoCore, CoInv, CoSessionOK
  <1>2. /\ u \in Write /\ u.node = s.node /\ u.sent = 0
        /\ u.st = "io" => m_socket = "open"
    BY <1>1, AsyncWriteTyped
  <1>3. /\ starting = {s} /\ writes = {} /\ send_que # <<>> /\ s.node = Head(send_que)
    BY <1>1 DEF OneWriterOfTheFront
  <1>4. writes' = {u} /\ starting' = {}
    BY <1>3 DEF StartWrite
  <1> HIDE DEF u
  <1>5. /\ accept' = accept /\ in_sessions' = in_sessions /\ late' = late
        /\ m_socket' = m_socket /\ peer' = peer /\ read' = read /\ body' = body
        /\ frames' = frames /\ logic_que' = logic_que /\ send_que' = send_que
        /\ accepted' = accepted /\ dropped' = dropped /\ wire' = wire /\ looping' = looping
    BY DEF StartWrite, acceptor, receiving
  <1>6. CoSessionOK'
    BY <1>2, <1>4, <1>5 DEF CoCore, CoInv, CoSessionOK, SessionOK
  <1>7. OneWriterOfTheFront'
    BY <1>2, <1>3, <1>4, <1>5 DEF OneWriterOfTheFront
  <1>8. \A v \in writes' : v.st = "io" => v.sent < Parts
    BY <1>2, <1>4, SessionAssumption DEF SessionAssumption
  <1> QED
    BY <1>5, <1>6, <1>7, <1>8 DEF CoCore, CoInv, Early

LEMMA CoHandleWriteIInv ==
    ASSUME CoCore, NEW w \in writes, CoHandleWrite(w)
    PROVE  CoCore'
  <1>1. SessionOK /\ OneWriterOfTheFront
    BY DEF CoCore, CoInv, CoSessionOK
  <1>2. writes = {w} /\ starting = {} /\ send_que # <<>> /\ w.node = Head(send_que)
    BY <1>1 DEF OneWriterOfTheFront
  <1>3. ~Early /\ ~looping
    BY <1>2 DEF CoCore, CoInv, CoHandleWrite
  <1>4. /\ peer' = peer /\ body' = body /\ frames' = frames /\ logic_que' = logic_que
        /\ accepted' = accepted /\ dropped' = dropped /\ wire' = wire /\ looping' = looping
    BY DEF CoHandleWrite
  <1>5. CASE w.st = "ok"
    <2>1. /\ send_que' = Tail(send_que) /\ starting' = StartNext(send_que') /\ writes' = {}
          /\ accept' = accept /\ in_sessions' = in_sessions /\ late' = late
          /\ m_socket' = m_socket /\ read' = read
      BY <1>2, <1>5 DEF CoHandleWrite, Pop, acceptor
    <2>2. send_que \in Seq(Nat \ {0}) /\ send_que' \in Seq(Nat \ {0})
      BY <1>1, <1>2, <2>1, HeadTailProperties DEF SessionOK
    <2>3. CASE send_que' = <<>>
      <3>1. starting' = {}
        BY <2>1, <2>3 DEF StartNext
      <3>2. CoSessionOK'
        BY <1>4, <2>1, <2>2, <3>1 DEF CoCore, CoInv, CoSessionOK, SessionOK
      <3>3. OneWriterOfTheFront'
        BY <2>1, <3>1 DEF OneWriterOfTheFront
      <3> QED
        BY <1>3, <1>4, <2>1, <3>2, <3>3 DEF CoCore, CoInv, Early
    <2>4. CASE send_que' # <<>>
      <3>1. starting' = {[by |-> "pool", node |-> Head(send_que')]}
        BY <2>1, <2>4 DEF StartNext
      <3>2. starting' \in SUBSET [by : {"worker", "pool"}, node : Nat \ {0}]
        <4>1. Head(send_que') \in Nat \ {0}
          BY <2>2, <2>4, HeadTailProperties
        <4> QED
          BY <3>1, <4>1
      <3>3. CoSessionOK'
        BY <1>4, <2>1, <2>2, <3>1, <3>2 DEF CoCore, CoInv, CoSessionOK, SessionOK
      <3>4. OneWriterOfTheFront'
        BY <2>1, <2>4, <3>1 DEF OneWriterOfTheFront
      <3> QED
        BY <1>3, <1>4, <2>1, <3>3, <3>4 DEF CoCore, CoInv, Early
    <2> QED
      BY <2>3, <2>4
  <1>6. CASE w.st # "ok"
    <2>1. Close(read, writes \ {w}) /\ ClearSession /\ UNCHANGED <<send_que, starting>>
      BY <1>6 DEF CoHandleWrite
    <2>2. /\ OneWriterOfTheFront' /\ writes' \in SUBSET Write
          /\ \A v \in writes' : v.st # "io"
          /\ read' \in ReadOp /\ (read'.op = "body" => read.op = "body")
          /\ m_socket' = "closed"
      BY <2>1, CoClose
    <2>3. CoSessionOK'
      BY <1>4, <2>1, <2>2 DEF CoCore, CoInv, CoSessionOK, SessionOK, ClearSession
    <2> QED
      BY <1>3, <1>4, <2>1, <2>2, <2>3 DEF CoCore, CoInv, Early, ClearSession
  <1> QED
    BY <1>5, <1>6

LEMMA CoDealMsgIInv ==
    ASSUME CoCore, CoDealMsg
    PROVE  CoCore'
  <1>1. SessionOK /\ OneWriterOfTheFront
    BY DEF CoCore, CoInv, CoSessionOK
  <1>2. /\ accept' = accept /\ in_sessions' = in_sessions /\ late' = late
        /\ m_socket' = m_socket /\ peer' = peer /\ read' = read /\ body' = body
        /\ frames' = frames /\ writes' = writes /\ wire' = wire /\ looping' = looping
        /\ logic_que # <<>> /\ logic_que' = Tail(logic_que)
    BY DEF CoDealMsg, acceptor, receiving
  <1>3. ~Early
    BY <1>2 DEF CoCore, CoInv
  <1>4. logic_que' \in Seq(Nat \ {0})
    BY <1>1, <1>2, HeadTailProperties DEF SessionOK
  <1> DEFINE h == body[Head(logic_que)]
             Starting == SUBSET [by : {"worker", "pool"}, node : Nat \ {0}]
  <1>5. /\ send_que' \in Seq(Nat \ {0}) /\ accepted' \in Seq(1 .. MaxFrames)
        /\ dropped' \in SUBSET (1 .. MaxFrames) /\ starting' \in Starting
        /\ OneWriterOfTheFront'
    <2>1. CASE UNCHANGED <<send_que, accepted, starting>> /\ dropped' = dropped
      BY <1>1, <1>2, <2>1, CoSendingUnchanged DEF SessionOK, CoCore, CoInv, CoSessionOK
    <2>2. CASE h \in Registered /\ SendQueFull
      <3>1. UNCHANGED <<send_que, accepted, starting>> /\ dropped' = dropped \cup {h}
        BY <2>2 DEF CoDealMsg, CoSend
      <3>2. h \in 1 .. MaxFrames
        BY <2>2, SessionAssumption DEF SessionAssumption
      <3> HIDE DEF h
      <3> QED
        BY <1>1, <1>2, <3>1, <3>2, CoSendingUnchanged DEF SessionOK, CoCore, CoInv, CoSessionOK
    <2>3. CASE h \in Registered /\ ~SendQueFull
      <3>0. PICK n \in Nat \ {0} : n = Len(accepted) + 1
        BY <1>1 DEF SessionOK
      <3>1. /\ accepted' = Append(accepted, h) /\ dropped' = dropped
            /\ send_que' = Append(send_que, Len(accepted'))
            /\ starting' = starting \cup StartFirst(send_que')
        BY <2>3 DEF CoDealMsg, CoSend
      <3>2. h \in 1 .. MaxFrames
        BY <2>3, SessionAssumption DEF SessionAssumption
      <3> HIDE DEF h
      <3>3. accepted' \in Seq(1 .. MaxFrames) /\ Len(accepted') = n
        BY <1>1, <3>0, <3>1, <3>2, AppendProperties DEF SessionOK
      <3>4. send_que \in Seq(Nat \ {0}) /\ send_que' = Append(send_que, n)
        BY <1>1, <3>1, <3>3 DEF SessionOK
      <3>5. /\ send_que' \in Seq(Nat \ {0}) /\ send_que' # <<>>
            /\ Len(send_que') = Len(send_que) + 1
        BY <3>4, AppendProperties
      <3>6. dropped' \in SUBSET (1 .. MaxFrames)
        BY <1>1, <3>1 DEF SessionOK
      <3>7. CASE send_que = <<>>
        <4>1. writes = {} /\ starting = {}
          BY <1>1, <3>7 DEF OneWriterOfTheFront
        <4>2. Len(send_que') = 1 /\ Head(send_que') = n
          BY <3>4, <3>7
        <4>3. starting' = {[by |-> "worker", node |-> n]}
          BY <3>1, <4>1, <4>2 DEF StartFirst
        <4>4. starting' \in Starting
          BY <4>3
        <4>5. OneWriterOfTheFront'
          BY <1>2, <3>5, <4>1, <4>2, <4>3 DEF OneWriterOfTheFront
        <4> QED
          BY <3>3, <3>5, <3>6, <4>4, <4>5
      <3>8. CASE send_que # <<>>
        <4>1. Len(send_que') > 1 /\ Head(send_que') = Head(send_que)
          BY <3>4, <3>5, <3>8
        <4>2. starting' = starting
          BY <3>1, <4>1 DEF StartFirst
        <4>3. OneWriterOfTheFront'
          BY <1>1, <1>2, <3>5, <3>8, <4>1, <4>2 DEF OneWriterOfTheFront
        <4>4. starting' \in Starting
          BY <4>2 DEF CoCore, CoInv, CoSessionOK
        <4> QED
          BY <3>3, <3>5, <3>6, <4>3, <4>4
      <3> QED
        BY <3>7, <3>8
    <2> QED
      BY <2>1, <2>2, <2>3 DEF CoDealMsg
  <1>6. CoSessionOK'
    BY <1>1, <1>2, <1>4, <1>5 DEF CoCore, CoInv, CoSessionOK, SessionOK
  <1> QED
    BY <1>2, <1>3, <1>5, <1>6 DEF CoCore, CoInv, Early

(* The coroutine's steps, and what they leave alone.                       *)
LEMMA ResumeIInv ==
    ASSUME CoCore, Loop \/ CoReadHead \/ CoReadMsg
    PROVE  CoCore'
  <1>1. SessionOK /\ OneWriterOfTheFront
    BY DEF CoCore, CoInv, CoSessionOK
  <1>r. NoRead \in ReadOp /\ NoRead.op = "none"
    BY DEF NoRead, ReadOp
  <1>2. /\ peer' = peer /\ frames' = frames /\ send_que' = send_que /\ accepted' = accepted
        /\ dropped' = dropped /\ wire' = wire /\ starting' = starting
    BY DEF Loop, CoReadHead, HandleReadHead, CoReadMsg
  <1>3. ~Early
    BY <1>r DEF CoCore, CoInv, Loop, CoReadHead, HandleReadHead, CoReadMsg, Early
  <1>4. looping' \in BOOLEAN
    BY DEF Loop, CoReadHead, CoReadMsg, CoCore, CoInv, CoSessionOK
  <1>5. CASE Close(NoRead, writes) /\ ClearSession /\ body' = body /\ logic_que' = logic_que
             /\ (looping' = looping \/ looping' = FALSE)
    <2>1. /\ OneWriterOfTheFront' /\ writes' \in SUBSET Write
          /\ \A v \in writes' : v.st # "io"
          /\ read' = NoRead /\ m_socket' = "closed"
      BY <1>2, <1>5, CoClose
    <2>2. CoSessionOK'
      BY <1>1, <1>r, <1>2, <1>4, <1>5, <2>1 DEF CoSessionOK, SessionOK, ClearSession, CoCore, CoInv
    <2> QED
      BY <1>r, <1>3, <1>5, <2>1, <2>2 DEF CoCore, CoInv, Early, ClearSession
  <1>6. CASE /\ UNCHANGED <<acceptor, m_socket, writes>>
             /\ read' \in ReadOp /\ (read'.op = "body" => body' # <<>>)
             /\ body' \in Seq(0 .. MaxFrames) /\ logic_que' \in Seq(Nat \ {0})
             /\ looping' => read' = NoRead
    <2>1. OneWriterOfTheFront'
      BY <1>1, <1>2, <1>6, CoSendingUnchanged
    <2>2. CoSessionOK'
      BY <1>1, <1>2, <1>4, <1>6 DEF CoSessionOK, SessionOK, acceptor, CoCore, CoInv
    <2>3. accept' = accept /\ accept \in {"insert", "accepted"}
      BY <1>1, <1>3, <1>6 DEF acceptor, SessionOK, Early
    <2> QED
      BY <1>3, <1>6, <2>1, <2>2, <2>3 DEF CoCore, CoInv, Early
  <1>7. CASE Loop
    <2>1. CASE m_socket = "closed"
      BY <1>5, <1>7, <2>1 DEF Loop, Leave
    <2>2. CASE m_socket # "closed"
      <3>1. /\ UNCHANGED <<acceptor, m_socket, writes>> /\ AsyncRead("head")
            /\ body' = body /\ logic_que' = logic_que /\ looping' = FALSE
        BY <1>7, <2>2 DEF Loop, Start
      <3>2. read' \in ReadOp /\ read'.op = "head"
        BY <3>1, AsyncReadTyped
      <3> QED
        BY <1>1, <1>6, <3>1, <3>2 DEF SessionOK
    <2> QED
      BY <2>1, <2>2
  <1>8. CASE CoReadHead
    <2>0. ~looping /\ looping' = looping
      BY <1>8, <1>r DEF CoReadHead, HandleReadHead, CoCore, CoInv
    <2>1. CASE read.st = "ok"
      <3>1. /\ UNCHANGED <<acceptor, m_socket, writes>> /\ AsyncRead("body")
            /\ body' = Append(body, 0) /\ logic_que' = logic_que
        BY <1>8, <2>1 DEF CoReadHead, HandleReadHead, NewRecvNode
      <3>2. read' \in ReadOp
        BY <3>1, AsyncReadTyped
      <3>3. body' \in Seq(0 .. MaxFrames) /\ body' # <<>>
        <4>1. 0 \in 0 .. MaxFrames
          BY SessionAssumption DEF SessionAssumption
        <4>2. body \in Seq(0 .. MaxFrames) /\ body' = Append(body, 0)
          BY <1>1, <3>1 DEF SessionOK
        <4> QED
          BY ONLY <4>1, <4>2, AppendProperties
      <3> QED
        BY <1>1, <1>6, <2>0, <3>1, <3>2, <3>3 DEF SessionOK
    <2>2. CASE read.st # "ok"
      BY <1>5, <1>8, <2>0, <2>2 DEF CoReadHead, HandleReadHead
    <2> QED
      BY <2>1, <2>2
  <1>9. CASE CoReadMsg
    <2>1. CASE read.st = "ok"
      <3>1. /\ UNCHANGED <<acceptor, m_socket, writes>> /\ read' = NoRead /\ body' = body
            /\ logic_que' = Append(logic_que, Len(body)) /\ read.op = "body"
        BY <1>9, <2>1 DEF CoReadMsg
      <3>2. Len(body) \in Nat \ {0}
        BY <1>1, <3>1 DEF SessionOK, CoCore, CoInv
      <3>3. logic_que' \in Seq(Nat \ {0})
        BY <1>1, <3>1, <3>2, AppendProperties DEF SessionOK
      <3> QED
        BY <1>1, <1>r, <1>6, <3>1, <3>3 DEF SessionOK
    <2>2. CASE read.st # "ok"
      BY <1>5, <1>9, <2>2 DEF CoReadMsg, Leave
    <2> QED
      BY <2>1, <2>2
  <1> QED
    BY <1>7, <1>8, <1>9

(* The actions that know nothing of the coroutine.                         *)
LEMMA KernelIInv ==
    ASSUME CoCore, Kernel \/ CoAcceptCompletes \/ CoInsert
    PROVE  CoCore'
  <1>1. SessionOK /\ OneWriterOfTheFront
    BY DEF CoCore, CoInv, CoSessionOK
  <1>o. looping' = looping /\ starting' = starting
    BY DEF Kernel, CoAcceptCompletes, CoInsert, OwnUnchanged
  <1>r. NoRead \in ReadOp /\ NoRead.op = "none"
    BY DEF NoRead, ReadOp
  <1>2. CASE AcceptCompletes \/ Insert \/ PeerCloses
    <2>1. /\ read' = read /\ body' = body /\ frames' = frames /\ logic_que' = logic_que
          /\ send_que' = send_que /\ writes' = writes /\ accepted' = accepted
          /\ dropped' = dropped /\ wire' = wire /\ late' = late
      BY <1>2 DEF AcceptCompletes, Insert, PeerCloses, acceptor, receiving, sending
    <2>2. /\ accept' \in {"accepting", "start", "insert", "accepted", "failed"}
          /\ in_sessions' \in BOOLEAN /\ m_socket' \in {"new", "open", "closed"}
          /\ peer' \in {"open", "closed"}
          /\ Early' => Early
          /\ looping => accept' \in {"insert", "accepted"}
      BY <1>1, <1>2
      DEF AcceptCompletes, Insert, PeerCloses, acceptor, SessionOK, CoCore, CoInv, Early
    <2>3. CoSessionOK'
      BY <1>1, <1>o, <2>1, <2>2 DEF CoCore, CoInv, CoSessionOK, SessionOK
    <2>4. OneWriterOfTheFront'
      BY <1>1, <1>o, <2>1, CoSendingUnchanged
    <2> QED
      BY <1>o, <2>1, <2>2, <2>3, <2>4 DEF CoCore, CoInv
  <1>3. CASE ReadFails \/ BodyArrives \/ \E st \in {"ok", "bad", "negative"} : HeadArrives(st)
    <2>1. /\ accept' = accept /\ in_sessions' = in_sessions /\ late' = late
          /\ m_socket' = m_socket /\ peer' = peer /\ logic_que' = logic_que
          /\ send_que' = send_que /\ writes' = writes /\ accepted' = accepted
          /\ dropped' = dropped /\ wire' = wire
          /\ read.op # "none"
      BY <1>3 DEF ReadFails, BodyArrives, HeadArrives, acceptor, sending
    <2>2. /\ read' \in ReadOp /\ read'.op = read.op
      BY <1>1, <1>3 DEF ReadFails, BodyArrives, HeadArrives, SessionOK, ReadOp
    <2>3. /\ body' \in Seq(0 .. MaxFrames) /\ frames' \in 0 .. MaxFrames
          /\ read.op = "body" => body' # <<>>
      <3>1. CASE body' = body /\ frames' = frames
        BY <1>1, <3>1 DEF SessionOK, CoCore, CoInv
      <3>2. CASE BodyArrives
        <4>1. /\ body # <<>> /\ frames < MaxFrames /\ frames' = frames + 1
              /\ body' = [body EXCEPT ![Len(body)] = frames + 1]
          BY <3>2 DEF BodyArrives, CoCore, CoInv
        <4>2. body \in Seq(0 .. MaxFrames) /\ Len(body) \in 1 .. Len(body) /\ Len(body) > 0
          BY <1>1, <4>1 DEF SessionOK
        <4>3. frames + 1 \in 0 .. MaxFrames
          BY <1>1, <4>1, SessionAssumption DEF SessionOK, SessionAssumption
        <4>4. body' \in Seq(0 .. MaxFrames) /\ Len(body') = Len(body)
          BY <4>1, <4>2, <4>3, ExceptSeq
        <4> QED
          BY <4>1, <4>2, <4>3, <4>4
      <3> QED
        BY <1>3, <3>1, <3>2 DEF ReadFails, HeadArrives
    <2>4. ~looping /\ ~Early
      BY <1>r, <2>1 DEF CoCore, CoInv
    <2>5. CoSessionOK'
      BY <1>1, <1>o, <2>1, <2>2, <2>3 DEF CoCore, CoInv, CoSessionOK, SessionOK
    <2>6. OneWriterOfTheFront'
      BY <1>1, <1>o, <2>1, CoSendingUnchanged
    <2> QED
      BY <1>o, <2>1, <2>2, <2>3, <2>4, <2>5, <2>6 DEF CoCore, CoInv, Early
  <1>4. ASSUME NEW w \in writes, Transmit(w) \/ WriteFails(w)
        PROVE  CoCore'
    <2>1. /\ w \in Write /\ writes = {w} /\ starting = {} /\ send_que # <<>>
          /\ w.node = Head(send_que) /\ w.st = "io" /\ w.sent < Parts
      BY <1>1, <1>4 DEF SessionOK, OneWriterOfTheFront, CoCore, CoInv, Transmit, WriteFails
    <2>2. PICK u \in Write : /\ writes' = {u} /\ u.node = w.node
                             /\ u.st = "io" => u.sent < Parts
      <3>1. CASE Transmit(w)
        <4>1. /\ Advanced(w) \in Write /\ Advanced(w).node = w.node
              /\ Advanced(w).st = "io" => Advanced(w).sent < Parts
          BY <2>1, SessionAssumption DEF SessionAssumption, Write, Advanced
        <4>2. writes' = {Advanced(w)}
          BY <2>1, <3>1 DEF Transmit
        <4> QED
          BY <4>1, <4>2
      <3>2. CASE WriteFails(w)
        <4> DEFINE v == [w EXCEPT !.st = "err"]
        <4>1. v \in Write /\ v.node = w.node /\ v.st = "err"
          BY <2>1 DEF Write
        <4>2. writes' = {v}
          BY <2>1, <3>2 DEF WriteFails
        <4> HIDE DEF v
        <4> QED
          BY <4>1, <4>2
      <3> QED
        BY <1>4, <3>1, <3>2
    <2>3. /\ accept' = accept /\ in_sessions' = in_sessions /\ late' = late
          /\ m_socket' = m_socket /\ peer' = peer /\ read' = read /\ body' = body
          /\ frames' = frames /\ logic_que' = logic_que /\ send_que' = send_que
          /\ accepted' = accepted /\ dropped' = dropped
      BY <1>4 DEF Transmit, WriteFails, acceptor, receiving
    <2>4. wire' \in Seq(Part)
      <3>1. CASE Transmit(w)
        <4>1. [node |-> w.node, part |-> w.sent + 1] \in Part
          BY <2>1, SessionAssumption DEF SessionAssumption, Part, Write
        <4>2. wire \in Seq(Part) /\ wire' = Append(wire, [node |-> w.node, part |-> w.sent + 1])
          BY <1>1, <3>1 DEF Transmit, SessionOK
        <4> QED
          BY <4>1, <4>2, AppendProperties
      <3>2. CASE WriteFails(w)
        BY <1>1, <3>2 DEF WriteFails, SessionOK
      <3> QED
        BY <1>4, <3>1, <3>2
    <2>5. CoSessionOK'
      BY <1>1, <1>o, <2>2, <2>3, <2>4 DEF CoCore, CoInv, CoSessionOK, SessionOK
    <2>6. OneWriterOfTheFront'
      BY <1>o, <2>1, <2>2, <2>3 DEF OneWriterOfTheFront
    <2> QED
      BY <1>o, <2>2, <2>3, <2>5, <2>6 DEF CoCore, CoInv, Early
  <1> QED
    BY <1>2, <1>3, <1>4 DEF Kernel, CoAcceptCompletes, CoInsert, Writing

LEMMA CoStepCore == CoCore /\ [CoStep]_cosession => CoCore'
  <1> SUFFICES ASSUME CoCore, [CoStep]_cosession PROVE CoCore'
    OBVIOUS
  <1>1. SessionOK /\ OneWriterOfTheFront
    BY DEF CoCore, CoInv, CoSessionOK
  <1>2. CASE CoStartSession
    <2>1. /\ accept = "start" /\ accept' = "insert" /\ looping' = TRUE
          /\ in_sessions' = in_sessions /\ late' = late
          /\ m_socket' = m_socket /\ peer' = peer /\ read' = read /\ body' = body
          /\ frames' = frames /\ logic_que' = logic_que /\ send_que' = send_que
          /\ writes' = writes /\ accepted' = accepted /\ dropped' = dropped
          /\ wire' = wire /\ starting' = starting
      BY <1>2 DEF CoStartSession, receiving, sending
    <2>2. CoSessionOK'
      BY <1>1, <2>1 DEF CoCore, CoInv, CoSessionOK, SessionOK
    <2>3. OneWriterOfTheFront'
      BY <1>1, <2>1, CoSendingUnchanged
    <2> QED
      BY <2>1, <2>2, <2>3 DEF CoCore, CoInv, Early
  <1>3. CASE UNCHANGED cosession
    <2>1. /\ accept' = accept /\ in_sessions' = in_sessions /\ late' = late
          /\ m_socket' = m_socket /\ peer' = peer /\ read' = read /\ body' = body
          /\ frames' = frames /\ logic_que' = logic_que /\ send_que' = send_que
          /\ writes' = writes /\ accepted' = accepted /\ dropped' = dropped
          /\ wire' = wire /\ starting' = starting /\ looping' = looping
      BY <1>3 DEF cosession, session, acceptor, receiving, sending
    <2>2. CoSessionOK'
      BY <1>1, <2>1 DEF CoCore, CoInv, CoSessionOK, SessionOK
    <2>3. OneWriterOfTheFront'
      BY <1>1, <2>1, CoSendingUnchanged
    <2> QED
      BY <2>1, <2>2, <2>3 DEF CoCore, CoInv, Early
  <1> QED
    BY <1>2, <1>3, KernelIInv, ResumeIInv, CoHandleWriteIInv, StartWriteIInv, CoDealMsgIInv
    DEF CoStep, Resume

(* The end of the process changes nothing in the session.                  *)
LEMMA CoNextIsStep == [CoNext]_covars => [CoStep]_cosession
  BY DEF CoNext, Survive, CoNegativeLength, CoCallBackThrows, NegativeLength, CallBackThrows,
         Terminate, covars, vars, cosession

LEMMA CoNextIInv == CoSessionInv /\ [CoNext]_covars => CoSessionInv'
  <1> SUFFICES ASSUME CoSessionInv, [CoNext]_covars PROVE CoSessionInv'
    OBVIOUS
  <1>1. CoCore'
    BY CoNextIsStep, CoStepCore DEF CoSessionInv, CoTypeOK, CoCore
  <1>2. terminated' \in BOOLEAN
    BY DEF CoNext, Survive, CoNegativeLength, CoCallBackThrows, NegativeLength, CallBackThrows,
           Terminate, covars, vars, CoSessionInv, CoTypeOK
  <1> QED
    BY <1>1, <1>2 DEF CoSessionInv, CoTypeOK, CoCore

(* Of the async_writes pending or decided on there is one at most, of the  *)
(* front of m_send_que, although m_send_lock is released in between.       *)
THEOREM CoInductiveInvariant == CoSafety => []CoSessionInv
  BY CoInitIInv, CoNextIInv, PTL DEF CoSafety

(* It follows that no second async_write is ever started on the socket.    *)
THEOREM CoOneWriter == CoSafety => []OneWriterOfTheFront
  <1>1. CoSessionInv => OneWriterOfTheFront
    BY DEF CoSessionInv, CoInv
  <1> QED
    BY <1>1, CoInductiveInvariant, PTL

-----------------------------------------------------------------------------
(* The refinement.  What is decided on counts as pending; a close aborts   *)
(* both alike.                                                             *)
LEMMA WritingSame ==
    ASSUME m_socket' = m_socket, UNCHANGED <<writes, starting>>
    PROVE  writing' = writing
  BY DEF writing, AsyncWrite, Pending

LEMMA ReadingSame ==
    ASSUME m_socket' = m_socket, UNCHANGED <<read, looping>>
    PROVE  reading' = reading
  BY DEF reading, Pending

LEMMA CloseIsClose ==
    ASSUME NEW r, NEW W, Close(r, W), starting' = starting, ~looping',
           NEW V, V = W \cup {AsyncWrite(s.node) : s \in starting}
    PROVE  Async!Close(r, V)
  <1>1. m_socket' = "closed" /\ writes' = {Aborted(w) : w \in W}
        /\ reading' = IF r = NoRead THEN NoRead ELSE Aborted(r)
    BY DEF Close, reading
  <1>2. \A n : Aborted(AsyncWrite(n)) = [node |-> n, sent |-> 0, st |-> "err"]
    BY DEF Aborted, AsyncWrite, Pending
  <1>3. \A n : AsyncWrite(n)' = [node |-> n, sent |-> 0, st |-> "err"]
    BY <1>1 DEF AsyncWrite, Pending
  <1>4. writing' = {Aborted(w) : w \in W} \cup {Aborted(AsyncWrite(s.node)) : s \in starting}
    BY <1>1, <1>2, <1>3 DEF writing
  <1>5. writing' = {Aborted(v) : v \in V}
    BY <1>4
  <1>6. \A op : Async!Aborted(op) = Aborted(op)
    BY DEF Aborted, Async!Aborted
  <1>7. Async!NoRead = NoRead
    BY DEF NoRead, Async!NoRead
  <1> QED
    BY <1>1, <1>5, <1>6, <1>7 DEF Async!Close

LEMMA KernelIsKernel ==
    ASSUME CoCore, Kernel \/ CoAcceptCompletes \/ CoInsert
    PROVE  Async!Step
  <1>1. OneWriterOfTheFront /\ SessionOK /\ looping' = looping /\ starting' = starting
    BY DEF CoCore, CoInv, CoSessionOK, Kernel, CoAcceptCompletes, CoInsert, OwnUnchanged
  <1>r. NoRead.op = "none"
    BY DEF NoRead
  <1>2. CASE AcceptCompletes
    <2>1. looping = FALSE /\ send_que = <<>>
      BY <1>2 DEF AcceptCompletes, CoCore, CoInv, CoSessionOK, Early
    <2>2. starting = {}
      BY <1>1, <2>1 DEF OneWriterOfTheFront
    <2>3. read' = read /\ writes' = writes
      BY <1>2 DEF AcceptCompletes, receiving, sending
    <2>4. reading' = reading /\ writing' = writing
      BY <1>1, <2>1, <2>2, <2>3 DEF reading, writing
    <2>5. Async!AcceptCompletes
      BY <1>2, <2>4 DEF AcceptCompletes, Async!AcceptCompletes, receiving, sending,
                        Async!receiving, Async!sending
    <2> QED
      BY <2>5 DEF Async!Step
  <1>3. CASE Insert \/ PeerCloses
    <2>1. m_socket' = m_socket /\ read' = read /\ writes' = writes
      BY <1>3 DEF Insert, PeerCloses, receiving, sending
    <2>2. reading' = reading /\ writing' = writing
      BY <1>1, <2>1, ReadingSame, WritingSame
    <2>3. Async!Insert \/ Async!PeerCloses
      BY <1>3, <2>2 DEF Insert, PeerCloses, acceptor, receiving, sending,
                        Async!Insert, Async!PeerCloses, Async!acceptor, Async!receiving, Async!sending
    <2> QED
      BY <2>3 DEF Async!Step, Async!HandleAccept
  <1>4. CASE ReadFails \/ BodyArrives \/ \E st \in {"ok", "bad", "negative"} : HeadArrives(st)
    <2>1. m_socket' = m_socket /\ writes' = writes /\ read.op # "none"
      BY <1>4 DEF ReadFails, BodyArrives, HeadArrives, sending
    <2>2. ~looping
      BY <1>r, <2>1 DEF CoCore, CoInv
    <2>3. reading = read /\ reading' = read' /\ writing' = writing
      BY <1>1, <2>1, <2>2, WritingSame DEF reading
    <2>4. Async!ReadFails \/ Async!BodyArrives \/ \E st \in {"ok", "bad", "negative"} : Async!HeadArrives(st)
      BY <1>4, <2>3 DEF ReadFails, BodyArrives, HeadArrives, acceptor, sending, Async!acceptor,
                        Async!ReadFails, Async!BodyArrives, Async!HeadArrives, Async!sending
    <2> QED
      BY <2>4 DEF Async!Step
  <1>5. ASSUME NEW w \in writes, Transmit(w) \/ WriteFails(w)
        PROVE  Async!Step
    <2>1. starting = {}
      BY <1>1 DEF OneWriterOfTheFront
    <2>2. writing = writes /\ writing' = writes'
      BY <1>1, <2>1 DEF writing
    <2>3. m_socket' = m_socket /\ read' = read
      BY <1>5 DEF Transmit, WriteFails, receiving
    <2>4. reading' = reading
      BY <1>1, <2>3, ReadingSame
    <2>5. Async!Transmit(w) \/ Async!WriteFails(w)
      BY <1>5, <2>2, <2>4 DEF Transmit, WriteFails, acceptor, receiving, Advanced, Async!Advanced,
                              Async!Transmit, Async!WriteFails, Async!acceptor, Async!receiving
    <2> QED
      BY <2>2, <2>5 DEF Async!Step, Async!Writing
  <1> QED
    BY <1>2, <1>3, <1>4, <1>5 DEF Kernel, CoAcceptCompletes, CoInsert, Writing

LEMMA ResumeIsRead ==
    ASSUME CoCore, Loop \/ CoReadHead \/ CoReadMsg
    PROVE  Async!Step \/ UNCHANGED Async!session
  <1>1. /\ peer' = peer /\ frames' = frames /\ send_que' = send_que /\ accepted' = accepted
        /\ dropped' = dropped /\ wire' = wire /\ starting' = starting
    BY DEF Loop, CoReadHead, HandleReadHead, CoReadMsg
  <1>r. NoRead.op = "none"
    BY DEF NoRead
  <1>c. Async!NoRead = NoRead
    BY DEF NoRead, Async!NoRead
  <1>2. ASSUME Close(NoRead, writes), ~looping'
        PROVE  Async!Close(Async!NoRead, writing)
    BY <1>1, <1>2, <1>c, CloseIsClose DEF writing
  <1>3. CASE Loop
    <2>1. CASE m_socket = "closed"
      <3>1. /\ looping /\ looping' = FALSE /\ Close(NoRead, writes) /\ ClearSession
            /\ body' = body /\ logic_que' = logic_que
        BY <1>3, <2>1 DEF Loop, Leave
      <3>2. reading = [op |-> "head", st |-> "err"]
        BY <2>1, <3>1 DEF reading, Pending
      <3>3. Async!ClearSession
        BY <3>1 DEF ClearSession, Async!ClearSession
      <3>4. Async!Close(Async!NoRead, writing)
        BY <1>2, <3>1
      <3>5. Async!HandleReadHead
        BY <1>1, <3>1, <3>2, <3>3, <3>4 DEF Async!HandleReadHead
      <3> QED
        BY <3>5 DEF Async!Step, Async!Handlers
    <2>2. CASE m_socket # "closed"
      <3>1. /\ looping /\ looping' = FALSE /\ UNCHANGED <<acceptor, m_socket, writes>>
            /\ read' = [op |-> "head", st |-> Pending]
            /\ body' = body /\ logic_que' = logic_que
        BY <1>3, <2>2 DEF Loop, Start, AsyncRead
      <3>2. reading' = reading
        BY <3>1 DEF reading
      <3>3. writing' = writing
        BY <1>1, <3>1, WritingSame
      <3>4. UNCHANGED Async!session
        BY <1>1, <3>1, <3>2, <3>3 DEF Async!session, Async!acceptor, Async!receiving,
                                      Async!sending, acceptor
      <3> QED
        BY <3>4
    <2> QED
      BY <2>1, <2>2
  <1>4. CASE CoReadHead
    <2>0. ~looping /\ ~looping'
      BY <1>4, <1>r DEF CoReadHead, HandleReadHead, CoCore, CoInv
    <2>1. reading = read /\ reading' = read'
      BY <2>0 DEF reading
    <2>2. CASE read.st = "ok"
      <3>1. /\ UNCHANGED <<acceptor, m_socket, writes>>
            /\ read' = [op |-> "body", st |-> Pending] /\ read.op = "head"
            /\ body' = Append(body, 0) /\ logic_que' = logic_que
        BY <1>4, <2>2 DEF CoReadHead, HandleReadHead, NewRecvNode, AsyncRead
      <3>2. writing' = writing
        BY <1>1, <3>1, WritingSame
      <3>3. Async!AsyncRead("body")
        BY <2>1, <3>1 DEF Async!AsyncRead, Pending, Async!Pending
      <3>4. Async!HandleReadHead
        BY <1>1, <2>1, <2>2, <3>1, <3>2, <3>3
        DEF Async!HandleReadHead, Async!NewRecvNode, Async!acceptor, acceptor
      <3> QED
        BY <3>4 DEF Async!Step, Async!Handlers
    <2>3. CASE read.st # "ok"
      <3>1. /\ Close(NoRead, writes) /\ ClearSession /\ body' = body /\ logic_que' = logic_que
            /\ read.op = "head" /\ read.st \notin {"io", "negative"}
        BY <1>4, <2>3 DEF CoReadHead, HandleReadHead
      <3>2. Async!ClearSession
        BY <3>1 DEF ClearSession, Async!ClearSession
      <3>3. Async!Close(Async!NoRead, writing)
        BY <1>2, <2>0, <3>1
      <3>4. Async!HandleReadHead
        BY <1>1, <2>1, <2>3, <3>1, <3>2, <3>3 DEF Async!HandleReadHead
      <3> QED
        BY <3>4 DEF Async!Step, Async!Handlers
    <2> QED
      BY <2>2, <2>3
  <1>5. CASE CoReadMsg
    <2>0. ~looping /\ reading = read /\ read.op = "body" /\ read.st \in {"ok", "err"} /\ body' = body
      BY <1>5, <1>r DEF CoReadMsg, CoCore, CoInv, reading
    <2>1. CASE read.st = "ok"
      <3>1. /\ UNCHANGED <<acceptor, m_socket, writes>> /\ looping' = TRUE
            /\ logic_que' = Append(logic_que, Len(body))
        BY <1>5, <2>1 DEF CoReadMsg
      <3>2. writing' = writing
        BY <1>1, <3>1, WritingSame
      <3>3. Async!Start
        BY <3>1 DEF Async!Start, Async!AsyncRead, reading, Pending, Async!Pending
      <3>4. Async!HandleReadMsg
        BY <1>1, <2>0, <2>1, <3>1, <3>2, <3>3 DEF Async!HandleReadMsg, Async!acceptor, acceptor
      <3> QED
        BY <3>4 DEF Async!Step, Async!Handlers
    <2>2. CASE read.st # "ok"
      <3>1. /\ Close(NoRead, writes) /\ ClearSession /\ logic_que' = logic_que /\ ~looping'
        BY <1>5, <2>0, <2>2 DEF CoReadMsg, Leave
      <3>2. Async!ClearSession
        BY <3>1 DEF ClearSession, Async!ClearSession
      <3>3. Async!Close(Async!NoRead, writing)
        BY <1>2, <3>1
      <3>4. Async!HandleReadMsg
        BY <1>1, <2>0, <2>2, <3>1, <3>2, <3>3 DEF Async!HandleReadMsg
      <3> QED
        BY <3>4 DEF Async!Step, Async!Handlers
    <2> QED
      BY <2>1, <2>2
  <1> QED
    BY <1>3, <1>4, <1>5

(* A decision counts as its write, so starting that write is a stutter.    *)
LEMMA StartWriteIsStutter ==
    ASSUME CoCore, NEW s \in starting, StartWrite(s)
    PROVE  UNCHANGED Async!session
  <1>1. starting = {s} /\ writes = {}
    BY DEF CoCore, CoInv, OneWriterOfTheFront
  <1>2. /\ m_socket' = m_socket /\ starting' = {} /\ writes' = {AsyncWrite(s.node)}
        /\ read' = read /\ looping' = looping
    BY <1>1 DEF StartWrite, receiving
  <1>3. writing' = writing
    BY <1>1, <1>2 DEF writing
  <1>4. reading' = reading
    BY <1>2, ReadingSame
  <1>5. /\ accept' = accept /\ in_sessions' = in_sessions /\ late' = late /\ peer' = peer
        /\ body' = body /\ frames' = frames /\ logic_que' = logic_que /\ send_que' = send_que
        /\ accepted' = accepted /\ dropped' = dropped /\ wire' = wire
    BY DEF StartWrite, acceptor, receiving
  <1> QED
    BY <1>2, <1>3, <1>4, <1>5 DEF Async!session, Async!acceptor, Async!receiving, Async!sending

LEMMA OneMoreWrite ==
    ASSUME NEW S, NEW thread, NEW n
    PROVE  {AsyncWrite(s.node) : s \in S \cup {[by |-> thread, node |-> n]}}
           = {AsyncWrite(s.node) : s \in S} \cup {AsyncWrite(n)}
  <1> DEFINE t == [by |-> thread, node |-> n]
  <1>1. t.node = n
    OBVIOUS
  <1> HIDE DEF t
  <1>2. {AsyncWrite(s.node) : s \in S \cup {t}}
        = {AsyncWrite(s.node) : s \in S} \cup {AsyncWrite(t.node)}
    OBVIOUS
  <1> QED
    BY <1>1, <1>2 DEF t

LEMMA CoHandleWriteIsHandleWrite ==
    ASSUME CoCore, NEW w \in writes, CoHandleWrite(w)
    PROVE  Async!Step
  <1>1. starting = {} /\ writes = {w} /\ ~looping /\ looping' = looping
    BY DEF CoCore, CoInv, OneWriterOfTheFront, CoHandleWrite
  <1>2. reading = read /\ reading' = read' /\ writing = writes
    BY <1>1 DEF reading, writing
  <1>3. /\ peer' = peer /\ body' = body /\ frames' = frames /\ logic_que' = logic_que
        /\ accepted' = accepted /\ dropped' = dropped /\ wire' = wire /\ w.st # "io"
    BY DEF CoHandleWrite
  <1>4. CASE w.st = "ok"
    <2>1. /\ send_que' = Tail(send_que) /\ starting' = StartNext(send_que') /\ writes' = {}
          /\ UNCHANGED <<acceptor, m_socket, read>>
      BY <1>1, <1>4 DEF CoHandleWrite, Pop
    <2>2. writing' = Async!NextWrite(send_que')
      <3>1. CASE send_que' = <<>>
        BY <2>1, <3>1 DEF writing, StartNext, Async!NextWrite
      <3>2. CASE send_que' # <<>>
        <4>1. starting' = {[by |-> "pool", node |-> Head(send_que')]}
          BY <2>1, <3>2 DEF StartNext
        <4>2. writing' = {[node |-> Head(send_que'), sent |-> 0, st |-> Pending]}
          <5>1. \A n : AsyncWrite(n)' = AsyncWrite(n)
            BY <2>1 DEF AsyncWrite, Pending
          <5>2. writing' = {AsyncWrite(s.node) : s \in {} \cup starting'}
            BY <2>1, <5>1 DEF writing
          <5>3. writing' = {AsyncWrite(Head(send_que'))}
            BY <4>1, <5>2, OneMoreWrite
          <5> QED
            BY <5>3 DEF AsyncWrite
        <4>3. Async!NextWrite(send_que') = {[node |-> Head(send_que'), sent |-> 0, st |-> Pending]}
          BY <3>2 DEF Async!NextWrite, Async!AsyncWrite, Async!Pending, Pending
        <4> QED
          BY <4>2, <4>3
      <3> QED
        BY <3>1, <3>2
    <2>3. writing' = (writing \ {w}) \cup Async!NextWrite(send_que')
      BY <1>1, <1>2, <2>2
    <2>4. Async!HandleWrite(w)
      BY <1>2, <1>3, <1>4, <2>1, <2>3 DEF Async!HandleWrite, Async!Pop, Async!acceptor, acceptor
    <2> QED
      BY <1>1, <1>2, <2>4 DEF Async!Step, Async!Handlers
  <1>5. CASE w.st # "ok"
    <2>1. /\ Close(read, writes \ {w}) /\ ClearSession
          /\ send_que' = send_que /\ starting' = starting
      BY <1>5 DEF CoHandleWrite
    <2>2. Async!Close(reading, writing \ {w})
      <3>1. writing \ {w} = (writes \ {w}) \cup {AsyncWrite(s.node) : s \in starting}
        BY <1>1, <1>2
      <3> QED
        BY <1>1, <1>2, <2>1, <3>1, CloseIsClose
    <2>3. Async!ClearSession
      BY <2>1 DEF ClearSession, Async!ClearSession
    <2>4. Async!HandleWrite(w)
      BY <1>3, <1>5, <2>1, <2>2, <2>3 DEF Async!HandleWrite
    <2> QED
      BY <1>1, <1>2, <2>4 DEF Async!Step, Async!Handlers
  <1> QED
    BY <1>4, <1>5

LEMMA CoDealMsgIsDealMsg ==
    ASSUME CoCore, CoDealMsg
    PROVE  Async!Step
  <1>1. /\ accept' = accept /\ in_sessions' = in_sessions /\ late' = late
        /\ m_socket' = m_socket /\ peer' = peer /\ read' = read /\ body' = body
        /\ frames' = frames /\ writes' = writes /\ wire' = wire /\ looping' = looping
        /\ logic_que # <<>> /\ logic_que' = Tail(logic_que)
        /\ body[Head(logic_que)] \notin Throwing
    BY DEF CoDealMsg, acceptor, receiving
  <1>2. reading' = reading
    BY <1>1, ReadingSame
  <1> DEFINE h == body[Head(logic_que)]
  <1>3. CASE h \in Registered
    <2>1. CASE SendQueFull
      <3>1. /\ dropped' = dropped \cup {h}
            /\ send_que' = send_que /\ accepted' = accepted /\ starting' = starting
        BY <1>3, <2>1 DEF CoDealMsg, CoSend
      <3>2. writing' = writing
        BY <1>1, <3>1, WritingSame
      <3>3. Async!SendQueFull
        BY <2>1 DEF SendQueFull, Async!SendQueFull
      <3>4. Async!Send(h)
        BY <3>1, <3>2, <3>3 DEF Async!Send
      <3> QED
        BY <1>1, <1>2, <1>3, <3>4 DEF Async!Step, Async!DealMsg, Async!acceptor, Async!receiving
    <2>2. CASE ~SendQueFull
      <3>1. /\ dropped' = dropped /\ accepted' = Append(accepted, h)
            /\ send_que' = Append(send_que, Len(accepted'))
            /\ starting' = starting \cup StartFirst(send_que')
        BY <1>3, <2>2 DEF CoDealMsg, CoSend
      <3>2. writing' = writing \cup Async!FirstWrite(send_que')
        <4>1. \A n : AsyncWrite(n)' = AsyncWrite(n) /\ Async!AsyncWrite(n) = AsyncWrite(n)
          BY <1>1 DEF AsyncWrite, Pending, Async!AsyncWrite, Async!Pending
        <4>2. CASE Len(send_que') > 1
          <5>1. starting' = starting
            BY <3>1, <4>2 DEF StartFirst
          <5> QED
            BY <1>1, <4>2, <5>1, WritingSame DEF Async!FirstWrite
        <4>3. CASE ~(Len(send_que') > 1)
          <5>1. starting' = starting \cup {[by |-> "worker", node |-> Head(send_que')]}
            BY <3>1, <4>3 DEF StartFirst
          <5>2. writing' = writes \cup {AsyncWrite(s.node) : s \in starting'}
            BY <1>1, <4>1 DEF writing
          <5>3. {AsyncWrite(s.node) : s \in starting'}
                = {AsyncWrite(s.node) : s \in starting} \cup {AsyncWrite(Head(send_que'))}
            BY <5>1, OneMoreWrite
          <5>4. writing' = writing \cup {AsyncWrite(Head(send_que'))}
            BY <5>2, <5>3 DEF writing
          <5>5. Async!FirstWrite(send_que') = {AsyncWrite(Head(send_que'))}
            BY <4>1, <4>3 DEF Async!FirstWrite
          <5> QED
            BY <5>4, <5>5
        <4> QED
          BY <4>2, <4>3
      <3>3. ~Async!SendQueFull
        BY <2>2 DEF SendQueFull, Async!SendQueFull
      <3>4. Async!Send(h)
        BY <3>1, <3>2, <3>3 DEF Async!Send
      <3> QED
        BY <1>1, <1>2, <1>3, <3>4 DEF Async!Step, Async!DealMsg, Async!acceptor, Async!receiving
    <2> QED
      BY <2>1, <2>2
  <1>4. CASE h \notin Registered
    <2>1. /\ send_que' = send_que /\ accepted' = accepted /\ dropped' = dropped
          /\ starting' = starting
      BY <1>4 DEF CoDealMsg
    <2>2. writing' = writing
      BY <1>1, <2>1, WritingSame
    <2> QED
      BY <1>1, <1>2, <1>4, <2>1, <2>2 DEF Async!Step, Async!DealMsg, Async!acceptor, Async!receiving
  <1> QED
    BY <1>3, <1>4

LEMMA CoStartIsStart ==
    ASSUME CoCore, CoStartSession
    PROVE  Async!Step
  <1>1. /\ accept = "start" /\ accept' = "insert" /\ looping' = TRUE /\ in_sessions' = in_sessions
        /\ late' = late /\ m_socket' = m_socket /\ peer' = peer /\ read' = read /\ body' = body
        /\ frames' = frames /\ logic_que' = logic_que /\ send_que' = send_que
        /\ writes' = writes /\ accepted' = accepted /\ dropped' = dropped
        /\ wire' = wire /\ starting' = starting
    BY DEF CoStartSession, receiving, sending
  <1>2. writing' = writing
    BY <1>1, WritingSame
  <1>3. Async!Start
    BY <1>1 DEF Async!Start, Async!AsyncRead, reading, Pending, Async!Pending
  <1>4. Async!StartSession
    BY <1>1, <1>2, <1>3 DEF Async!StartSession, Async!sending
  <1> QED
    BY <1>4 DEF Async!Step, Async!HandleAccept

LEMMA SessionIsSession == UNCHANGED cosession => UNCHANGED Async!session
  <1> SUFFICES ASSUME UNCHANGED cosession PROVE UNCHANGED Async!session
    OBVIOUS
  <1>1. /\ accept' = accept /\ in_sessions' = in_sessions /\ late' = late
        /\ m_socket' = m_socket /\ peer' = peer /\ read' = read /\ body' = body
        /\ frames' = frames /\ logic_que' = logic_que /\ send_que' = send_que
        /\ writes' = writes /\ accepted' = accepted /\ dropped' = dropped
        /\ wire' = wire /\ starting' = starting /\ looping' = looping
    BY DEF cosession, session, acceptor, receiving, sending
  <1>2. reading' = reading /\ writing' = writing
    BY <1>1, ReadingSame, WritingSame
  <1> QED
    BY <1>1, <1>2 DEF Async!session, Async!acceptor, Async!receiving, Async!sending

LEMMA StepIsStep == CoCore /\ CoStep => [Async!Step]_(Async!session)
  BY KernelIsKernel, ResumeIsRead, CoHandleWriteIsHandleWrite, StartWriteIsStutter,
     CoDealMsgIsDealMsg, CoStartIsStart
  DEF CoStep, Resume

LEMMA NextIsNext == CoSessionInv /\ [CoNext]_covars => [Async!Next]_(Async!vars)
  <1> SUFFICES ASSUME CoSessionInv, [CoNext]_covars PROVE Async!Next \/ UNCHANGED Async!vars
    OBVIOUS
  <1>1. CASE Survive /\ CoStep
    <2>1. Async!Survive
      BY <1>1 DEF Survive, Async!Survive
    <2>2. [Async!Step]_(Async!session)
      BY <1>1, StepIsStep DEF CoSessionInv, CoTypeOK, CoCore
    <2> QED
      BY <2>1, <2>2 DEF Async!Next, Async!vars, Async!Survive
  <1>2. CASE CoNegativeLength
    <2>1. UNCHANGED cosession /\ ~terminated /\ terminated' = TRUE
          /\ read = [op |-> "head", st |-> "negative"]
      BY <1>2 DEF CoNegativeLength, NegativeLength, Terminate, cosession
    <2>2. reading = read
      BY <2>1 DEF CoSessionInv, CoInv, NoRead, reading
    <2> QED
      BY <2>1, <2>2, SessionIsSession DEF Async!Next, Async!NegativeLength, Async!Terminate
  <1>3. CASE CoCallBackThrows
    <2>1. UNCHANGED cosession /\ ~terminated /\ terminated' = TRUE
          /\ logic_que # <<>> /\ body[Head(logic_que)] \in Throwing
      BY <1>3 DEF CoCallBackThrows, CallBackThrows, Terminate, cosession
    <2> QED
      BY <2>1, SessionIsSession DEF Async!Next, Async!CallBackThrows, Async!Terminate
  <1>4. CASE UNCHANGED covars
    BY <1>4, SessionIsSession DEF covars, vars, cosession, Async!vars
  <1> QED
    BY <1>1, <1>2, <1>3, <1>4 DEF CoNext

(* coroutineServer's session, with its lock released between the decision  *)
(* to write and the write, and its reads made by a coroutine, does only    *)
(* what asynServer's session does.                                         *)
THEOREM ImplementsAsync == CoSafety => AsyncSafety
  <1>1. CoInit => Async!Init
    BY DEF CoInit, Init, Async!Init, reading, writing, NoRead, Async!NoRead
  <1>2. CoSafety => []CoSessionInv
    BY CoInductiveInvariant
  <1> QED
    BY <1>1, <1>2, NextIsNext, PTL DEF CoSafety, AsyncSafety, Async!Safety

-----------------------------------------------------------------------------
(* So what has been proved of the session of asynServer holds of that of   *)
(* coroutineServer, read through the refinement mapping.                   *)
Proved == INSTANCE CSessionProofs WITH read <- reading, writes <- writing

LEMMA AsAsync == CoSafety => Proved!Safety
  <1>1. Async!Init <=> Proved!Init
    BY ONLY
    DEF Async!Init, Proved!Init, Async!NoRead, Proved!NoRead
  <1>2. UNCHANGED Async!vars <=> UNCHANGED Proved!vars
    BY ONLY
    DEF Async!vars, Proved!vars, Async!session, Proved!session, Async!acceptor, Proved!acceptor,
        Async!receiving, Proved!receiving, Async!sending, Proved!sending
  <1>3. Async!Next <=> Proved!Next
    BY ONLY
    DEF Async!Next, Proved!Next, Async!Step, Proved!Step, Async!Survive, Proved!Survive,
        Async!Terminate, Proved!Terminate, Async!NegativeLength, Proved!NegativeLength,
        Async!CallBackThrows, Proved!CallBackThrows, Async!session, Proved!session,
        Async!AcceptCompletes,
        Proved!AcceptCompletes, Async!HandleAccept, Proved!HandleAccept,
        Async!StartSession, Proved!StartSession, Async!Insert, Proved!Insert,
        Async!Start, Proved!Start, Async!AsyncRead, Proved!AsyncRead,
        Async!Pending, Proved!Pending, Async!PeerCloses, Proved!PeerCloses,
        Async!ReadFails, Proved!ReadFails, Async!BodyArrives,
        Proved!BodyArrives, Async!Writing, Proved!Writing, Async!Transmit,
        Proved!Transmit, Async!Advanced, Proved!Advanced, Async!WriteFails,
        Proved!WriteFails, Async!HeadArrives, Proved!HeadArrives,
        Async!Handlers, Proved!Handlers, Async!HandleReadHead,
        Proved!HandleReadHead, Async!HandleReadMsg, Proved!HandleReadMsg,
        Async!HandleWrite, Proved!HandleWrite, Async!NewRecvNode,
        Proved!NewRecvNode, Async!NextWrite, Proved!NextWrite, Async!Pop,
        Proved!Pop, Async!SendQueFull, Proved!SendQueFull, Async!FirstWrite,
        Proved!FirstWrite, Async!Send, Proved!Send, Async!DealMsg,
        Proved!DealMsg, Async!Close, Proved!Close, Async!Aborted,
        Proved!Aborted, Async!ClearSession, Proved!ClearSession, Async!NoRead,
        Proved!NoRead, Async!AsyncWrite, Proved!AsyncWrite, Async!acceptor,
        Proved!acceptor, Async!receiving, Proved!receiving, Async!sending,
        Proved!sending
  <1>4. [Async!Next]_(Async!vars) => [Proved!Next]_(Proved!vars)
    BY <1>2, <1>3
  <1> QED
    BY <1>1, <1>4, ImplementsAsync, PTL DEF AsyncSafety, Async!Safety, Proved!Safety

(* What its Send accepted reaches the wire whole and in order, although    *)
(* each write is decided on before it is started.                          *)
THEOREM CoWireOrdered == CoSafety => []WireInOrder
  <1>1. Proved!Safety => []Proved!WireInOrder
    BY Proved!WireOrdered, SessionAssumption, PTL
  <1>2. Proved!WireInOrder => WireInOrder
    BY DEF Proved!WireInOrder, WireInOrder, Proved!Following, Following
  <1> QED
    BY <1>1, <1>2, AsAsync, PTL

(* Its answers, too, are accepted in the order of the frames they are for. *)
THEOREM CoAnswersOrdered == CoSafety => []AnswersFollowFrames
  <1>1. Proved!Safety => []Proved!AnswersFollowFrames
    BY Proved!AnswersOrdered, SessionAssumption, PTL
  <1>2. Proved!AnswersFollowFrames => AnswersFollowFrames
    BY DEF Proved!AnswersFollowFrames, AnswersFollowFrames
  <1> QED
    BY <1>1, <1>2, AsAsync, PTL

(* A queue with no write pending nor decided on belongs to a closed        *)
(* session: the unlock before the write loses none.                        *)
CoStalledOnlyWhenClosed ==
    send_que # <<>> /\ writes = {} /\ starting = {} => m_socket = "closed"

THEOREM CoNoStall == CoSafety => []CoStalledOnlyWhenClosed
  <1>1. Proved!Safety => []Proved!StalledOnlyWhenClosed
    BY Proved!NoStall, SessionAssumption, PTL
  <1>2. Proved!StalledOnlyWhenClosed => CoStalledOnlyWhenClosed
    BY DEF Proved!StalledOnlyWhenClosed, CoStalledOnlyWhenClosed, writing
  <1> QED
    BY <1>1, <1>2, AsAsync, PTL

(* An open, started session has a read pending, or its coroutine is at the *)
(* top of its loop and about to begin one.                                 *)
CoOpenMeansReading ==
    m_socket = "open" /\ accept # "start" => looping \/ read.op # "none"

THEOREM CoAlwaysReading == CoSafety => []CoOpenMeansReading
  <1>1. Proved!Safety => []Proved!OpenMeansReading
    BY Proved!AlwaysReading, SessionAssumption, PTL
  <1>2. Proved!OpenMeansReading => CoOpenMeansReading
    BY DEF Proved!OpenMeansReading, CoOpenMeansReading, reading
  <1> QED
    BY <1>1, <1>2, AsAsync, PTL

(* A session that closes drops out of _sessions for good, unless its       *)
(* insert came after its ClearSession.                                     *)
THEOREM CoClosedLeavesTheMap == CoSafety => []KeptOnlyWhenLate
  <1>1. Proved!Safety => []Proved!KeptOnlyWhenLate
    BY Proved!ClosedLeavesTheMap, SessionAssumption, PTL
  <1>2. Proved!KeptOnlyWhenLate => KeptOnlyWhenLate
    BY DEF Proved!KeptOnlyWhenLate, KeptOnlyWhenLate
  <1> QED
    BY <1>1, <1>2, AsAsync, PTL

(* The coroutine and the two steps of a write are not to be seen from the  *)
(* outside: the abstract stream of answers and the abstract session are    *)
(* implemented by coroutineServer's session as well.                       *)
THEOREM CoImplementsStream == CoSafety => Proved!StreamSafety
  <1>1. Proved!Safety => Proved!StreamSafety
    BY Proved!ImplementsStream, SessionAssumption, PTL
  <1> QED
    BY <1>1, AsAsync, PTL

THEOREM CoImplementsIO == CoSafety => Proved!IOSafety
  <1>1. Proved!Safety => Proved!IOSafety
    BY Proved!ImplementsIO, SessionAssumption, PTL
  <1> QED
    BY <1>1, AsAsync, PTL
=============================================================================
