------------------------- MODULE StudySessionProofs -------------------------
(***************************************************************************)
(* Theorems about the study session, for any number of messages, of pieces *)
(* and of reads, and any size of a receive node.                           *)
(***************************************************************************)
EXTENDS StudySession, SequenceTheorems, TLAPS

-----------------------------------------------------------------------------
LEMMA FunctionIsSeq ==
    ASSUME NEW S, NEW k \in Nat, NEW F \in [1 .. k -> S]
    PROVE  F \in Seq(S) /\ Len(F) = k
  OBVIOUS

(* Pieces that go out behind what is on the wire keep it in order.         *)
LEMMA PiecesInOrder ==
    ASSUME Parts \in Nat \ {0}, wire \in Seq(Piece), WireInOrder, api' = api,
           NEW node \in Nat, NEW from \in 0 .. Parts - 1, NEW k \in 1 .. Parts - from,
           SentSoFar(node, from), node > 0,
           NEW n \in Nat, n = Len(wire), Len(wire') = n + k,
           \A i \in 1 .. n : wire'[i] = wire[i],
           \A i \in 1 .. k : wire'[n + i].node = node /\ wire'[n + i].part = from + i
    PROVE  WireInOrder' /\ SentSoFar(node, from + k)'
  <1>1. k \in Nat /\ k >= 1 /\ from \in Nat /\ from + k <= Parts
    OBVIOUS
  <1>2. ASSUME NEW i \in 1 .. n + k
        PROVE  Follows(wire[i], IF i = 1 THEN [node |-> 0, part |-> Parts] ELSE wire[i - 1])'
    <2>1. CASE i <= n
      <3>1. i \in 1 .. n /\ (i # 1 => i - 1 \in 1 .. n)
        BY <2>1
      <3>2. Follows(wire[i], IF i = 1 THEN [node |-> 0, part |-> Parts] ELSE wire[i - 1])
        BY <3>1 DEF WireInOrder
      <3>3. wire'[i] = wire[i] /\ (i # 1 => wire'[i - 1] = wire[i - 1])
        BY <3>1
      <3>4. CASE i = 1
        BY <3>2, <3>3, <3>4 DEF Follows
      <3>5. CASE i # 1
        BY <3>2, <3>3, <3>5 DEF Follows
      <3> QED
        BY <3>4, <3>5
    <2>2. CASE i = n + 1
      <3>1. wire'[i].node = node /\ wire'[i].part = from + 1
        BY <1>1, <2>2
      <3>2. CASE n = 0
        <4>1. i = 1 /\ wire = <<>>
          <5>1. wire = <<>>
            BY ONLY wire \in Seq(Piece), n = Len(wire), <3>2, EmptySeq
          <5> QED
            BY <2>2, <3>2, <5>1
        <4>2. from = 0 /\ node = 1
          BY <4>1 DEF SentSoFar, Ended
        <4> QED
          BY <3>1, <4>1, <4>2 DEF Follows
      <3>3. CASE n # 0
        <4>1. i # 1 /\ i - 1 = n /\ wire'[i - 1] = wire[n] /\ wire # <<>>
          BY <2>2, <3>3
        <4>2. Last = wire[n]
          BY DEF Last
        <4>3. \/ wire[n].node = node /\ wire[n].part = from
              \/ from = 0 /\ wire[n].node = node - 1 /\ (wire[n].part = Parts \/ api = "all")
          BY <4>1, <4>2 DEF SentSoFar, Ended
        <4> QED
          BY <3>1, <4>1, <4>3 DEF Follows
      <3> QED
        BY <3>2, <3>3
    <2>3. CASE i > n + 1
      <3>1. PICK j \in 1 .. k : i = n + j /\ j - 1 \in 1 .. k
        <4>1. i - n \in 1 .. k /\ i = n + (i - n) /\ (i - n) - 1 \in 1 .. k
          BY <1>1, <2>3
        <4> QED
          BY <4>1
      <3>2. /\ wire'[n + j].node = node /\ wire'[n + j].part = from + j
            /\ wire'[n + (j - 1)].node = node /\ wire'[n + (j - 1)].part = from + (j - 1)
        BY <3>1
      <3>3. i # 1 /\ i - 1 = n + (j - 1) /\ from + j = (from + (j - 1)) + 1
        BY <1>1, <2>3, <3>1
      <3> QED
        BY <3>1, <3>2, <3>3 DEF Follows
    <2> QED
      BY <2>1, <2>2, <2>3
  <1>3. WireInOrder'
    BY <1>2 DEF WireInOrder
  <1>4. SentSoFar(node, from + k)'
    <2>1. k \in 1 .. k /\ from + k # 0 /\ n + k # 0
      BY <1>1
    <2>2. wire'[n + k].node = node /\ wire'[n + k].part = from + k
      BY <2>1
    <2>3. wire' # <<>>
      BY <2>1
    <2> QED
      BY <2>1, <2>2, <2>3 DEF SentSoFar, Last
  <1> QED
    BY <1>3, <1>4

LEMMA PiecesOut ==
    ASSUME wire \in Seq(Piece), WireInOrder, api' = api,
           NEW node \in Messages, NEW from \in 0 .. Parts - 1, NEW k \in 1 .. Parts - from,
           NEW intact \in BOOLEAN, SentSoFar(node, from),
           wire' = wire \o [i \in 1 .. k |-> [node |-> node, part |-> from + i, intact |-> intact]]
    PROVE  wire' \in Seq(Piece) /\ WireInOrder' /\ SentSoFar(node, from + k)'
  <1> DEFINE g == [i \in 1 .. k |-> [node |-> node, part |-> from + i, intact |-> intact]]
  <1>1. Parts \in Nat \ {0}
    BY StudyAssumption DEF StudyAssumption
  <1>2. k \in Nat /\ \A i \in 1 .. k : from + i \in 1 .. Parts
    BY ONLY <1>1, from \in 0 .. Parts - 1, k \in 1 .. Parts - from
  <1>3. node \in Nat /\ node > 0
    BY DEF Messages
  <1>4. g \in [1 .. k -> Piece]
    BY <1>2 DEF Piece
  <1>5. g \in Seq(Piece) /\ Len(g) = k
    BY ONLY <1>2, <1>4, FunctionIsSeq
  <1>6. \A i \in 1 .. k : g[i].node = node /\ g[i].part = from + i
    OBVIOUS
  <1>7. wire' = wire \o g
    OBVIOUS
  <1> HIDE DEF g
  <1>8. PICK n \in Nat : n = Len(wire)
    <2>1. Len(wire) \in Nat
      BY ONLY wire \in Seq(Piece)
    <2> QED
      BY <2>1
  <1>9. /\ wire' \in Seq(Piece) /\ Len(wire') = n + k
        /\ \A i \in 1 .. n + k : wire'[i] = IF i <= n THEN wire[i] ELSE g[i - n]
    BY ONLY <1>5, <1>7, <1>8, wire \in Seq(Piece), ConcatProperties
  <1>10. \A i \in 1 .. n : wire'[i] = wire[i]
    BY ONLY <1>2, <1>9, n \in Nat
  <1>11. \A i \in 1 .. k : wire'[n + i].node = node /\ wire'[n + i].part = from + i
    <2> TAKE i \in 1 .. k
    <2>1. n + i \in 1 .. n + k /\ ~(n + i <= n) /\ (n + i) - n = i
      BY ONLY <1>2, n \in Nat, i \in 1 .. k
    <2>2. wire'[n + i] = g[i]
      BY ONLY <1>9, <2>1
    <2> QED
      BY <1>6, <2>2
  <1>12. WireInOrder' /\ SentSoFar(node, from + k)'
    BY ONLY <1>1, <1>3, <1>8, <1>9, <1>10, <1>11, PiecesInOrder, wire \in Seq(Piece), WireInOrder,
            api' = api, from \in 0 .. Parts - 1, k \in 1 .. Parts - from, SentSoFar(node, from)
  <1> QED
    BY <1>9, <1>12

(* A write that has been begun: it is well formed, and what it has sent is *)
(* at the end of the wire.                                                 *)
Began(handler, node, from) ==
    /\ write \in Write
    /\ write.handler = handler /\ write.node = node /\ write.from = from
    /\ write.st # "second" /\ from + write.sent <= Parts
    /\ write.st = "ok" <=> write.sent > 0
    /\ SentSoFar(node, from + write.sent)
    /\ write.st = "err" => socket = "failed"

LEMMA TakenBegan ==
    ASSUME wire \in Seq(Piece), WireInOrder, api' = api, socket' = socket,
           NEW w \in Write, NEW k \in 1 .. Parts - w.from, NEW intact \in BOOLEAN,
           SentSoFar(w.node, w.from), Taken(w, k, intact)
    PROVE  wire' \in Seq(Piece) /\ WireInOrder' /\ Began(w.handler, w.node, w.from)'
  <1>1. Parts \in Nat \ {0}
    BY StudyAssumption DEF StudyAssumption
  <1>2. w.node \in Messages /\ w.from \in 0 .. Parts - 1
    BY DEF Write
  <1>3. wire' \in Seq(Piece) /\ WireInOrder' /\ SentSoFar(w.node, w.from + k)'
    BY <1>2, PiecesOut DEF Taken
  <1>4. k \in 0 .. Parts /\ k > 0 /\ w.from + k <= Parts
    BY ONLY <1>1, <1>2, k \in 1 .. Parts - w.from
  <1>5. write' = [w EXCEPT !.sent = k, !.st = "ok"]
    BY DEF Taken
  <1>6. /\ write' \in Write /\ write'.sent = k /\ write'.st = "ok"
        /\ write'.handler = w.handler /\ write'.node = w.node /\ write'.from = w.from
    BY <1>4, <1>5 DEF Write
  <1> QED
    BY <1>3, <1>4, <1>6 DEF Began

LEMMA BeginBegan ==
    ASSUME wire \in Seq(Piece), WireInOrder, api' = api, socket' = socket,
           NEW handler \in Handler, NEW node \in Messages, NEW from \in 0 .. Parts - 1,
           NEW buf \in {"node", "local"}, SentSoFar(node, from), Begin(handler, node, from, buf)
    PROVE  wire' \in Seq(Piece) /\ WireInOrder' /\ Began(handler, node, from)'
  <1> DEFINE w == [handler |-> handler, node |-> node, from |-> from, sent |-> 0,
                   st |-> "io", buf |-> buf]
  <1>1. Parts \in Nat \ {0}
    BY StudyAssumption DEF StudyAssumption
  <1>2. w \in Write /\ [w EXCEPT !.st = "err"] \in Write
    BY <1>1 DEF Write
  <1>3. w.handler = handler /\ w.node = node /\ w.from = from /\ w.sent = 0 /\ w.st = "io"
    OBVIOUS
  <1>4. /\ from + 0 = from /\ from <= Parts
    BY <1>1
  <1>5. CASE socket = "failed"
    <2>1. write' = [w EXCEPT !.st = "err"] /\ UNCHANGED wire
      BY <1>5 DEF Begin
    <2> QED
      BY <1>2, <1>3, <1>4, <1>5, <2>1 DEF Began, WireInOrder, Follows, SentSoFar, Ended, Last
  <1>6. CASE socket # "failed"
    <2>1. CASE write' = w /\ UNCHANGED wire
      BY <1>2, <1>3, <1>4, <2>1 DEF Began, WireInOrder, Follows, SentSoFar, Ended, Last
    <2>2. CASE \E k \in 1 .. Parts - from : Taken(w, k, TRUE)
      <3>1. PICK k \in 1 .. Parts - w.from : Taken(w, k, TRUE)
        BY <2>2
      <3> HIDE DEF w
      <3> QED
        BY <1>2, <1>3, <3>1, TakenBegan
    <2> QED
      BY <1>6, <2>1, <2>2 DEF Begin
  <1> QED
    BY <1>5, <1>6

-----------------------------------------------------------------------------
(* The invariant falls into a half about writes and one about reads, which *)
(* share the socket and the fault.                                         *)
SendTypes ==
    /\ api \in {"err", "some", "all"}
    /\ calls \in 0 .. MaxMsgs
    /\ send_queue \in Seq(Messages)
    /\ cur_len \in 0 .. Parts - 1
    /\ send_pending \in BOOLEAN
    /\ write \in Write \cup {NoWrite}
    /\ wire \in Seq(Piece)
EndTypes == socket \in {"open", "failed"} /\ fault \in {"none", "popped slot", "freed node"}
ReadTypes ==
    /\ recv_node \in 0 .. MaxReads
    /\ recv_len \in Nat /\ content \in [1 .. RecvSize -> Nat]
    /\ reads \in Seq(ReadOp)
    /\ stream \in Nat /\ overlapped \in BOOLEAN

SendSide ==
    /\ SendTypes /\ EndTypes
    /\ OneWriteOfTheFront /\ StalledOnlyWhenFailed /\ QueueInv /\ WriteInv /\ WireInOrder
ReadSide == ReadTypes /\ EndTypes /\ ReadInv /\ NodeFilled

LEMMA TwoSides == StudyInv <=> SendSide /\ ReadSide
  BY DEF StudyInv, SendSide, ReadSide, TypeOK, SendTypes, EndTypes, ReadTypes

LEMMA NumbersOK == /\ Parts \in Nat \ {0} /\ RecvSize \in Nat \ {0}
                   /\ MaxMsgs \in Nat /\ MaxReads \in Nat
  BY StudyAssumption DEF StudyAssumption

(* After a step that begins or continues a write of the front ...          *)
LEMMA Writing ==
    ASSUME NEW h, NEW n, NEW f, Began(h, n, f)', f = cur_len',
           h = "WriteCallBackErr" <=> api' = "err", h = "WriteAllCallBack" => api' = "all",
           IF api' = "err" THEN n = calls'
           ELSE send_pending' = TRUE /\ send_queue' # <<>> /\ n = Head(send_queue'),
           send_queue' = <<>> => send_pending' = FALSE
    PROVE  OneWriteOfTheFront' /\ StalledOnlyWhenFailed' /\ WriteInv'
  <1>1. write' # NoWrite
    <2>1. write' \in Write
      BY DEF Began
    <2> QED
      BY ONLY <2>1 DEF Write, NoWrite, Handler
  <1>2. OneWriteOfTheFront'
    BY DEF Began, OneWriteOfTheFront
  <1>3. StalledOnlyWhenFailed'
    BY <1>1 DEF StalledOnlyWhenFailed
  <1>4. ~Idle'
    BY <1>1 DEF Idle
  <1>5. write'.handler = h /\ write'.node = n /\ write'.from = f
    BY DEF Began
  <1>6. SentSoFar(write.node, write.from + write.sent)'
    BY <1>5 DEF Began, SentSoFar, Ended, Last
  <1>7. WriteInv'
    BY <1>4, <1>5, <1>6 DEF Began, WriteInv
  <1> QED
    BY <1>2, <1>3, <1>7

(* ... and after one that leaves none.                                     *)
LEMMA NotWriting ==
    ASSUME write' = NoWrite,
           send_queue' = <<>> => send_pending' = FALSE,
           api' # "err" => \/ send_queue' = <<>>
                           \/ socket' = "failed" \/ fault' # "none",
           Idle' => Ended(calls)'
    PROVE  OneWriteOfTheFront' /\ StalledOnlyWhenFailed' /\ WriteInv'
  BY DEF OneWriteOfTheFront, StalledOnlyWhenFailed, WriteInv

(* A write in progress, as the callbacks and the kernel find it.           *)
LEMMA InProgress ==
    ASSUME SendSide, write # NoWrite
    PROVE  /\ write \in Write /\ Began(write.handler, write.node, cur_len)
           /\ write.node \in Messages /\ write.from = cur_len
           /\ write.from \in 0 .. Parts - 1 /\ write.sent \in 0 .. Parts
           /\ write.handler = "WriteCallBackErr" <=> api = "err"
           /\ write.handler = "WriteAllCallBack" => api = "all"
           /\ IF api = "err" THEN write.node = calls
              ELSE send_pending = TRUE /\ send_queue # <<>> /\ write.node = Head(send_queue)
  <1>1. write \in Write
    BY DEF SendSide, SendTypes
  <1> QED
    BY <1>1 DEF SendSide, SendTypes, OneWriteOfTheFront, WriteInv, Began, Write

LEMMA TransmitSend ==
    ASSUME SendSide, Transmit
    PROVE  SendSide'
  <1>1. write # NoWrite /\ write.st = "io"
    BY DEF Transmit, NoWrite
  <1>2. /\ wire \in Seq(Piece) /\ WireInOrder /\ write.sent = 0 /\ write.from + 0 = write.from
        /\ SentSoFar(write.node, write.from)
    <2>1. write.sent = 0
      BY <1>1, InProgress, NumbersOK DEF Began
    <2>2. write.from + write.sent = write.from /\ write.from + 0 = write.from
      BY <1>1, <2>1, InProgress, NumbersOK
    <2> QED
      BY <1>1, <2>1, <2>2, InProgress DEF Began, SendSide, SendTypes
  <1>3. PICK k \in 1 .. Parts - write.from, intact \in BOOLEAN : Taken(write, k, intact)
    BY DEF Transmit
  <1>4. UNCHANGED <<api, calls, send_queue, cur_len, send_pending, socket, fault>>
    BY DEF Transmit, queue
  <1>5. PICK h, n, f : h = write.handler /\ n = write.node /\ f = write.from
    OBVIOUS
  <1>6. wire' \in Seq(Piece) /\ WireInOrder' /\ Began(h, n, f)'
    BY <1>1, <1>2, <1>3, <1>4, <1>5, InProgress, TakenBegan
  <1>7. OneWriteOfTheFront' /\ StalledOnlyWhenFailed' /\ WriteInv'
    <2>1. send_queue' = <<>> => send_pending' = FALSE
      BY <1>4 DEF SendSide, SendTypes, StalledOnlyWhenFailed
    <2> QED
      BY <1>1, <1>4, <1>5, <1>6, <2>1, InProgress, Writing
  <1>8. QueueInv'
    BY <1>1, <1>4, InProgress DEF SendSide, QueueInv
  <1> QED
    BY <1>4, <1>6, <1>7, <1>8 DEF SendSide, SendTypes, EndTypes, Began

LEMMA WriteFailsSend ==
    ASSUME SendSide, WriteFails
    PROVE  SendSide'
  <1>1. write # NoWrite /\ write.st = "io" /\ socket = "failed"
    BY DEF WriteFails, NoWrite
  <1>2. write' = [write EXCEPT !.st = "err"]
    BY DEF WriteFails
  <1>3. UNCHANGED <<api, calls, send_queue, cur_len, send_pending, wire, socket, fault>>
    BY DEF WriteFails, queue
  <1>4. /\ write' \in Write /\ write'.handler = write.handler /\ write'.node = write.node
        /\ write'.from = write.from /\ write'.sent = write.sent /\ write'.st = "err"
    BY <1>1, <1>2, InProgress DEF Write
  <1>5. PICK h, n, f : h = write.handler /\ n = write.node /\ f = write.from
    OBVIOUS
  <1>6. Began(h, n, f)'
    BY <1>1, <1>3, <1>4, <1>5, InProgress DEF Began, SentSoFar, Ended, Last
  <1>7. OneWriteOfTheFront' /\ StalledOnlyWhenFailed' /\ WriteInv'
    <2>1. send_queue' = <<>> => send_pending' = FALSE
      BY <1>3 DEF SendSide, SendTypes, StalledOnlyWhenFailed
    <2> QED
      BY <1>1, <1>3, <1>5, <1>6, <2>1, InProgress, Writing
  <1>8. QueueInv' /\ WireInOrder'
    BY <1>1, <1>3, InProgress DEF SendSide, QueueInv, WireInOrder, Follows
  <1> QED
    BY <1>3, <1>4, <1>7, <1>8 DEF SendSide, SendTypes, EndTypes

LEMMA SocketFailsSend ==
    ASSUME SendSide, SocketFails
    PROVE  SendSide'
  BY DEF SendSide, SendTypes, EndTypes, OneWriteOfTheFront, StalledOnlyWhenFailed, QueueInv,
         WriteInv, WireInOrder, Follows, SentSoFar, Ended, Last, Idle, SocketFails, sending, queue

(* What reads do to the shared variables leaves the writes in order.       *)
LEMMA ReadStepsSend ==
    ASSUME SendSide, UNCHANGED <<api, sending, socket>>, EndTypes', fault = "none"
    PROVE  SendSide'
  BY DEF SendSide, SendTypes, EndTypes, OneWriteOfTheFront, StalledOnlyWhenFailed, QueueInv,
         WriteInv, WireInOrder, Follows, SentSoFar, Ended, Last, Idle, sending, queue

-----------------------------------------------------------------------------
(* The program writes a message.                                           *)
LEMMA WriteErrSend ==
    ASSUME SendSide, ProgramWrites, WriteToSocketErr
    PROVE  SendSide'
  <1>1. /\ api = "err" /\ write = NoWrite /\ cur_len' = 0 /\ calls' = calls + 1 /\ calls < MaxMsgs
        /\ Begin("WriteCallBackErr", calls + 1, 0, "node")
        /\ UNCHANGED <<api, send_queue, send_pending, socket, fault>>
    BY DEF ProgramWrites, WriteToSocketErr
  <1>2. PICK n : n = calls + 1
    OBVIOUS
  <1>3. n \in Messages /\ calls' = n /\ calls' \in 0 .. MaxMsgs
        /\ 0 \in 0 .. Parts - 1 /\ n - 1 = calls
    BY <1>1, <1>2, NumbersOK DEF SendSide, SendTypes, Messages
  <1>4. SentSoFar(n, 0)
    BY <1>1, <1>3 DEF SendSide, WriteInv, Idle, SentSoFar
  <1>5. /\ wire \in Seq(Piece) /\ WireInOrder /\ api' = api /\ socket' = socket
        /\ "WriteCallBackErr" \in Handler /\ "node" \in {"node", "local"}
    BY <1>1 DEF SendSide, SendTypes, Handler
  <1>6. wire' \in Seq(Piece) /\ WireInOrder' /\ Began("WriteCallBackErr", n, 0)'
    BY <1>1, <1>2, <1>3, <1>4, <1>5, BeginBegan
  <1>7. send_queue' = <<>> /\ send_pending' = FALSE /\ send_pending' \in BOOLEAN
    BY <1>1 DEF SendSide, SendTypes, QueueInv, StalledOnlyWhenFailed
  <1>8. OneWriteOfTheFront' /\ StalledOnlyWhenFailed' /\ WriteInv'
    <2>1. PICK h, f : h = "WriteCallBackErr" /\ f = 0
      OBVIOUS
    <2> QED
      BY <1>1, <1>3, <1>6, <1>7, <2>1, Writing
  <1>9. QueueInv'
    BY <1>1, <1>7 DEF QueueInv
  <1>10. write' \in Write
    BY <1>6 DEF Began
  <1> QED
    BY <1>1, <1>3, <1>6, <1>7, <1>8, <1>9, <1>10 DEF SendSide, SendTypes, EndTypes

LEMMA WriteQueuedSend ==
    ASSUME SendSide, ProgramWrites, NEW h \in {"WriteCallBack", "WriteAllCallBack"},
           api # "err", h = "WriteAllCallBack" => api = "all", WriteQueued(h)
    PROVE  SendSide'
  <1>1. /\ calls' = calls + 1 /\ calls < MaxMsgs /\ fault = "none"
        /\ UNCHANGED <<api, socket, fault>>
    BY DEF ProgramWrites
  <1>2. PICK n : n = calls + 1
    OBVIOUS
  <1>3. PICK q : q = send_queue
    OBVIOUS
  <1>4. /\ n \in Messages /\ calls' = n /\ calls' \in 0 .. MaxMsgs /\ calls \in Nat
        /\ 0 \in 0 .. Parts - 1 /\ n - 1 = calls
    BY <1>1, <1>2, NumbersOK DEF SendSide, SendTypes, Messages
  <1>5. q \in Seq(Messages) /\ send_queue' = Append(q, n) /\ cur_len' = cur_len
    BY <1>2, <1>3 DEF WriteQueued, SendSide, SendTypes
  <1>6. /\ send_queue' \in Seq(Messages) /\ Len(send_queue') = Len(q) + 1 /\ send_queue' # <<>>
        /\ Len(q) \in Nat
        /\ send_queue'[Len(q) + 1] = n /\ \A i \in 1 .. Len(q) : send_queue'[i] = q[i]
    BY ONLY <1>4, <1>5, AppendProperties
  <1>7. QueueInv'
    <2>1. ASSUME NEW i \in 1 .. Len(q) + 1
          PROVE  send_queue'[i] + (Len(q) + 1) = n + i
      <3>1. CASE i \in 1 .. Len(q)
        <4>1. q[i] + Len(q) = calls + i
          BY <1>3, <3>1 DEF SendSide, QueueInv
        <4>2. q[i] \in Nat
          <5>1. q[i] \in Messages
            BY ONLY <1>5, <3>1, ElementOfSeq
          <5> QED
            BY <5>1, NumbersOK DEF Messages
        <4> QED
          BY <1>2, <1>4, <1>6, <3>1, <4>1, <4>2
      <3>2. CASE i = Len(q) + 1
        BY <1>6, <3>2
      <3> QED
        BY <1>6, <3>1, <3>2
    <2>2. send_queue' # <<>> => send_pending'
      BY DEF WriteQueued, Pending
    <2> QED
      BY <1>1, <1>4, <1>6, <2>1, <2>2 DEF QueueInv
  <1>8. CASE send_pending
    <2>1. UNCHANGED <<send_pending, write, wire>>
      BY <1>8 DEF WriteQueued, Pending
    <2>2. q # <<>>
      BY <1>3, <1>8 DEF SendSide, StalledOnlyWhenFailed
    <2>3. Head(send_queue') = Head(q)
      <3>1. 1 \in 1 .. Len(q)
        BY <1>5, <1>6, <2>2, EmptySeq
      <3>2. send_queue'[1] = q[1]
        BY <1>6, <3>1
      <3> QED
        BY ONLY <1>5, <1>6, <2>2, <3>1, <3>2, HeadTailProperties
    <2>4. OneWriteOfTheFront'
      BY <1>1, <1>3, <1>5, <1>6, <2>1, <2>3 DEF SendSide, OneWriteOfTheFront
    <2>5. StalledOnlyWhenFailed'
      BY <1>1, <1>3, <1>6, <2>1, <2>2 DEF SendSide, StalledOnlyWhenFailed
    <2>6. ~Idle'
      BY <1>1, <1>8, <2>1 DEF Idle
    <2>7. WriteInv' /\ WireInOrder'
      BY <1>1, <2>1, <2>6 DEF SendSide, WriteInv, WireInOrder, Follows, SentSoFar, Ended, Last
    <2> QED
      BY <1>1, <1>4, <1>5, <1>6, <1>7, <2>1, <2>4, <2>5, <2>7 DEF SendSide, SendTypes, EndTypes
  <1>9. CASE ~send_pending
    <2>1. q = <<>> /\ cur_len = 0 /\ write = NoWrite
      BY <1>3, <1>9 DEF SendSide, QueueInv
    <2>2. send_pending' = TRUE /\ Begin(h, n, 0, "local")
      BY <1>2, <1>9, <2>1 DEF WriteQueued, Pending
    <2>3. SentSoFar(n, 0)
      BY <1>4, <1>9 DEF SendSide, WriteInv, Idle, SentSoFar
    <2>4. /\ wire \in Seq(Piece) /\ WireInOrder /\ api' = api /\ socket' = socket
          /\ h \in Handler /\ "local" \in {"node", "local"}
      BY <1>1 DEF SendSide, SendTypes, Handler
    <2>5. wire' \in Seq(Piece) /\ WireInOrder' /\ Began(h, n, 0)'
      BY <1>4, <2>2, <2>3, <2>4, BeginBegan
    <2>6. Head(send_queue') = n
      BY <1>5, <2>1
    <2>7. PICK f : f = 0
      OBVIOUS
    <2>8. OneWriteOfTheFront' /\ StalledOnlyWhenFailed' /\ WriteInv'
      <3>1. h # "WriteCallBackErr" /\ api' # "err" /\ (h = "WriteAllCallBack" => api' = "all")
        BY <1>1
      <3>2. f = cur_len' /\ Began(h, n, f)'
        BY <1>5, <2>1, <2>5, <2>7
      <3> QED
        BY ONLY <1>6, <2>2, <2>6, <3>1, <3>2, Writing
    <2>9. write' \in Write
      BY <2>5 DEF Began
    <2> QED
      BY <1>1, <1>4, <1>5, <1>6, <1>7, <2>2, <2>5, <2>8, <2>9 DEF SendSide, SendTypes, EndTypes
  <1> QED
    BY <1>8, <1>9 DEF SendSide, SendTypes

LEMMA ProgramWritesSend ==
    ASSUME SendSide, ProgramWrites
    PROVE  SendSide'
  <1>1. CASE WriteToSocketErr
    BY <1>1, WriteErrSend
  <1>2. CASE WriteToSocket
    BY <1>2, WriteQueuedSend DEF WriteToSocket
  <1>3. CASE WriteAllToSocket
    BY <1>3, WriteQueuedSend DEF WriteAllToSocket
  <1> QED
    BY <1>1, <1>2, <1>3 DEF ProgramWrites

-----------------------------------------------------------------------------
(* The callbacks: the rest of a message, the next one, or none.            *)
LEMMA Finished ==
    ASSUME SendSide, write # NoWrite, write.st = "ok", ~(cur_len + write.sent < Parts)
    PROVE  Ended(write.node)
  <1>1. /\ write.node \in Nat \ {0} /\ cur_len \in 0 .. Parts - 1 /\ write.sent \in 0 .. Parts
        /\ cur_len + write.sent <= Parts /\ write.sent > 0
        /\ SentSoFar(write.node, cur_len + write.sent)
    BY InProgress, NumbersOK DEF Began, Messages
  <1>2. cur_len + write.sent = Parts /\ Parts # 0
    BY ONLY <1>1, NumbersOK, ~(cur_len + write.sent < Parts)
  <1> QED
    BY <1>1, <1>2 DEF SentSoFar, Ended

LEMMA RestSend ==
    ASSUME SendSide, write # NoWrite, write.st = "ok", Rest < Parts, cur_len' = Rest,
           NEW h \in Handler, NEW b \in {"node", "local"},
           h = "WriteCallBackErr" <=> api = "err", h # "WriteAllCallBack",
           NEW n, n = write.node, Begin(h, n, cur_len', b),
           UNCHANGED <<api, calls, socket, fault, send_queue, send_pending>>
    PROVE  SendSide'
  <1>1. PICK f : f = cur_len + write.sent
    OBVIOUS
  <1>2. /\ n \in Messages /\ cur_len \in 0 .. Parts - 1 /\ write.sent \in 0 .. Parts
        /\ SentSoFar(n, f)
    BY <1>1, InProgress DEF Began, SendSide, SendTypes
  <1>3. f \in 0 .. Parts - 1 /\ cur_len' = f
    BY <1>1, <1>2, NumbersOK DEF Rest
  <1>4. wire \in Seq(Piece) /\ WireInOrder
    BY DEF SendSide, SendTypes
  <1>5. wire' \in Seq(Piece) /\ WireInOrder' /\ Began(h, n, f)'
    BY <1>2, <1>3, <1>4, BeginBegan
  <1>6. /\ IF api = "err" THEN n = calls
           ELSE send_pending = TRUE /\ send_queue # <<>> /\ n = Head(send_queue)
        /\ (send_queue = <<>> => send_pending = FALSE)
    BY InProgress DEF SendSide, SendTypes, StalledOnlyWhenFailed
  <1>7. OneWriteOfTheFront' /\ StalledOnlyWhenFailed' /\ WriteInv'
    BY <1>3, <1>5, <1>6, Writing
  <1>8. QueueInv'
    BY <1>6 DEF SendSide, QueueInv
  <1>9. write' \in Write
    BY <1>5 DEF Began
  <1> QED
    BY <1>3, <1>5, <1>7, <1>8, <1>9 DEF SendSide, SendTypes, EndTypes

(* A callback that gets an error, on a socket that has failed.             *)
LEMMA StopSend ==
    ASSUME SendSide, write.st = "err", Done, api # "err",
           UNCHANGED <<api, calls, socket, fault, queue>>
    PROVE  SendSide'
  <1>1. write # NoWrite
    BY DEF NoWrite
  <1>2. socket = "failed" /\ send_pending = TRUE /\ send_queue # <<>>
    BY <1>1, InProgress DEF Began
  <1>3. write' = NoWrite /\ wire' = wire /\ UNCHANGED <<send_queue, cur_len, send_pending>>
    BY DEF Done, queue
  <1>4. OneWriteOfTheFront' /\ StalledOnlyWhenFailed' /\ WriteInv'
    BY <1>2, <1>3, NotWriting DEF Idle
  <1>5. QueueInv' /\ WireInOrder'
    BY <1>2, <1>3 DEF SendSide, QueueInv, WireInOrder, Follows
  <1> QED
    BY <1>3, <1>4, <1>5 DEF SendSide, SendTypes, EndTypes

(* The queue once its front has been popped.                               *)
LEMMA Popped ==
    ASSUME SendSide, write # NoWrite, api # "err", Pop, UNCHANGED <<api, calls>>
    PROVE  /\ send_queue' \in Seq(Messages) /\ cur_len' = 0
           /\ send_queue # <<>> /\ write.node = Head(send_queue)
           /\ \A i \in 1 .. Len(send_queue') : send_queue'[i] + Len(send_queue') = calls + i
           /\ send_queue' = <<>> => write.node = calls
           /\ send_queue' # <<>> =>
                 /\ Head(send_queue') \in Messages /\ Head(send_queue') - 1 = write.node
  <1>1. PICK q : q = send_queue
    OBVIOUS
  <1>2. q \in Seq(Messages) /\ q # <<>> /\ write.node = q[1] /\ calls \in Nat
    <2>1. q \in Seq(Messages) /\ calls \in 0 .. MaxMsgs
      BY <1>1 DEF SendSide, SendTypes
    <2>2. q # <<>> /\ write.node = Head(q)
      BY <1>1, InProgress
    <2>3. Head(q) = q[1]
      BY ONLY <2>1, <2>2, HeadTailProperties
    <2> QED
      BY <2>1, <2>2, <2>3, NumbersOK
  <1>3. send_queue' = Tail(q) /\ cur_len' = 0
    BY <1>1 DEF Pop
  <1>4. /\ send_queue' \in Seq(Messages) /\ Len(q) \in Nat /\ Len(q) # 0
        /\ Len(send_queue') = Len(q) - 1
        /\ \A i \in 1 .. Len(q) - 1 : send_queue'[i] = q[i + 1]
    BY ONLY <1>2, <1>3, HeadTailProperties, EmptySeq
  <1>5. \A i \in 1 .. Len(q) : q[i] \in Nat /\ q[i] + Len(q) = calls + i
    <2>1. \A i \in 1 .. Len(q) : q[i] + Len(q) = calls + i
      BY <1>1 DEF SendSide, QueueInv
    <2>2. ASSUME NEW i \in 1 .. Len(q) PROVE q[i] \in Nat
      <3>1. q[i] \in Messages
        BY ONLY <1>2, i \in 1 .. Len(q), ElementOfSeq
      <3> QED
        BY <3>1, NumbersOK DEF Messages
    <2> QED
      BY <2>1, <2>2
  <1>6. ASSUME NEW i \in 1 .. Len(send_queue')
        PROVE  send_queue'[i] + Len(send_queue') = calls + i
    <2>1. i \in 1 .. Len(q) - 1 /\ i \in Nat /\ i + 1 \in 1 .. Len(q)
      BY ONLY <1>4, i \in 1 .. Len(send_queue')
    <2>2. q[i + 1] \in Nat /\ q[i + 1] + Len(q) = calls + (i + 1) /\ send_queue'[i] = q[i + 1]
      BY ONLY <1>4, <1>5, <2>1
    <2>3. PICK m, x, y : m = Len(q) /\ x = q[i + 1] /\ y = send_queue'[i]
      OBVIOUS
    <2>4. PICK l : l = Len(send_queue')
      OBVIOUS
    <2>5. y = x /\ x \in Nat /\ x + m = calls + (i + 1) /\ m \in Nat /\ l = m - 1
      BY ONLY <1>4, <2>2, <2>3, <2>4
    <2>6. y + l = calls + i
      BY ONLY <1>2, <2>1, <2>5
    <2> QED
      BY ONLY <2>3, <2>4, <2>6
  <1>7. ASSUME send_queue' = <<>> PROVE write.node = calls
    <2>1. Len(q) = 1 /\ 1 \in 1 .. Len(q)
      BY ONLY <1>4, <1>7, EmptySeq
    <2>2. q[1] \in Nat /\ q[1] + 1 = calls + 1
      BY ONLY <1>5, <2>1
    <2> QED
      BY ONLY <1>2, <2>2
  <1>8. ASSUME send_queue' # <<>>
        PROVE  Head(send_queue') \in Messages /\ Head(send_queue') - 1 = write.node
    <2>1. 1 \in 1 .. Len(send_queue') /\ Head(send_queue') = send_queue'[1]
      BY ONLY <1>4, <1>8, EmptySeq, HeadTailProperties
    <2>2. 1 \in 1 .. Len(q) - 1 /\ 1 \in 1 .. Len(q) /\ 2 \in 1 .. Len(q)
      BY ONLY <1>4, <2>1
    <2>3. Head(send_queue') = q[2] /\ Head(send_queue') \in Messages
      <3>1. send_queue'[1] \in Messages
        BY ONLY <1>4, <2>1, ElementOfSeq
      <3>2. send_queue'[1] = q[1 + 1]
        BY ONLY <1>4, <2>2
      <3> QED
        BY ONLY <2>1, <3>1, <3>2, 1 + 1 = 2
    <2>4. q[1] \in Nat /\ q[1] + Len(q) = calls + 1 /\ q[2] \in Nat /\ q[2] + Len(q) = calls + 2
      BY ONLY <1>5, <2>2
    <2> QED
      BY ONLY <1>2, <1>4, <2>3, <2>4
  <1> QED
    BY <1>1, <1>2, <1>3, <1>4, <1>6, <1>7, <1>8

LEMMA SendNextSend ==
    ASSUME SendSide, write # NoWrite, api # "err", Pop, SendNext("WriteCallBack"),
           Ended(write.node), UNCHANGED <<api, calls, socket, fault>>
    PROVE  SendSide'
  <1>1. /\ send_queue' \in Seq(Messages) /\ cur_len' = 0
        /\ \A i \in 1 .. Len(send_queue') : send_queue'[i] + Len(send_queue') = calls + i
        /\ send_queue' = <<>> => write.node = calls
        /\ send_queue' # <<>> =>
              /\ Head(send_queue') \in Messages /\ Head(send_queue') - 1 = write.node
    BY Popped
  <1>2. send_pending = TRUE
    BY InProgress
  <1>3. 0 \in 0 .. Parts - 1
    BY NumbersOK
  <1>4. CASE send_queue' = <<>>
    <2>1. send_pending' = FALSE /\ write' = NoWrite /\ wire' = wire
      BY <1>4 DEF SendNext, Done
    <2>2. Ended(calls)'
      BY <1>1, <1>4, <2>1 DEF Ended, Last
    <2>3. OneWriteOfTheFront' /\ StalledOnlyWhenFailed' /\ WriteInv'
      BY <1>4, <2>1, <2>2, NotWriting
    <2>4. QueueInv' /\ WireInOrder'
      BY <1>1, <1>4, <2>1 DEF SendSide, QueueInv, WireInOrder, Follows
    <2> QED
      BY <1>1, <1>3, <2>1, <2>3, <2>4 DEF SendSide, SendTypes, EndTypes
  <1>5. CASE send_queue' # <<>>
    <2>1. PICK n, h, f : n = Head(send_queue') /\ h = "WriteCallBack" /\ f = 0
      OBVIOUS
    <2>2. Begin(h, n, f, "node") /\ send_pending' = send_pending
      BY <1>5, <2>1 DEF SendNext
    <2>3. n \in Messages /\ SentSoFar(n, f) /\ f \in 0 .. Parts - 1 /\ h \in Handler
      BY <1>1, <1>3, <1>5, <2>1 DEF SentSoFar, Handler
    <2>4. wire \in Seq(Piece) /\ WireInOrder
      BY DEF SendSide, SendTypes
    <2>5. wire' \in Seq(Piece) /\ WireInOrder' /\ Began(h, n, f)'
      BY <2>2, <2>3, <2>4, BeginBegan
    <2>6. OneWriteOfTheFront' /\ StalledOnlyWhenFailed' /\ WriteInv'
      <3>1. f = cur_len' /\ h # "WriteCallBackErr" /\ h # "WriteAllCallBack" /\ api' # "err"
            /\ send_pending' = TRUE
        BY <1>1, <1>2, <2>1, <2>2
      <3> QED
        BY ONLY <1>5, <2>1, <2>5, <3>1, Writing
    <2>7. QueueInv'
      BY <1>1, <1>2, <1>5, <2>2 DEF QueueInv
    <2>8. write' \in Write
      BY <2>5 DEF Began
    <2> QED
      BY <1>1, <1>3, <2>2, <2>5, <2>6, <2>7, <2>8 DEF SendSide, SendTypes, EndTypes
  <1> QED
    BY <1>4, <1>5

(* The reference to the popped slot ends the process.                      *)
LEMMA PoppedSlotSend ==
    ASSUME SendSide, write # NoWrite, api # "err", Pop, Done, send_queue' # <<>>,
           fault' = "popped slot", UNCHANGED <<api, calls, socket, send_pending>>
    PROVE  SendSide'
  <1>1. /\ send_queue' \in Seq(Messages) /\ cur_len' = 0 /\ 0 \in 0 .. Parts - 1
        /\ \A i \in 1 .. Len(send_queue') : send_queue'[i] + Len(send_queue') = calls + i
    <2>1. UNCHANGED <<api, calls>>
      OBVIOUS
    <2>2. 0 \in 0 .. Parts - 1
      BY ONLY NumbersOK
    <2> QED
      BY <2>1, <2>2, Popped
  <1>2. send_pending = TRUE /\ write' = NoWrite /\ wire' = wire
    BY InProgress DEF Done
  <1>3. OneWriteOfTheFront' /\ StalledOnlyWhenFailed' /\ WriteInv'
    BY <1>2, NotWriting DEF Idle
  <1>4. QueueInv' /\ WireInOrder'
    BY <1>1, <1>2 DEF SendSide, QueueInv, WireInOrder, Follows
  <1> QED
    BY <1>1, <1>2, <1>3, <1>4 DEF SendSide, SendTypes, EndTypes

LEMMA HandleWriteSend ==
    ASSUME SendSide, HandleWrite
    PROVE  SendSide'
  <1>1. /\ write # NoWrite /\ write.st \in {"ok", "err"} /\ fault = "none"
        /\ UNCHANGED <<api, calls, socket>>
    BY DEF HandleWrite, NoWrite
  <1>2. write.handler = "WriteCallBackErr" <=> api = "err"
    BY <1>1, InProgress
  <1>3. write.st # "err" => write.st = "ok"
    BY <1>1
  <1>4. CASE write.handler = "WriteCallBackErr" /\ WriteCallBackErr
    <2>1. UNCHANGED <<send_queue, send_pending, fault>>
      BY <1>4 DEF WriteCallBackErr
    <2>2. api = "err" /\ write.node = calls
      BY <1>1, <1>2, <1>4, InProgress
    <2>3. CASE Rest < Parts /\ write.st = "ok"
      <3>1. cur_len' = Rest /\ Begin("WriteCallBackErr", write.node, cur_len', "node")
        BY <1>4, <2>3 DEF WriteCallBackErr
      <3>2. PICK h, b, n : h = "WriteCallBackErr" /\ b = "node" /\ n = write.node
        OBVIOUS
      <3>3. /\ h \in Handler /\ b \in {"node", "local"} /\ h # "WriteAllCallBack"
            /\ h = "WriteCallBackErr" <=> api = "err"
        BY <2>2, <3>2 DEF Handler
      <3>4. Begin(h, n, cur_len', b)
        BY <3>1, <3>2
      <3> QED
        BY <1>1, <2>1, <2>3, <3>1, <3>2, <3>3, <3>4, RestSend
    <2>4. CASE Rest < Parts /\ write.st = "err"
      <3>1. cur_len' = Rest /\ Begin("WriteCallBackErr", write.node, cur_len', "node")
        BY <1>4, <2>4 DEF WriteCallBackErr
      <3>2. /\ write.sent = 0 /\ cur_len \in 0 .. Parts - 1 /\ write.node \in Messages
            /\ SentSoFar(write.node, cur_len + write.sent) /\ socket = "failed"
        <4>1. /\ cur_len \in 0 .. Parts - 1 /\ write.node \in Messages
              /\ SentSoFar(write.node, cur_len + write.sent) /\ socket = "failed"
              /\ write.st = "ok" <=> write.sent > 0
              /\ write.sent \in 0 .. Parts
          BY <1>1, <2>4, InProgress DEF Began, SendSide, SendTypes
        <4>2. write.sent = 0
          BY <2>4, <4>1, NumbersOK
        <4> QED
          BY <4>1, <4>2
      <3>3. cur_len + write.sent = cur_len /\ cur_len' = cur_len
        BY <3>1, <3>2, NumbersOK DEF Rest
      <3>4. PICK h, n, f : h = "WriteCallBackErr" /\ n = write.node /\ f = cur_len
        OBVIOUS
      <3>5. /\ Begin(h, n, f, "node") /\ h \in Handler /\ n \in Messages /\ f \in 0 .. Parts - 1
            /\ SentSoFar(n, f) /\ "node" \in {"node", "local"}
        BY <3>1, <3>2, <3>3, <3>4 DEF Handler
      <3>6. wire \in Seq(Piece) /\ WireInOrder
        BY DEF SendSide, SendTypes
      <3>7. wire' \in Seq(Piece) /\ WireInOrder' /\ Began(h, n, f)'
        BY <1>1, <3>5, <3>6, BeginBegan
      <3>8. /\ f = cur_len' /\ h = "WriteCallBackErr" /\ api' = "err" /\ n = calls'
            /\ send_queue' = <<>> /\ send_pending' = FALSE
        BY <1>1, <2>1, <2>2, <3>3, <3>4
           DEF SendSide, SendTypes, QueueInv, StalledOnlyWhenFailed
      <3>9. OneWriteOfTheFront' /\ StalledOnlyWhenFailed' /\ WriteInv'
        BY ONLY <3>7, <3>8, Writing
      <3>10. QueueInv' /\ write' \in Write
        BY <3>7, <3>8 DEF QueueInv, Began
      <3> QED
        BY <1>1, <2>1, <3>3, <3>7, <3>9, <3>10 DEF SendSide, SendTypes, EndTypes
    <2>5. CASE ~(Rest < Parts)
      <3>1. write' = NoWrite /\ wire' = wire /\ cur_len' = cur_len
        BY <1>4, <2>5 DEF WriteCallBackErr, Done
      <3>2. write.st = "ok"
        <4>1. cur_len \in 0 .. Parts - 1 /\ (write.st = "ok" <=> write.sent > 0)
              /\ write.sent \in 0 .. Parts
          BY <1>1, InProgress DEF Began, SendSide, SendTypes
        <4>2. write.sent # 0
          BY <2>5, <4>1, NumbersOK DEF Rest
        <4> QED
          BY <4>1, <4>2, NumbersOK
      <3>3. Ended(calls)
        BY <1>1, <2>2, <2>5, <3>2, Finished DEF Rest
      <3>4. send_queue' = <<>> /\ send_pending' = FALSE
        BY <2>1, <2>2 DEF SendSide, SendTypes, QueueInv, StalledOnlyWhenFailed
      <3>5. OneWriteOfTheFront' /\ StalledOnlyWhenFailed' /\ WriteInv'
        <4>1. Ended(calls)'
          BY <1>1, <3>1, <3>3 DEF Ended, Last
        <4> QED
          BY <1>1, <2>2, <3>1, <3>4, <4>1, NotWriting
      <3>6. QueueInv' /\ WireInOrder'
        BY <1>1, <2>2, <3>1, <3>4 DEF SendSide, QueueInv, WireInOrder, Follows
      <3> QED
        BY <1>1, <2>1, <3>1, <3>5, <3>6 DEF SendSide, SendTypes, EndTypes
    <2> QED
      BY <1>1, <2>3, <2>4, <2>5
  <1>5. CASE write.handler = "WriteCallBack" /\ WriteCallBack
    <2>1. api # "err"
      BY <1>2, <1>5
    <2>2. CASE write.st = "err"
      <3>1. Done /\ UNCHANGED <<queue, fault>>
        BY <1>5, <2>2 DEF WriteCallBack
      <3> QED
        BY <1>1, <2>1, <2>2, <3>1, StopSend
    <2>3. CASE write.st = "ok" /\ Rest < Parts
      <3>1. /\ cur_len' = Rest /\ Begin("WriteCallBack", Head(send_queue), cur_len', "node")
            /\ UNCHANGED <<send_queue, send_pending, fault>>
        BY <1>5, <2>3 DEF WriteCallBack
      <3>2. PICK h, b, n : h = "WriteCallBack" /\ b = "node" /\ n = write.node
        OBVIOUS
      <3>3. n = Head(send_queue)
        BY <1>1, <2>1, <3>2, InProgress
      <3>4. /\ h \in Handler /\ b \in {"node", "local"} /\ h # "WriteAllCallBack"
            /\ h = "WriteCallBackErr" <=> api = "err"
        BY <2>1, <3>2 DEF Handler
      <3>5. Begin(h, n, cur_len', b)
        BY <3>1, <3>2, <3>3
      <3> QED
        BY <1>1, <2>3, <3>1, <3>2, <3>4, <3>5, RestSend
    <2>4. CASE write.st = "ok" /\ ~(Rest < Parts)
      <3>1. /\ Pop
            /\ \/ SendNext("WriteCallBack") /\ UNCHANGED fault
               \/ /\ send_queue' # <<>>
                  /\ fault' = "popped slot"
                  /\ Done /\ UNCHANGED send_pending
        BY <1>5, <2>4 DEF WriteCallBack
      <3>2. CASE SendNext("WriteCallBack") /\ UNCHANGED fault
        <4>1. Ended(write.node)
          BY <1>1, <2>4, Finished DEF Rest
        <4> QED
          BY <1>1, <2>1, <3>1, <3>2, <4>1, SendNextSend
      <3>3. CASE /\ send_queue' # <<>> /\ fault' = "popped slot"
                 /\ Done /\ UNCHANGED send_pending
        BY <1>1, <2>1, <3>1, <3>3, PoppedSlotSend
      <3> QED
        BY <3>1, <3>2, <3>3
    <2> QED
      BY <1>3, <2>2, <2>3, <2>4
  <1>6. CASE write.handler = "WriteAllCallBack" /\ WriteAllCallBack
    <2>1. api = "all" /\ UNCHANGED fault
      BY <1>1, <1>6, InProgress DEF WriteAllCallBack
    <2>2. CASE write.st = "err"
      <3>1. Done /\ UNCHANGED queue
        BY <1>6, <2>2 DEF WriteAllCallBack
      <3> QED
        BY <1>1, <2>1, <2>2, <3>1, StopSend
    <2>3. CASE write.st = "ok"
      <3>1. Pop /\ SendNext("WriteCallBack")
        BY <1>6, <2>3 DEF WriteAllCallBack
      <3>2. Ended(write.node)
        <4>1. /\ SentSoFar(write.node, cur_len + write.sent) /\ write.sent > 0
              /\ cur_len \in 0 .. Parts - 1 /\ write.sent \in 0 .. Parts
              /\ write.node \in Messages
          BY <1>1, <2>3, InProgress DEF Began, SendSide, SendTypes
        <4>2. cur_len + write.sent # 0 /\ write.node # 0
          BY <4>1, NumbersOK DEF Messages
        <4> QED
          BY <2>1, <4>1, <4>2 DEF SentSoFar, Ended
      <3> QED
        BY <1>1, <2>1, <3>1, <3>2, SendNextSend
    <2> QED
      BY <1>3, <2>2, <2>3
  <1> QED
    BY <1>4, <1>5, <1>6 DEF HandleWrite

-----------------------------------------------------------------------------
(* The reads.  What a write does to the shared variables leaves them.      *)
LEMMA SendStepsRead ==
    ASSUME ReadSide, UNCHANGED receiving, EndTypes',
           socket = "failed" => socket' = "failed", fault' \in {fault, "popped slot"}
    PROVE  ReadSide'
  BY DEF ReadSide, ReadTypes, ReadInv, NodeFilled, receiving

LEMMA OneAtMost == \A n \in Nat : n # 0 /\ n <= 1 => n = 1 /\ 1 \in 1 .. n
  OBVIOUS

LEMMA SingleElement ==
    ASSUME NEW S, NEW s \in Seq(S), s # <<>>, Len(s) <= 1
    PROVE  /\ Len(s) = 1 /\ Head(s) = s[1] /\ 1 \in 1 .. Len(s) /\ s[1] \in S
           /\ Tail(s) = <<>>
  <1>1. Len(s) \in Nat /\ Len(s) # 0
    BY EmptySeq
  <1>2. Len(s) = 1 /\ 1 \in 1 .. Len(s)
    BY ONLY <1>1, Len(s) <= 1, OneAtMost
  <1>3. Head(s) = s[1] /\ s[1] \in S
    BY <1>2, ElementOfSeq
  <1>4. Tail(s) \in Seq(S) /\ Len(Tail(s)) = 0
    BY <1>2, HeadTailProperties
  <1>5. Tail(s) = <<>>
    BY ONLY <1>4, EmptySeq
  <1> QED
    BY <1>2, <1>3, <1>5

(* With no second read there is none or one, of the present node.          *)
LEMMA OneRead ==
    ASSUME ReadSide, ~overlapped, reads # <<>>
    PROVE  /\ Len(reads) = 1 /\ Head(reads) = reads[1] /\ Tail(reads) = <<>>
           /\ reads[1] \in ReadOp /\ reads[1].node = recv_node /\ reads[1].from = recv_len
           /\ recv_len + reads[1].n <= RecvSize /\ recv_node > 0
           /\ reads[1].st = "ok" <=> reads[1].n > 0
           /\ \A p \in 1 .. RecvSize :
                 content[p] = IF p <= recv_len + reads[1].n
                              THEN stream - (recv_len + reads[1].n) + p ELSE 0
  <1>1. reads \in Seq(ReadOp) /\ Len(reads) <= 1
    BY DEF ReadSide, ReadTypes, ReadInv
  <1>2. /\ Len(reads) = 1 /\ Head(reads) = reads[1] /\ 1 \in 1 .. Len(reads)
        /\ Tail(reads) = <<>>
    BY ONLY <1>1, reads # <<>>, SingleElement
  <1>3. reads[1] \in ReadOp
    BY ONLY <1>1, <1>2, ElementOfSeq
  <1> QED
    BY <1>2, <1>3 DEF ReadSide, ReadInv, NodeFilled

LEMMA ReadFromSocketRead ==
    ASSUME ReadSide, ReadFromSocket
    PROVE  ReadSide'
  <1>1. /\ recv_node < MaxReads /\ recv_node' = recv_node + 1 /\ recv_len' = 0
        /\ content' = Empty /\ reads' = Append(reads, AsyncRead(0))
        /\ overlapped' = (overlapped \/ reads # <<>>)
        /\ UNCHANGED <<stream, socket, fault>>
    BY DEF ReadFromSocket
  <1>2. PICK op : op = AsyncRead(0)
    OBVIOUS
  <1>3. /\ op \in ReadOp /\ op.node = recv_node' /\ op.from = 0 /\ op.n = 0 /\ op.st = "io"
        /\ recv_node' \in 0 .. MaxReads /\ recv_node' > 0
    BY <1>1, <1>2, NumbersOK DEF ReadSide, ReadTypes, ReadOp, AsyncRead
  <1>4. reads \in Seq(ReadOp) /\ reads' = Append(reads, op)
    BY <1>1, <1>2 DEF ReadSide, ReadTypes
  <1>5. /\ reads' \in Seq(ReadOp) /\ Len(reads') = Len(reads) + 1 /\ Len(reads) \in Nat
        /\ reads'[Len(reads) + 1] = op /\ \A i \in 1 .. Len(reads) : reads'[i] = reads[i]
        /\ reads' # <<>>
    BY ONLY <1>3, <1>4, AppendProperties
  <1>6. ReadTypes'
    <2>1. Empty \in [1 .. RecvSize -> Nat] /\ 0 \in Nat
      BY DEF Empty
    <2>2. overlapped' \in BOOLEAN
      BY <1>1
    <2> QED
      BY <1>1, <1>3, <1>5, <2>1, <2>2 DEF ReadSide, ReadTypes
  <1>7. ASSUME NEW i \in 1 .. Len(reads'), reads'[i].st = "err"
        PROVE  socket' = "failed"
    <2>1. i \in 1 .. Len(reads) \/ i = Len(reads) + 1
      BY <1>5
    <2>2. i \in 1 .. Len(reads) /\ reads[i].st = "err"
      BY <1>3, <1>5, <1>7, <2>1
    <2> QED
      BY <1>1, <2>2 DEF ReadSide, ReadInv
  <1>8. ASSUME ~overlapped'
        PROVE  /\ Len(reads') = 1 /\ Head(reads') = op
               /\ \A p \in 1 .. RecvSize : content'[p] = 0 /\ ~(p <= 0)
               /\ fault' # "freed node"
    <2>1. ~overlapped /\ reads = <<>>
      BY <1>1, <1>8
    <2>2. Len(reads) = 0 /\ Len(reads') = 1
      BY <1>5, <2>1
    <2>3. Head(reads') = op
      BY ONLY <1>3, <1>5, <2>2, SingleElement, 0 + 1 = 1
    <2>4. \A p \in 1 .. RecvSize : content'[p] = 0 /\ ~(p <= 0)
      BY <1>1, NumbersOK DEF Empty
    <2>5. fault' # "freed node"
      BY <1>1, <2>1 DEF ReadSide, NodeFilled
    <2> QED
      BY <2>2, <2>3, <2>4, <2>5
  <1>9. 0 + 0 = 0 /\ 0 <= RecvSize
    BY NumbersOK
  <1>10. ReadInv'
    <2>1. ASSUME ~overlapped'
          PROVE  /\ Len(reads') <= 1
                 /\ Head(reads').node = recv_node' /\ Head(reads').from = recv_len'
                 /\ recv_len' + Head(reads').n <= RecvSize
                 /\ Head(reads').st = "ok" <=> Head(reads').n > 0
      <3>1. Len(reads') = 1 /\ Head(reads') = op
        BY <1>8, <2>1
      <3> QED
        BY ONLY <1>1, <1>3, <1>9, <3>1
    <2> QED
      BY <1>3, <1>7, <2>1 DEF ReadInv
  <1>11. NodeFilled'
    BY <1>1, <1>3, <1>5, <1>8, <1>9 DEF NodeFilled
  <1>12. EndTypes'
    BY <1>1 DEF ReadSide, EndTypes
  <1> QED
    BY <1>6, <1>10, <1>11, <1>12 DEF ReadSide

(* The result of a read is put into its place.                             *)
LEMMA ResultRead ==
    ASSUME reads \in Seq(ReadOp), NEW i \in 1 .. Len(reads), NEW r \in ReadOp,
           reads' = [reads EXCEPT ![i] = r]
    PROVE  /\ reads' \in Seq(ReadOp) /\ Len(reads') = Len(reads) /\ reads # <<>> /\ reads' # <<>>
           /\ \A j \in 1 .. Len(reads) : reads'[j] = IF j = i THEN r ELSE reads[j]
           /\ Len(reads) = 1 => i = 1 /\ Head(reads') = r
  <1>1. /\ reads' \in Seq(ReadOp) /\ Len(reads') = Len(reads)
        /\ \A j \in 1 .. Len(reads) : reads'[j] = IF j = i THEN r ELSE reads[j]
    BY ONLY reads \in Seq(ReadOp), i \in 1 .. Len(reads), r \in ReadOp,
            reads' = [reads EXCEPT ![i] = r], ExceptSeq
  <1>2. reads # <<>> /\ reads' # <<>>
    <2>1. Len(reads) # 0
      BY ONLY reads \in Seq(ReadOp), i \in 1 .. Len(reads)
    <2> QED
      BY ONLY <1>1, <2>1, EmptySeq
  <1>3. ASSUME Len(reads) = 1 PROVE i = 1 /\ Head(reads') = r
    <2>1. i = 1 /\ i \in 1 .. Len(reads)
      BY ONLY i \in 1 .. Len(reads), <1>3
    <2>2. Head(reads') = reads'[1]
      BY ONLY <1>1, <1>2, <1>3, HeadTailProperties, SingleElement, 1 <= 1
    <2> QED
      BY ONLY <1>1, <2>1, <2>2
  <1> QED
    BY <1>1, <1>2, <1>3

(* k bytes behind l that are in their place.                               *)
LEMMA BytesInPlace ==
    ASSUME NEW p \in Nat, NEW l \in Nat, NEW k \in Nat, NEW s \in Nat
    PROVE  (IF p - l \in 1 .. k THEN s + (p - l) ELSE IF p <= l THEN s - l + p ELSE 0)
           = IF p <= l + k THEN (s + k) - (l + k) + p ELSE 0
  OBVIOUS

LEMMA ArriveRead ==
    ASSUME ReadSide, Arrive
    PROVE  ReadSide'
  <1>1. PICK i \in 1 .. Len(reads) : \E m \in 1 .. RecvSize - reads[i].from :
            /\ FirstWaiting(i)
            /\ reads' = [reads EXCEPT ![i].n = m, ![i].st = "ok"]
            /\ stream' = stream + m
            /\ IF reads[i].node = recv_node
               THEN /\ content' = [p \in 1 .. RecvSize |->
                          IF p - reads[i].from \in 1 .. m THEN stream + (p - reads[i].from) ELSE content[p]]
                    /\ UNCHANGED fault
               ELSE fault' = "freed node" /\ UNCHANGED content
    BY DEF Arrive
  <1>2. PICK k \in 1 .. RecvSize - reads[i].from :
            /\ FirstWaiting(i)
            /\ reads' = [reads EXCEPT ![i].n = k, ![i].st = "ok"]
            /\ stream' = stream + k
            /\ IF reads[i].node = recv_node
               THEN /\ content' = [p \in 1 .. RecvSize |->
                          IF p - reads[i].from \in 1 .. k THEN stream + (p - reads[i].from) ELSE content[p]]
                    /\ UNCHANGED fault
               ELSE fault' = "freed node" /\ UNCHANGED content
    BY <1>1
  <1>3. UNCHANGED <<recv_node, recv_len, overlapped, socket>> /\ fault = "none"
    BY DEF Arrive
  <1>4. reads \in Seq(ReadOp) /\ stream \in Nat /\ content \in [1 .. RecvSize -> Nat]
    BY DEF ReadSide, ReadTypes
  <1>5. reads[i] \in ReadOp /\ reads[i].from \in 0 .. RecvSize - 1 /\ reads[i].st = "io"
    <2>1. reads[i] \in ReadOp
      BY ONLY <1>4, i \in 1 .. Len(reads), ElementOfSeq
    <2> QED
      BY <1>2, <2>1 DEF ReadOp, FirstWaiting
  <1>6. k \in Nat /\ k > 0 /\ reads[i].from \in Nat /\ reads[i].from + k <= RecvSize
        /\ k \in 0 .. RecvSize
    BY ONLY <1>5, NumbersOK, k \in 1 .. RecvSize - reads[i].from
  <1>7. PICK r : r = [reads[i] EXCEPT !.n = k, !.st = "ok"]
    OBVIOUS
  <1>8. /\ r \in ReadOp /\ r.node = reads[i].node /\ r.from = reads[i].from
        /\ r.n = k /\ r.st = "ok"
    BY <1>5, <1>6, <1>7 DEF ReadOp
  <1>9. reads' = [reads EXCEPT ![i] = r]
    BY <1>2, <1>7
  <1>10. /\ reads' \in Seq(ReadOp) /\ Len(reads') = Len(reads) /\ reads # <<>> /\ reads' # <<>>
         /\ \A j \in 1 .. Len(reads) : reads'[j] = IF j = i THEN r ELSE reads[j]
         /\ Len(reads) = 1 => i = 1 /\ Head(reads') = r
    BY ONLY <1>4, <1>8, <1>9, i \in 1 .. Len(reads), ResultRead
  <1>11. content' \in [1 .. RecvSize -> Nat] /\ stream' \in Nat
    <2>1. stream' \in Nat
      <3>1. stream' = stream + k /\ stream \in Nat
        BY <1>2, <1>4
      <3> QED
        BY ONLY <1>6, <3>1
    <2>2. CASE reads[i].node = recv_node
      <3>1. \A p \in 1 .. RecvSize :
                (IF p - reads[i].from \in 1 .. k THEN stream + (p - reads[i].from) ELSE content[p]) \in Nat
        BY <1>4, <1>6
      <3> QED
        BY <1>2, <2>1, <2>2, <3>1
    <2>3. CASE reads[i].node # recv_node
      BY <1>2, <1>4, <2>1, <2>3
    <2> QED
      BY <2>2, <2>3
  <1>12. ReadTypes' /\ EndTypes'
    BY <1>2, <1>3, <1>10, <1>11 DEF ReadSide, ReadTypes, EndTypes
  <1>13. \A j \in 1 .. Len(reads') : reads'[j].st = "err" => socket' = "failed"
    BY <1>3, <1>8, <1>10 DEF ReadSide, ReadInv
  <1>14. ASSUME ~overlapped'
         PROVE  /\ Len(reads') = 1 /\ Head(reads') = r
                /\ r.node = recv_node' /\ r.from = recv_len' /\ recv_len' + r.n <= RecvSize
                /\ fault' # "freed node"
                /\ \A p \in 1 .. RecvSize :
                      content'[p] = IF p <= recv_len' + r.n
                                    THEN stream' - (recv_len' + r.n) + p ELSE 0
    <2>1. ~overlapped
      BY <1>3, <1>14
    <2>2. /\ Len(reads) = 1
          /\ reads[1] \in ReadOp /\ reads[1].node = recv_node /\ reads[1].from = recv_len
          /\ reads[1].st = "ok" <=> reads[1].n > 0
          /\ \A p \in 1 .. RecvSize :
                content[p] = IF p <= recv_len + reads[1].n
                             THEN stream - (recv_len + reads[1].n) + p ELSE 0
      BY <1>10, <2>1, OneRead
    <2>3. i = 1 /\ Head(reads') = r /\ Len(reads') = 1
      BY <1>10, <2>2
    <2>4. reads[1].n = 0
      <3>1. reads[1].n \in 0 .. RecvSize /\ ~(reads[1].n > 0)
        BY <1>5, <2>2, <2>3 DEF ReadOp
      <3> QED
        BY ONLY <3>1, NumbersOK
    <2>5. PICK l : l = recv_len
      OBVIOUS
    <2>6. /\ l \in Nat /\ reads[i].from = l /\ recv_len' = l /\ l + 0 = l
          /\ r.node = recv_node' /\ r.from = l /\ fault' = fault
      BY <1>2, <1>3, <1>6, <1>8, <2>2, <2>3, <2>5
    <2>7. \A p \in 1 .. RecvSize : content[p] = IF p <= l THEN stream - l + p ELSE 0
      BY <2>2, <2>4, <2>5, <2>6
    <2>8. content' = [p \in 1 .. RecvSize |->
                IF p - l \in 1 .. k THEN stream + (p - l) ELSE content[p]]
      BY <1>2, <2>2, <2>3, <2>5
    <2>9. ASSUME NEW p \in 1 .. RecvSize
          PROVE  content'[p] = IF p <= l + k THEN stream' - (l + k) + p ELSE 0
      <3>1. content'[p] = IF p - l \in 1 .. k THEN stream + (p - l) ELSE content[p]
        BY <2>8
      <3>2. content[p] = IF p <= l THEN stream - l + p ELSE 0
        BY <2>7
      <3>3. stream' = stream + k
        BY <1>2
      <3>4. p \in Nat /\ stream \in Nat
        BY <1>4
      <3> QED
        BY ONLY <1>6, <2>6, <3>1, <3>2, <3>3, <3>4, BytesInPlace
    <2> QED
      BY <1>3, <1>6, <1>8, <2>3, <2>6, <2>9
  <1>15. ReadInv'
    <2>1. recv_node' > 0
      BY <1>3, <1>10 DEF ReadSide, ReadInv
    <2>2. ASSUME ~overlapped'
          PROVE  /\ Len(reads') <= 1 /\ Head(reads').node = recv_node'
                 /\ Head(reads').from = recv_len' /\ recv_len' + Head(reads').n <= RecvSize
                 /\ Head(reads').st = "ok" <=> Head(reads').n > 0
      <3>1. Len(reads') = 1 /\ Head(reads') = r
        BY <1>14, <2>2
      <3>2. r.node = recv_node' /\ r.from = recv_len' /\ recv_len' + r.n <= RecvSize
        BY <1>14, <2>2
      <3> QED
        BY ONLY <1>6, <1>8, <3>1, <3>2
    <2> QED
      BY <1>13, <2>1, <2>2 DEF ReadInv
  <1>16. NodeFilled'
    BY <1>10, <1>14 DEF NodeFilled
  <1> QED
    BY <1>12, <1>15, <1>16 DEF ReadSide

LEMMA ReadFailsRead ==
    ASSUME ReadSide, ReadFails
    PROVE  ReadSide'
  <1>1. PICK i \in 1 .. Len(reads) :
            FirstWaiting(i) /\ reads' = [reads EXCEPT ![i].st = "err"]
    BY DEF ReadFails
  <1>2. /\ UNCHANGED <<recv_node, recv_len, content, stream, overlapped, socket, fault>>
        /\ socket = "failed"
    BY DEF ReadFails
  <1>3. reads \in Seq(ReadOp)
    BY DEF ReadSide, ReadTypes
  <1>4. reads[i] \in ReadOp /\ reads[i].st = "io"
    <2>1. reads[i] \in ReadOp
      BY ONLY <1>3, i \in 1 .. Len(reads), ElementOfSeq
    <2> QED
      BY <1>1, <2>1 DEF FirstWaiting
  <1>5. PICK r : r = [reads[i] EXCEPT !.st = "err"]
    OBVIOUS
  <1>6. /\ r \in ReadOp /\ r.node = reads[i].node /\ r.from = reads[i].from
        /\ r.n = reads[i].n /\ r.st = "err"
    BY <1>4, <1>5 DEF ReadOp
  <1>7. reads' = [reads EXCEPT ![i] = r]
    BY <1>1, <1>5
  <1>8. /\ reads' \in Seq(ReadOp) /\ Len(reads') = Len(reads) /\ reads # <<>> /\ reads' # <<>>
        /\ Len(reads) = 1 => i = 1 /\ Head(reads') = r
    BY ONLY <1>3, <1>6, <1>7, i \in 1 .. Len(reads), ResultRead
  <1>9. ReadTypes' /\ EndTypes'
    BY <1>2, <1>8 DEF ReadSide, ReadTypes, EndTypes
  <1>10. ASSUME ~overlapped'
         PROVE  /\ Len(reads') = 1 /\ Head(reads') = r /\ Head(reads).n = r.n
                /\ r.node = recv_node /\ r.from = recv_len /\ recv_len + r.n <= RecvSize
                /\ ~(r.n > 0)
    <2>1. ~overlapped
      BY <1>2, <1>10
    <2>2. /\ Len(reads) = 1 /\ Head(reads) = reads[1] /\ reads[1].node = recv_node
          /\ reads[1].from = recv_len /\ recv_len + reads[1].n <= RecvSize
          /\ reads[1].st = "ok" <=> reads[1].n > 0
      BY <1>8, <2>1, OneRead
    <2>3. i = 1 /\ Head(reads') = r /\ Len(reads') = 1
      BY <1>8, <2>2
    <2> QED
      BY <1>4, <1>6, <2>2, <2>3
  <1>11. ReadInv'
    <2>1. recv_node' > 0 /\ socket' = "failed"
      BY <1>2, <1>8 DEF ReadSide, ReadInv
    <2>2. ASSUME ~overlapped'
          PROVE  /\ Len(reads') <= 1 /\ Head(reads').node = recv_node'
                 /\ Head(reads').from = recv_len' /\ recv_len' + Head(reads').n <= RecvSize
                 /\ Head(reads').st = "ok" <=> Head(reads').n > 0
      <3>1. /\ Len(reads') = 1 /\ Head(reads') = r
            /\ r.node = recv_node /\ r.from = recv_len /\ recv_len + r.n <= RecvSize
            /\ ~(r.n > 0)
        BY <1>10, <2>2
      <3> QED
        BY ONLY <1>2, <1>6, <3>1
    <2> QED
      BY <2>1, <2>2 DEF ReadInv
  <1>12. NodeFilled'
    <2>1. ASSUME ~overlapped'
          PROVE  ~overlapped /\ Head(reads').n = Head(reads).n
      BY <1>2, <1>10, <2>1
    <2> QED
      BY <1>2, <1>8, <2>1 DEF ReadSide, NodeFilled
  <1> QED
    BY <1>9, <1>11, <1>12 DEF ReadSide

LEMMA ReadCallBackRead ==
    ASSUME ReadSide, ReadCallBack
    PROVE  ReadSide'
  <1>1. /\ reads # <<>> /\ Head(reads).st # "io"
        /\ UNCHANGED <<recv_node, content, stream, overlapped, socket, fault>>
    BY DEF ReadCallBack
  <1>2. reads \in Seq(ReadOp)
    BY DEF ReadSide, ReadTypes
  <1>3. PICK t : t = Tail(reads)
    OBVIOUS
  <1>4. /\ t \in Seq(ReadOp) /\ Len(t) = Len(reads) - 1 /\ Len(reads) \in Nat
        /\ \A i \in 1 .. Len(t) : t[i] = reads[i + 1]
        /\ Head(reads) \in ReadOp
    BY ONLY <1>1, <1>2, <1>3, HeadTailProperties
  <1>5. ASSUME NEW i \in 1 .. Len(t), t[i].st = "err"
        PROVE  socket = "failed"
    <2>1. i + 1 \in 1 .. Len(reads) /\ t[i] = reads[i + 1]
      BY ONLY <1>4, i \in 1 .. Len(t)
    <2> QED
      BY <1>5, <2>1 DEF ReadSide, ReadInv
  <1>6. ASSUME ~overlapped
        PROVE  /\ t = <<>> /\ recv_len + Head(reads).n <= RecvSize
               /\ Head(reads).st = "ok" <=> Head(reads).n > 0
    BY <1>1, <1>3, <1>6, OneRead
  <1>7. recv_node > 0
    BY <1>1 DEF ReadSide, ReadInv
  <1>8. EndTypes'
    BY <1>1 DEF ReadSide, EndTypes
  <1>9. recv_len \in Nat /\ Head(reads).n \in 0 .. RecvSize
    BY <1>4 DEF ReadSide, ReadTypes, ReadOp
  <1>10. PICK l : l = recv_len + Head(reads).n
    OBVIOUS
  <1>11. l \in Nat
    BY <1>9, <1>10, NumbersOK
  <1>12. CASE Head(reads).st = "err"
    <2>1. reads' = t /\ recv_len' = recv_len
      BY <1>3, <1>12 DEF ReadCallBack
    <2>2. socket = "failed"
      <3>1. Head(reads) = reads[1] /\ 1 \in 1 .. Len(reads)
        <4>1. Len(reads) # 0
          BY ONLY <1>1, <1>2, EmptySeq
        <4> QED
          BY ONLY <1>2, <1>4, <4>1
      <3> QED
        BY <1>12, <3>1 DEF ReadSide, ReadInv
    <2>3. ReadTypes'
      BY <1>1, <1>4, <2>1 DEF ReadSide, ReadTypes
    <2>4. ReadInv'
      <3>1. ASSUME ~overlapped' PROVE reads' = <<>> /\ Len(reads') <= 1
        BY <1>1, <1>6, <2>1, <3>1
      <3> QED
        BY <1>1, <1>7, <2>2, <3>1 DEF ReadInv
    <2>5. NodeFilled'
      <3>1. ASSUME ~overlapped'
            PROVE  /\ reads' = <<>> /\ ~overlapped /\ recv_len + Head(reads).n = recv_len
        <4>1. ~overlapped /\ reads' = <<>> /\ ~(Head(reads).n > 0)
          BY <1>1, <1>6, <1>12, <2>1, <3>1
        <4>2. Head(reads).n = 0
          BY ONLY <1>9, <4>1, NumbersOK
        <4> QED
          BY <1>9, <4>1, <4>2
      <3> QED
        BY <1>1, <2>1, <2>2, <3>1 DEF ReadSide, NodeFilled
    <2> QED
      BY <1>8, <2>3, <2>4, <2>5 DEF ReadSide
  <1>13. CASE Head(reads).st # "err" /\ l < RecvSize
    <2>1. recv_len' = l /\ reads' = t \o <<ReadOn(l)>>
      BY <1>3, <1>10, <1>13 DEF ReadCallBack
    <2>2. PICK op : op = ReadOn(l)
      OBVIOUS
    <2>3. /\ op \in ReadOp /\ op.node = recv_node /\ op.from = l /\ op.n = 0 /\ op.st = "io"
      <3>1. recv_node \in 1 .. MaxReads /\ l \in 0 .. RecvSize - 1
        <4>1. recv_node \in 0 .. MaxReads
          BY DEF ReadSide, ReadTypes
        <4> QED
          BY ONLY <1>7, <1>11, <1>13, <4>1, NumbersOK
      <3> QED
        BY <1>1, <2>2, <3>1, NumbersOK DEF ReadOn, AsyncRead, ReadOp
    <2>4. reads' = Append(t, op)
      BY ONLY <1>4, <2>1, <2>2, <2>3, AppendIsConcat
    <2>5. /\ reads' \in Seq(ReadOp) /\ Len(reads') = Len(t) + 1 /\ Len(t) \in Nat
          /\ reads'[Len(t) + 1] = op /\ \A i \in 1 .. Len(t) : reads'[i] = t[i]
          /\ reads' # <<>>
      BY ONLY <1>4, <2>3, <2>4, AppendProperties
    <2>6. ReadTypes'
      BY <1>1, <1>11, <2>1, <2>5 DEF ReadSide, ReadTypes
    <2>7. ASSUME NEW i \in 1 .. Len(reads'), reads'[i].st = "err"
          PROVE  socket' = "failed"
      <3>1. i \in 1 .. Len(t) \/ i = Len(t) + 1
        BY <2>5
      <3>2. i \in 1 .. Len(t) /\ t[i].st = "err"
        BY <2>3, <2>5, <2>7, <3>1
      <3> QED
        BY <1>1, <1>5, <3>2
    <2>8. ASSUME ~overlapped'
          PROVE  Len(reads') = 1 /\ Head(reads') = op
      <3>1. t = <<>>
        BY <1>1, <1>6, <2>8
      <3>2. Len(t) = 0
        BY <3>1
      <3> QED
        BY ONLY <2>3, <2>5, <3>2, SingleElement, 0 + 1 = 1
    <2>9. l + 0 = l /\ l <= RecvSize
      BY <1>11, <1>13, NumbersOK
    <2>10. ReadInv'
      <3>1. ASSUME ~overlapped'
            PROVE  /\ Len(reads') <= 1 /\ Head(reads').node = recv_node'
                   /\ Head(reads').from = recv_len' /\ recv_len' + Head(reads').n <= RecvSize
                   /\ Head(reads').st = "ok" <=> Head(reads').n > 0
        <4>1. Len(reads') = 1 /\ Head(reads') = op
          BY <2>8, <3>1
        <4> QED
          BY ONLY <1>1, <2>1, <2>3, <2>9, <4>1
      <3> QED
        BY <1>1, <1>7, <2>7, <3>1 DEF ReadInv
    <2>11. NodeFilled'
      <3>1. ASSUME ~overlapped'
            PROVE  ~overlapped /\ recv_len' + Head(reads').n = recv_len + Head(reads).n
        BY <1>1, <1>10, <2>1, <2>3, <2>8, <2>9, <3>1
      <3> QED
        BY <1>1, <2>5, <3>1 DEF ReadSide, NodeFilled
    <2> QED
      BY <1>8, <2>6, <2>10, <2>11 DEF ReadSide
  <1>14. CASE Head(reads).st # "err" /\ ~(l < RecvSize)
    <2>1. recv_len' = l /\ reads' = t
      <3>1. recv_len' = l /\ reads' = t \o <<>>
        BY <1>3, <1>10, <1>14 DEF ReadCallBack
      <3> QED
        BY ONLY <1>4, <3>1, ConcatEmptySeq
    <2>2. ReadTypes'
      BY <1>1, <1>4, <1>11, <2>1 DEF ReadSide, ReadTypes
    <2>3. ReadInv'
      <3>1. ASSUME ~overlapped' PROVE reads' = <<>> /\ Len(reads') <= 1
        BY <1>1, <1>6, <2>1, <3>1
      <3>2. \A i \in 1 .. Len(reads') : reads'[i].st = "err" => socket' = "failed"
        BY <1>1, <1>5, <2>1
      <3> QED
        BY <1>1, <1>7, <3>1, <3>2 DEF ReadInv
    <2>4. NodeFilled'
      <3>1. ASSUME ~overlapped'
            PROVE  reads' = <<>> /\ ~overlapped /\ recv_len' = RecvSize
        <4>1. ~overlapped /\ reads' = <<>> /\ l <= RecvSize
          BY <1>1, <1>6, <1>10, <2>1, <3>1
        <4> QED
          BY <1>11, <1>14, <2>1, <4>1, NumbersOK
      <3> QED
        BY <1>1, <1>10, <2>1, <3>1 DEF ReadSide, NodeFilled
    <2> QED
      BY <1>8, <2>2, <2>3, <2>4 DEF ReadSide
  <1> QED
    BY <1>11, <1>12, <1>13, <1>14, NumbersOK

-----------------------------------------------------------------------------
LEMMA InitIInv == Init => StudyInv
  <1> SUFFICES ASSUME Init PROVE StudyInv
    OBVIOUS
  <1>1. SendTypes /\ EndTypes /\ ReadTypes
    <2>1. 0 \in 0 .. Parts - 1 /\ 0 \in 0 .. MaxMsgs /\ 0 \in 0 .. MaxReads
      BY ONLY NumbersOK
    <2>2. Empty \in [1 .. RecvSize -> Nat]
      BY DEF Empty
    <2>3. <<>> \in Seq(Messages) /\ <<>> \in Seq(Piece) /\ <<>> \in Seq(ReadOp)
      BY EmptySeq
    <2> QED
      BY <2>1, <2>2, <2>3 DEF Init, SendTypes, EndTypes, ReadTypes
  <1>2. Len(send_queue) = 0 /\ Len(wire) = 0 /\ Len(reads) = 0
    BY DEF Init
  <1>3. OneWriteOfTheFront /\ StalledOnlyWhenFailed /\ QueueInv /\ WriteInv /\ WireInOrder
    BY <1>2 DEF Init, OneWriteOfTheFront, StalledOnlyWhenFailed, QueueInv, WriteInv,
                WireInOrder, Idle, Ended
  <1>4. ReadInv /\ NodeFilled
    BY <1>2, NumbersOK DEF Init, ReadInv, NodeFilled, Empty
  <1> QED
    BY <1>1, <1>3, <1>4, TwoSides DEF SendSide, ReadSide

LEMMA NextIInv == StudyInv /\ [Next]_vars => StudyInv'
  <1> SUFFICES ASSUME SendSide, ReadSide, [Next]_vars PROVE SendSide' /\ ReadSide'
    BY TwoSides, PTL
  <1>1. CASE ProgramWrites
    <2>1. SendSide'
      BY <1>1, ProgramWritesSend
    <2> QED
      BY <1>1, <2>1, SendStepsRead DEF ProgramWrites, SendSide
  <1>2. CASE HandleWrite
    <2>1. SendSide'
      BY <1>2, HandleWriteSend
    <2>2. fault' \in {fault, "popped slot"}
      BY <1>2 DEF HandleWrite, WriteCallBackErr, WriteCallBack, WriteAllCallBack
    <2> QED
      BY <1>2, <2>1, <2>2, SendStepsRead DEF HandleWrite, SendSide
  <1>3. CASE Transmit
    <2>1. SendSide'
      BY <1>3, TransmitSend
    <2> QED
      BY <1>3, <2>1, SendStepsRead DEF Transmit, SendSide
  <1>4. CASE WriteFails
    <2>1. SendSide'
      BY <1>4, WriteFailsSend
    <2> QED
      BY <1>4, <2>1, SendStepsRead DEF WriteFails, SendSide
  <1>5. CASE SocketFails
    <2>1. SendSide'
      BY <1>5, SocketFailsSend
    <2> QED
      BY <1>5, <2>1, SendStepsRead DEF SocketFails, SendSide
  <1>6. CASE ReadFromSocket
    <2>1. ReadSide'
      BY <1>6, ReadFromSocketRead
    <2> QED
      BY <1>6, <2>1, ReadStepsSend DEF ReadFromSocket, ReadSide
  <1>7. CASE Arrive
    <2>1. ReadSide'
      BY <1>7, ArriveRead
    <2> QED
      BY <1>7, <2>1, ReadStepsSend DEF Arrive, ReadSide
  <1>8. CASE ReadFails
    <2>1. ReadSide'
      BY <1>8, ReadFailsRead
    <2> QED
      BY <1>8, <2>1, ReadStepsSend DEF ReadFails, ReadSide
  <1>9. CASE ReadCallBack
    <2>1. ReadSide'
      BY <1>9, ReadCallBackRead
    <2> QED
      BY <1>9, <2>1, ReadStepsSend DEF ReadCallBack, ReadSide
  <1>10. CASE UNCHANGED vars
    <2>1. UNCHANGED <<api, sending, socket, receiving, fault>> /\ EndTypes'
      BY <1>10 DEF vars, SendSide, EndTypes
    <2>2. ReadSide'
      BY <2>1, SendStepsRead
    <2>3. SendSide'
      BY <2>1 DEF SendSide, SendTypes, EndTypes, OneWriteOfTheFront, StalledOnlyWhenFailed,
                  QueueInv, WriteInv, WireInOrder, Follows, SentSoFar, Ended, Last, Idle,
                  sending, queue
    <2> QED
      BY <2>2, <2>3
  <1> QED
    BY <1>1, <1>2, <1>3, <1>4, <1>5, <1>6, <1>7, <1>8, <1>9, <1>10 DEF Next

(* The inductive invariant: one write at a time and of the front of the    *)
(* queue, which is the tail of what was written; the wire ends where the   *)
(* pending write has got to; nothing stalls unless the socket has failed.  *)
THEOREM InductiveInvariant == Spec => []StudyInv
  <1>1. Init => StudyInv
    BY InitIInv
  <1>2. StudyInv /\ [Next]_vars => StudyInv'
    BY NextIInv
  <1> QED
    BY <1>1, <1>2, PTL DEF Spec, Safety

(* send_pending, set by the write functions and cleared by the callbacks,  *)
(* lets no second write begin, and the message at the front is the one     *)
(* being written.                                                          *)
THEOREM OneWrite == Spec => []OneWriteOfTheFront
  <1>1. StudyInv => OneWriteOfTheFront
    BY DEF StudyInv
  <1> QED
    BY <1>1, InductiveInvariant, PTL

(* send_pending is left set, and messages are left queued, on a failed     *)
(* socket only.                                                            *)
THEOREM NoStall == Spec => []StalledOnlyWhenFailed
  <1>1. StudyInv => StalledOnlyWhenFailed
    BY DEF StudyInv
  <1> QED
    BY <1>1, InductiveInvariant, PTL

(* Whichever write function is used, however the kernel splits a message,  *)
(* no piece is written twice, dropped or out of order, but for the end of  *)
(* a message async_send took for sent.                                     *)
THEOREM PiecesOnTheWire == Spec => []WireInOrder
  <1>1. StudyInv => WireInOrder
    BY DEF StudyInv
  <1> QED
    BY <1>1, InductiveInvariant, PTL

(* A read that no other read overtakes fills its node without a gap.       *)
THEOREM NodesFilled == Spec => []NodeFilled
  <1>1. StudyInv => NodeFilled
    BY DEF StudyInv
  <1> QED
    BY <1>1, InductiveInvariant, PTL
=============================================================================
