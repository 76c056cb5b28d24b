--------------------------- MODULE CSessionProofs ---------------------------
(***************************************************************************)
(* Theorems about one session, for any length of queue, number of partial  *)
(* writes and number of frames.  The inductive invariant has four parts:   *)
(* types, what Send and HandleWrite keep (SendInv), what the read handlers *)
(* and the worker keep (ReceiveInv), and what Close does (CloseInv).       *)
(***************************************************************************)
EXTENDS CSession, SequenceTheorems, TLAPS

(* The three that are inductive by themselves.                             *)
Core == SessionOK /\ SendInv /\ ReceiveInv

LEMMA InitIInv == Init => SessionInv
  <1> SUFFICES ASSUME Init PROVE SessionInv
    OBVIOUS
  <1>1. SessionOK
    <2>1. /\ 0 \in 0 .. MaxFrames
          /\ NoRead \in ReadOp
      BY SessionAssumption DEF SessionAssumption, NoRead, ReadOp
    <2>2. \A S : <<>> \in Seq(S)
      OBVIOUS
    <2> QED
      BY <2>1, <2>2 DEF Init, SessionOK
  <1>2. SendInv
    <2>1. Len(<<>>) = 0
      OBVIOUS
    <2> QED
      BY <2>1, SessionAssumption
      DEF SessionAssumption, Init, SendInv, SendQueBounded, OneWriteOfTheFront,
          StalledOnlyWhenClosed, WireInOrder, LastOnWire
  <1>3. ReceiveInv
    BY DEF Init, ReceiveInv, OpenMeansReading, AnswersFollowFrames, NoRead, Early
  <1>4. CloseInv
    BY DEF Init, CloseInv, KeptOnlyWhenLate
  <1> QED
    BY <1>1, <1>2, <1>3, <1>4 DEF SessionInv, TypeOK, Init

-----------------------------------------------------------------------------
(* The sending side, action by action.                                     *)
LEMMA SendInvUnchanged ==
    ASSUME SendInv, UNCHANGED sending,
           m_socket' = m_socket \/ (writes = {} /\ send_que = <<>>)
    PROVE  SendInv'
  BY DEF SendInv, sending, SendQueBounded, OneWriteOfTheFront,
         StalledOnlyWhenClosed, WireInOrder, LastOnWire

LEMMA AbortedWrite ==
    ASSUME NEW w \in Write
    PROVE  /\ Aborted(w) \in Write
           /\ Aborted(w).node = w.node
           /\ Aborted(w).sent = w.sent
           /\ Aborted(w).st # "io"
           /\ Aborted(w).st = "ok" => w.st = "ok"
  <1>1. CASE w.st = "io"
    <2>1. Aborted(w) = [w EXCEPT !.st = "err"]
      BY <1>1 DEF Aborted
    <2> QED
      BY <2>1 DEF Write
  <1>2. CASE w.st # "io"
    BY <1>2 DEF Aborted
  <1> QED
    BY <1>1, <1>2

(* Aborting writes: where the wire ends is not touched.                    *)
LEMMA CloseSendInv ==
    ASSUME SessionOK, SendInv, NEW r, NEW W \in SUBSET writes, Close(r, W),
           UNCHANGED <<send_que, accepted, dropped, wire>>
    PROVE  SendInv' /\ writes' \in SUBSET Write
  <1>1. \A v \in writes' : \E w \in W :
           /\ v = Aborted(w)
           /\ v \in Write
           /\ v.node = w.node /\ v.sent = w.sent /\ v.st # "io"
           /\ v.st = "ok" => w.st = "ok"
    <2> SUFFICES ASSUME NEW v \in writes'
                 PROVE  \E w \in W : /\ v = Aborted(w)
                                     /\ v \in Write
                                     /\ v.node = w.node /\ v.sent = w.sent /\ v.st # "io"
                                     /\ v.st = "ok" => w.st = "ok"
      OBVIOUS
    <2>1. PICK w \in W : v = Aborted(w)
      BY DEF Close
    <2>2. w \in Write
      BY DEF SessionOK
    <2> QED
      BY <2>1, <2>2, AbortedWrite
  <1>2. \A v, w \in writes : v = w
    BY DEF SendInv, OneWriteOfTheFront
  <1>3. \A v \in writes' : writes' = {v}
    BY <1>1, <1>2
  <1>4. OneWriteOfTheFront'
    BY <1>1, <1>3 DEF SendInv, OneWriteOfTheFront
  <1>5. m_socket' = "closed"
    BY DEF Close
  <1>6. SendQueBounded' /\ WireInOrder' /\ StalledOnlyWhenClosed'
    BY <1>5 DEF SendInv, SendQueBounded, WireInOrder, StalledOnlyWhenClosed
  <1>7. \A n, p : LastOnWire(n, p) => LastOnWire(n, p)'
    BY DEF LastOnWire
  <1>8. ASSUME NEW v \in writes'
        PROVE  /\ v.st = "io" => v.sent < Parts /\ m_socket' = "open"
               /\ v.st = "ok" => v.sent = Parts
               /\ IF v.sent = 0 THEN LastOnWire(v.node - 1, Parts)'
                                ELSE LastOnWire(v.node, v.sent)'
    BY <1>1, <1>7, <1>8 DEF SendInv
  <1> QED
    BY <1>1, <1>4, <1>6, <1>7, <1>8 DEF SendInv

(* A part goes out: it is the one that follows the end of the wire.        *)
LEMMA TransmitSendInv ==
    ASSUME SessionOK, SendInv, NEW w \in writes, Transmit(w)
    PROVE  SendInv' /\ SessionOK'
  <1> DEFINE p == [node |-> w.node, part |-> w.sent + 1]
             u == Advanced(w)
  <1>1. /\ w \in Write /\ w.st = "io" /\ w.sent < Parts /\ m_socket = "open"
        /\ writes = {w} /\ send_que # <<>> /\ w.node = Head(send_que)
    BY DEF SessionOK, SendInv, OneWriteOfTheFront, Transmit
  <1>2. Parts \in Nat \ {0} /\ w.node \in Nat \ {0} /\ w.sent \in 0 .. Parts
    BY <1>1, SessionAssumption DEF SessionAssumption, Write
  <1>3. p \in Part
    BY <1>1, <1>2 DEF Part
  <1>4. writes' = {u} /\ wire' = Append(wire, p)
    BY <1>1 DEF Transmit
  <1>5. /\ u \in Write /\ u.node = w.node /\ u.sent = w.sent + 1
        /\ u.st = "io" => u.sent < Parts
        /\ u.st = "ok" => u.sent = Parts
    BY <1>1, <1>2 DEF Write, Advanced
  <1>6. wire \in Seq(Part) /\ wire' \in Seq(Part)
    BY <1>3, <1>4, AppendProperties DEF SessionOK
  <1>7. /\ Len(wire') = Len(wire) + 1
        /\ wire'[Len(wire) + 1] = p
        /\ \A i \in 1 .. Len(wire) : wire'[i] = wire[i]
    BY <1>3, <1>4, <1>6, AppendProperties
  <1>8. p = IF wire = <<>> THEN [node |-> 1, part |-> 1] ELSE Following(wire[Len(wire)])
    <2>1. IF w.sent = 0 THEN LastOnWire(w.node - 1, Parts) ELSE LastOnWire(w.node, w.sent)
      BY DEF SendInv
    <2> QED
      BY <1>1, <1>2, <2>1 DEF LastOnWire, Following
  <1>9. WireInOrder'
    <2> SUFFICES ASSUME NEW i \in 1 .. Len(wire')
                 PROVE  wire'[i] = IF i = 1 THEN [node |-> 1, part |-> 1]
                                            ELSE Following(wire'[i - 1])
      BY DEF WireInOrder, Following
    <2>1. CASE i \in 1 .. Len(wire)
      <3>1. wire[i] = IF i = 1 THEN [node |-> 1, part |-> 1] ELSE Following(wire[i - 1])
        BY <2>1 DEF SendInv, WireInOrder
      <3> QED
        BY <1>6, <1>7, <2>1, <3>1
    <2>2. CASE i = Len(wire) + 1
      <3>1. wire = <<>> <=> Len(wire) = 0
        BY <1>6
      <3> QED
        BY <1>6, <1>7, <1>8, <2>2, <3>1
    <2> QED
      BY <1>6, <1>7, <2>1, <2>2
  <1>10. LastOnWire(w.node, w.sent + 1)'
    BY <1>2, <1>6, <1>7 DEF LastOnWire, Transmit
  <1>11. UNCHANGED <<acceptor, m_socket, peer, receiving, logic_que, send_que, accepted, dropped>>
    BY DEF Transmit
  <1>12. OneWriteOfTheFront' /\ StalledOnlyWhenClosed' /\ SendQueBounded'
    BY <1>1, <1>4, <1>5, <1>11 DEF SendInv, OneWriteOfTheFront, StalledOnlyWhenClosed, SendQueBounded
  <1>13. SendInv'
    <2> HIDE DEF u, p
    <2> QED
      BY <1>1, <1>2, <1>4, <1>5, <1>9, <1>10, <1>11, <1>12 DEF SendInv, LastOnWire
  <1>14. SessionOK'
    <2> HIDE DEF u, p
    <2> QED
      BY <1>4, <1>5, <1>6, <1>11 DEF SessionOK, acceptor, receiving
  <1> QED
    BY <1>13, <1>14

LEMMA WriteFailsSendInv ==
    ASSUME SessionOK, SendInv, NEW w \in writes, WriteFails(w)
    PROVE  SendInv' /\ SessionOK'
  <1> DEFINE u == [w EXCEPT !.st = "err"]
  <1>1. w \in Write /\ writes = {w} /\ send_que # <<>> /\ w.node = Head(send_que)
    BY DEF SessionOK, SendInv, OneWriteOfTheFront
  <1>2. u \in Write /\ u.node = w.node /\ u.sent = w.sent /\ u.st = "err"
    BY <1>1 DEF Write
  <1>3. writes' = {u}
    BY <1>1 DEF WriteFails
  <1>4. UNCHANGED <<acceptor, m_socket, peer, receiving, logic_que, send_que, accepted, dropped, wire>>
    BY DEF WriteFails
  <1> HIDE DEF u
  <1>5. OneWriteOfTheFront' /\ StalledOnlyWhenClosed' /\ SendQueBounded' /\ WireInOrder'
    BY <1>1, <1>2, <1>3, <1>4
    DEF SendInv, OneWriteOfTheFront, StalledOnlyWhenClosed, SendQueBounded, WireInOrder
  <1>6. SendInv'
    BY <1>1, <1>2, <1>3, <1>4, <1>5 DEF SendInv, LastOnWire
  <1>7. SessionOK'
    BY <1>2, <1>3, <1>4 DEF SessionOK, acceptor, receiving
  <1> QED
    BY <1>6, <1>7

(* A new async_write of a node, on an open or a closed socket.             *)
LEMMA AsyncWriteTyped ==
    ASSUME NEW node \in Nat \ {0}, SessionOK
    PROVE  LET w == AsyncWrite(node)
           IN  /\ w \in Write /\ w.node = node /\ w.sent = 0
               /\ w.st = "io" => m_socket = "open"
               /\ w.st # "ok"
  BY SessionAssumption DEF SessionAssumption, AsyncWrite, Pending, Write

(* The write of the front is done: pop it, write the next one.             *)
LEMMA HandleWriteOkSendInv ==
    ASSUME SessionOK, SendInv, NEW w \in writes, w.st = "ok", HandleWrite(w)
    PROVE  SendInv' /\ SessionOK'
  <1>1. /\ w \in Write /\ w.sent = Parts
        /\ writes = {w} /\ send_que # <<>> /\ w.node = Head(send_que)
    BY DEF SessionOK, SendInv, OneWriteOfTheFront
  <1>2. /\ send_que' = Tail(send_que)
        /\ writes' = NextWrite(send_que')
        /\ UNCHANGED <<acceptor, m_socket, read, peer, body, frames, logic_que, accepted, dropped, wire>>
    BY <1>1 DEF HandleWrite, Pop, NextWrite
  <1>u. accepted' = accepted /\ wire' = wire /\ m_socket' = m_socket
    BY <1>2
  <1>3. /\ send_que \in Seq(Nat \ {0}) /\ send_que' \in Seq(Nat \ {0})
        /\ Len(send_que') = Len(send_que) - 1
        /\ \A i \in 1 .. Len(send_que') : send_que'[i] = send_que[i + 1]
        /\ Len(send_que) \in Nat \ {0}
        /\ Head(send_que) = send_que[1]
        /\ accepted \in Seq(1 .. MaxFrames) /\ Len(accepted) \in Nat
    BY <1>1, <1>2, HeadTailProperties DEF SessionOK
  <1>l. Len(send_que') = Len(send_que) - 1
    BY <1>3
  <1>n. /\ Len(send_que) \in Int /\ Len(send_que') \in Int /\ Len(accepted) \in Int
        /\ w.node \in Int
    BY <1>1, <1>3 DEF Write
  <1>4. \A i \in 1 .. Len(send_que) : send_que[i] + Len(send_que) = Len(accepted) + i
    BY DEF SendInv
  <1>5. LastOnWire(w.node, Parts)
    BY <1>1, SessionAssumption DEF SendInv, SessionAssumption
  <1>6. \A i \in 1 .. Len(send_que') : send_que'[i] + Len(send_que') = Len(accepted') + i
    <2> SUFFICES ASSUME NEW i \in 1 .. Len(send_que')
                 PROVE  send_que'[i] + Len(send_que') = Len(accepted') + i
      OBVIOUS
    <2>1. i + 1 \in 1 .. Len(send_que) /\ send_que'[i] = send_que[i + 1]
      BY <1>3
    <2>2. send_que[i + 1] + Len(send_que) = Len(accepted) + (i + 1)
      BY <1>4, <2>1
    <2>3. send_que[i + 1] \in Nat
      BY <1>3, <2>1
    <2> QED
      BY ONLY <1>u, <1>n, <1>l, <2>1, <2>2, <2>3, i \in Int
  <1>7. w.node + Len(send_que) = Len(accepted) + 1 /\ w.node \in Nat \ {0}
    BY <1>1, <1>3, <1>4 DEF Write
  <1>8. CASE send_que' = <<>>
    <2>1. writes' = {}
      BY <1>2, <1>8 DEF NextWrite
    <2>2. Len(send_que') = 0
      BY <1>8
    <2>3. w.node = Len(accepted)
      <3>1. Len(send_que) = 1
        BY ONLY <1>n, <1>l, <2>2
      <3> QED
        BY ONLY <1>n, <1>7, <3>1
    <2>4. LastOnWire(Len(accepted), Parts)'
      BY <1>2, <1>5, <2>3 DEF LastOnWire
    <2>5. SendInv'
      BY <1>2, <1>3, <1>6, <1>8, <2>1, <2>2, <2>4, SessionAssumption
      DEF SessionAssumption, SendInv, SendQueBounded, OneWriteOfTheFront,
          StalledOnlyWhenClosed, WireInOrder
    <2>6. SessionOK'
      BY <1>2, <1>3, <2>1 DEF SessionOK, acceptor
    <2> QED
      BY <2>5, <2>6
  <1>9. CASE send_que' # <<>>
    <2> DEFINE u == AsyncWrite(Head(send_que'))
    <2>1. writes' = {u}
      BY <1>2, <1>9 DEF NextWrite
    <2>2. Len(send_que') \in Nat \ {0} /\ Head(send_que') = send_que'[1]
      BY <1>3, <1>9
    <2>3. /\ u \in Write /\ u.node = Head(send_que') /\ u.sent = 0
          /\ u.st = "io" => m_socket = "open"
          /\ u.st # "ok"
      BY <1>3, <1>9, AsyncWriteTyped
    <2>4. u.node - 1 = w.node
      <3>1. u.node + Len(send_que') = Len(accepted) + 1
        BY <1>u, <1>6, <2>2, <2>3
      <3> HIDE DEF u
      <3>2. u.node \in Nat
        BY <2>3 DEF Write
      <3> QED
        BY ONLY <1>n, <1>l, <1>7, <3>1, <3>2
    <2> HIDE DEF u
    <2>5. \A v \in writes' : LastOnWire(v.node - 1, Parts)'
      <3>1. LastOnWire(w.node, Parts)'
        BY <1>u, <1>5 DEF LastOnWire
      <3>2. \A v \in writes' : v.node - 1 = w.node
        BY <2>1, <2>4
      <3> QED
        BY <3>1, <3>2 DEF LastOnWire
    <2>6. /\ OneWriteOfTheFront' /\ StalledOnlyWhenClosed'
          /\ SendQueBounded' /\ WireInOrder'
      BY <1>u, <1>3, <1>9, <2>1, <2>3, SessionAssumption
      DEF SessionAssumption, SendInv, SendQueBounded, OneWriteOfTheFront,
          StalledOnlyWhenClosed, WireInOrder
    <2>7. SendInv'
      BY <1>u, <1>6, <1>9, <2>1, <2>3, <2>5, <2>6, SessionAssumption
      DEF SessionAssumption, SendInv, LastOnWire
    <2>8. SessionOK'
      BY <1>2, <1>3, <2>1, <2>3 DEF SessionOK, acceptor
    <2> QED
      BY <2>7, <2>8
  <1> QED
    BY <1>8, <1>9

(* Send: refused, queued behind others, or first and written at once.      *)
LEMMA SendSendInv ==
    ASSUME SessionOK, SendInv, NEW reply \in 1 .. MaxFrames, Send(reply),
           m_socket' = m_socket, wire' = wire
    PROVE  /\ SendInv'
           /\ send_que' \in Seq(Nat \ {0})
           /\ writes' \in SUBSET Write
           /\ accepted' \in Seq(1 .. MaxFrames)
           /\ dropped' \in SUBSET (1 .. MaxFrames)
           /\ accepted' = accepted \/ accepted' = Append(accepted, reply)
  <1> USE SessionAssumption DEF SessionAssumption
  <1>1. CASE SendQueFull
    <2>1. UNCHANGED <<send_que, writes, accepted>> /\ dropped' = dropped \cup {reply}
      BY <1>1 DEF Send
    <2>2. SendInv'
      BY <2>1 DEF SendInv, SendQueBounded, OneWriteOfTheFront,
                  StalledOnlyWhenClosed, WireInOrder, LastOnWire
    <2> QED
      BY <2>1, <2>2 DEF SessionOK
  <1>2. CASE ~SendQueFull
    <2>0. PICK n \in Nat \ {0} : n = Len(accepted) + 1
      BY DEF SessionOK
    <2>1. /\ accepted' = Append(accepted, reply)
          /\ send_que' = Append(send_que, Len(accepted'))
          /\ writes' = writes \cup FirstWrite(send_que')
          /\ dropped' = dropped
      BY <1>2 DEF Send
    <2>2. /\ accepted \in Seq(1 .. MaxFrames) /\ send_que \in Seq(Nat \ {0})
          /\ Len(accepted) \in Nat /\ Len(send_que) \in Nat
      BY DEF SessionOK
    <2>3. accepted' \in Seq(1 .. MaxFrames) /\ Len(accepted') = n
      BY <2>0, <2>1, <2>2, AppendProperties
    <2>4. n \in Nat \ {0} /\ send_que' = Append(send_que, n)
      BY <2>0, <2>1, <2>2, <2>3
    <2>5. /\ send_que' \in Seq(Nat \ {0})
          /\ Len(send_que') = Len(send_que) + 1
          /\ send_que'[Len(send_que) + 1] = n
          /\ \A i \in 1 .. Len(send_que) : send_que'[i] = send_que[i]
      BY <2>2, <2>4, AppendProperties
    <2>6. \A i \in 1 .. Len(send_que') : send_que'[i] + Len(send_que') = Len(accepted') + i
      <3> SUFFICES ASSUME NEW i \in 1 .. Len(send_que')
                   PROVE  send_que'[i] + Len(send_que') = Len(accepted') + i
        OBVIOUS
      <3>1. CASE i = Len(send_que) + 1
        <4>1. send_que'[i] = n /\ Len(send_que') = i /\ Len(accepted') = n
          BY <2>3, <2>5, <3>1
        <4> QED
          BY ONLY <4>1, n \in Int, i \in Int
      <3>2. CASE i \in 1 .. Len(send_que)
        <4>1. send_que[i] + Len(send_que) = Len(accepted) + i /\ send_que[i] \in Nat
          BY <2>2, <3>2 DEF SendInv
        <4>2. send_que'[i] = send_que[i]
          BY <2>5, <3>2
        <4>3. Len(send_que') = Len(send_que) + 1 /\ Len(accepted') = Len(accepted) + 1
          BY <2>0, <2>3, <2>5
        <4>4. Len(send_que) \in Nat /\ Len(accepted) \in Nat /\ i \in Int
          BY <2>2
        <4> QED
          BY ONLY <4>1, <4>2, <4>3, <4>4
      <3> QED
        BY <2>2, <2>5, <3>1, <3>2
    <2>7. SendQueBounded'
      BY <1>2, <2>2, <2>5 DEF SendQueFull, SendQueBounded
    <2>8. send_que' # <<>>
      BY <2>2, <2>4
    <2>9. CASE send_que = <<>>
      <3> DEFINE u == AsyncWrite(n)
      <3>1. writes = {}
        BY <2>9 DEF SendInv, OneWriteOfTheFront
      <3>2. Head(send_que') = n /\ Len(send_que') = 1
        BY <2>4, <2>9
      <3>3. writes' = {u}
        BY <2>1, <3>1, <3>2 DEF FirstWrite
      <3>4. /\ u \in Write /\ u.node = n /\ u.sent = 0
            /\ u.st = "io" => m_socket = "open"
            /\ u.st # "ok"
        BY <2>4, AsyncWriteTyped
      <3> HIDE DEF u
      <3>5. LastOnWire(Len(accepted), Parts)
        BY <2>9 DEF SendInv
      <3>6. n - 1 = Len(accepted)
        BY <2>0, <2>2
      <3>7. LastOnWire(n - 1, Parts)'
        <4>1. LastOnWire(n - 1, Parts)
          BY <3>5, <3>6
        <4> QED
          BY <4>1 DEF LastOnWire
      <3>8. SendInv'
        BY <2>6, <2>7, <2>8, <3>2, <3>3, <3>4, <3>7
        DEF SendInv, OneWriteOfTheFront, StalledOnlyWhenClosed, WireInOrder, LastOnWire
      <3> QED
        BY <2>1, <2>3, <2>5, <3>3, <3>4, <3>8 DEF SessionOK
    <2>10. CASE send_que # <<>>
      <3>1. Len(send_que) \in Nat \ {0} /\ Head(send_que') = Head(send_que)
        BY <2>2, <2>4, <2>10
      <3>2. Len(send_que') > 1
        BY <2>5, <3>1
      <3>3. writes' = writes
        BY <2>1, <3>2 DEF FirstWrite
      <3>4. SendInv'
        BY <2>6, <2>7, <2>8, <2>10, <3>1, <3>3
        DEF SendInv, OneWriteOfTheFront, StalledOnlyWhenClosed, WireInOrder, LastOnWire
      <3> QED
        BY <2>1, <2>3, <2>5, <3>3, <3>4 DEF SessionOK
    <2> QED
      BY <2>9, <2>10
  <1> QED
    BY <1>1, <1>2

LEMMA SendInvSame ==
    ASSUME SendInv, UNCHANGED <<m_socket, send_que, writes, accepted, dropped, wire>>
    PROVE  SendInv'
  BY DEF SendInv, SendQueBounded, OneWriteOfTheFront, StalledOnlyWhenClosed, WireInOrder, LastOnWire

-----------------------------------------------------------------------------
(* The receiving side.                                                     *)
LEMMA ReceiveInvUnchanged ==
    ASSUME ReceiveInv, UNCHANGED <<accept, m_socket, read, body, frames, logic_que, accepted>>,
           Early => send_que' = send_que /\ writes' = writes
    PROVE  ReceiveInv'
  BY DEF ReceiveInv, OpenMeansReading, AnswersFollowFrames, Early, Processed

LEMMA AbortedRead ==
    ASSUME NEW r \in ReadOp
    PROVE  /\ Aborted(r) \in ReadOp
           /\ Aborted(r).op = r.op
           /\ Aborted(r).st # "io"
           /\ Aborted(r).st = "ok" <=> r.st = "ok"
  <1>1. CASE r.st = "io"
    <2>1. Aborted(r) = [r EXCEPT !.st = "err"]
      BY <1>1 DEF Aborted
    <2> QED
      BY <1>1, <2>1 DEF ReadOp
  <1>2. CASE r.st # "io"
    BY <1>2 DEF Aborted
  <1> QED
    BY <1>1, <1>2

(* A handler closes the session: its own read is gone, or one is aborted.  *)
LEMMA CloseReceiveInv ==
    ASSUME SessionOK, ReceiveInv, ~Early,
           NEW r \in {NoRead, read}, NEW W, Close(r, W), ClearSession,
           r = read \/ ~(read.op = "body" /\ read.st = "ok"),
           UNCHANGED <<body, frames, logic_que, accepted>>
    PROVE  ReceiveInv' /\ read' \in ReadOp
  <1>1. r \in ReadOp /\ NoRead \in ReadOp /\ NoRead.op = "none"
    BY DEF SessionOK, NoRead, ReadOp
  <1>2. m_socket' = "closed" /\ accept' = accept
    BY DEF Close, ClearSession
  <1>3. /\ read' \in ReadOp
        /\ read'.op # "none" => read'.st # "io"
        /\ read'.op = "body" => read.op = "body"
        /\ (read'.op = "body" /\ read'.st = "ok") <=> (read.op = "body" /\ read.st = "ok")
    BY <1>1, AbortedRead DEF Close
  <1>4. Processed' = Processed
    BY <1>3 DEF Processed
  <1> QED
    BY <1>2, <1>3, <1>4 DEF ReceiveInv, OpenMeansReading, AnswersFollowFrames, Early

LEMMA AsyncReadTyped ==
    ASSUME NEW op \in {"head", "body"}, AsyncRead(op)
    PROVE  /\ read' \in ReadOp /\ read'.op = op /\ read'.st # "ok"
           /\ read'.st = "io" => m_socket = "open"
  BY DEF AsyncRead, Pending, ReadOp

(* A good head: a RecvNode of its own for the body.                        *)
LEMMA ReadHeadOk ==
    ASSUME SessionOK, ReceiveInv, HandleReadHead, read.st = "ok"
    PROVE  ReceiveInv' /\ body' \in Seq(0 .. MaxFrames) /\ read' \in ReadOp
  <1>1. /\ read.op = "head" /\ body' = Append(body, 0) /\ AsyncRead("body")
        /\ accept' = accept /\ m_socket' = m_socket /\ frames' = frames
        /\ logic_que' = logic_que /\ accepted' = accepted
        /\ send_que' = send_que /\ writes' = writes
    BY DEF HandleReadHead, NewRecvNode, acceptor
  <1>2. read' \in ReadOp /\ read'.op = "body" /\ read'.st # "ok"
        /\ (read'.st = "io" => m_socket = "open")
    BY <1>1, AsyncReadTyped
  <1>3. 0 \in 0 .. MaxFrames
    BY SessionAssumption DEF SessionAssumption
  <1>s. body \in Seq(0 .. MaxFrames) /\ body' = Append(body, 0)
    BY <1>1 DEF SessionOK
  <1>4. /\ body \in Seq(0 .. MaxFrames) /\ body' \in Seq(0 .. MaxFrames)
        /\ Len(body) \in Nat /\ Len(body') = Len(body) + 1 /\ body' # <<>>
        /\ \A i \in 1 .. Len(body) : body'[i] = body[i]
    BY ONLY <1>s, <1>3, AppendProperties
  <1>5. \A i \in 1 .. Len(logic_que) :
           /\ logic_que[i] \in 1 .. Len(body)
           /\ logic_que[i] < Len(body')
           /\ body'[logic_que[i]] = body[logic_que[i]]
    <2> SUFFICES ASSUME NEW i \in 1 .. Len(logic_que)
                 PROVE  /\ logic_que[i] \in 1 .. Len(body)
                        /\ logic_que[i] < Len(body')
                        /\ body'[logic_que[i]] = body[logic_que[i]]
      OBVIOUS
    <2>1. logic_que[i] \in Nat \ {0} /\ logic_que[i] <= Len(body)
      BY DEF SessionOK, ReceiveInv
    <2> QED
      BY <1>4, <2>1
  <1>6. Processed' = frames /\ Processed = frames
    BY <1>1, <1>2 DEF Processed
  <1>7. ~Early /\ ~Early'
    BY <1>1 DEF ReceiveInv, Early, NoRead
  <1> QED
    BY <1>1, <1>2, <1>4, <1>5, <1>6, <1>7
    DEF ReceiveInv, OpenMeansReading, AnswersFollowFrames, Early

(* A body: it is the next frame, and goes behind what is queued.           *)
LEMMA BodyRead ==
    ASSUME SessionOK, ReceiveInv, BodyArrives
    PROVE  ReceiveInv' /\ body' \in Seq(0 .. MaxFrames) /\ read' \in ReadOp
           /\ frames' \in 0 .. MaxFrames
  <1>1. /\ read = [op |-> "body", st |-> "io"] /\ read' = [read EXCEPT !.st = "ok"]
        /\ frames' = frames + 1 /\ frames < MaxFrames
        /\ body' = [body EXCEPT ![Len(body)] = frames + 1]
        /\ accept' = accept /\ m_socket' = m_socket
        /\ logic_que' = logic_que /\ accepted' = accepted
        /\ send_que' = send_que /\ writes' = writes
    BY DEF BodyArrives, acceptor, sending
  <1>2. read' = [op |-> "body", st |-> "ok"]
    BY <1>1
  <1>3. frames \in Nat /\ frames + 1 \in 0 .. MaxFrames
    BY <1>1, SessionAssumption DEF SessionOK, SessionAssumption
  <1>4. /\ body \in Seq(0 .. MaxFrames) /\ Len(body) \in Nat \ {0}
    BY <1>1 DEF SessionOK, ReceiveInv
  <1>5. /\ body' \in Seq(0 .. MaxFrames) /\ Len(body') = Len(body)
        /\ body'[Len(body)] = frames + 1
        /\ \A i \in 1 .. Len(body) : i # Len(body) => body'[i] = body[i]
    BY <1>1, <1>3, <1>4, ExceptSeq
  <1>6. \A i \in 1 .. Len(logic_que) :
           /\ logic_que[i] < Len(body')
           /\ body'[logic_que[i]] = body[logic_que[i]]
    <2> SUFFICES ASSUME NEW i \in 1 .. Len(logic_que)
                 PROVE  /\ logic_que[i] < Len(body')
                        /\ body'[logic_que[i]] = body[logic_que[i]]
      OBVIOUS
    <2>1. logic_que[i] \in Nat \ {0} /\ logic_que[i] < Len(body)
      BY <1>1 DEF SessionOK, ReceiveInv
    <2> QED
      BY <1>4, <1>5, <2>1
  <1>7. Processed' = frames /\ Processed = frames
    BY <1>1, <1>2, <1>3 DEF Processed
  <1>8. ~Early /\ ~Early'
    BY <1>1 DEF ReceiveInv, Early, NoRead
  <1>9. body' # <<>> /\ read' \in ReadOp
    BY <1>2, <1>4, <1>5 DEF ReadOp
  <1>10. \A i \in 1 .. Len(logic_que') : logic_que'[i] <= Len(body')
    BY <1>1, <1>5 DEF ReceiveInv
  <1> QED
    BY <1>1, <1>2, <1>5, <1>6, <1>7, <1>8, <1>9, <1>10
    DEF ReceiveInv, OpenMeansReading, AnswersFollowFrames, Early

(* A message is posted; what was posted and answered before is older.      *)
LEMMA ReadMsgOk ==
    ASSUME SessionOK, ReceiveInv, HandleReadMsg, read.st = "ok"
    PROVE  ReceiveInv' /\ logic_que' \in Seq(Nat \ {0}) /\ read' \in ReadOp
  <1>1. /\ read.op = "body" /\ logic_que' = Append(logic_que, Len(body)) /\ AsyncRead("head")
        /\ accept' = accept /\ m_socket' = m_socket /\ frames' = frames
        /\ body' = body /\ accepted' = accepted
        /\ send_que' = send_que /\ writes' = writes
    BY DEF HandleReadMsg, Start, acceptor
  <1>2. read' \in ReadOp /\ read'.op = "head" /\ read'.st # "ok"
        /\ (read'.st = "io" => m_socket = "open")
    BY <1>1, AsyncReadTyped
  <1>3. body \in Seq(0 .. MaxFrames) /\ Len(body) \in Nat \ {0}
        /\ body[Len(body)] = frames /\ frames \in Nat
    BY <1>1, SessionAssumption DEF SessionOK, ReceiveInv, SessionAssumption
  <1>4. /\ logic_que \in Seq(Nat \ {0}) /\ logic_que' \in Seq(Nat \ {0})
        /\ Len(logic_que) \in Nat /\ Len(logic_que') = Len(logic_que) + 1
        /\ logic_que'[Len(logic_que) + 1] = Len(body)
        /\ \A i \in 1 .. Len(logic_que) : logic_que'[i] = logic_que[i]
    BY <1>1, <1>3, AppendProperties DEF SessionOK
  <1>5. Processed' = frames /\ Processed = frames - 1
    BY <1>1, <1>2 DEF Processed
  <1>6. \A i \in 1 .. Len(logic_que) :
           /\ logic_que[i] \in 1 .. Len(body) /\ logic_que[i] < Len(body)
           /\ body[logic_que[i]] \in Nat /\ body[logic_que[i]] < frames
    <2> SUFFICES ASSUME NEW i \in 1 .. Len(logic_que)
                 PROVE  /\ logic_que[i] \in 1 .. Len(body) /\ logic_que[i] < Len(body)
                        /\ body[logic_que[i]] \in Nat /\ body[logic_que[i]] < frames
      OBVIOUS
    <2>1. logic_que[i] \in Nat \ {0} /\ logic_que[i] < Len(body)
      BY <1>1 DEF SessionOK, ReceiveInv
    <2>2. logic_que[i] \in 1 .. Len(body)
      BY <1>3, <2>1
    <2>s. body[logic_que[i]] \in 0 .. MaxFrames
      BY <1>3, <2>2, ElementOfSeq
    <2>3. body[logic_que[i]] \in Nat
      BY <2>s
    <2>4. body[logic_que[i]] <= frames - 1
      BY <1>5 DEF ReceiveInv
    <2> QED
      BY <1>3, <2>1, <2>2, <2>3, <2>4
  <1>7. \A j \in 1 .. Len(accepted) : accepted[j] \in Nat /\ accepted[j] < frames
    <2> SUFFICES ASSUME NEW j \in 1 .. Len(accepted)
                 PROVE  accepted[j] \in Nat /\ accepted[j] < frames
      OBVIOUS
    <2>0. accepted \in Seq(1 .. MaxFrames) /\ accepted[j] \in 1 .. MaxFrames
      BY ElementOfSeq DEF SessionOK
    <2>1. accepted[j] \in Nat
      BY <2>0
    <2>2. accepted[j] <= frames - 1
      BY <1>5 DEF ReceiveInv
    <2> QED
      BY <1>3, <2>1, <2>2
  <1>8. ~Early /\ ~Early'
    BY <1>1 DEF ReceiveInv, Early, NoRead
  <1>9. \A i \in 1 .. Len(logic_que') :
           /\ logic_que'[i] <= Len(body)
           /\ body[logic_que'[i]] <= frames
           /\ \A j \in 1 .. Len(accepted) : accepted[j] < body[logic_que'[i]]
           /\ \A j \in 1 .. Len(logic_que') :
                 i < j => body[logic_que'[i]] < body[logic_que'[j]]
    <2> SUFFICES ASSUME NEW i \in 1 .. Len(logic_que')
                 PROVE  /\ logic_que'[i] <= Len(body)
                        /\ body[logic_que'[i]] <= frames
                        /\ \A j \in 1 .. Len(accepted) : accepted[j] < body[logic_que'[i]]
                        /\ \A j \in 1 .. Len(logic_que') :
                              i < j => body[logic_que'[i]] < body[logic_que'[j]]
      OBVIOUS
    <2>1. CASE i = Len(logic_que) + 1
      BY <1>3, <1>4, <1>7, <2>1
    <2>2. CASE i \in 1 .. Len(logic_que)
      <3>1. logic_que'[i] = logic_que[i]
        BY <1>4, <2>2
      <3>2. \A j \in 1 .. Len(accepted) : accepted[j] < body[logic_que[i]]
        BY <2>2 DEF ReceiveInv
      <3>3. ASSUME NEW j \in 1 .. Len(logic_que'), i < j
            PROVE  body[logic_que[i]] < body[logic_que'[j]]
        <4>1. CASE j = Len(logic_que) + 1
          BY <1>3, <1>4, <1>6, <2>2, <4>1
        <4>2. CASE j \in 1 .. Len(logic_que)
          BY <1>4, <2>2, <3>3, <4>2 DEF ReceiveInv
        <4> QED
          BY <1>4, <4>1, <4>2
      <3>4. logic_que[i] <= Len(body) /\ body[logic_que[i]] <= frames
        BY <1>3, <1>6, <2>2
      <3> QED
        BY <3>1, <3>2, <3>3, <3>4
    <2> QED
      BY <1>4, <2>1, <2>2
  <1>10. \A j \in 1 .. Len(accepted) : accepted[j] <= frames
    BY <1>3, <1>7
  <1> QED
    BY <1>1, <1>2, <1>4, <1>5, <1>8, <1>9, <1>10
    DEF ReceiveInv, OpenMeansReading, AnswersFollowFrames, Early

(* The worker takes the oldest message and may answer it.                  *)
LEMMA DealMsgOk ==
    ASSUME SessionOK, SendInv, ReceiveInv, DealMsg
    PROVE  SendInv' /\ ReceiveInv' /\ SessionOK'
  <1> DEFINE h == body[Head(logic_que)]
  <1>1. /\ logic_que # <<>> /\ logic_que' = Tail(logic_que)
        /\ accept' = accept /\ in_sessions' = in_sessions /\ late' = late
        /\ m_socket' = m_socket /\ peer' = peer /\ read' = read
        /\ body' = body /\ frames' = frames /\ wire' = wire
    BY DEF DealMsg, acceptor, receiving
  <1>2. /\ SendInv'
        /\ send_que' \in Seq(Nat \ {0}) /\ writes' \in SUBSET Write
        /\ accepted' \in Seq(1 .. MaxFrames) /\ dropped' \in SUBSET (1 .. MaxFrames)
        /\ accepted' = accepted \/ accepted' = Append(accepted, h)
    <2>1. CASE h \in Registered
      <3>1. Send(h) /\ h \in 1 .. MaxFrames
        BY <2>1, SessionAssumption DEF DealMsg, SessionAssumption
      <3> HIDE DEF h
      <3> QED
        BY <1>1, <3>1, SendSendInv
    <2>2. CASE h \notin Registered
      <3>1. UNCHANGED <<send_que, writes, accepted, dropped>>
        BY <2>2 DEF DealMsg
      <3>2. SendInv'
        BY <1>1, <3>1, SendInvSame
      <3> QED
        BY <3>1, <3>2 DEF SessionOK
    <2> QED
      BY <2>1, <2>2
  <1>3. /\ logic_que \in Seq(Nat \ {0}) /\ logic_que' \in Seq(Nat \ {0})
        /\ Len(logic_que) \in Nat \ {0} /\ Len(logic_que') = Len(logic_que) - 1
        /\ Head(logic_que) = logic_que[1]
        /\ \A i \in 1 .. Len(logic_que') : logic_que'[i] = logic_que[i + 1]
    BY <1>1, HeadTailProperties DEF SessionOK
  <1>4. SessionOK'
    BY <1>1, <1>2, <1>3 DEF SessionOK
  <1>5. \A i \in 1 .. Len(logic_que') :
           /\ i + 1 \in 1 .. Len(logic_que)
           /\ logic_que'[i] = logic_que[i + 1]
    BY <1>3
  <1>6. /\ \A j \in 1 .. Len(accepted) : accepted[j] < h
        /\ h <= Processed
        /\ \A i \in 1 .. Len(logic_que') : h < body[logic_que'[i]]
    <2>1. h = body[logic_que[1]] /\ 1 \in 1 .. Len(logic_que)
      BY <1>3
    <2>2. \A i \in 1 .. Len(logic_que') : 1 < i + 1
      BY <1>3
    <2> HIDE DEF h
    <2>3. \A i \in 1 .. Len(logic_que') : h < body[logic_que'[i]]
      BY <1>5, <2>1, <2>2 DEF ReceiveInv
    <2> QED
      BY <2>1, <2>3 DEF ReceiveInv
  <1> HIDE DEF h
  <1>7. accepted \in Seq(1 .. MaxFrames) /\ Len(accepted) \in Nat
    BY DEF SessionOK
  <1>8. /\ \A j \in 1 .. Len(accepted') : /\ accepted'[j] <= Processed
                                         /\ \A i \in 1 .. Len(logic_que') :
                                               accepted'[j] < body[logic_que'[i]]
        /\ \A i, j \in 1 .. Len(accepted') : i < j => accepted'[i] < accepted'[j]
    <2>1. /\ \A j \in 1 .. Len(accepted) : /\ accepted[j] <= Processed
                                          /\ \A i \in 1 .. Len(logic_que') :
                                                accepted[j] < body[logic_que'[i]]
          /\ \A i, j \in 1 .. Len(accepted) : i < j => accepted[i] < accepted[j]
      BY <1>5 DEF ReceiveInv, AnswersFollowFrames
    <2>2. CASE accepted' = accepted
      BY <2>1, <2>2
    <2>3. CASE accepted' = Append(accepted, h)
      <3>1. /\ Len(accepted') = Len(accepted) + 1
            /\ accepted'[Len(accepted) + 1] = h
            /\ \A j \in 1 .. Len(accepted) : accepted'[j] = accepted[j]
        BY <1>7, <2>3
      <3>2. \A j \in 1 .. Len(accepted') : j \in 1 .. Len(accepted) \/ j = Len(accepted) + 1
        BY ONLY <1>7, <3>1
      <3>3. \A i, j \in 1 .. Len(accepted') :
               i < j => /\ i \in 1 .. Len(accepted)
                        /\ j \in 1 .. Len(accepted) \/ j = Len(accepted) + 1
        BY ONLY <1>7, <3>1
      <3> QED
        BY <1>6, <2>1, <3>1, <3>2, <3>3
    <2> QED
      BY <1>2, <2>2, <2>3
  <1>9. \A i \in 1 .. Len(logic_que') :
           /\ logic_que'[i] <= Len(body)
           /\ read.op = "body" => logic_que'[i] < Len(body)
           /\ body[logic_que'[i]] <= Processed
           /\ \A j \in 1 .. Len(logic_que') :
                 i < j => body[logic_que'[i]] < body[logic_que'[j]]
    <2> SUFFICES ASSUME NEW i \in 1 .. Len(logic_que')
                 PROVE  /\ logic_que'[i] <= Len(body)
                        /\ read.op = "body" => logic_que'[i] < Len(body)
                        /\ body[logic_que'[i]] <= Processed
                        /\ \A j \in 1 .. Len(logic_que') :
                              i < j => body[logic_que'[i]] < body[logic_que'[j]]
      OBVIOUS
    <2>1. \A j \in 1 .. Len(logic_que') : i < j => i + 1 < j + 1
      BY <1>3
    <2> QED
      BY <1>5, <2>1 DEF ReceiveInv
  <1>10. ~Early /\ ~Early' /\ Processed' = Processed
    BY <1>1 DEF ReceiveInv, Early, Processed
  <1>11. ReceiveInv'
    BY <1>1, <1>8, <1>9, <1>10 DEF ReceiveInv, OpenMeansReading, AnswersFollowFrames, Early
  <1> QED
    BY <1>2, <1>4, <1>11

-----------------------------------------------------------------------------
(* Every action keeps these three.                                         *)
LEMMA CoreStep == Core /\ [Step]_session => Core'
  <1> SUFFICES ASSUME Core, [Step]_session PROVE Core'
    OBVIOUS
  <1>0. SessionOK /\ SendInv /\ ReceiveInv
    BY DEF Core
  <1>r. NoRead \in ReadOp /\ NoRead.op = "none"
    BY DEF NoRead, ReadOp
  <1>1. CASE AcceptCompletes
    <2>1. /\ accept = "accepting" /\ accept' \in {"start", "failed"}
          /\ accept' = "start" => m_socket' = "open"
          /\ accept' = "failed" => m_socket' = m_socket
          /\ UNCHANGED <<in_sessions, late, peer, read, body, frames, logic_que, sending>>
      BY <1>1 DEF AcceptCompletes, receiving
    <2>2. read = NoRead /\ logic_que = <<>> /\ send_que = <<>> /\ writes = {} /\ m_socket = "new"
      BY <1>0, <2>1 DEF ReceiveInv, Early
    <2>3. SessionOK'
      BY <1>0, <2>1 DEF SessionOK, sending
    <2>4. SendInv'
      BY <1>0, <2>1, <2>2, SendInvUnchanged
    <2>5. ReceiveInv'
      BY <1>0, <1>r, <2>1, <2>2
      DEF ReceiveInv, OpenMeansReading, AnswersFollowFrames, Early, Processed, sending
    <2> QED
      BY <2>3, <2>4, <2>5 DEF Core
  <1>2. CASE StartSession
    <2>1. /\ accept = "start" /\ accept' = "insert" /\ AsyncRead("head")
          /\ UNCHANGED <<in_sessions, late, m_socket, peer, body, frames, logic_que, sending>>
      BY <1>2 DEF StartSession, Start
    <2>2. read' \in ReadOp /\ read'.op = "head" /\ (read'.st = "io" => m_socket = "open")
      BY <2>1, AsyncReadTyped
    <2>3. read = NoRead /\ logic_que = <<>> /\ m_socket # "new"
      BY <1>0, <2>1 DEF ReceiveInv, Early
    <2>4. SessionOK'
      BY <1>0, <2>1, <2>2 DEF SessionOK, sending
    <2>5. SendInv'
      BY <1>0, <2>1, SendInvSame DEF sending
    <2>6. ReceiveInv'
      BY <1>0, <1>r, <2>1, <2>2, <2>3
      DEF ReceiveInv, OpenMeansReading, AnswersFollowFrames, Early, Processed, sending
    <2> QED
      BY <2>4, <2>5, <2>6 DEF Core
  <1>3. CASE Insert
    <2>1. /\ accept = "insert" /\ accept' = "accepted" /\ in_sessions' = TRUE
          /\ UNCHANGED <<late, m_socket, peer, read, body, frames, logic_que, sending>>
      BY <1>3 DEF Insert, receiving
    <2>2. SessionOK'
      BY <1>0, <2>1 DEF SessionOK, sending
    <2>3. SendInv'
      BY <1>0, <2>1, SendInvSame DEF sending
    <2>4. ReceiveInv'
      BY <1>0, <2>1
      DEF ReceiveInv, OpenMeansReading, AnswersFollowFrames, Early, Processed, sending
    <2> QED
      BY <2>2, <2>3, <2>4 DEF Core
  <1>4. CASE PeerCloses
    <2>1. peer' = "closed" /\ UNCHANGED <<acceptor, m_socket, receiving, logic_que, sending>>
      BY <1>4 DEF PeerCloses
    <2>2. SessionOK'
      BY <1>0, <2>1 DEF SessionOK, acceptor, receiving, sending
    <2>3. SendInv'
      BY <1>0, <2>1, SendInvSame DEF sending
    <2>4. ReceiveInv'
      BY <1>0, <2>1, ReceiveInvUnchanged DEF acceptor, receiving, sending
    <2> QED
      BY <2>2, <2>3, <2>4 DEF Core
  <1>5. CASE ReadFails \/ \E st \in {"ok", "bad", "short", "negative"} : HeadArrives(st)
    <2>1. /\ UNCHANGED <<acceptor, m_socket, peer, body, frames, logic_que, sending>>
          /\ read.op # "none" /\ read.st = "io"
          /\ \E st \in {"ok", "bad", "short", "negative", "err"} : read' = [read EXCEPT !.st = st]
          /\ \/ read.op = "head"
             \/ read' = [read EXCEPT !.st = "err"]
      BY <1>5 DEF ReadFails, HeadArrives
    <2>2. /\ read' \in ReadOp /\ read'.op = read.op /\ read'.st # "io"
          /\ ~(read'.op = "body" /\ read'.st = "ok")
      BY <1>0, <2>1 DEF SessionOK, ReadOp
    <2>3. SessionOK'
      BY <1>0, <2>1, <2>2 DEF SessionOK, acceptor, sending
    <2>4. SendInv'
      BY <1>0, <2>1, SendInvSame DEF sending
    <2>5. Processed' = Processed
      BY <2>1, <2>2 DEF Processed
    <2>6. ~Early /\ ~Early'
      BY <1>0, <1>r, <2>1 DEF ReceiveInv, Early, acceptor
    <2>7. ReceiveInv'
      BY <1>0, <2>1, <2>2, <2>5, <2>6
      DEF ReceiveInv, OpenMeansReading, AnswersFollowFrames, Early, acceptor, sending
    <2> QED
      BY <2>3, <2>4, <2>7 DEF Core
  <1>6. CASE BodyArrives
    <2>1. UNCHANGED <<acceptor, m_socket, peer, logic_que, sending>>
      BY <1>6 DEF BodyArrives
    <2>2. ReceiveInv' /\ body' \in Seq(0 .. MaxFrames) /\ read' \in ReadOp
          /\ frames' \in 0 .. MaxFrames
      BY <1>0, <1>6, BodyRead
    <2>3. SessionOK'
      BY <1>0, <2>1, <2>2 DEF SessionOK, acceptor, sending
    <2>4. SendInv'
      BY <1>0, <2>1, SendInvSame DEF sending
    <2> QED
      BY <2>2, <2>3, <2>4 DEF Core
  <1>7. ASSUME NEW w \in writes, Transmit(w) \/ WriteFails(w)
        PROVE  Core'
    <2>1. SendInv' /\ SessionOK'
      BY <1>0, <1>7, TransmitSendInv, WriteFailsSendInv
    <2>2. /\ UNCHANGED <<accept, m_socket, read, body, frames, logic_que, accepted>>
          /\ send_que' = send_que
      BY <1>7 DEF Transmit, WriteFails, acceptor, receiving
    <2>3. ~Early
      BY <1>0 DEF ReceiveInv
    <2> QED
      BY <1>0, <2>1, <2>2, <2>3, ReceiveInvUnchanged DEF Core
  <1>8. CASE HandleReadHead
    <2>1. CASE read.st = "ok"
      <3>1. UNCHANGED <<acceptor, m_socket, writes, peer, frames, logic_que, send_que, accepted, dropped, wire>>
        BY <1>8, <2>1 DEF HandleReadHead
      <3>2. ReceiveInv' /\ body' \in Seq(0 .. MaxFrames) /\ read' \in ReadOp
        BY <1>0, <1>8, <2>1, ReadHeadOk
      <3>3. SessionOK'
        BY <1>0, <3>1, <3>2 DEF SessionOK, acceptor
      <3>4. SendInv'
        BY <1>0, <3>1, SendInvSame
      <3> QED
        BY <3>2, <3>3, <3>4 DEF Core
    <2>2. CASE read.st # "ok"
      <3>1. /\ Close(NoRead, writes) /\ ClearSession /\ read.op = "head"
            /\ UNCHANGED <<body, peer, frames, logic_que, send_que, accepted, dropped, wire>>
        BY <1>8, <2>2 DEF HandleReadHead
      <3>2. ~Early
        BY <1>0, <1>r, <3>1 DEF ReceiveInv
      <3>3. ReceiveInv' /\ read' \in ReadOp
        BY <1>0, <3>1, <3>2, CloseReceiveInv
      <3>4. SendInv' /\ writes' \in SUBSET Write
        BY <1>0, <3>1, CloseSendInv
      <3>5. SessionOK'
        BY <1>0, <3>1, <3>3, <3>4 DEF SessionOK, Close, ClearSession
      <3> QED
        BY <3>3, <3>4, <3>5 DEF Core
    <2> QED
      BY <2>1, <2>2
  <1>9. CASE HandleReadMsg
    <2>1. CASE read.st = "ok"
      <3>1. UNCHANGED <<acceptor, m_socket, writes, peer, body, frames, send_que, accepted, dropped, wire>>
        BY <1>9, <2>1 DEF HandleReadMsg
      <3>2. ReceiveInv' /\ logic_que' \in Seq(Nat \ {0}) /\ read' \in ReadOp
        BY <1>0, <1>9, <2>1, ReadMsgOk
      <3>3. SessionOK'
        BY <1>0, <3>1, <3>2 DEF SessionOK, acceptor
      <3>4. SendInv'
        BY <1>0, <3>1, SendInvSame
      <3> QED
        BY <3>2, <3>3, <3>4 DEF Core
    <2>2. CASE read.st # "ok"
      <3>1. /\ Close(NoRead, writes) /\ ClearSession /\ read.op = "body"
            /\ UNCHANGED <<body, peer, frames, logic_que, send_que, accepted, dropped, wire>>
        BY <1>9, <2>2 DEF HandleReadMsg
      <3>2. ~Early
        BY <1>0, <1>r, <3>1 DEF ReceiveInv
      <3>3. ReceiveInv' /\ read' \in ReadOp
        BY <1>0, <2>2, <3>1, <3>2, CloseReceiveInv
      <3>4. SendInv' /\ writes' \in SUBSET Write
        BY <1>0, <3>1, CloseSendInv
      <3>5. SessionOK'
        BY <1>0, <3>1, <3>3, <3>4 DEF SessionOK, Close, ClearSession
      <3> QED
        BY <3>3, <3>4, <3>5 DEF Core
    <2> QED
      BY <2>1, <2>2
  <1>10. ASSUME NEW w \in writes, HandleWrite(w)
         PROVE  Core'
    <2>0. ~Early
      BY <1>0 DEF ReceiveInv
    <2>1. CASE w.st = "ok"
      <3>1. SendInv' /\ SessionOK'
        BY <1>0, <1>10, <2>1, HandleWriteOkSendInv
      <3>2. UNCHANGED <<accept, m_socket, read, body, frames, logic_que, accepted>>
        BY <1>10, <2>1 DEF HandleWrite, acceptor
      <3> QED
        BY <1>0, <2>0, <3>1, <3>2, ReceiveInvUnchanged DEF Core
    <2>2. CASE w.st # "ok"
      <3>1. /\ Close(read, writes \ {w}) /\ ClearSession
            /\ UNCHANGED <<send_que, peer, body, frames, logic_que, accepted, dropped, wire>>
        BY <1>10, <2>2 DEF HandleWrite
      <3>2. ReceiveInv' /\ read' \in ReadOp
        BY <1>0, <2>0, <3>1, CloseReceiveInv
      <3>3. SendInv' /\ writes' \in SUBSET Write
        BY <1>0, <3>1, CloseSendInv
      <3>4. SessionOK'
        BY <1>0, <3>1, <3>2, <3>3 DEF SessionOK, Close, ClearSession
      <3> QED
        BY <3>2, <3>3, <3>4 DEF Core
    <2> QED
      BY <2>1, <2>2
  <1>11. CASE DealMsg
    BY <1>0, <1>11, DealMsgOk DEF Core
  <1>12. CASE UNCHANGED session
    <2>1. UNCHANGED <<acceptor, m_socket, peer, receiving, logic_que, sending>>
      BY <1>12 DEF session
    <2>2. SessionOK'
      BY <1>0, <2>1 DEF SessionOK, acceptor, receiving, sending
    <2>3. SendInv'
      BY <1>0, <2>1, SendInvSame DEF sending
    <2>4. ReceiveInv'
      BY <1>0, <2>1, ReceiveInvUnchanged DEF acceptor, receiving, sending
    <2> QED
      BY <2>2, <2>3, <2>4 DEF Core
  <1> QED
    BY <1>1, <1>2, <1>3, <1>4, <1>5, <1>6, <1>7, <1>8, <1>9, <1>10, <1>11, <1>12
    DEF Step, HandleAccept, Writing, Handlers

(* Closing: the handler that closes a session clears it out of _sessions,  *)
(* and knows whether it is there yet.                                      *)
LEMMA CloseStep == SessionInv /\ [Step]_session => CloseInv'
  <1> SUFFICES ASSUME SessionInv, [Step]_session PROVE CloseInv'
    OBVIOUS
  <1>0. SessionOK /\ ReceiveInv /\ CloseInv
    BY DEF SessionInv, TypeOK
  <1> USE DEF CloseInv, KeptOnlyWhenLate
  <1>1. CASE AcceptCompletes
    BY <1>0, <1>1 DEF AcceptCompletes, ReceiveInv
  <1>2. CASE HandleAccept
    BY <1>0, <1>2 DEF HandleAccept, StartSession, Insert
  <1>3. CASE UNCHANGED <<acceptor, m_socket>>
    BY <1>0, <1>3 DEF acceptor
  <1>4. ASSUME NEW r, NEW W, ~Early, Close(r, W), ClearSession
        PROVE  CloseInv'
    BY <1>0, <1>4 DEF Close, ClearSession, Early, SessionOK
  <1>5. CASE HandleReadHead \/ HandleReadMsg
    <2>1. ~Early
      BY <1>0, <1>5 DEF ReceiveInv, HandleReadHead, HandleReadMsg, NoRead
    <2> QED
      BY <1>3, <1>4, <1>5, <2>1 DEF HandleReadHead, HandleReadMsg
  <1>6. ASSUME NEW w \in writes, HandleWrite(w) PROVE CloseInv'
    <2>1. ~Early
      BY <1>0 DEF ReceiveInv
    <2> QED
      BY <1>3, <1>4, <1>6, <2>1 DEF HandleWrite
  <1>7. CASE PeerCloses \/ ReadFails \/ BodyArrives \/ DealMsg
             \/ \E st \in {"ok", "bad", "short", "negative"} : HeadArrives(st)
    BY <1>3, <1>7 DEF PeerCloses, ReadFails, BodyArrives, DealMsg, HeadArrives
  <1>8. ASSUME NEW w \in writes, Transmit(w) \/ WriteFails(w) PROVE CloseInv'
    BY <1>3, <1>8 DEF Transmit, WriteFails
  <1>9. CASE UNCHANGED session
    BY <1>3, <1>9 DEF session
  <1> QED
    BY <1>1, <1>2, <1>5, <1>6, <1>7, <1>8, <1>9 DEF Step, Writing, Handlers

(* A step that the process does not survive leaves the session as it is.   *)
LEMMA NextIsStep == [Next]_vars => [Step]_session
  BY DEF Next, Survive, NegativeLength, CallBackThrows, Terminate, vars

LEMMA NextIInv == SessionInv /\ [Next]_vars => SessionInv'
  <1> SUFFICES ASSUME SessionInv, [Next]_vars PROVE SessionInv'
    OBVIOUS
  <1>1. Core' /\ CloseInv'
    BY NextIsStep, CoreStep, CloseStep DEF SessionInv, TypeOK, Core
  <1>2. (terminated \in BOOLEAN)'
    BY DEF SessionInv, TypeOK, Next, Survive, NegativeLength, CallBackThrows, Terminate, vars
  <1> QED
    BY <1>1, <1>2 DEF SessionInv, TypeOK, Core

-----------------------------------------------------------------------------
(* Whatever the four parties interleave, SessionInv holds.                 *)
THEOREM InductiveInvariant == Safety => []SessionInv
  BY InitIInv, NextIInv, PTL DEF Safety

(* Types: no operation is pending that the code did not start.             *)
THEOREM TypeCorrect == Safety => []TypeOK
  BY InductiveInvariant, PTL DEF SessionInv

(* Send and HandleWrite never have two async_writes pending, and the node  *)
(* being written stays at the front of _send_que.                          *)
THEOREM OneWrite == Safety => []OneWriteOfTheFront
  <1>1. SessionInv => OneWriteOfTheFront
    BY DEF SessionInv, SendInv
  <1> QED
    BY <1>1, InductiveInvariant, PTL

(* What Send accepted reaches the wire whole and in order.                 *)
THEOREM WireOrdered == Safety => []WireInOrder
  <1>1. SessionInv => WireInOrder
    BY DEF SessionInv, SendInv
  <1> QED
    BY <1>1, InductiveInvariant, PTL

(* Answers are accepted in the order of the frames they are for.           *)
THEOREM AnswersOrdered == Safety => []AnswersFollowFrames
  <1>1. SessionInv => AnswersFollowFrames
    BY DEF SessionInv, ReceiveInv
  <1> QED
    BY <1>1, InductiveInvariant, PTL

(* A queue with no write pending belongs to a closed session.              *)
THEOREM NoStall == Safety => []StalledOnlyWhenClosed
  <1>1. SessionInv => StalledOnlyWhenClosed
    BY DEF SessionInv, SendInv
  <1> QED
    BY <1>1, InductiveInvariant, PTL

(* An open, started session always has a read pending.                     *)
THEOREM AlwaysReading == Safety => []OpenMeansReading
  <1>1. SessionInv => OpenMeansReading
    BY DEF SessionInv, ReceiveInv
  <1> QED
    BY <1>1, InductiveInvariant, PTL

(* Send's guard lets _send_que exceed MAX_SENDQUE by one, never by more.   *)
THEOREM QueueBounded == Safety => []SendQueBounded
  <1>1. SessionInv => SendQueBounded
    BY DEF SessionInv, SendInv
  <1> QED
    BY <1>1, InductiveInvariant, PTL

-----------------------------------------------------------------------------
(* CSession implements the abstract stream of answers, step by step.       *)
LEMMA TransmitIsTransmit ==
    ASSUME SessionOK, SendInv, NEW w \in writes, Transmit(w), Survive
    PROVE  Stream!Transmit
  <1>1. /\ w \in Write /\ w.st = "io" /\ w.sent < Parts /\ m_socket = "open"
        /\ send_que # <<>> /\ w.node = Head(send_que)
    BY DEF SessionOK, SendInv, OneWriteOfTheFront, Transmit
  <1>2. Parts \in Nat \ {0} /\ w.node \in Nat \ {0} /\ w.sent \in 0 .. Parts
    BY <1>1, SessionAssumption DEF SessionAssumption, Write
  <1>3. Stream!NextPart = [node |-> w.node, part |-> w.sent + 1]
    <2>1. IF w.sent = 0 THEN LastOnWire(w.node - 1, Parts) ELSE LastOnWire(w.node, w.sent)
      BY DEF SendInv
    <2> QED
      BY <1>1, <1>2, <2>1 DEF LastOnWire, Stream!NextPart
  <1>4. w.node <= Len(accepted)
    <2>1. /\ Len(send_que) \in Nat \ {0} /\ Head(send_que) = send_que[1]
          /\ Len(accepted) \in Nat
      BY <1>1 DEF SessionOK
    <2>2. w.node + Len(send_que) = Len(accepted) + 1
      BY <1>1, <2>1 DEF SendInv
    <2> QED
      BY ONLY <1>2, <2>1, <2>2
  <1>5. wire' = Append(wire, Stream!NextPart)
    BY <1>3 DEF Transmit
  <1>6. Stream!NextPart.node <= Len(accepted)
    BY <1>3, <1>4
  <1>7. accepted' = accepted /\ m_socket' = m_socket /\ ~terminated /\ ~terminated'
    BY DEF Transmit, Survive
  <1> QED
    BY <1>1, <1>5, <1>6, <1>7 DEF Stream!Transmit

LEMMA DealMsgIsAccept ==
    ASSUME SessionOK, SendInv, ReceiveInv, DealMsg, Survive
    PROVE  \/ \E f \in 1 .. MaxFrames : Stream!Accept(f)
           \/ UNCHANGED Stream!avars
  <1> DEFINE h == body[Head(logic_que)]
  <1>1. wire' = wire /\ m_socket' = m_socket /\ terminated' = terminated
    BY DEF DealMsg, Survive
  <1>2. CASE accepted' = accepted
    BY <1>1, <1>2 DEF Stream!avars
  <1>3. CASE accepted' # accepted
    <2>1. accepted' = Append(accepted, h) /\ h \in Registered
      BY <1>3 DEF DealMsg, Send
    <2>2. h \in 1 .. MaxFrames
      BY <2>1, SessionAssumption DEF SessionAssumption
    <2>3. \A i \in 1 .. Len(accepted) : accepted[i] < h
      <3>1. logic_que \in Seq(Nat \ {0}) /\ logic_que # <<>>
        BY DEF SessionOK, DealMsg
      <3>2. h = body[logic_que[1]] /\ 1 \in 1 .. Len(logic_que)
        BY <3>1
      <3> HIDE DEF h
      <3> QED
        BY <3>2 DEF ReceiveInv
    <2> HIDE DEF h
    <2> QED
      BY <1>1, <2>1, <2>2, <2>3 DEF Stream!Accept
  <1> QED
    BY <1>2, <1>3

LEMMA StepIsStreamStep ==
    ASSUME SessionInv, Survive, Step
    PROVE  [Stream!Next]_Stream!avars
  <1>0. SessionOK /\ SendInv /\ ReceiveInv
    BY DEF SessionInv, TypeOK
  <1>1. ASSUME NEW w \in writes, Transmit(w)
        PROVE  Stream!Next
    BY <1>0, <1>1, TransmitIsTransmit DEF Stream!Next
  <1>2. CASE DealMsg
    BY <1>0, <1>2, DealMsgIsAccept DEF Stream!Next
  <1>s. terminated' = terminated
    BY DEF Survive
  <1>3. CASE UNCHANGED <<m_socket, accepted, wire>>
    BY <1>3, <1>s DEF Stream!avars
  <1>4. CASE m_socket' = "closed" /\ UNCHANGED <<accepted, wire>>
    BY <1>4 DEF Stream!Next, Stream!Close
  <1>5. CASE AcceptCompletes
    <2>1. m_socket # "closed" /\ m_socket' # "closed"
      BY <1>0, <1>5 DEF AcceptCompletes, ReceiveInv
    <2>2. UNCHANGED <<accepted, wire>>
      BY <1>5 DEF AcceptCompletes, sending
    <2> QED
      BY <1>s, <2>1, <2>2 DEF Stream!avars
  <1>6. CASE HandleAccept \/ PeerCloses \/ ReadFails \/ BodyArrives
             \/ \E st \in {"ok", "bad", "short", "negative"} : HeadArrives(st)
    BY <1>3, <1>6 DEF HandleAccept, StartSession, Insert, PeerCloses, ReadFails, BodyArrives,
                      HeadArrives, sending
  <1>7. ASSUME NEW w \in writes, WriteFails(w) PROVE UNCHANGED <<m_socket, accepted, wire>>
    BY <1>7 DEF WriteFails
  <1>8. CASE Handlers
    BY <1>3, <1>4, <1>8 DEF Handlers, HandleReadHead, HandleReadMsg, HandleWrite, Close
  <1> QED
    BY <1>1, <1>2, <1>3, <1>5, <1>6, <1>7, <1>8 DEF Step, Writing

LEMMA NextIsStreamStep ==
    ASSUME SessionInv, [Next]_vars
    PROVE  [Stream!Next]_Stream!avars
  <1>1. CASE Survive /\ Step
    BY <1>1, StepIsStreamStep
  <1>2. CASE Terminate
    BY <1>2 DEF Terminate, session, sending, Stream!Next, Stream!Close
  <1>3. CASE UNCHANGED vars
    BY <1>3 DEF vars, session, sending, Stream!avars
  <1> QED
    BY <1>1, <1>2, <1>3 DEF Next, NegativeLength, CallBackThrows

(* Send, HandleWrite and Close implement the stream: the answers accepted  *)
(* are for later and later frames and go out whole and in order.           *)
THEOREM ImplementsStream == Safety => StreamSafety
  <1>1. Init => Stream!Init
    BY DEF Init, Stream!Init
  <1>2. SessionInv /\ [Next]_vars => [Stream!Next]_Stream!avars
    BY NextIsStreamStep
  <1> QED
    BY <1>1, <1>2, InductiveInvariant, PTL DEF Safety, StreamSafety, Stream!Safety

(* A session that closes drops out of _sessions for good, unless its       *)
(* insert came after its ClearSession.                                     *)
THEOREM ClosedLeavesTheMap == Safety => []KeptOnlyWhenLate
  <1>1. SessionInv => KeptOnlyWhenLate
    BY DEF SessionInv, CloseInv
  <1> QED
    BY <1>1, InductiveInvariant, PTL

-----------------------------------------------------------------------------
(* CSession implements SessionIO.  How its operations look from there.     *)
LEMMA OneWriteSeen ==
    /\ writes = {} => writeOfIO = "none"
    /\ \A w : writes = {w} => writeOfIO = w.st
    /\ writes' = {} => writeOfIO' = "none"
    /\ \A w : writes' = {w} => writeOfIO' = w.st
  BY DEF writeOfIO

LEMMA ReadSeen ==
    ASSUME SessionOK
    PROVE  /\ read.op = "none" => readOfIO = "none"
           /\ read.op # "none" =>
                 /\ read.st = "io" => readOfIO = "io"
                 /\ read.st \in {"bad", "short", "err"} => readOfIO = "err"
                 /\ read.st = "ok" => readOfIO = IF read.op = "head" THEN Pending ELSE "ok"
  BY DEF SessionOK, ReadOp, readOfIO, Pending

LEMMA StateSeen == ~Early => stateOfIO = IF m_socket = "open" THEN "started" ELSE "closed"
  BY DEF Early, stateOfIO

LEMMA SeenSame ==
    /\ UNCHANGED <<accept, m_socket>> => stateOfIO' = stateOfIO
    /\ UNCHANGED <<m_socket, read>> => readOfIO' = readOfIO
    /\ UNCHANGED writes => writeOfIO' = writeOfIO
  <1>1. UNCHANGED <<accept, m_socket>> => stateOfIO' = stateOfIO
    BY DEF stateOfIO
  <1>2. UNCHANGED <<m_socket, read>> => readOfIO' = readOfIO
    BY DEF readOfIO, Pending
  <1>3. UNCHANGED writes => writeOfIO' = writeOfIO
    <2> SUFFICES ASSUME writes' = writes PROVE writeOfIO' = writeOfIO
      OBVIOUS
    <2>1. (CHOOSE w \in writes : TRUE)' = (CHOOSE w \in writes : TRUE)
      OBVIOUS
    <2> QED
      BY <2>1 DEF writeOfIO
  <1> QED
    BY <1>1, <1>2, <1>3

(* Closing: what is pending fails, what has completed keeps its result.    *)
LEMMA CloseSeen ==
    ASSUME SessionOK, SendInv, SessionOK', ~Early, NEW r \in {NoRead, read}, NEW W \in SUBSET writes,
           Close(r, W), ClearSession
    PROVE  /\ stateOfIO' = "closed"
           /\ r = NoRead => readOfIO' = "none"
           /\ r = read => readOfIO' = IO!Aborted(readOfIO)
           /\ W = {} => writeOfIO' = "none"
           /\ W = writes => writeOfIO' = IO!Aborted(writeOfIO)
  <1>1. /\ m_socket' = "closed" /\ accept' = accept
        /\ read' = IF r = NoRead THEN NoRead ELSE Aborted(r)
        /\ writes' = {Aborted(w) : w \in W}
    BY DEF Close, ClearSession
  <1>2. stateOfIO' = "closed"
    BY <1>1 DEF stateOfIO, Early
  <1>3. r = NoRead => readOfIO' = "none"
    BY <1>1 DEF readOfIO, NoRead
  <1>4. ASSUME r = read PROVE readOfIO' = IO!Aborted(readOfIO)
    <2>1. read \in ReadOp
      BY DEF SessionOK
    <2>2. CASE read.op = "none"
      <3>1. read'.op = "none"
        BY <1>1, <1>4, <2>1, <2>2, AbortedRead DEF NoRead
      <3> QED
        BY <2>2, <3>1 DEF readOfIO, IO!Aborted
    <2>3. CASE read.op # "none" /\ read.st = "io"
      <3>1. read' = [read EXCEPT !.st = "err"]
        BY <1>1, <1>4, <2>3 DEF NoRead, Aborted
      <3>2. read'.op = read.op /\ read'.st = "err"
        BY <2>1, <3>1 DEF ReadOp
      <3> QED
        BY <2>3, <3>2, ReadSeen DEF readOfIO, IO!Aborted
    <2>4. CASE read.op # "none" /\ read.st # "io"
      <3>1. read' = read
        BY <1>1, <1>4, <2>4 DEF NoRead, Aborted
      <3>2. m_socket' # "open"
        BY <1>1
      <3> QED
        BY <2>1, <2>4, <3>1, <3>2, ReadSeen DEF readOfIO, IO!Aborted, Pending, ReadOp
    <2> QED
      BY <2>2, <2>3, <2>4
  <1>5. W = {} => writeOfIO' = "none"
    <2>1. W = {} => writes' = {}
      BY <1>1
    <2> QED
      BY <2>1, OneWriteSeen
  <1>6. ASSUME W = writes PROVE writeOfIO' = IO!Aborted(writeOfIO)
    <2>1. CASE writes = {}
      <3>1. writes' = {}
        BY <1>1, <1>6, <2>1
      <3> QED
        BY <2>1, <3>1, OneWriteSeen DEF IO!Aborted
    <2>2. ASSUME NEW w \in writes PROVE writeOfIO' = IO!Aborted(writeOfIO)
      <3>1. writes = {w} /\ w \in Write
        BY DEF SendInv, OneWriteOfTheFront, SessionOK
      <3>2. writes' = {Aborted(w)}
        BY <1>1, <1>6, <3>1
      <3>3. writeOfIO = w.st
        BY <3>1, OneWriteSeen
      <3>4. PICK v : v = Aborted(w)
        OBVIOUS
      <3>5. writeOfIO' = v.st
        BY <3>2, <3>4, OneWriteSeen
      <3>6. v.st = IF w.st = "io" THEN "err" ELSE w.st
        BY <3>1, <3>4 DEF Aborted, Write
      <3> QED
        BY <3>3, <3>5, <3>6 DEF IO!Aborted
    <2> QED
      BY <2>1, <2>2
  <1> QED
    BY <1>2, <1>3, <1>4, <1>5, <1>6

LEMMA AcceptIsIO ==
    ASSUME SessionInv, AcceptCompletes \/ HandleAccept
    PROVE  IO!Next \/ UNCHANGED IO!iovars
  <1>0. SessionOK /\ ReceiveInv /\ CloseInv
    BY DEF SessionInv, TypeOK
  <1>1. UNCHANGED <<logic_que, send_que, writes>> /\ writeOfIO' = writeOfIO
    BY SeenSame DEF AcceptCompletes, HandleAccept, StartSession, Insert, sending
  <1>2. CASE AcceptCompletes
    <2>1. stateOfIO = "new" /\ stateOfIO' \in {"open", "closed"}
      BY <1>0, <1>2 DEF AcceptCompletes, stateOfIO, ReceiveInv
    <2>2. readOfIO' = readOfIO
      BY <1>0, <1>2 DEF AcceptCompletes, ReceiveInv, Early, NoRead, receiving, readOfIO
    <2> QED
      BY <1>1, <2>1, <2>2 DEF IO!Next, IO!Accepted
  <1>3. CASE StartSession
    <2>1. accept = "start" /\ m_socket = "open" /\ UNCHANGED m_socket /\ accept' = "insert"
          /\ read' = [op |-> "head", st |-> "io"]
      BY <1>0, <1>3 DEF StartSession, Start, AsyncRead, Pending, CloseInv
    <2>2. stateOfIO = "open" /\ stateOfIO' = "started" /\ readOfIO' = "io"
      BY <2>1 DEF stateOfIO, readOfIO
    <2> QED
      BY <1>1, <2>2 DEF IO!Next, IO!Start
  <1>4. CASE Insert
    <2>1. accept = "insert" /\ accept' = "accepted" /\ UNCHANGED <<m_socket, read>>
      BY <1>4 DEF Insert, receiving
    <2>2. stateOfIO' = stateOfIO /\ readOfIO' = readOfIO
      BY <2>1, SeenSame DEF stateOfIO
    <2> QED
      BY <1>1, <2>2 DEF IO!iovars
  <1> QED
    BY <1>2, <1>3, <1>4 DEF HandleAccept

(* The kernel: a head that is there is not a read that has completed.      *)
LEMMA ReadIsIO ==
    ASSUME SessionInv, ReadFails \/ BodyArrives \/ \E st \in {"ok", "bad", "short", "negative"} : HeadArrives(st)
    PROVE  IO!Next \/ UNCHANGED IO!iovars
  <1>0. SessionOK /\ ReceiveInv
    BY DEF SessionInv, TypeOK
  <1>1. /\ UNCHANGED <<accept, m_socket, logic_que, send_que, writes>>
        /\ read.op # "none" /\ read.st = "io"
        /\ \E st \in {"ok", "bad", "short", "negative", "err"} :
              read' = [read EXCEPT !.st = st] /\ (st = "negative" => read.op = "head")
    BY DEF ReadFails, BodyArrives, HeadArrives, acceptor, sending
  <1>2. read \in ReadOp /\ m_socket = "open"
    BY <1>0, <1>1 DEF SessionOK, ReceiveInv
  <1>3. readOfIO = "io"
    BY <1>0, <1>1, ReadSeen
  <1>4. readOfIO' \in {"io", "ok", "err"}
    BY <1>1, <1>2 DEF readOfIO, Pending, ReadOp
  <1>5. stateOfIO' = stateOfIO /\ writeOfIO' = writeOfIO
    BY <1>1, SeenSame
  <1> QED
    BY <1>1, <1>3, <1>4, <1>5 DEF IO!Next, IO!ReadCompletes, IO!iovars

LEMMA WriteIsIO ==
    ASSUME SessionInv, NEW w \in writes, Transmit(w) \/ WriteFails(w)
    PROVE  IO!Next \/ UNCHANGED IO!iovars
  <1>0. SessionOK /\ SendInv
    BY DEF SessionInv, TypeOK
  <1>1. writes = {w} /\ w \in Write /\ w.st = "io"
    BY <1>0 DEF SendInv, OneWriteOfTheFront, SessionOK, Transmit, WriteFails
  <1>2. PICK v : v = IF Transmit(w) THEN Advanced(w) ELSE [w EXCEPT !.st = "err"]
    OBVIOUS
  <1>3. writes' = {v} /\ v.st \in {"io", "ok", "err"}
    BY <1>1, <1>2 DEF Transmit, WriteFails, Advanced, Write
  <1>4. writeOfIO = "io" /\ writeOfIO' = v.st
    BY <1>1, <1>3, OneWriteSeen
  <1>5. UNCHANGED <<accept, m_socket, read, logic_que, send_que>>
    BY DEF Transmit, WriteFails, acceptor, receiving
  <1>6. stateOfIO' = stateOfIO /\ readOfIO' = readOfIO
    BY <1>5, SeenSame
  <1> QED
    BY <1>3, <1>4, <1>5, <1>6 DEF IO!Next, IO!WriteCompletes, IO!iovars

LEMMA ReadHandlerIsIO ==
    ASSUME SessionInv, SessionOK', HandleReadHead \/ HandleReadMsg
    PROVE  IO!Next \/ UNCHANGED IO!iovars
  <1>0. SessionOK /\ SendInv /\ ReceiveInv
    BY DEF SessionInv, TypeOK
  <1>1. /\ ~Early /\ read.op # "none" /\ read.st # "io" /\ read \in ReadOp
        /\ read.st # "negative"
    BY <1>0 DEF ReceiveInv, NoRead, HandleReadHead, HandleReadMsg, SessionOK
  <1>2. send_que' = send_que
    BY DEF HandleReadHead, HandleReadMsg
  <1>3. CASE read.st # "ok"
    <2>1. Close(NoRead, writes) /\ ClearSession /\ logic_que' = logic_que
      BY <1>3 DEF HandleReadHead, HandleReadMsg
    <2>2. readOfIO = "err"
      BY <1>0, <1>1, <1>3, ReadSeen DEF ReadOp
    <2>3. stateOfIO' = "closed" /\ readOfIO' = "none" /\ writeOfIO' = IO!Aborted(writeOfIO)
      BY <1>0, <1>1, <2>1, CloseSeen
    <2> QED
      BY <1>2, <2>1, <2>2, <2>3 DEF IO!Next, IO!Close
  <1>4. CASE read.st = "ok" /\ read.op = "head"
    <2>1. /\ UNCHANGED <<acceptor, m_socket, writes, logic_que>>
          /\ read' = [op |-> "body", st |-> Pending]
      BY <1>4 DEF HandleReadHead, HandleReadMsg, AsyncRead
    <2>2. readOfIO = Pending
      BY <1>0, <1>4, ReadSeen
    <2>3. readOfIO' = Pending
      BY <2>1 DEF readOfIO, Pending
    <2>4. stateOfIO' = stateOfIO /\ writeOfIO' = writeOfIO
      BY <2>1, SeenSame DEF acceptor
    <2> QED
      BY <1>2, <2>1, <2>2, <2>3, <2>4 DEF IO!iovars
  <1>5. CASE read.st = "ok" /\ read.op = "body"
    <2>1. /\ UNCHANGED <<acceptor, m_socket, writes>>
          /\ logic_que' = Append(logic_que, Len(body))
          /\ read' = [op |-> "head", st |-> Pending]
      BY <1>5 DEF HandleReadHead, HandleReadMsg, Start, AsyncRead
    <2>2. readOfIO = "ok"
      BY <1>0, <1>5, ReadSeen
    <2>3. stateOfIO' = stateOfIO /\ writeOfIO' = writeOfIO
      BY <2>1, SeenSame DEF acceptor
    <2>4. readOfIO' = IO!Begun
      <3>1. readOfIO' = Pending
        BY <2>1 DEF readOfIO, Pending
      <3> QED
        BY <1>1, <3>1, StateSeen DEF IO!Begun, Pending
    <2>5. Len(logic_que') = Len(logic_que) + 1
      <3>1. logic_que \in Seq(Nat \ {0}) /\ Len(body) \in Nat \ {0}
        BY <1>0, <1>5 DEF SessionOK, ReceiveInv
      <3> QED
        BY <2>1, <3>1, AppendProperties
    <2> QED
      BY <1>2, <2>2, <2>3, <2>4, <2>5 DEF IO!Next, IO!Post
  <1> QED
    BY <1>1, <1>3, <1>4, <1>5 DEF ReadOp

LEMMA WriteHandlerIsIO ==
    ASSUME SessionInv, SessionOK', NEW w \in writes, HandleWrite(w)
    PROVE  IO!Next \/ UNCHANGED IO!iovars
  <1>0. SessionOK /\ SendInv /\ ReceiveInv
    BY DEF SessionInv, TypeOK
  <1>1. /\ writes = {w} /\ w \in Write /\ w.st \in {"ok", "err"} /\ send_que # <<>>
        /\ ~Early /\ logic_que' = logic_que
    BY <1>0 DEF SendInv, OneWriteOfTheFront, SessionOK, HandleWrite, Write, ReceiveInv
  <1>2. writeOfIO = w.st
    BY <1>1, OneWriteSeen
  <1>3. CASE w.st # "ok"
    <2>1. Close(read, {}) /\ ClearSession /\ send_que' = send_que
      BY <1>1, <1>3 DEF HandleWrite
    <2>2. stateOfIO' = "closed" /\ readOfIO' = IO!Aborted(readOfIO) /\ writeOfIO' = "none"
      BY <1>0, <1>1, <2>1, CloseSeen
    <2> QED
      BY <1>1, <1>2, <1>3, <2>1, <2>2 DEF IO!Next, IO!Close
  <1>4. CASE w.st = "ok"
    <2>1. /\ UNCHANGED <<accept, m_socket, read>>
          /\ send_que' = Tail(send_que)
          /\ writes' = NextWrite(send_que')
      BY <1>1, <1>4 DEF HandleWrite, Pop, acceptor
    <2>2. /\ Len(send_que) \in Nat /\ Len(send_que') = Len(send_que) - 1
          /\ send_que' = <<>> <=> ~(Len(send_que) > 1)
      <3>1. send_que \in Seq(Nat \ {0})
        BY <1>0 DEF SessionOK
      <3>2. /\ Tail(send_que) \in Seq(Nat \ {0}) /\ Len(Tail(send_que)) = Len(send_que) - 1
            /\ Len(send_que) \in Nat \ {0}
        BY <1>1, <3>1, HeadTailProperties
      <3>3. Tail(send_que) = <<>> <=> Len(Tail(send_que)) = 0
        BY <3>2, EmptySeq
      <3> QED
        BY ONLY <2>1, <3>2, <3>3
    <2>3. stateOfIO' = stateOfIO /\ readOfIO' = readOfIO
      BY <2>1, SeenSame
    <2>4. writeOfIO' = IF Len(send_que) > 1 THEN IO!Begun ELSE "none"
      <3>1. CASE send_que' = <<>>
        BY <2>1, <2>2, <3>1, OneWriteSeen DEF NextWrite
      <3>2. CASE send_que' # <<>>
        <4>1. PICK v : v = AsyncWrite(Head(send_que'))
          OBVIOUS
        <4>2. writes' = {v}
          BY <2>1, <3>2, <4>1 DEF NextWrite
        <4>3. v.st = IO!Begun
          BY <1>1, <4>1, StateSeen DEF AsyncWrite, Pending, IO!Begun
        <4> QED
          BY <2>2, <3>2, <4>2, <4>3, OneWriteSeen
      <3> QED
        BY <3>1, <3>2
    <2> QED
      BY <1>1, <1>2, <1>4, <2>2, <2>3, <2>4 DEF IO!Next, IO!WriteNext
  <1> QED
    BY <1>3, <1>4

LEMMA DealIsIO ==
    ASSUME SessionInv, DealMsg
    PROVE  IO!Next \/ UNCHANGED IO!iovars
  <1>0. SessionOK /\ SendInv /\ ReceiveInv
    BY DEF SessionInv, TypeOK
  <1>1. /\ logic_que # <<>> /\ logic_que' = Tail(logic_que)
        /\ UNCHANGED <<accept, m_socket, read>>
    BY DEF DealMsg, acceptor, receiving
  <1>2. ~Early
    BY <1>0, <1>1 DEF ReceiveInv
  <1>3. stateOfIO' = stateOfIO /\ readOfIO' = readOfIO
    BY <1>1, SeenSame
  <1>4. Len(logic_que) > 0 /\ Len(logic_que') = Len(logic_que) - 1
    <2>1. logic_que \in Seq(Nat \ {0})
      BY <1>0 DEF SessionOK
    <2> QED
      BY <1>1, <2>1, HeadTailProperties
  <1>5. CASE UNCHANGED <<send_que, writes>>
    <2>1. writeOfIO' = writeOfIO
      BY <1>5, SeenSame
    <2> QED
      BY <1>3, <1>4, <1>5, <2>1 DEF IO!Next, IO!Deal
  <1>6. CASE /\ ~SendQueFull
             /\ send_que' = Append(send_que, Len(accepted'))
             /\ writes' = writes \cup FirstWrite(send_que')
             /\ accepted' = Append(accepted, body[Head(logic_que)])
    <2>1. /\ Len(send_que) \in Nat /\ Len(send_que) <= MAX_SENDQUE
          /\ Len(send_que') = Len(send_que) + 1
      <3>1. send_que \in Seq(Nat \ {0}) /\ MAX_SENDQUE \in Nat
        BY <1>0, SessionAssumption DEF SessionOK, SessionAssumption
      <3>2. Len(send_que) \in Nat /\ Len(send_que') = Len(send_que) + 1
        BY <1>6, <3>1
      <3>3. ~(Len(send_que) > MAX_SENDQUE)
        BY <1>6 DEF SendQueFull
      <3> QED
        BY ONLY <3>1, <3>2, <3>3
    <2>2. writeOfIO' = IF Len(send_que) = 0 THEN IO!Begun ELSE writeOfIO
      <3>1. CASE Len(send_que) = 0
        <4>1. send_que = <<>>
          BY <1>0, <3>1, EmptySeq DEF SessionOK
        <4>2. writes = {}
          BY <1>0, <4>1 DEF SendInv, OneWriteOfTheFront
        <4>3. PICK v : v = AsyncWrite(Head(send_que'))
          OBVIOUS
        <4>4. ~(Len(send_que') > 1)
          BY <2>1, <3>1
        <4>5. writes' = {v}
          BY <1>1, <1>6, <4>2, <4>3, <4>4 DEF FirstWrite
        <4>6. v.st = IO!Begun
          BY <1>2, <4>3, StateSeen DEF AsyncWrite, Pending, IO!Begun
        <4> QED
          BY <3>1, <4>5, <4>6, OneWriteSeen
      <3>2. CASE Len(send_que) # 0
        <4>1. Len(send_que') > 1
          BY <2>1, <3>2
        <4>2. writes' = writes
          BY <1>6, <4>1 DEF FirstWrite
        <4> QED
          BY <3>2, <4>2, SeenSame
      <3> QED
        BY <3>1, <3>2
    <2> QED
      BY <1>3, <1>4, <2>1, <2>2 DEF IO!Next, IO!Deal, IO!Send
  <1> QED
    BY <1>5, <1>6 DEF DealMsg, Send

(* A session is, to its server, one read and one write at a time and the   *)
(* length of a queue: whatever heads and bodies come, however the writes   *)
(* are cut and whoever closes it.                                          *)
THEOREM ImplementsIO == Safety => IOSafety
  <1>1. Init => IO!Init
    BY DEF Init, IO!Init, NoRead, stateOfIO, readOfIO, writeOfIO
  <1>2. SessionInv /\ SessionInv' /\ [Next]_vars => [IO!Next]_IO!iovars
    <2> SUFFICES ASSUME SessionInv, SessionInv', [Next]_vars PROVE IO!Next \/ UNCHANGED IO!iovars
      OBVIOUS
    <2>0. SessionOK'
      BY DEF SessionInv, TypeOK
    <2>s. [Step]_session
      BY NextIsStep
    <2>1. CASE PeerCloses \/ UNCHANGED session
      <3>1. UNCHANGED <<accept, m_socket, read, logic_que, send_que, writes>>
        BY <2>1 DEF PeerCloses, session, acceptor, receiving, sending
      <3> QED
        BY <3>1, SeenSame DEF IO!iovars
    <2> QED
      BY <2>s, <2>0, <2>1, AcceptIsIO, ReadIsIO, WriteIsIO, ReadHandlerIsIO, WriteHandlerIsIO, DealIsIO
      DEF Step, Writing, Handlers
  <1> QED
    BY <1>1, <1>2, InductiveInvariant, PTL DEF Safety, IOSafety, IO!Safety
=============================================================================
