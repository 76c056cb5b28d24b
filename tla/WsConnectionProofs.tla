------------------------- MODULE WsConnectionProofs -------------------------
(***************************************************************************)
(* Theorems about one websocket connection, for any number of messages and *)
(* of parts.  The inductive invariant has three parts: types, what the     *)
(* echoing keeps (SendInv), and what the stream and the map keep           *)
(* (StreamInv).                                                            *)
(***************************************************************************)
EXTENDS WsConnection, SequenceTheorems, TLAPS

LEMMA InitIInv == Init => EchoInv
  <1> SUFFICES ASSUME Init PROVE EchoInv
    OBVIOUS
  <1>1. \A S : <<>> \in Seq(S) /\ Len(<<>>) = 0
    OBVIOUS
  <1>2. TypeOK
    BY <1>1 DEF Init, TypeOK, Type
  <1>3. SendInv
    BY <1>1 DEF Init, SendInv, OneWriteOfTheFront, TypeOfLatest, NoWrite, LastOnWire
  <1>4. StreamInv
    BY DEF Init, StreamInv, TextIsLatest, StalledOnlyWhenFailed, EntryWillBeCleared, OpenInMap, NoWrite
  <1> QED
    BY <1>2, <1>3, <1>4 DEF EchoInv

(* NoWrite is no write.                                                    *)
LEMMA NoWriteIsNone == NoWrite \notin Write /\ NoWrite.st = "none"
  BY DEF NoWrite, Write

LEMMA SendInvSame ==
    ASSUME SendInv, UNCHANGED <<received, m_send_queue, write, wire, sent_as>>
    PROVE  SendInv'
  BY DEF SendInv, OneWriteOfTheFront, TypeOfLatest, LastOnWire

-----------------------------------------------------------------------------
(* A part goes out; the wire then ends with it.                            *)
LEMMA PartOutInv ==
    ASSUME TypeOK, SendInv, write.st \in {"new", "io"}, NEW b \in BOOLEAN, PartOut(b),
           UNCHANGED <<received, m_send_queue>>
    PROVE  /\ SendInv'
           /\ write' \in Write /\ write'.st # "err"
           /\ wire' \in Seq([node : Messages, part : 1 .. Parts])
           /\ sent_as' \in Seq([type : Type, intact : BOOLEAN])
  <1> DEFINE p == [node |-> write.node, part |-> write.sent + 1]
             a == [type |-> write.type, intact |-> b]
             P == [node : Messages, part : 1 .. Parts]
             A == [type : Type, intact : BOOLEAN]
  <1>1. /\ write \in Write /\ write # NoWrite /\ write.sent < Parts
        /\ m_send_queue # <<>> /\ write.node = Head(m_send_queue)
    BY NoWriteIsNone DEF TypeOK, SendInv, OneWriteOfTheFront
  <1>2. Parts \in Nat \ {0} /\ write.node \in Messages /\ write.sent \in 0 .. Parts
    BY <1>1, WsAssumption DEF WsAssumption, Write
  <1>3. p \in P /\ a \in A
    BY <1>1, <1>2 DEF Write
  <1>4. /\ write' \in Write /\ write'.node = write.node /\ write'.type = write.type
        /\ write'.sent = write.sent + 1
        /\ write'.st = IF write.sent + 1 = Parts THEN "ok" ELSE "io"
    <2>1. PICK st \in {"ok", "io"} : st = IF write.sent + 1 = Parts THEN "ok" ELSE "io"
      OBVIOUS
    <2>2. write' = [write EXCEPT !.sent = write.sent + 1, !.st = st]
      BY <2>1 DEF PartOut
    <2>3. write.sent + 1 \in 0 .. Parts
      BY <1>1, <1>2
    <2> QED
      BY <1>1, <2>1, <2>2, <2>3 DEF Write
  <1>5. wire \in Seq(P) /\ sent_as \in Seq(A)
    BY DEF TypeOK
  <1>6. wire' = Append(wire, p) /\ sent_as' = Append(sent_as, a)
    BY DEF PartOut
  <1>7. p.node = write.node /\ a.type = write.type
    OBVIOUS
  <1>8. received' = received /\ m_send_queue' = m_send_queue
    OBVIOUS
  <1>9. /\ Len(received) \in Nat /\ Len(m_send_queue) \in Nat \ {0}
        /\ Head(m_send_queue) = m_send_queue[1] /\ m_send_queue \in Seq(Messages)
    BY <1>1 DEF TypeOK
  <1>10. write.node <= Len(received)
    <2>1. write.node + Len(m_send_queue) = Len(received) + 1
      BY <1>1, <1>9 DEF SendInv
    <2>2. write.node \in Nat
      BY <1>2, WsAssumption DEF WsAssumption, Messages
    <2> QED
      BY ONLY <1>9, <2>1, <2>2
  <1>11. p = [node |-> write.node, part |-> write.sent + 1]
    OBVIOUS
  <1> HIDE DEF p, a, P, A
  <1>12. /\ wire' \in Seq(P) /\ Len(wire') = Len(wire) + 1 /\ wire'[Len(wire) + 1] = p
         /\ \A i \in 1 .. Len(wire) : wire'[i] = wire[i]
    BY ONLY <1>3, <1>5, <1>6, AppendProperties
  <1>13. /\ sent_as' \in Seq(A) /\ Len(sent_as') = Len(sent_as) + 1
         /\ sent_as'[Len(sent_as) + 1] = a
         /\ \A i \in 1 .. Len(sent_as) : sent_as'[i] = sent_as[i]
    BY ONLY <1>3, <1>5, <1>6, AppendProperties
  <1>14. Len(sent_as) = Len(wire) /\ Len(wire) \in Nat
    BY <1>5 DEF SendInv
  <1>15. \A i \in 1 .. Len(wire') : i \in 1 .. Len(wire) \/ i = Len(wire) + 1
    BY ONLY <1>12, <1>14
  <1>16. \A i \in 1 .. Len(wire') : wire'[i].node <= Len(received')
    BY <1>7, <1>8, <1>10, <1>12, <1>15 DEF SendInv
  <1>17. TypeOfLatest'
    <2> SUFFICES ASSUME NEW i \in 1 .. Len(wire'), sent_as'[i].type # received[wire'[i].node]
                 PROVE  wire'[i].node < Len(received)
      BY <1>8 DEF TypeOfLatest
    <2>1. CASE i \in 1 .. Len(wire)
      BY <1>12, <1>13, <1>14, <2>1 DEF SendInv, TypeOfLatest
    <2>2. CASE i = Len(wire) + 1
      BY <1>1, <1>7, <1>12, <1>13, <1>14, <2>2 DEF SendInv
    <2> QED
      BY <1>15, <2>1, <2>2
  <1>18. /\ wire' # <<>>
         /\ wire'[Len(wire')] = [node |-> write'.node, part |-> write'.sent]
         /\ write'.node # 0 /\ write'.sent # 0
    <2>1. Len(wire') # 0 /\ write.node # 0 /\ write.sent + 1 # 0
      BY <1>2, <1>12, <1>14 DEF Messages
    <2>2. wire' # <<>>
      BY <1>12, <2>1
    <2> QED
      BY <1>4, <1>11, <1>12, <2>1, <2>2
  <1>19. write' # NoWrite /\ write'.st # "new" /\ write'.st # "err"
    BY <1>2, <1>4, NoWriteIsNone
  <1>21. OneWriteOfTheFront'
    BY <1>1, <1>4, <1>8 DEF OneWriteOfTheFront
  <1>22. /\ write'.st = "io" => write'.sent < Parts
         /\ write'.st = "ok" => write'.sent = Parts
    BY <1>1, <1>2, <1>4
  <1>23. write'.type # received'[write'.node] => write'.node < Len(received')
    BY <1>1, <1>4, <1>8 DEF SendInv
  <1>24. SendInv'
    <2>1. \A i \in 1 .. Len(m_send_queue') :
              m_send_queue'[i] + Len(m_send_queue') = Len(received') + i
      BY <1>8 DEF SendInv
    <2>2. Len(sent_as') = Len(wire')
      BY <1>12, <1>13, <1>14
    <2>3. m_send_queue' # <<>>
      BY <1>1, <1>8
    <2> QED
      BY <1>16, <1>17, <1>18, <1>19, <1>21, <1>22, <1>23, <2>1, <2>2, <2>3 DEF SendInv, LastOnWire
  <1> QED
    BY <1>4, <1>12, <1>13, <1>19, <1>24 DEF P, A

(* A write goes on or fails; the wire is not touched.                      *)
LEMMA WriteStateInv ==
    ASSUME TypeOK, SendInv, write.st \in {"new", "io"}, NEW st \in {"io", "err"},
           write' = [write EXCEPT !.st = st],
           UNCHANGED <<received, m_send_queue, wire, sent_as>>
    PROVE  SendInv' /\ write' \in Write /\ write'.st = st
  <1>1. write \in Write /\ write # NoWrite
    BY NoWriteIsNone DEF TypeOK
  <1>2. /\ write' \in Write /\ write'.node = write.node /\ write'.type = write.type
        /\ write'.sent = write.sent /\ write'.st = st
    BY <1>1 DEF Write
  <1>3. write' # NoWrite
    BY <1>2, NoWriteIsNone
  <1> QED
    BY <1>1, <1>2, <1>3 DEF SendInv, OneWriteOfTheFront, TypeOfLatest, LastOnWire

-----------------------------------------------------------------------------
(* AsyncSend queues a message, and starts writing it on an empty queue.    *)
LEMMA AsyncSendInv ==
    ASSUME TypeOK, SendInv, Len(received) < MaxMsgs, TakeType,
           received' = Append(received, got_text), AsyncSend(Len(received')),
           UNCHANGED <<wire, sent_as>>
    PROVE  /\ SendInv'
           /\ received' \in Seq(Type) /\ m_send_queue' \in Seq(Messages)
           /\ write' \in Write \cup {NoWrite}
           /\ write'.st = "err" => write.st = "err"
           /\ m_send_queue' # <<>>
           /\ write' = NoWrite => write = NoWrite /\ m_send_queue # <<>>
  <1>0. PICK n \in Nat : n = Len(received)
    BY DEF TypeOK
  <1>1. /\ received' \in Seq(Type) /\ Len(received') = n + 1 /\ received'[n + 1] = got_text
        /\ \A i \in 1 .. n : received'[i] = received[i]
    BY <1>0, AppendProperties DEF TypeOK
  <1>2. n + 1 \in Messages
    BY <1>0, WsAssumption DEF WsAssumption, Messages
  <1>3. m_send_queue \in Seq(Messages) /\ m_send_queue' = Append(m_send_queue, n + 1)
    BY <1>1 DEF TypeOK, AsyncSend
  <1>4. /\ m_send_queue' \in Seq(Messages) /\ Len(m_send_queue') = Len(m_send_queue) + 1
        /\ m_send_queue'[Len(m_send_queue) + 1] = n + 1
        /\ \A i \in 1 .. Len(m_send_queue) : m_send_queue'[i] = m_send_queue[i]
        /\ Len(m_send_queue) \in Nat
        /\ m_send_queue' # <<>>
    BY <1>2, <1>3, AppendProperties
  <1>5. \A i \in 1 .. Len(m_send_queue') :
            m_send_queue'[i] + Len(m_send_queue') = Len(received') + i
    <2> SUFFICES ASSUME NEW i \in 1 .. Len(m_send_queue')
                 PROVE  m_send_queue'[i] + Len(m_send_queue') = Len(received') + i
      OBVIOUS
    <2>1. CASE i \in 1 .. Len(m_send_queue)
      <3>1. m_send_queue[i] + Len(m_send_queue) = n + i
        BY <1>0, <2>1 DEF SendInv
      <3>2. m_send_queue[i] \in Nat
        BY <1>3, <2>1, WsAssumption DEF WsAssumption, Messages
      <3>3. m_send_queue'[i] = m_send_queue[i]
        BY <1>4, <2>1
      <3>4. Len(m_send_queue') = Len(m_send_queue) + 1 /\ Len(m_send_queue) \in Nat
        BY <1>4
      <3>5. Len(received') = n + 1 /\ n \in Nat /\ i \in Nat
        BY <1>1, <2>1
      <3> QED
        BY ONLY <3>1, <3>2, <3>3, <3>4, <3>5
    <2>2. CASE i = Len(m_send_queue) + 1
      BY <1>1, <1>4, <2>2
    <2> QED
      BY <1>4, <2>1, <2>2
  <1>6. /\ Len(sent_as) = Len(wire)
        /\ \A i \in 1 .. Len(wire) : wire[i].node \in 1 .. n
    <2>1. \A i \in 1 .. Len(wire) : wire[i].node <= n /\ wire[i].node \in Messages
      <3>1. wire \in Seq([node : Messages, part : 1 .. Parts])
        BY DEF TypeOK
      <3>2. \A i \in 1 .. Len(wire) : wire[i] \in [node : Messages, part : 1 .. Parts]
        BY <3>1, ElementOfSeq
      <3>3. \A i \in 1 .. Len(wire) : wire[i].node \in Messages
        BY <3>2
      <3> QED
        BY <1>0, <3>3 DEF SendInv
    <2>2. \A k \in Messages : k <= n => k \in 1 .. n
      BY WsAssumption DEF WsAssumption, Messages
    <2> QED
      BY <2>1, <2>2 DEF SendInv
  <1>7. TypeOfLatest' /\ \A i \in 1 .. Len(wire') : wire'[i].node <= Len(received')
    BY <1>0, <1>1, <1>6 DEF SendInv, TypeOfLatest
  <1>8. CASE m_send_queue = <<>>
    <2>1. write = NoWrite /\ LastOnWire(n, Parts)
      BY <1>0, <1>8 DEF SendInv, OneWriteOfTheFront
    <2>2. m_send_queue' = <<n + 1>> /\ Head(m_send_queue') = n + 1
      BY <1>3, <1>8
    <2>3. /\ write' = [node |-> n + 1, sent |-> 0, type |-> text', st |-> "new"]
          /\ text' = got_text
      BY <1>8, <2>1, <2>2 DEF AsyncSend, SendFirst, Begin, AsyncSendCallBack, TakeType
    <2>4. write' \in Write /\ write' # NoWrite
      <3>1. write' \in Write
        BY <1>2, <2>3, WsAssumption DEF WsAssumption, Write, TypeOK
      <3> QED
        BY <3>1, NoWriteIsNone
    <2>5. OneWriteOfTheFront'
      BY <1>4, <2>2, <2>3 DEF OneWriteOfTheFront
    <2>6. write'.node - 1 = n
      BY <2>3
    <2>7. /\ write'.st = "new" /\ write'.sent = 0 /\ write'.type = received'[write'.node]
          /\ 0 < Parts
      BY <1>1, <2>3, WsAssumption DEF WsAssumption
    <2>8. SendInv'
      BY <1>4, <1>5, <1>6, <1>7, <2>1, <2>4, <2>5, <2>6, <2>7 DEF SendInv, LastOnWire
    <2> QED
      BY <1>1, <1>4, <2>4, <2>7, <2>8
  <1>9. CASE m_send_queue # <<>>
    <2>1. write' = write
      BY <1>9 DEF AsyncSend, SendFirst
    <2>2. Head(m_send_queue') = Head(m_send_queue)
      BY <1>3, <1>9
    <2>3. OneWriteOfTheFront'
      BY <1>4, <2>1, <2>2 DEF SendInv, OneWriteOfTheFront
    <2>4. write # NoWrite => write.node \in 1 .. n
      <3> SUFFICES ASSUME write # NoWrite PROVE write.node \in 1 .. n
        OBVIOUS
      <3>1. write.node = m_send_queue[1] /\ Len(m_send_queue) \in Nat \ {0}
        BY <1>3, <1>9 DEF SendInv, OneWriteOfTheFront
      <3>2. m_send_queue[1] + Len(m_send_queue) = n + 1
        BY <1>0, <3>1 DEF SendInv
      <3>3. m_send_queue[1] \in Nat \ {0}
        BY <1>3, <3>1, WsAssumption DEF WsAssumption, Messages
      <3> QED
        BY ONLY <1>0, <3>1, <3>2, <3>3
    <2>5. write # NoWrite /\ write.type # received'[write.node] => write.node < Len(received')
      BY <1>1, <2>4
    <2>6. SendInv'
      BY <1>4, <1>5, <1>6, <1>7, <2>1, <2>3, <2>5 DEF SendInv, LastOnWire
    <2> QED
      BY <1>1, <1>4, <1>9, <2>1, <2>6 DEF TypeOK
  <1> QED
    BY <1>8, <1>9

(* The write handler takes the front and goes on with the rest.            *)
LEMMA HandleWriteOkInv ==
    ASSUME TypeOK, SendInv, TextIsLatest, write.st = "ok", Pop, write' = SendRest(m_send_queue'),
           UNCHANGED <<received, text, wire, sent_as>>
    PROVE  /\ SendInv'
           /\ m_send_queue' \in Seq(Messages)
           /\ write' \in Write \cup {NoWrite}
           /\ write'.st # "err"
           /\ write' = NoWrite => m_send_queue' = <<>>
  <1>1. /\ write \in Write /\ write # NoWrite /\ write.sent = Parts
        /\ m_send_queue # <<>> /\ write.node = Head(m_send_queue)
    BY NoWriteIsNone DEF TypeOK, SendInv, OneWriteOfTheFront
  <1>2. m_send_queue \in Seq(Messages) /\ m_send_queue' = Tail(m_send_queue)
    BY DEF TypeOK, Pop
  <1>3. /\ Len(m_send_queue) \in Nat \ {0} /\ m_send_queue' \in Seq(Messages)
        /\ Len(m_send_queue') = Len(m_send_queue) - 1
        /\ Head(m_send_queue) = m_send_queue[1]
        /\ \A i \in 1 .. Len(m_send_queue') : m_send_queue'[i] = m_send_queue[i + 1]
    BY <1>1, <1>2, HeadTailProperties
  <1>4. received' = received /\ Len(received) \in Nat /\ Parts \in Nat \ {0}
    BY WsAssumption DEF TypeOK, WsAssumption
  <1>5. \A i \in 1 .. Len(m_send_queue) :
            m_send_queue[i] \in Nat \ {0} /\ m_send_queue[i] + Len(m_send_queue) = Len(received) + i
    BY <1>2, WsAssumption DEF SendInv, WsAssumption, Messages
  <1>6. \A i \in 1 .. Len(m_send_queue') :
            m_send_queue'[i] + Len(m_send_queue') = Len(received') + i
    <2> SUFFICES ASSUME NEW i \in 1 .. Len(m_send_queue')
                 PROVE  m_send_queue'[i] + Len(m_send_queue') = Len(received') + i
      OBVIOUS
    <2>1. i + 1 \in 1 .. Len(m_send_queue) /\ i \in Nat
      BY <1>3
    <2>2. m_send_queue[i + 1] \in Nat /\ m_send_queue[i + 1] + Len(m_send_queue) = Len(received) + (i + 1)
      BY <1>5, <2>1
    <2>3. m_send_queue'[i] = m_send_queue[i + 1]
      BY <1>3
    <2>4. Len(m_send_queue') = Len(m_send_queue) - 1 /\ Len(m_send_queue) \in Nat
      BY <1>3
    <2>5. Len(received') = Len(received) /\ Len(received) \in Nat
      BY <1>4
    <2> QED
      BY ONLY <2>1, <2>2, <2>3, <2>4, <2>5
  <1>7. write.node \in Nat \ {0} /\ write.node + Len(m_send_queue) = Len(received) + 1
    BY <1>1, <1>3, <1>5
  <1>8. LastOnWire(write.node, Parts)
    BY <1>1, <1>4 DEF SendInv
  <1>9. TypeOfLatest' /\ Len(sent_as') = Len(wire')
        /\ \A i \in 1 .. Len(wire') : wire'[i].node <= Len(received')
    BY DEF SendInv, TypeOfLatest
  <1>10. CASE m_send_queue' = <<>>
    <2>1. write' = NoWrite
      BY <1>10 DEF SendRest
    <2>2. write.node = Len(received)
      <3>1. Len(m_send_queue) = 1
        BY <1>3, <1>10
      <3> QED
        BY ONLY <1>4, <1>7, <3>1
    <2>3. IF Len(received') = 0 THEN wire' = <<>>
          ELSE wire' # <<>> /\ wire'[Len(wire')] = [node |-> Len(received'), part |-> Parts]
      BY <1>4, <1>8, <2>2 DEF LastOnWire
    <2>4. OneWriteOfTheFront'
      BY <2>1 DEF OneWriteOfTheFront
    <2>5. SendInv'
      BY <1>6, <1>9, <2>1, <2>3, <2>4, NoWriteIsNone DEF SendInv, LastOnWire
    <2> QED
      BY <1>3, <1>10, <2>1, <2>5, NoWriteIsNone
  <1>11. CASE m_send_queue' # <<>>
    <2> DEFINE h == Head(m_send_queue')
    <2>1. write' = [node |-> h, sent |-> 0, type |-> text, st |-> "new"]
      BY <1>11 DEF SendRest, AsyncSendCallBack
    <2>2. h \in Messages /\ h = m_send_queue'[1] /\ Len(m_send_queue') \in Nat \ {0}
      BY <1>3, <1>11
    <2>3. h = write.node + 1
      <3>1. h + Len(m_send_queue') = Len(received) + 1 /\ h \in Nat
        BY <1>4, <1>6, <2>2, WsAssumption DEF WsAssumption, Messages
      <3> QED
        BY ONLY <1>3, <1>4, <1>7, <3>1
    <2> HIDE DEF h
    <2>4. write' \in Write /\ write' # NoWrite
      <3>1. write' \in Write
        BY <1>4, <2>1, <2>2 DEF Write, TypeOK
      <3> QED
        BY <3>1, NoWriteIsNone
    <2>5. OneWriteOfTheFront'
      BY <1>11, <2>1 DEF OneWriteOfTheFront, h
    <2>6. write'.node - 1 = write.node /\ write'.sent = 0 /\ write'.st = "new" /\ 0 < Parts
      BY <1>4, <1>7, <2>1, <2>3
    <2>7. write'.type # received'[write'.node] => write'.node < Len(received')
      <3>1. write'.type = text /\ write'.node = h /\ h \in Nat
        BY <2>1, <2>2, WsAssumption DEF WsAssumption, Messages
      <3>2. h + Len(m_send_queue') = Len(received) + 1
        BY <1>4, <1>6, <2>2
      <3>3. h <= Len(received)
        BY ONLY <1>4, <2>2, <3>1, <3>2
      <3>4. text = received[Len(received)]
        <4>1. Len(received) # 0
          BY ONLY <1>3, <1>4, <1>7, <2>3, <3>3
        <4>2. received # <<>>
          BY <4>1
        <4> QED
          BY <4>2 DEF TextIsLatest
      <3> QED
        BY <1>4, <3>1, <3>3, <3>4
    <2>8. SendInv'
      BY <1>4, <1>6, <1>8, <1>9, <1>11, <2>4, <2>5, <2>6, <2>7 DEF SendInv, LastOnWire
    <2> QED
      BY <1>3, <1>11, <2>4, <2>6, <2>8
  <1> QED
    BY <1>10, <1>11

-----------------------------------------------------------------------------
LEMMA NextIInv == EchoInv /\ [Next]_vars => EchoInv'
  <1> SUFFICES ASSUME EchoInv, [Next]_vars PROVE EchoInv'
    OBVIOUS
  <1>0. TypeOK /\ SendInv /\ StreamInv
    BY DEF EchoInv
  <1> USE DEF EchoInv
  <1>1. CASE StartAccept
    <2>1. UNCHANGED <<m_connections, m_ws, peer, read, got_text, text, received, m_send_queue, write, wire, sent_as>>
      BY <1>1 DEF StartAccept, reading, sending, output
    <2>2. accept = "tcp" /\ accept' \in {"handshake", "failed"}
      BY <1>1 DEF StartAccept
    <2> QED
      BY <1>0, <2>1, <2>2, SendInvSame
      DEF TypeOK, StreamInv, TextIsLatest, StalledOnlyWhenFailed, EntryWillBeCleared, OpenInMap
  <1>2. CASE AsyncAccept
    <2>1. UNCHANGED <<peer, got_text, text, received, m_send_queue, write, wire, sent_as>>
      BY <1>2 DEF AsyncAccept, sending, output
    <2>2. accept = "handshake" /\ write = NoWrite /\ m_ws = "new" /\ read = "none"
      BY <1>0, <1>2 DEF AsyncAccept, StreamInv
    <2>3. \/ accept' = "open" /\ m_ws' = "open" /\ m_connections' = TRUE /\ read' = "io"
          \/ accept' = "failed" /\ m_ws' = "failed" /\ m_connections' = FALSE /\ read' = read
      BY <1>2 DEF AsyncAccept, Start
    <2>4. m_send_queue = <<>>
      BY <1>0, <2>2 DEF StreamInv, StalledOnlyWhenFailed
    <2> QED
      BY <1>0, <2>1, <2>2, <2>3, <2>4, SendInvSame, NoWriteIsNone
      DEF TypeOK, StreamInv, TextIsLatest, StalledOnlyWhenFailed, EntryWillBeCleared, OpenInMap
  <1>3. CASE PeerCloses
    <2>1. UNCHANGED <<accept, m_connections, m_ws, read, got_text, text, received, m_send_queue, write, wire, sent_as>>
      BY <1>3 DEF PeerCloses, server, reading, sending, output
    <2> QED
      BY <1>0, <1>3, <2>1, SendInvSame
      DEF PeerCloses, TypeOK, StreamInv, TextIsLatest, StalledOnlyWhenFailed, EntryWillBeCleared, OpenInMap
  <1>4. CASE MessageArrives
    <2>1. UNCHANGED <<accept, m_connections, m_ws, peer, text, received, m_send_queue, write, wire, sent_as>>
      BY <1>4 DEF MessageArrives, server, sending, output
    <2> QED
      BY <1>0, <1>4, <2>1, SendInvSame
      DEF MessageArrives, TypeOK, StreamInv, TextIsLatest, StalledOnlyWhenFailed, EntryWillBeCleared, OpenInMap
  <1>5. CASE ReadFails
    <2>1. UNCHANGED <<accept, m_connections, peer, got_text, text, received, m_send_queue, write, wire, sent_as>>
      BY <1>5 DEF ReadFails, server, sending, output
    <2> QED
      BY <1>0, <1>5, <2>1, SendInvSame
      DEF ReadFails, TypeOK, StreamInv, TextIsLatest, StalledOnlyWhenFailed, EntryWillBeCleared, OpenInMap
  <1>6. CASE Initiate
    <2>1. UNCHANGED <<accept, m_connections, m_ws, peer, read, got_text, text, received, m_send_queue>>
      BY <1>6 DEF Initiate, server, reading
    <2>2. CASE m_ws = "open" /\ PartOut(TRUE)
      <3>1. /\ SendInv' /\ write' \in Write /\ write'.st # "err"
            /\ wire' \in Seq([node : Messages, part : 1 .. Parts])
            /\ sent_as' \in Seq([type : Type, intact : BOOLEAN])
        BY <1>0, <1>6, <2>1, <2>2, PartOutInv DEF Initiate
      <3> QED
        BY <1>0, <2>1, <2>2, <3>1, NoWriteIsNone
        DEF TypeOK, StreamInv, TextIsLatest, StalledOnlyWhenFailed, EntryWillBeCleared, OpenInMap
    <2>3. CASE m_ws = "open" /\ write' = [write EXCEPT !.st = "io"] /\ UNCHANGED output
      <3>1. SendInv' /\ write' \in Write /\ write'.st = "io" /\ wire' = wire /\ sent_as' = sent_as
        BY <1>0, <1>6, <2>1, <2>3, WriteStateInv DEF Initiate, output
      <3> QED
        BY <1>0, <2>1, <2>3, <3>1, NoWriteIsNone
        DEF TypeOK, StreamInv, TextIsLatest, StalledOnlyWhenFailed, EntryWillBeCleared, OpenInMap
    <2>4. CASE m_ws # "open" /\ write' = [write EXCEPT !.st = "err"] /\ UNCHANGED output
      <3>1. SendInv' /\ write' \in Write /\ write'.st = "err" /\ wire' = wire /\ sent_as' = sent_as
        BY <1>0, <1>6, <2>1, <2>4, WriteStateInv DEF Initiate, output
      <3>2. write # NoWrite
        BY <1>6, NoWriteIsNone DEF Initiate
      <3>3. m_ws = "failed"
        BY <1>0, <2>4, <3>2 DEF TypeOK, StreamInv
      <3> QED
        BY <1>0, <2>1, <2>4, <3>1, <3>2, <3>3, NoWriteIsNone
        DEF TypeOK, StreamInv, TextIsLatest, StalledOnlyWhenFailed, EntryWillBeCleared, OpenInMap
    <2> QED
      BY <1>6, <2>2, <2>3, <2>4 DEF Initiate
  <1>7. CASE Transmit
    <2>1. UNCHANGED <<accept, m_connections, m_ws, peer, read, got_text, text, received, m_send_queue>>
      BY <1>7 DEF Transmit, server, reading
    <2>2. /\ SendInv' /\ write' \in Write /\ write'.st # "err"
          /\ wire' \in Seq([node : Messages, part : 1 .. Parts])
          /\ sent_as' \in Seq([type : Type, intact : BOOLEAN])
      BY <1>0, <1>7, <2>1, PartOutInv DEF Transmit
    <2>3. m_ws = "open"
      BY <1>7 DEF Transmit
    <2> QED
      BY <1>0, <2>1, <2>2, <2>3, NoWriteIsNone
      DEF TypeOK, StreamInv, TextIsLatest, StalledOnlyWhenFailed, EntryWillBeCleared, OpenInMap
  <1>8. CASE WriteFails
    <2>1. UNCHANGED <<accept, m_connections, peer, read, got_text, text, received, m_send_queue, wire, sent_as>>
      BY <1>8 DEF WriteFails, server, reading, output
    <2>2. write.st = "io" /\ m_ws' = "failed" /\ write # NoWrite
      BY <1>8, NoWriteIsNone DEF WriteFails
    <2>3. SendInv' /\ write' \in Write
      BY <1>0, <1>8, <2>1, <2>2, WriteStateInv DEF WriteFails
    <2> QED
      BY <1>0, <2>1, <2>2, <2>3
      DEF TypeOK, StreamInv, TextIsLatest, StalledOnlyWhenFailed, EntryWillBeCleared, OpenInMap
  <1>9. CASE HandleRead
    <2>1. UNCHANGED <<accept, m_ws, peer, got_text, wire, sent_as>>
      BY <1>9 DEF HandleRead, output
    <2>2. CASE read = "ok"
      <3>1. /\ TakeType /\ received' = Append(received, got_text) /\ AsyncSend(Len(received'))
            /\ read' = "io" /\ m_connections' = m_connections
        BY <1>9, <2>2 DEF HandleRead, Start
      <3>2. Len(received) < MaxMsgs
        BY <1>0, <2>2 DEF StreamInv
      <3>3. /\ SendInv'
            /\ received' \in Seq(Type) /\ m_send_queue' \in Seq(Messages)
            /\ write' \in Write \cup {NoWrite}
            /\ write'.st = "err" => write.st = "err"
            /\ m_send_queue' # <<>>
            /\ write' = NoWrite => write = NoWrite /\ m_send_queue # <<>>
        BY <1>0, <2>1, <3>1, <3>2, AsyncSendInv
      <3>4. text' \in Type /\ TextIsLatest'
        <4>1. text' = got_text /\ received'[Len(received')] = got_text
          BY <1>0, <3>1, AppendProperties DEF TakeType, TypeOK
        <4> QED
          BY <1>0, <4>1 DEF TextIsLatest, TypeOK
      <3>5. accept' \notin {"tcp", "handshake"} /\ m_ws # "new"
        BY <1>0, <2>1, <2>2 DEF StreamInv
      <3>6. TypeOK'
        BY <1>0, <2>1, <3>1, <3>3, <3>4 DEF TypeOK
      <3>7. StreamInv'
        BY <1>0, <2>1, <3>1, <3>3, <3>4, <3>5 DEF StreamInv, StalledOnlyWhenFailed, EntryWillBeCleared, OpenInMap
      <3> QED
        BY <3>3, <3>6, <3>7
    <2>3. CASE read # "ok"
      <3>1. /\ m_connections' = FALSE /\ read' = "none"
            /\ m_ws = "failed" /\ UNCHANGED <<text, received, m_send_queue, write>>
        BY <1>0, <1>9, <2>3 DEF HandleRead, RemoveConnection, StreamInv, sending
      <3> QED
        BY <1>0, <2>1, <3>1, SendInvSame
        DEF TypeOK, StreamInv, TextIsLatest, StalledOnlyWhenFailed, EntryWillBeCleared, OpenInMap
    <2> QED
      BY <2>2, <2>3
  <1>10. CASE HandleWrite
    <2>1. UNCHANGED <<accept, m_ws, peer, read, got_text, text, received, wire, sent_as>>
      BY <1>10 DEF HandleWrite, reading, output
    <2>2. write # NoWrite /\ m_ws # "new" /\ accept' \notin {"tcp", "handshake"}
      BY <1>0, <1>10, <2>1, NoWriteIsNone DEF HandleWrite, StreamInv
    <2>3. CASE write.st = "ok"
      <3>1. Pop /\ write' = SendRest(m_send_queue') /\ m_connections' = m_connections
        BY <1>10, <2>3 DEF HandleWrite
      <3>2. /\ SendInv'
            /\ m_send_queue' \in Seq(Messages)
            /\ write' \in Write \cup {NoWrite}
            /\ write'.st # "err"
            /\ write' = NoWrite => m_send_queue' = <<>>
        BY <1>0, <2>1, <2>3, <3>1, HandleWriteOkInv DEF StreamInv
      <3>3. TypeOK'
        BY <1>0, <2>1, <3>1, <3>2 DEF TypeOK
      <3>4. StreamInv'
        BY <1>0, <2>1, <2>2, <3>1, <3>2
        DEF StreamInv, TextIsLatest, StalledOnlyWhenFailed, EntryWillBeCleared, OpenInMap
      <3> QED
        BY <3>2, <3>3, <3>4
    <2>4. CASE write.st # "ok"
      <3>1. /\ m_connections' = FALSE /\ write' = NoWrite /\ m_send_queue' = m_send_queue
            /\ m_ws = "failed"
        BY <1>0, <1>10, <2>4 DEF HandleWrite, RemoveConnection, StreamInv
      <3>2. SendInv'
        <4>1. m_send_queue' # <<>>
          BY <1>0, <2>2, <3>1 DEF SendInv, OneWriteOfTheFront
        <4> QED
          BY <1>0, <2>1, <3>1, <4>1, NoWriteIsNone DEF SendInv, OneWriteOfTheFront, TypeOfLatest
      <3> QED
        BY <1>0, <2>1, <2>2, <3>1, <3>2, NoWriteIsNone
        DEF TypeOK, StreamInv, TextIsLatest, StalledOnlyWhenFailed, EntryWillBeCleared, OpenInMap
    <2> QED
      BY <2>3, <2>4
  <1>11. CASE UNCHANGED vars
    <2>1. UNCHANGED <<accept, m_connections, m_ws, peer, read, got_text, text, received, m_send_queue, write, wire, sent_as>>
      BY <1>11 DEF vars, server, reading, sending, output
    <2> QED
      BY <1>0, <2>1, SendInvSame
      DEF TypeOK, StreamInv, TextIsLatest, StalledOnlyWhenFailed, EntryWillBeCleared, OpenInMap
  <1> QED
    BY <1>1, <1>2, <1>3, <1>4, <1>5, <1>6, <1>7, <1>8, <1>9, <1>10, <1>11 DEF Next

-----------------------------------------------------------------------------
(* Whatever the client, the kernel and the handlers interleave, EchoInv    *)
(* holds.                                                                  *)
THEOREM InductiveInvariant == Safety => []EchoInv
  BY InitIInv, NextIInv, PTL DEF Safety

(* AsyncSend and the write handler never start a second async_write, and   *)
(* the message being written stays at the front of the queue.              *)
THEOREM OneWrite == Safety => []OneWriteOfTheFront
  <1>1. EchoInv => OneWriteOfTheFront
    BY DEF EchoInv, SendInv
  <1> QED
    BY <1>1, InductiveInvariant, PTL

(* A queue is left unsent on a failed stream only.                         *)
THEOREM NoStall == Safety => []StalledOnlyWhenFailed
  <1>1. EchoInv => StalledOnlyWhenFailed
    BY DEF EchoInv, StreamInv
  <1> QED
    BY <1>1, InductiveInvariant, PTL

(* The connection is in the manager's map only while a read is pending.    *)
THEOREM EntryCleared == Safety => []EntryWillBeCleared
  <1>1. EchoInv => EntryWillBeCleared
    BY DEF EchoInv, StreamInv
  <1> QED
    BY <1>1, InductiveInvariant, PTL

(* As long as the stream is good the connection is in the map and reads.   *)
THEOREM OpenIsServed == Safety => [](OpenInMap /\ (m_ws = "open" => read # "none"))
  <1>1. EchoInv => OpenInMap /\ (m_ws = "open" => read # "none")
    BY DEF EchoInv, StreamInv, OpenInMap, EntryWillBeCleared
  <1> QED
    BY <1>1, InductiveInvariant, PTL

(* A message goes out as its own type unless a later one has been read.    *)
THEOREM EchoedAsRead == Safety => []TypeOfLatest
  <1>1. EchoInv => TypeOfLatest
    BY DEF EchoInv, SendInv
  <1> QED
    BY <1>1, InductiveInvariant, PTL

-----------------------------------------------------------------------------
(* Echoing implements the abstract stream, step by step.                   *)
LEMMA PartIsTransmit ==
    ASSUME TypeOK, SendInv, write.st \in {"new", "io"}, m_ws = "open", NEW intact \in BOOLEAN,
           PartOut(intact), UNCHANGED <<m_ws, received, m_send_queue>>
    PROVE  Stream!Transmit
  <1>1. /\ write \in Write /\ write # NoWrite /\ write.sent < Parts
        /\ m_send_queue # <<>> /\ write.node = Head(m_send_queue)
    BY NoWriteIsNone DEF TypeOK, SendInv, OneWriteOfTheFront
  <1>2. Parts \in Nat \ {0} /\ write.node \in Nat \ {0} /\ write.sent \in 0 .. Parts
    BY <1>1, WsAssumption DEF WsAssumption, Write, Messages
  <1>3. Stream!NextPart = [node |-> write.node, part |-> write.sent + 1]
    <2>1. IF write.sent = 0 THEN LastOnWire(write.node - 1, Parts)
                            ELSE LastOnWire(write.node, write.sent)
      BY <1>1 DEF SendInv
    <2> QED
      BY <1>1, <1>2, <2>1 DEF LastOnWire, Stream!NextPart
  <1>4. write.node <= Len(received)
    <2>1. /\ Len(m_send_queue) \in Nat \ {0} /\ Head(m_send_queue) = m_send_queue[1]
          /\ Len(received) \in Nat
      BY <1>1 DEF TypeOK
    <2>2. write.node + Len(m_send_queue) = Len(received) + 1
      BY <1>1, <2>1 DEF SendInv
    <2> QED
      BY ONLY <1>2, <2>1, <2>2
  <1>5. wire' = Append(wire, Stream!NextPart)
    BY <1>3 DEF PartOut
  <1>6. Len([i \in 1 .. Len(received) |-> i]) = Len(received)
    BY DEF TypeOK
  <1>7. Stream!NextPart.node <= Len([i \in 1 .. Len(received) |-> i])
    BY <1>3, <1>4, <1>6
  <1> QED
    BY <1>5, <1>7 DEF Stream!Transmit

LEMMA ReadIsAccept ==
    ASSUME TypeOK, Len(received) < MaxMsgs, received' = Append(received, got_text),
           UNCHANGED <<m_ws, wire>>
    PROVE  \E n \in Messages : Stream!Accept(n)
  <1> DEFINE acc == [i \in 1 .. Len(received) |-> i]
  <1>1. PICK n \in Nat : n = Len(received)
    BY DEF TypeOK
  <1>2. n + 1 \in Messages
    BY <1>1, WsAssumption DEF WsAssumption, Messages
  <1>3. Len(received') = n + 1
    BY <1>1, AppendProperties DEF TypeOK
  <1>4. acc \in Seq(Nat) /\ Len(acc) = n /\ \A i \in 1 .. n : acc[i] = i
    BY <1>1
  <1>5. Append(acc, n + 1) = [i \in 1 .. (n + 1) |-> i]
    BY <1>1, <1>4
  <1>6. [i \in 1 .. Len(received') |-> i] = Append(acc, n + 1)
    BY <1>3, <1>5
  <1>7. \A i \in 1 .. Len(acc) : acc[i] < n + 1
    BY <1>4
  <1>8. Stream!Accept(n + 1)
    BY <1>6, <1>7 DEF Stream!Accept
  <1> QED
    BY <1>2, <1>8

LEMMA StepIsStreamStep ==
    ASSUME EchoInv, [Next]_vars
    PROVE  [Stream!Next]_Stream!avars
  <1>0. TypeOK /\ SendInv /\ StreamInv
    BY DEF EchoInv
  <1>1. CASE UNCHANGED <<m_ws, received, wire>>
    BY <1>1 DEF Stream!avars
  <1>2. CASE m_ws' = "failed" /\ UNCHANGED <<received, wire>>
    BY <1>2 DEF Stream!Next, Stream!Close
  <1>3. CASE AsyncAccept
    <2>1. UNCHANGED <<received, wire>> /\ m_ws = "new"
      BY <1>0, <1>3 DEF AsyncAccept, output, StreamInv
    <2>2. m_ws' = "open" \/ m_ws' = "failed"
      BY <1>3 DEF AsyncAccept
    <2> QED
      BY <1>2, <2>1, <2>2 DEF Stream!avars
  <1>4. CASE Initiate
    <2>1. UNCHANGED <<m_ws, received, m_send_queue>>
      BY <1>4 DEF Initiate, reading
    <2>2. CASE m_ws = "open" /\ PartOut(TRUE)
      BY <1>0, <1>4, <2>1, <2>2, PartIsTransmit DEF Initiate, Stream!Next
    <2>3. CASE UNCHANGED output
      BY <1>1, <2>1, <2>3 DEF output
    <2> QED
      BY <1>4, <2>2, <2>3 DEF Initiate
  <1>5. CASE Transmit
    <2>1. UNCHANGED <<m_ws, received, m_send_queue>> /\ write.st = "io" /\ m_ws = "open"
      BY <1>5 DEF Transmit, reading
    <2>2. PICK intact \in BOOLEAN : PartOut(intact)
      BY <1>5 DEF Transmit
    <2>3. Stream!Transmit
      BY <1>0, <2>1, <2>2, PartIsTransmit
    <2> QED
      BY <2>3 DEF Stream!Next
  <1>6. CASE HandleRead
    <2>1. UNCHANGED <<m_ws, wire>>
      BY <1>6 DEF HandleRead, output
    <2>2. CASE read = "ok"
      <3>1. received' = Append(received, got_text) /\ Len(received) < MaxMsgs
        BY <1>0, <1>6, <2>2 DEF HandleRead, StreamInv
      <3> QED
        BY <1>0, <2>1, <3>1, ReadIsAccept DEF Stream!Next
    <2>3. CASE read # "ok"
      BY <1>1, <1>6, <2>1, <2>3 DEF HandleRead
    <2> QED
      BY <2>2, <2>3
  <1>7. CASE ReadFails \/ WriteFails
    BY <1>2, <1>7 DEF ReadFails, WriteFails, output, reading
  <1>8. CASE StartAccept \/ PeerCloses \/ MessageArrives \/ HandleWrite
    BY <1>1, <1>8 DEF StartAccept, PeerCloses, MessageArrives, HandleWrite, output, reading
  <1>9. CASE UNCHANGED vars
    BY <1>1, <1>9 DEF vars, output, reading
  <1> QED
    BY <1>3, <1>4, <1>5, <1>6, <1>7, <1>8, <1>9 DEF Next

(* Every message read is echoed, part by part, in the order of reading.    *)
THEOREM ImplementsStream == Safety => StreamSafety
  <1>1. Init => Stream!Init
    <2> SUFFICES ASSUME Init PROVE Stream!Init
      OBVIOUS
    <2>1. received = <<>> /\ wire = <<>> /\ m_ws = "new"
      BY DEF Init
    <2>2. [i \in 1 .. Len(received) |-> i] = <<>>
      BY <2>1
    <2> QED
      BY <2>1, <2>2 DEF Stream!Init
  <1>2. EchoInv /\ [Next]_vars => [Stream!Next]_Stream!avars
    BY StepIsStreamStep
  <1> QED
    BY <1>1, <1>2, InductiveInvariant, PTL DEF Safety, StreamSafety, Stream!Safety
=============================================================================
