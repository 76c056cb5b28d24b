------------------------------ MODULE CSession ------------------------------
(***************************************************************************)
(* One session of asynServer, from HandleAccept to its release.            *)
(*                                                                         *)
(* Four parties work on it: the main thread, which starts it and puts it   *)
(* into _sessions; the pool thread, which runs its handlers one at a time; *)
(* the logic worker, whose callbacks call Send; and the kernel with the    *)
(* peer behind it, which completes the pending socket operations.  A       *)
(* handler or a critical section of m_send_lock is one action.  An         *)
(* operation that has completed still waits for its handler, and keeps     *)
(* its result whatever happens to the socket in between.                   *)
(*                                                                         *)
(* Frames are numbered as the peer sends them.  A RecvNode is an index     *)
(* into body, which says what frame was read into it; a SendNode is an     *)
(* index into accepted, which says what frame it answers.  A SendNode goes *)
(* to the wire in Parts parts.  m_b_close is written, never read.          *)
(*                                                                         *)
(* Nothing catches what a callback throws, or the bad_array_new_length of  *)
(* a RecvNode of negative length: either ends the process, and the session *)
(* with it.  The model ends there.                                         *)
(***************************************************************************)
EXTENDS Naturals, Sequences, FiniteSets

CONSTANTS MAX_SENDQUE,    \* const.h
          Parts,          \* partial writes a SendNode takes
          MaxFrames,      \* bound: frames the peer sends
          Registered,     \* frames whose id has a callback
          Throwing        \* those whose callback ends in an exception

ASSUME SessionAssumption ==
    /\ MAX_SENDQUE \in Nat
    /\ Parts \in Nat \ {0}
    /\ MaxFrames \in Nat
    /\ Registered \subseteq 1 .. MaxFrames
    /\ Throwing \subseteq Registered

VARIABLES accept,         \* how far HandleAccept is
          in_sessions,    \* the session is in CServer's _sessions
          late,           \* history: ClearSession came before the insert
          m_socket,       \* "new", "open" or "closed"
          peer,           \* "open", or "closed": its FIN or RST is here
          read,           \* the pending read: which, and its result
          body,           \* the frame in each RecvNode, 0 while unread
          frames,         \* frames read so far
          logic_que,      \* RecvNodes posted to the logic queue
          send_que,       \* _send_que, of SendNodes
          writes,         \* the pending async_writes
          accepted,       \* history: the frame each SendNode answers
          dropped,        \* history: answers refused, the queue being full
          wire,           \* history: parts written to the socket
          terminated      \* the process has ended by an exception

acceptor == <<accept, in_sessions, late>>
receiving == <<read, body, frames>>
sending == <<send_que, writes, accepted, dropped, wire>>
session == <<acceptor, m_socket, peer, receiving, logic_que, sending>>
vars == <<session, terminated>>

ReadOp == [op : {"none", "head", "body"},
           st : {"io", "ok", "bad", "short", "negative", "err"}]
Part == [node : Nat \ {0}, part : 1 .. Parts]
Write == [node : Nat \ {0}, sent : 0 .. Parts, st : {"io", "ok", "err"}]

SessionOK ==
    /\ accept \in {"accepting", "start", "insert", "accepted", "failed"}
    /\ in_sessions \in BOOLEAN
    /\ late \in BOOLEAN
    /\ m_socket \in {"new", "open", "closed"}
    /\ peer \in {"open", "closed"}
    /\ read \in ReadOp
    /\ body \in Seq(0 .. MaxFrames)
    /\ frames \in 0 .. MaxFrames
    /\ logic_que \in Seq(Nat \ {0})
    /\ send_que \in Seq(Nat \ {0})
    /\ writes \in SUBSET Write
    /\ accepted \in Seq(1 .. MaxFrames)
    /\ dropped \in SUBSET (1 .. MaxFrames)
    /\ wire \in Seq(Part)

TypeOK == SessionOK /\ terminated \in BOOLEAN

NoRead == [op |-> "none", st |-> "io"]

Init ==
    /\ accept = "accepting" /\ in_sessions = FALSE /\ late = FALSE
    /\ m_socket = "new" /\ peer = "open"
    /\ read = NoRead /\ body = <<>> /\ frames = 0
    /\ logic_que = <<>>
    /\ send_que = <<>> /\ writes = {}
    /\ accepted = <<>> /\ dropped = {} /\ wire = <<>>
    /\ terminated = FALSE

(* Every step is one the process survives, or its last one.                *)
Survive == ~terminated /\ UNCHANGED terminated
Terminate == ~terminated /\ terminated' = TRUE /\ UNCHANGED session

-----------------------------------------------------------------------------
(* Starting an operation: on a closed socket it completes with an error.   *)
Pending == IF m_socket = "open" THEN "io" ELSE "err"
AsyncRead(op) == read' = [op |-> op, st |-> Pending]
AsyncWrite(node) == [node |-> node, sent |-> 0, st |-> Pending]

(* Wrong variant: the socket stays open.                                   *)
CloseNothing(reading, writing) ==
    m_socket' = m_socket /\ read' = reading /\ writes' = writing

Aborted(op) == IF op.st = "io" THEN [op EXCEPT !.st = "err"] ELSE op

(* close() aborts what has not completed.  The handler that closes the     *)
(* session is the one of the operation gone, given by what is left.        *)
Close(reading, writing) ==
    /\ m_socket' = "closed"
    /\ read' = IF reading = NoRead THEN NoRead ELSE Aborted(reading)
    /\ writes' = {Aborted(w) : w \in writing}

(* Wrong variant: the map keeps the session.                               *)
ClearNothing == UNCHANGED acceptor

ClearSession ==
    /\ in_sessions' = FALSE
    /\ late' = (late \/ accept = "insert")
    /\ UNCHANGED accept

-----------------------------------------------------------------------------
(* The main thread: HandleAccept starts the session, whose handlers run on *)
(* a pool thread from then on, and only then inserts it.                   *)
(* The wrong variant reads no head.                                        *)
StartNothing == read' = NoRead
Start == AsyncRead("head")

StartSession ==
    /\ accept = "start"
    /\ Start
    /\ accept' = "insert"
    /\ UNCHANGED <<in_sessions, late, m_socket, peer, body, frames, logic_que, sending>>

Insert ==
    /\ accept = "insert"
    /\ in_sessions' = TRUE
    /\ accept' = "accepted"
    /\ UNCHANGED <<late, m_socket, peer, receiving, logic_que, sending>>

HandleAccept == StartSession \/ Insert

-----------------------------------------------------------------------------
(* The kernel and the peer.                                                *)
AcceptCompletes ==
    /\ accept = "accepting"
    /\ \/ accept' = "start" /\ m_socket' = "open"
       \/ accept' = "failed" /\ UNCHANGED m_socket
    /\ UNCHANGED <<in_sessions, late, peer, receiving, logic_que, sending>>

PeerCloses ==
    /\ peer = "open" /\ m_socket = "open"
    /\ peer' = "closed"
    /\ UNCHANGED <<acceptor, m_socket, receiving, logic_que, sending>>

(* async_read_some returns a whole head, good, bad (an id or a length over *)
(* its limit) or of negative length, or the part of one that has arrived.  *)
HeadArrives(st) ==
    /\ read = [op |-> "head", st |-> "io"]
    /\ frames < MaxFrames
    /\ read' = [read EXCEPT !.st = st]
    /\ UNCHANGED <<acceptor, m_socket, peer, body, frames, logic_que, sending>>

BodyArrives ==
    /\ read = [op |-> "body", st |-> "io"]
    /\ frames < MaxFrames
    /\ read' = [read EXCEPT !.st = "ok"]
    /\ frames' = frames + 1
    /\ body' = [body EXCEPT ![Len(body)] = frames + 1]
    /\ UNCHANGED <<acceptor, m_socket, peer, logic_que, sending>>

ReadFails ==
    /\ read.op # "none" /\ read.st = "io"
    /\ peer = "closed"
    /\ read' = [read EXCEPT !.st = "err"]
    /\ UNCHANGED <<acceptor, m_socket, peer, body, frames, logic_que, sending>>

(* One more part of a write is out; with the last one it has completed.    *)
Advanced(w) == [node |-> w.node, sent |-> w.sent + 1,
                st |-> IF w.sent + 1 = Parts THEN "ok" ELSE "io"]

(* One write_some of the composed async_write; the last one completes it.  *)
Transmit(w) ==
    /\ w.st = "io"
    /\ wire' = Append(wire, [node |-> w.node, part |-> w.sent + 1])
    /\ writes' = (writes \ {w}) \cup {Advanced(w)}
    /\ UNCHANGED <<acceptor, m_socket, peer, receiving, logic_que, send_que, accepted, dropped>>

WriteFails(w) ==
    /\ w.st = "io"
    /\ peer = "closed"
    /\ writes' = (writes \ {w}) \cup {[w EXCEPT !.st = "err"]}
    /\ UNCHANGED <<acceptor, m_socket, peer, receiving, logic_que, send_que, accepted, dropped, wire>>

-----------------------------------------------------------------------------
(* The pool thread: the handlers.                                          *)
(* make_shared<RecvNode>; the wrong variant reads into the last one again. *)
ReusedRecvNode == IF body = <<>> THEN <<0>> ELSE [body EXCEPT ![Len(body)] = 0]
NewRecvNode == Append(body, 0)

(* The length is tested against MAX_LENGTH only.  new char[data_len + 1]   *)
(* throws in a handler nothing guards; of length -1 it makes a node of no  *)
(* bytes, which is written and read into beyond its end.                   *)
NegativeLength ==
    /\ read = [op |-> "head", st |-> "negative"]
    /\ Terminate

HandleReadHead ==
    /\ read.op = "head" /\ read.st \notin {"io", "negative"}
    /\ IF read.st = "ok"
       THEN /\ body' = NewRecvNode
            /\ AsyncRead("body")
            /\ UNCHANGED <<acceptor, m_socket, writes>>
       ELSE /\ Close(NoRead, writes)
            /\ ClearSession
            /\ UNCHANGED body
    /\ UNCHANGED <<peer, frames, logic_que, send_que, accepted, dropped, wire>>

HandleReadMsg ==
    /\ read.op = "body" /\ read.st \in {"ok", "err"}
    /\ IF read.st = "ok"
       THEN /\ logic_que' = Append(logic_que, Len(body))
            /\ Start
            /\ UNCHANGED <<acceptor, m_socket, writes>>
       ELSE /\ Close(NoRead, writes)
            /\ ClearSession
            /\ UNCHANGED logic_que
    /\ UNCHANGED <<peer, body, frames, send_que, accepted, dropped, wire>>

(* The front of the queue, if there is one, is written next.  Wrong        *)
(* variants: it is not; the node that was written is not popped.           *)
NoNextWrite(queue) == {}
NextWrite(queue) == IF queue = <<>> THEN {} ELSE {AsyncWrite(Head(queue))}
PopNothing == send_que
Pop == Tail(send_que)

HandleWrite(w) ==
    /\ w.st # "io"
    /\ IF w.st = "ok"
       THEN /\ send_que' = Pop
            /\ writes' = (writes \ {w}) \cup NextWrite(send_que')
            /\ UNCHANGED <<acceptor, m_socket, read>>
       ELSE /\ Close(read, writes \ {w})
            /\ ClearSession
            /\ UNCHANGED send_que
    /\ UNCHANGED <<peer, body, frames, logic_que, accepted, dropped, wire>>

-----------------------------------------------------------------------------
(* The worker: the callback of a registered frame sends its answer.        *)
(* Wrong variants: no limit; a write whatever the queue holds.             *)
NeverFull == FALSE
SendQueFull == Len(send_que) > MAX_SENDQUE
WriteAlways(queue) == {AsyncWrite(Head(queue))}
FirstWrite(queue) == IF Len(queue) > 1 THEN {} ELSE {AsyncWrite(Head(queue))}

Send(reply) ==
    IF SendQueFull
    THEN /\ dropped' = dropped \cup {reply}
         /\ UNCHANGED <<send_que, writes, accepted>>
    ELSE /\ accepted' = Append(accepted, reply)
         /\ send_que' = Append(send_que, Len(accepted'))
         /\ writes' = writes \cup FirstWrite(send_que')
         /\ UNCHANGED dropped

CallBackThrows ==
    /\ logic_que # <<>>
    /\ body[Head(logic_que)] \in Throwing
    /\ Terminate

DealMsg ==
    /\ logic_que # <<>>
    /\ body[Head(logic_que)] \notin Throwing
    /\ logic_que' = Tail(logic_que)
    /\ IF body[Head(logic_que)] \in Registered
       THEN Send(body[Head(logic_que)])
       ELSE UNCHANGED <<send_que, writes, accepted, dropped>>
    /\ UNCHANGED <<acceptor, m_socket, peer, receiving, wire>>

-----------------------------------------------------------------------------
Handlers == HandleReadHead \/ HandleReadMsg \/ \E w \in writes : HandleWrite(w)
Writing == \E w \in writes : Transmit(w) \/ WriteFails(w)

Step ==
    \/ AcceptCompletes \/ HandleAccept
    \/ PeerCloses \/ ReadFails \/ BodyArrives \/ Writing
    \/ \E st \in {"ok", "bad", "short", "negative"} : HeadArrives(st)
    \/ Handlers
    \/ DealMsg

Next == (Survive /\ Step) \/ NegativeLength \/ CallBackThrows

(* The threads run.  A pending read notices that the peer has gone, and a  *)
(* pending write goes on or fails: a peer that stays reads what it is      *)
(* sent.  No peer need connect, send or leave.                             *)
Fairness ==
    /\ WF_vars(Survive /\ HandleAccept)
    /\ WF_vars((Survive /\ DealMsg) \/ CallBackThrows)
    /\ WF_vars((Survive /\ (HandleReadHead \/ HandleReadMsg)) \/ NegativeLength)
    /\ WF_vars(Survive /\ \E w \in writes : HandleWrite(w))
    /\ WF_vars(Survive /\ ReadFails) /\ WF_vars(Survive /\ Writing)

Safety == Init /\ [][Next]_vars
Spec == Safety /\ Fairness

-----------------------------------------------------------------------------
(* async_write must not be started while another one is pending on the     *)
(* socket: Send starts one on an empty queue only, HandleWrite the next    *)
(* one; and the SendNode being written stays at the front of the queue,    *)
(* which keeps its buffer allocated.                                       *)
OneWriteOfTheFront ==
    \A w \in writes : /\ writes = {w}
                      /\ send_que # <<>>
                      /\ w.node = Head(send_que)

(* What follows a part on the wire: the next part of its node, or the      *)
(* first one of the node accepted next.                                    *)
Following(p) == IF p.part < Parts
                THEN [node |-> p.node, part |-> p.part + 1]
                ELSE [node |-> p.node + 1, part |-> 1]

(* Send and HandleWrite put the accepted answers on the wire whole, in the *)
(* order of the Send calls, none left out, none twice, none interleaved.   *)
WireInOrder ==
    \A i \in 1 .. Len(wire) :
        wire[i] = IF i = 1 THEN [node |-> 1, part |-> 1] ELSE Following(wire[i - 1])

(* Each answer is for the frame it was asked by: a RecvNode handed to the  *)
(* logic queue is never read into again (a new one is made per head).      *)
AnswersFollowFrames ==
    \A i, j \in 1 .. Len(accepted) : i < j => accepted[i] < accepted[j]

-----------------------------------------------------------------------------
(* Send queues behind a write that is never going to complete only when    *)
(* the session has closed: an open session does not stall.                 *)
StalledOnlyWhenClosed ==
    send_que # <<>> /\ writes = {} => m_socket = "closed"

(* An open session always has its next read pending.                       *)
OpenMeansReading ==
    m_socket = "open" /\ accept # "start" => read.op # "none"

(* What still holds a shared_ptr to the session.                           *)
Referenced ==
    \/ accept \in {"accepting", "start", "insert"} \/ in_sessions
    \/ read.op # "none" \/ writes # {} \/ logic_que # <<>>

(* The comment in CSession.h, line 42: when the peer closes there is one   *)
(* more read event, and so the session closes, unless the process ends.    *)
PeerCloseNoticed == (peer = "closed") ~> (m_socket = "closed" \/ terminated)

(* A closed session loses its last reference, unless the insert of         *)
(* HandleAccept came after its ClearSession, or the process ends.          *)
ClosedIsReleased == (m_socket = "closed") ~> (~Referenced \/ late \/ terminated)

(* A registered frame that was posted is answered on the wire, unless the  *)
(* queue was full, the session closed first, or the process ended: by a    *)
(* callback that throws or a later head of negative length.                *)
FramesAnswered ==
    \A f \in Registered :
        (\E i \in 1 .. Len(logic_que) : body[logic_que[i]] = f) ~>
            \/ f \in dropped \/ m_socket = "closed" \/ terminated
            \/ \E i \in 1 .. Len(wire) : accepted[wire[i].node] = f /\ wire[i].part = Parts

(* The off-by-one of Send's guard is the only excess over MAX_SENDQUE.     *)
SendQueBounded == Len(send_que) <= MAX_SENDQUE + 1

(* Send, HandleWrite and Close implement the abstract stream of answers,   *)
(* which the end of the process closes, too.                               *)
Stream == INSTANCE AnswerStream
             WITH closed <- m_socket = "closed" \/ terminated, Frames <- 1 .. MaxFrames
StreamSafety == Stream!Safety
StreamSpec == Stream!Spec

(* And the whole session is, to its server, one read and one write at a    *)
(* time: a message is read when its body is, and a head that is there is   *)
(* not yet a read that has completed.                                      *)
stateOfIO == IF accept = "accepting" THEN "new"
             ELSE IF accept = "start" THEN "open"
             ELSE IF m_socket = "open" THEN "started" ELSE "closed"
readOfIO == IF read.op = "none" THEN "none"
            ELSE IF read.st \in {"bad", "short"} THEN "err"
            ELSE IF read.op = "head" /\ read.st \in {"ok", "negative"} THEN Pending
            ELSE read.st
writeOfIO == IF writes = {} THEN "none" ELSE (CHOOSE w \in writes : TRUE).st

IO == INSTANCE SessionIO WITH state <- stateOfIO, reading <- readOfIO, writing <- writeOfIO,
                              queued <- Len(send_que), asked <- Len(logic_que)
IOSafety == IO!Safety

(* A closed session stays in _sessions only when the insert of HandleAccept*)
(* came after the ClearSession of a handler.                               *)
KeptOnlyWhenLate == m_socket = "closed" /\ in_sessions => late

-----------------------------------------------------------------------------
(* The inductive invariant.  Sending: the queue is the tail of accepted,   *)
(* and the wire ends where the pending write has got to.                   *)
LastOnWire(node, part) ==
    IF node = 0 THEN wire = <<>>
    ELSE wire # <<>> /\ wire[Len(wire)] = [node |-> node, part |-> part]

SendInv ==
    /\ SendQueBounded
    /\ OneWriteOfTheFront
    /\ StalledOnlyWhenClosed
    /\ WireInOrder
    /\ \A i \in 1 .. Len(send_que) : send_que[i] + Len(send_que) = Len(accepted) + i
    /\ \A w \in writes :
          /\ w.st = "io" => w.sent < Parts /\ m_socket = "open"
          /\ w.st = "ok" => w.sent = Parts
          /\ IF w.sent = 0 THEN LastOnWire(w.node - 1, Parts)
                           ELSE LastOnWire(w.node, w.sent)
    /\ send_que = <<>> => LastOnWire(Len(accepted), Parts)

(* Receiving: what is queued was read before what is being read, and after *)
(* what has been answered.                                                 *)
Processed == IF read.op = "body" /\ read.st = "ok" THEN frames - 1 ELSE frames
Early == accept \in {"accepting", "failed", "start"}

ReceiveInv ==
    /\ OpenMeansReading
    /\ AnswersFollowFrames
    /\ m_socket = "new" <=> accept \in {"accepting", "failed"}
    /\ Early => read = NoRead /\ logic_que = <<>> /\ send_que = <<>> /\ writes = {}
    /\ read.op # "none" /\ read.st = "io" => m_socket = "open"
    /\ read.op = "body" => body # <<>>
    /\ \A i \in 1 .. Len(logic_que) :
          /\ logic_que[i] <= Len(body)
          /\ read.op = "body" => logic_que[i] < Len(body)
          /\ \A j \in 1 .. Len(accepted) : accepted[j] < body[logic_que[i]]
          /\ \A j \in 1 .. Len(logic_que) :
                i < j => body[logic_que[i]] < body[logic_que[j]]
    /\ \A i \in 1 .. Len(logic_que) : body[logic_que[i]] <= Processed
    /\ \A i \in 1 .. Len(accepted) : accepted[i] <= Processed
    /\ read.op = "body" /\ read.st = "ok" => body[Len(body)] = frames

(* Closing: a session that has been accepted is open until it is started.  *)
CloseInv ==
    /\ KeptOnlyWhenLate
    /\ accept = "start" => m_socket = "open"
    /\ in_sessions => accept = "accepted"
    /\ m_socket = "closed" /\ accept = "insert" => late

SessionInv == TypeOK /\ SendInv /\ ReceiveInv /\ CloseInv

=============================================================================
