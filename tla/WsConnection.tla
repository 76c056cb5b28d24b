---------------------------- MODULE WsConnection ----------------------------
(***************************************************************************)
(* One connection of webSocket, from the TCP accept to its release.  It    *)
(* echoes every message it reads.                                          *)
(*                                                                         *)
(* One thread runs ioc, and with it every handler: m_send_mtx never makes  *)
(* anybody wait, and a handler is one action.  The one exception is the    *)
(* async_write a handler starts.  While it is being started the kernel     *)
(* may take a first part of the message; the rest goes out later, from a   *)
(* buffer that was a local of the handler and is gone (write.st = "new"    *)
(* and "io").  Messages are numbered as they are read, and a message goes  *)
(* to the wire in Parts parts.                                             *)
(***************************************************************************)
EXTENDS Naturals, Sequences

CONSTANTS Parts,          \* writes a message takes
          MaxMsgs         \* bound: messages the client sends

ASSUME WsAssumption == Parts \in Nat \ {0} /\ MaxMsgs \in Nat

VARIABLES accept,         \* "tcp", "handshake", "open" or "failed"
          m_connections,  \* the connection is in the manager's map
          m_ws,           \* the stream: "new", "open" or "failed"
          peer,           \* "open" or "closed"
          read,           \* the pending read and its result
          got_text,       \* the type of the message last read
          text,           \* the type the stream gives to what it sends
          received,       \* history: the type of each message echoed
          m_send_queue,   \* the messages to be echoed
          write,          \* the pending async_write
          wire,           \* history: parts written to the socket
          sent_as         \* history: type of each, and is it what was read

server == <<accept, m_connections>>
reading == <<read, got_text, text, received>>
sending == <<m_send_queue, write>>
output == <<wire, sent_as>>
vars == <<server, m_ws, peer, reading, sending, output>>

Type == {"text", "binary"}
Messages == 1 .. MaxMsgs
Write == [node : Messages, sent : 0 .. Parts, type : Type,
          st : {"new", "io", "ok", "err"}]
NoWrite == [node |-> 0, sent |-> 0, type |-> "text", st |-> "none"]

TypeOK ==
    /\ accept \in {"tcp", "handshake", "open", "failed"}
    /\ m_connections \in BOOLEAN
    /\ m_ws \in {"new", "open", "failed"}
    /\ peer \in {"open", "closed"}
    /\ read \in {"none", "io", "ok", "err"}
    /\ got_text \in Type /\ text \in Type
    /\ received \in Seq(Type)
    /\ m_send_queue \in Seq(Messages)
    /\ write \in Write \cup {NoWrite}
    /\ wire \in Seq([node : Messages, part : 1 .. Parts])
    /\ sent_as \in Seq([type : Type, intact : BOOLEAN])

Init ==
    /\ accept = "tcp" /\ m_connections = FALSE
    /\ m_ws = "new" /\ peer = "open"
    /\ read = "none" /\ got_text = "text" /\ text = "text" /\ received = <<>>
    /\ m_send_queue = <<>> /\ write = NoWrite
    /\ wire = <<>> /\ sent_as = <<>>

-----------------------------------------------------------------------------
(* Accepting: TCP, then the handshake.                                     *)
StartAccept ==
    /\ accept = "tcp"
    /\ accept' \in {"handshake", "failed"}
    /\ UNCHANGED <<m_connections, m_ws, peer, reading, sending, output>>

(* Wrong variant: the connection enters the map and does not read.         *)
StartNothing == read' = "none"
Start == read' = "io"

AsyncAccept ==
    /\ accept = "handshake"
    /\ \/ /\ accept' = "open" /\ m_ws' = "open"
          /\ m_connections' = TRUE
          /\ Start
       \/ /\ accept' = "failed" /\ m_ws' = "failed"
          /\ m_connections' = FALSE
          /\ UNCHANGED read
    /\ UNCHANGED <<peer, got_text, text, received, sending, output>>

-----------------------------------------------------------------------------
(* The client and the kernel.  A failure fails the stream for good.        *)
PeerCloses ==
    /\ peer = "open"
    /\ peer' = "closed"
    /\ UNCHANGED <<server, m_ws, reading, sending, output>>

MessageArrives ==
    /\ read = "io" /\ m_ws = "open" /\ Len(received) < MaxMsgs
    /\ read' = "ok"
    /\ got_text' \in Type
    /\ UNCHANGED <<server, m_ws, peer, text, received, sending, output>>

ReadFails ==
    /\ read = "io" /\ peer = "closed"
    /\ read' = "err"
    /\ m_ws' = "failed"
    /\ UNCHANGED <<server, peer, got_text, text, received, sending, output>>

(* A part goes out; it is intact if the buffer is.                         *)
PartOut(intact) ==
    /\ wire' = Append(wire, [node |-> write.node, part |-> write.sent + 1])
    /\ sent_as' = Append(sent_as, [type |-> write.type, intact |-> intact])
    /\ write' = [write EXCEPT !.sent = @ + 1,
                              !.st = IF write.sent + 1 = Parts THEN "ok" ELSE "io"]

(* async_write, inside the handler that starts it.                         *)
Initiate ==
    /\ write.st = "new"
    /\ CASE m_ws = "open" -> \/ PartOut(TRUE)
                             \/ write' = [write EXCEPT !.st = "io"] /\ UNCHANGED output
         [] OTHER -> write' = [write EXCEPT !.st = "err"] /\ UNCHANGED output
    /\ UNCHANGED <<server, m_ws, peer, reading, m_send_queue>>

(* Afterwards the buffer is freed memory, which holds the message or not.  *)
Transmit ==
    /\ write.st = "io" /\ m_ws = "open"
    /\ \E intact \in BOOLEAN : PartOut(intact)
    /\ UNCHANGED <<server, m_ws, peer, reading, m_send_queue>>

WriteFails ==
    /\ write.st = "io" /\ peer = "closed"
    /\ write' = [write EXCEPT !.st = "err"]
    /\ m_ws' = "failed"
    /\ UNCHANGED <<server, peer, reading, m_send_queue, output>>

-----------------------------------------------------------------------------
(* The handlers; one that has started a write has not returned yet.        *)
AsyncSendCallBack(queue, type) ==
    [node |-> Head(queue), sent |-> 0, type |-> type, st |-> "new"]

(* A websocket stream allows one async_write at a time.                    *)
Begin(second) == write' = IF write = NoWrite THEN second
                          ELSE [second EXCEPT !.st = "second"]

(* Wrong variant: it writes whatever is being written.                     *)
SendAlways == Begin(AsyncSendCallBack(m_send_queue', text'))
SendFirst == IF m_send_queue = <<>>
             THEN Begin(AsyncSendCallBack(m_send_queue', text'))
             ELSE UNCHANGED write

AsyncSend(msg) ==
    /\ m_send_queue' = Append(m_send_queue, msg)
    /\ SendFirst

(* Wrong variant: the stream keeps the type it had.                        *)
KeepType == UNCHANGED text
TakeType == text' = got_text

(* Wrong variant: the map keeps a connection that cannot read.             *)
RemoveNothing == UNCHANGED m_connections
RemoveConnection == m_connections' = FALSE

HandleRead ==
    /\ read \in {"ok", "err"} /\ write.st # "new"
    /\ IF read = "ok"
       THEN /\ TakeType
            /\ received' = Append(received, got_text)
            /\ AsyncSend(Len(received'))
            /\ Start
            /\ UNCHANGED m_connections
       ELSE /\ RemoveConnection
            /\ read' = "none"
            /\ UNCHANGED <<text, received, sending>>
    /\ UNCHANGED <<accept, m_ws, peer, got_text, output>>

(* The rest of the queue.  Wrong variants: it is not sent; the message     *)
(* that was written stays in the queue.                                    *)
SendNoMore(queue) == NoWrite
SendRest(queue) == IF queue = <<>> THEN NoWrite ELSE AsyncSendCallBack(queue, text)
PopNothing == m_send_queue' = m_send_queue
Pop == m_send_queue' = Tail(m_send_queue)

HandleWrite ==
    /\ write.st \in {"ok", "err"}
    /\ IF write.st = "ok"
       THEN /\ Pop
            /\ write' = SendRest(m_send_queue')
            /\ UNCHANGED m_connections
       ELSE /\ RemoveConnection
            /\ write' = NoWrite
            /\ UNCHANGED m_send_queue
    /\ UNCHANGED <<accept, m_ws, peer, reading, output>>

-----------------------------------------------------------------------------
Next ==
    \/ StartAccept \/ AsyncAccept
    \/ PeerCloses \/ MessageArrives \/ ReadFails
    \/ Initiate \/ Transmit \/ WriteFails
    \/ HandleRead \/ HandleWrite

(* The thread runs; a read notices that the client has gone, and a client  *)
(* that stays reads what it is sent.                                       *)
Fairness ==
    /\ WF_vars(HandleRead) /\ WF_vars(HandleWrite) /\ WF_vars(Initiate)
    /\ WF_vars(ReadFails) /\ WF_vars(Transmit \/ WriteFails)

Safety == Init /\ [][Next]_vars
Spec == Safety /\ Fairness

-----------------------------------------------------------------------------
(* AsyncSend and the write handler start no second async_write, which the  *)
(* websocket stream forbids, and the one pending is of the front.          *)
OneWriteOfTheFront ==
    write # NoWrite => /\ write.st # "second"
                       /\ m_send_queue # <<>> /\ write.node = Head(m_send_queue)

(* A write error leaves the queue as it is, and nothing is ever sent of it *)
(* again; it happens on a failed stream only.                              *)
StalledOnlyWhenFailed ==
    m_send_queue # <<>> /\ write = NoWrite => m_ws = "failed"

(* The map holds a connection only as long as it reads, so an entry is     *)
(* erased by the read that fails, if no write has failed before.           *)
EntryWillBeCleared == m_connections => read # "none"

(* ... and it is there as long as the stream is good: no handler gives up  *)
(* a connection that could go on.                                          *)
OpenInMap == m_ws = "open" => m_connections

(* The type is set when a message is read and used when a write starts: a  *)
(* message is echoed as its own type unless a later one has been read.     *)
TypeOfLatest ==
    \A i \in 1 .. Len(wire) :
        sent_as[i].type # received[wire[i].node] => wire[i].node < Len(received)

(* What still holds a shared_ptr to an open connection.                    *)
Referenced == m_connections \/ read # "none" \/ write # NoWrite

(* When the client has gone the connection is given up and released, the   *)
(* writes that were queued included.                                       *)
PeerCloseReleases == (peer = "closed" /\ accept = "open") ~> ~Referenced

(* Echoing implements the abstract stream: every message read is sent, in  *)
(* the order of reading, part by part.                                     *)
Stream == INSTANCE AnswerStream WITH closed <- m_ws = "failed", Frames <- Messages,
                                     accepted <- [i \in 1 .. Len(received) |-> i]
StreamSafety == Stream!Safety
StreamSpec == Stream!Spec

-----------------------------------------------------------------------------
(* The inductive invariant: the queue is the tail of what was read, and    *)
(* the wire ends where the pending write has got to.                       *)
LastOnWire(node, part) ==
    IF node = 0 THEN wire = <<>>
    ELSE wire # <<>> /\ wire[Len(wire)] = [node |-> node, part |-> part]

SendInv ==
    /\ OneWriteOfTheFront
    /\ TypeOfLatest
    /\ Len(sent_as) = Len(wire)
    /\ \A i \in 1 .. Len(wire) : wire[i].node <= Len(received)
    /\ write.st \in {"new", "io"} => write.sent < Parts
    /\ write.st = "new" => write.sent = 0
    /\ write.st = "ok" => write.sent = Parts
    /\ write # NoWrite /\ write.type # received[write.node] => write.node < Len(received)
    /\ \A i \in 1 .. Len(m_send_queue) :
          m_send_queue[i] + Len(m_send_queue) = Len(received) + i
    /\ write # NoWrite => IF write.sent = 0 THEN LastOnWire(write.node - 1, Parts)
                                            ELSE LastOnWire(write.node, write.sent)
    /\ m_send_queue = <<>> => LastOnWire(Len(received), Parts)

TextIsLatest == received # <<>> => text = received[Len(received)]

StreamInv ==
    /\ TextIsLatest
    /\ StalledOnlyWhenFailed
    /\ EntryWillBeCleared
    /\ OpenInMap
    /\ accept \in {"tcp", "handshake"} => m_ws = "new"
    /\ m_ws = "new" => read = "none" /\ write = NoWrite
    /\ accept = "open" => m_ws # "new"
    /\ read = "ok" => Len(received) < MaxMsgs
    /\ read = "err" \/ write.st = "err" => m_ws = "failed"

EchoInv == TypeOK /\ SendInv /\ StreamInv

-----------------------------------------------------------------------------
(* Connection.cpp line 55: "send the data back".  What goes out is what    *)
(* was read.                                                               *)
SentBack == \A i \in 1 .. Len(wire) : sent_as[i].intact
=============================================================================
