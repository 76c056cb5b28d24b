---------------------------- MODULE StudySession ----------------------------
(***************************************************************************)
(* The Session of source/asynReadWrite.cpp: writes with and without a      *)
(* queue, reads into a node of fixed size.  Its calls and its callbacks    *)
(* are on one thread.                                                      *)
(*                                                                         *)
(* A program uses one of the three write functions ("top and middle layer  *)
(* must not be mixed", says the header):                                   *)
(*   "err"   WriteToSocketErr, which has no queue; the program waits for   *)
(*           one message to be done before it writes the next              *)
(*   "some"  WriteToSocket, a queue over async_write_some                  *)
(*   "all"   WriteAllToSocket, a queue over async_send                     *)
(* A message is its number and goes out in Parts pieces, as many of them   *)
(* at a time as the kernel takes.                                          *)
(***************************************************************************)
EXTENDS Integers, Sequences

CONSTANTS Parts,          \* pieces of a message
          RecvSize,       \* bytes of a receive node: RECVSIZE
          MaxMsgs,        \* bound: messages written
          MaxReads        \* bound: calls of ReadFromSocket

ASSUME StudyAssumption ==
    Parts \in Nat \ {0} /\ RecvSize \in Nat \ {0} /\ MaxMsgs \in Nat /\ MaxReads \in Nat

VARIABLES api,            \* the write function in use
          calls,          \* messages written by the program, so far
          send_queue,     \* the messages queued
          cur_len,        \* _cur_len of the front node (of _send_node)
          send_pending,
          write,          \* the pending write and its result
          wire,           \* history: pieces written to the socket
          recv_node,      \* which call made _recv_node
          recv_len,       \* its _cur_len
          content,        \* its bytes, as positions in the stream; 0: none
          reads,          \* the pending reads and their results
          stream,         \* bytes taken from the socket, ever
          overlapped,     \* history: a read was begun while one was pending
          socket,         \* "open" or "failed"
          fault           \* the undefined behaviour that ended the process

queue == <<send_queue, cur_len, send_pending>>
sending == <<calls, queue, write, wire>>
receiving == <<recv_node, recv_len, content, reads, stream, overlapped>>
vars == <<api, sending, receiving, socket, fault>>

Messages == 1 .. MaxMsgs
Handler == {"WriteCallBackErr", "WriteCallBack", "WriteAllCallBack"}
NoWrite == [handler |-> "none", node |-> 0, from |-> 0, sent |-> 0, st |-> "none", buf |-> "node"]
Write == [handler : Handler, node : Messages, from : 0 .. Parts - 1, sent : 0 .. Parts,
          st : {"io", "ok", "err", "second"}, buf : {"node", "local"}]
ReadOp == [node : 1 .. MaxReads, from : 0 .. RecvSize - 1, n : 0 .. RecvSize,
           st : {"io", "ok", "err"}]
Piece == [node : Messages, part : 1 .. Parts, intact : BOOLEAN]
Empty == [i \in 1 .. RecvSize |-> 0]

TypeOK ==
    /\ api \in {"err", "some", "all"}
    /\ calls \in 0 .. MaxMsgs
    /\ send_queue \in Seq(Messages)
    /\ cur_len \in 0 .. Parts - 1
    /\ send_pending \in BOOLEAN
    /\ write \in Write \cup {NoWrite}
    /\ wire \in Seq(Piece)
    /\ recv_node \in 0 .. MaxReads
    /\ recv_len \in Nat /\ content \in [1 .. RecvSize -> Nat]
    /\ reads \in Seq(ReadOp)
    /\ stream \in Nat /\ overlapped \in BOOLEAN
    /\ socket \in {"open", "failed"}
    /\ fault \in {"none", "popped slot", "freed node"}

Init ==
    /\ api \in {"err", "some", "all"}
    /\ calls = 0 /\ send_queue = <<>> /\ cur_len = 0 /\ send_pending = FALSE
    /\ write = NoWrite /\ wire = <<>>
    /\ recv_node = 0 /\ recv_len = 0 /\ content = Empty
    /\ reads = <<>> /\ stream = 0 /\ overlapped = FALSE
    /\ socket = "open" /\ fault = "none"

-----------------------------------------------------------------------------
(* The kernel takes k pieces of a write.  A buffer that was a local of the *)
(* function that began the write is intact only while that function runs;  *)
(* afterwards it is freed memory, which holds the message or not.          *)
Taken(w, k, intact) ==
    /\ wire' = wire \o [i \in 1 .. k |-> [node |-> w.node, part |-> w.from + i, intact |-> intact]]
    /\ write' = [w EXCEPT !.sent = k, !.st = "ok"]

(* async_write_some and async_send, which is no more than another name for *)
(* it: what the kernel takes at once is taken within the call.             *)
Begin(handler, node, from, buf) ==
    LET w == [handler |-> handler, node |-> node, from |-> from, sent |-> 0, st |-> "io", buf |-> buf]
    IN  IF socket = "failed" THEN write' = [w EXCEPT !.st = "err"] /\ UNCHANGED wire
        ELSE \/ \E k \in 1 .. Parts - from : Taken(w, k, TRUE)
             \/ write' = w /\ UNCHANGED wire

Transmit ==
    /\ fault = "none" /\ write.st = "io" /\ socket = "open"
    /\ \E k \in 1 .. Parts - write.from, intact \in BOOLEAN :
          /\ write.buf = "node" => intact
          /\ Taken(write, k, intact)
    /\ UNCHANGED <<api, calls, queue, receiving, socket, fault>>

WriteFails ==
    /\ fault = "none" /\ write.st = "io" /\ socket = "failed"
    /\ write' = [write EXCEPT !.st = "err"]
    /\ UNCHANGED <<api, calls, queue, wire, receiving, socket, fault>>

SocketFails ==
    /\ fault = "none" /\ socket = "open"
    /\ socket' = "failed"
    /\ UNCHANGED <<api, sending, receiving, fault>>

-----------------------------------------------------------------------------
(* The three write functions.                                              *)
WriteToSocketErr ==
    /\ api = "err" /\ write = NoWrite
    /\ cur_len' = 0
    /\ Begin("WriteCallBackErr", calls + 1, 0, "node")
    /\ UNCHANGED <<send_queue, send_pending>>

(* The write is begun with the argument, not with the node in the queue.   *)
(* The wrong variant of the test lets every call write.                    *)
NeverPending == FALSE
Pending == send_pending

WriteQueued(callback) ==
    /\ send_queue' = Append(send_queue, calls + 1)
    /\ UNCHANGED cur_len
    /\ IF Pending THEN UNCHANGED <<send_pending, write, wire>>
       ELSE /\ send_pending' = TRUE
            /\ IF write = NoWrite THEN Begin(callback, calls + 1, 0, "local")
               ELSE write' = [write EXCEPT !.st = "second"] /\ UNCHANGED wire

WriteToSocket == api = "some" /\ WriteQueued("WriteCallBack")
WriteAllToSocket == api = "all" /\ WriteQueued("WriteAllCallBack")

ProgramWrites ==
    /\ fault = "none" /\ calls < MaxMsgs
    /\ calls' = calls + 1
    /\ WriteToSocketErr \/ WriteToSocket \/ WriteAllToSocket
    /\ UNCHANGED <<api, receiving, socket, fault>>

-----------------------------------------------------------------------------
(* The callbacks.  Where the rest of a message starts; the wrong variant   *)
(* starts again.                                                           *)
FromStart == 0
Rest == cur_len + write.sent

Done == write' = NoWrite /\ UNCHANGED wire

(* It never looks at ec: a write that has failed is tried again.           *)
WriteCallBackErr ==
    /\ IF Rest < Parts
       THEN cur_len' = Rest /\ Begin("WriteCallBackErr", write.node, cur_len', "node")
       ELSE Done /\ UNCHANGED cur_len
    /\ UNCHANGED <<send_queue, send_pending, fault>>

(* The next message is sent; the wrong variant stops after the first.      *)
SendNoMore(callback) == send_pending' = FALSE /\ Done
SendNext(callback) ==
    IF send_queue' = <<>> THEN send_pending' = FALSE /\ Done
    ELSE Begin(callback, Head(send_queue'), 0, "node") /\ UNCHANGED send_pending

Pop == send_queue' = Tail(send_queue) /\ cur_len' = 0

(* send_data is a reference to the slot that has been popped when the next *)
(* node is assigned through it: that goes as intended or ends the process. *)
WriteCallBack ==
    IF write.st = "err" THEN Done /\ UNCHANGED <<queue, fault>>
    ELSE IF Rest < Parts
    THEN /\ cur_len' = Rest
         /\ Begin("WriteCallBack", Head(send_queue), cur_len', "node")
         /\ UNCHANGED <<send_queue, send_pending, fault>>
    ELSE /\ Pop
         /\ \/ SendNext("WriteCallBack") /\ UNCHANGED fault
            \/ /\ send_queue' # <<>>
               /\ fault' = "popped slot"
               /\ Done /\ UNCHANGED send_pending

(* It takes the message for sent, however much of it was, and hands on to  *)
(* WriteCallBack.                                                          *)
WriteAllCallBack ==
    /\ IF write.st = "err" THEN Done /\ UNCHANGED queue
       ELSE Pop /\ SendNext("WriteCallBack")
    /\ UNCHANGED fault

HandleWrite ==
    /\ fault = "none" /\ write.st \in {"ok", "err"}
    /\ \/ write.handler = "WriteCallBackErr" /\ WriteCallBackErr
       \/ write.handler = "WriteCallBack" /\ WriteCallBack
       \/ write.handler = "WriteAllCallBack" /\ WriteAllCallBack
    /\ UNCHANGED <<api, calls, receiving, socket>>

-----------------------------------------------------------------------------
(* Reading.  recv_pending is tested and cleared and never set: no call     *)
(* returns early.  Both read functions bind ReadCallBack, and              *)
(* ReadAllFromSocket differs from ReadFromSocket in nothing else than the  *)
(* name of the operation.                                                  *)
AsyncRead(from) == [node |-> recv_node', from |-> from, n |-> 0, st |-> "io"]

ReadFromSocket ==
    /\ fault = "none" /\ recv_node < MaxReads
    /\ recv_node' = recv_node + 1
    /\ recv_len' = 0 /\ content' = Empty
    /\ reads' = Append(reads, AsyncRead(0))
    /\ overlapped' = (overlapped \/ reads # <<>>)
    /\ UNCHANGED <<api, sending, stream, socket, fault>>

(* Bytes come for the first read that waits; its node may be freed.        *)
FirstWaiting(i) == reads[i].st = "io" /\ \A j \in 1 .. i - 1 : reads[j].st # "io"

Arrive ==
    /\ fault = "none" /\ socket = "open"
    /\ \E i \in 1 .. Len(reads) : \E k \in 1 .. RecvSize - reads[i].from :
          /\ FirstWaiting(i)
          /\ reads' = [reads EXCEPT ![i].n = k, ![i].st = "ok"]
          /\ stream' = stream + k
          /\ IF reads[i].node = recv_node
             THEN /\ content' = [p \in 1 .. RecvSize |->
                        IF p - reads[i].from \in 1 .. k THEN stream + (p - reads[i].from) ELSE content[p]]
                  /\ UNCHANGED fault
             ELSE fault' = "freed node" /\ UNCHANGED content
    /\ UNCHANGED <<api, sending, recv_node, recv_len, overlapped, socket>>

ReadFails ==
    /\ fault = "none" /\ socket = "failed"
    /\ \E i \in 1 .. Len(reads) :
          FirstWaiting(i) /\ reads' = [reads EXCEPT ![i].st = "err"]
    /\ UNCHANGED <<api, sending, recv_node, recv_len, content, stream, overlapped, socket, fault>>

(* The rest is read behind what is there; the wrong variant reads over it. *)
ReadOver(len) == AsyncRead(0)
ReadOn(len) == AsyncRead(len)

ReadCallBack ==
    /\ fault = "none" /\ reads # <<>> /\ Head(reads).st # "io"
    /\ UNCHANGED recv_node
    /\ IF Head(reads).st = "err" THEN reads' = Tail(reads) /\ UNCHANGED recv_len
       ELSE /\ recv_len' = recv_len + Head(reads).n
            /\ reads' = Tail(reads) \o (IF recv_len' < RecvSize THEN <<ReadOn(recv_len')>> ELSE <<>>)
    /\ UNCHANGED <<api, sending, content, stream, overlapped, socket, fault>>

-----------------------------------------------------------------------------
Next ==
    \/ ProgramWrites \/ HandleWrite
    \/ Transmit \/ WriteFails \/ SocketFails
    \/ ReadFromSocket \/ Arrive \/ ReadFails \/ ReadCallBack

(* The io_context runs, the peer reads what it is sent.                    *)
Safety == Init /\ [][Next]_vars
Spec == Safety /\ WF_vars(HandleWrite) /\ WF_vars(Transmit \/ WriteFails)

-----------------------------------------------------------------------------
(* At most one write is pending, of the node at the front and from where   *)
(* it has got to.                                                          *)
OneWriteOfTheFront ==
    write # NoWrite =>
        /\ write.st # "second" /\ write.from = cur_len
        /\ IF api = "err" THEN write.node = calls
           ELSE send_pending /\ send_queue # <<>> /\ write.node = Head(send_queue)

(* A callback that gets an error leaves send_pending set, and what is      *)
(* queued is never sent: on a failed socket only.                          *)
StalledOnlyWhenFailed ==
    /\ api # "err" /\ write = NoWrite => socket = "failed" \/ fault # "none" \/ send_queue = <<>>
    /\ send_queue = <<>> => ~send_pending

(* Every piece once and in order: a message follows the end of the one     *)
(* before it, or, in WriteAllToSocket, a part of it that async_send took   *)
(* for the whole.                                                          *)
Follows(this, last) ==
    \/ this.node = last.node /\ this.part = last.part + 1
    \/ /\ this.node = last.node + 1 /\ this.part = 1
       /\ last.part = Parts \/ api = "all"
WireInOrder ==
    \A i \in 1 .. Len(wire) :
        Follows(wire[i], IF i = 1 THEN [node |-> 0, part |-> Parts] ELSE wire[i - 1])

(* The node that is being read, or has been, holds the bytes that came, in *)
(* order and without a gap, and a read that has not failed goes on until   *)
(* it is full; unless a second read was begun before the first was done.   *)
NodeFilled ==
    ~overlapped =>
        LET n == IF reads # <<>> THEN recv_len + Head(reads).n ELSE recv_len
        IN  /\ fault # "freed node"
            /\ \A p \in 1 .. RecvSize :
                  content[p] = IF p <= n THEN stream - n + p ELSE 0
            /\ recv_node > 0 /\ reads = <<>> => recv_len = RecvSize \/ socket = "failed"

(* Whatever is written goes out to its last piece (WriteAllToSocket: to    *)
(* the first) unless the socket fails.                                     *)
Out(k) == \E i \in 1 .. Len(wire) : wire[i].node = k /\ (wire[i].part = Parts \/ api = "all")
SentUnlessFailed ==
    \A k \in Messages : (calls >= k) ~> (Out(k) \/ socket = "failed" \/ fault # "none")

-----------------------------------------------------------------------------
(* The inductive invariant.  The queue is the tail of what the program has *)
(* written, and the wire ends where the pending write has got to.          *)
Last == wire[Len(wire)]
Ended(node) ==
    IF node = 0 THEN wire = <<>>
    ELSE wire # <<>> /\ Last.node = node /\ (Last.part = Parts \/ api = "all")
SentSoFar(node, parts) ==
    IF parts = 0 THEN Ended(node - 1)
    ELSE wire # <<>> /\ Last.node = node /\ Last.part = parts

Idle == IF api = "err" THEN write = NoWrite ELSE ~send_pending

QueueInv ==
    /\ api = "err" => send_queue = <<>>
    /\ \A i \in 1 .. Len(send_queue) : send_queue[i] + Len(send_queue) = calls + i
    /\ api # "err" /\ send_queue = <<>> => cur_len = 0 /\ write = NoWrite
    /\ send_queue # <<>> => send_pending

WriteInv ==
    /\ Idle => Ended(calls)
    /\ write # NoWrite =>
          /\ write.from + write.sent <= Parts
          /\ write.st = "ok" <=> write.sent > 0
          /\ SentSoFar(write.node, write.from + write.sent)
          /\ write.handler = "WriteCallBackErr" <=> api = "err"
          /\ write.handler = "WriteAllCallBack" => api = "all"
          /\ write.st = "err" => socket = "failed"

ReadInv ==
    /\ reads # <<>> => recv_node > 0
    /\ \A i \in 1 .. Len(reads) : reads[i].st = "err" => socket = "failed"
    /\ ~overlapped =>
          /\ Len(reads) <= 1
          /\ reads # <<>> =>
                /\ Head(reads).node = recv_node /\ Head(reads).from = recv_len
                /\ recv_len + Head(reads).n <= RecvSize
                /\ Head(reads).st = "ok" <=> Head(reads).n > 0

StudyInv ==
    /\ TypeOK
    /\ OneWriteOfTheFront /\ StalledOnlyWhenFailed /\ QueueInv /\ WriteInv /\ WireInOrder
    /\ ReadInv /\ NodeFilled
=============================================================================
