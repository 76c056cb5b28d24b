--------------------------- MODULE HttpConnection ---------------------------
(***************************************************************************)
(* One connection of httpServer, from its construction to its release.     *)
(*                                                                         *)
(* The main thread constructs it, waits for a client, starts it and puts   *)
(* it into m_connections; the pool thread runs its handlers one at a time; *)
(* the kernel completes the read of the request and the write of the       *)
(* response; the clock expires m_deadline.  A handler is one action; the   *)
(* two operations of Start and the insert are three, because the pool      *)
(* thread runs in between.  An operation that has completed keeps its      *)
(* result until its handler runs.  Time is counted in ticks.               *)
(***************************************************************************)
EXTENDS Naturals

CONSTANTS Requests,       \* what clients ask: method, target, kind of body
          Pages,          \* the targets whose file can be opened
          PeerMay,        \* what clients may do: "close", "reset"
          DEADLINE,       \* ticks in 60 s
          MaxClock        \* bound: ticks

ASSUME HttpAssumption ==
    /\ Pages \subseteq {"/count", "/time"}
    /\ PeerMay \subseteq {"close", "reset"}
    /\ DEADLINE \in Nat \ {0}
    /\ MaxClock \in Nat

VARIABLES accept,         \* how far HandleAccept and Start are
          in_connections, \* the connection is in m_connections
          late,           \* history: the deadline's handler came before that
          m_socket,       \* "new", "open" or "closed"
          shut,           \* shutdown_send has been called
          peer,           \* "open", "close" or "reset"
          read,           \* the read of the request
          request,        \* what it has read
          write,          \* the write of the response
          m_deadline,     \* the wait for the deadline
          clock,          \* ticks since the connection was constructed
          timed_out,      \* history: the deadline has closed it
          terminated      \* an exception has left a handler: std::terminate

server == <<accept, in_connections, late>>
tcp == <<m_socket, shut, peer, read, request, write>>
vars == <<server, tcp, m_deadline, clock, timed_out, terminated>>

Result == {"none", "io", "ok", "err"}

TypeOK ==
    /\ accept \in {"accepting", "read", "deadline", "insert", "accepted", "failed"}
    /\ m_socket \in {"new", "open", "closed"}
    /\ peer \in {"open"} \cup PeerMay
    /\ read \in Result /\ write \in Result
    /\ request \in Requests
    /\ m_deadline \in {"none", "waiting", "expired", "aborted"}
    /\ clock \in 0 .. MaxClock
    /\ {in_connections, late, shut, timed_out, terminated} \subseteq BOOLEAN

Init ==
    /\ accept = "accepting" /\ in_connections = FALSE /\ late = FALSE
    /\ m_socket = "new" /\ shut = FALSE /\ peer = "open"
    /\ read = "none" /\ request \in Requests /\ write = "none"
    /\ m_deadline = "none"
    /\ clock = 0
    /\ timed_out = FALSE /\ terminated = FALSE

-----------------------------------------------------------------------------
(* Starting an operation: on a closed socket it completes with an error.   *)
Begun == IF m_socket = "open" THEN "io" ELSE "err"
Aborted(op) == IF op = "io" THEN "err" ELSE op

(* The wrong variant forgets the socket.                                   *)
CloseNothing(reading, writing) ==
    m_socket' = m_socket /\ read' = reading /\ write' = writing
Close(reading, writing) ==
    /\ m_socket' = "closed"
    /\ read' = Aborted(reading)
    /\ write' = Aborted(writing)

(* The wrong variant keeps the connection in the map.                      *)
ClearNothing == UNCHANGED in_connections
ClearConnection == in_connections' = FALSE

-----------------------------------------------------------------------------
(* The main thread.  m_deadline counts from the construction, which is     *)
(* when StartAccept begins to wait for a client.                           *)
AcceptCompletes ==
    /\ accept = "accepting"
    /\ \/ accept' = "read" /\ m_socket' = "open"
       \/ accept' = "failed" /\ UNCHANGED m_socket
    /\ UNCHANGED <<in_connections, late, shut, peer, read, request, write, m_deadline,
                   clock, timed_out, terminated>>

ReadRequest ==
    /\ accept = "read"
    /\ read' = Begun
    /\ accept' = "deadline"
    /\ UNCHANGED <<in_connections, late, m_socket, shut, peer, request, write, m_deadline,
                   clock, timed_out, terminated>>

(* Wrong variants: it waits for nothing; it is off by one.                 *)
NoWait == UNCHANGED m_deadline
WaitLonger == m_deadline' = IF clock <= DEADLINE THEN "waiting" ELSE "expired"
AsyncWait == m_deadline' = IF clock < DEADLINE THEN "waiting" ELSE "expired"

CheckDeadline ==
    /\ accept = "deadline"
    /\ AsyncWait
    /\ accept' = "insert"
    /\ UNCHANGED <<in_connections, late, tcp, clock, timed_out, terminated>>

Insert ==
    /\ accept = "insert"
    /\ in_connections' = TRUE
    /\ accept' = "accepted"
    /\ UNCHANGED <<late, tcp, m_deadline, clock, timed_out, terminated>>

HandleAccept == ReadRequest \/ CheckDeadline \/ Insert

-----------------------------------------------------------------------------
(* The kernel, the client and the clock.                                   *)
PeerLeaves ==
    /\ peer = "open" /\ m_socket = "open"
    /\ peer' \in PeerMay
    /\ UNCHANGED <<server, m_socket, shut, read, request, write, m_deadline, clock, timed_out, terminated>>

(* A request arrives, or something that is none, or the client is gone.    *)
ReadCompletes ==
    /\ read = "io"
    /\ \/ read' = "ok" /\ peer # "reset" /\ request' \in Requests
       \/ read' = "err" /\ UNCHANGED request
    /\ UNCHANGED <<server, m_socket, shut, peer, write, m_deadline, clock, timed_out, terminated>>

WriteCompletes ==
    /\ write = "io"
    /\ write' \in IF peer = "open" THEN {"ok"} ELSE {"ok", "err"}
    /\ UNCHANGED <<server, m_socket, shut, peer, read, request, m_deadline, clock, timed_out, terminated>>

Tick ==
    /\ clock < MaxClock
    /\ clock' = clock + 1
    /\ m_deadline' = IF m_deadline = "waiting" /\ clock' >= DEADLINE THEN "expired" ELSE m_deadline
    /\ UNCHANGED <<server, tcp, timed_out, terminated>>

-----------------------------------------------------------------------------
(* The pool thread.  Nothing catches an exception of a handler.            *)
(* CreateGetResponse throws for a page whose file does not open, and       *)
(* CreatePostResponse for JSON that is no object, or whose email is one.   *)
Throws(r) ==
    \/ r.method = "get" /\ r.target \in {"/count", "/time"} \ Pages
    \/ r.method = "post" /\ r.target = "/email" /\ r.body = "no object"

ProcessRequest ==
    IF Throws(request)
    THEN terminated' = TRUE /\ UNCHANGED write
    ELSE write' = Begun /\ UNCHANGED terminated

(* Wrong variant: the next request is read while this one is answered.     *)
ReadOn == read' = Begun
ReadNoMore == read' = "none"

HandleRead ==
    /\ read \in {"ok", "err"}
    /\ IF read = "ok"
       THEN /\ ProcessRequest
            /\ ReadNoMore
            /\ UNCHANGED <<in_connections, m_socket>>
       ELSE /\ Close("none", write)
            /\ ClearConnection
            /\ UNCHANGED terminated
    /\ UNCHANGED <<accept, late, shut, peer, request, m_deadline, clock, timed_out>>

(* The throwing overload of shutdown: the socket has been closed by the    *)
(* deadline or reset by the client.                                        *)
ShutdownThrows == m_socket = "closed" \/ peer = "reset"

(* m_deadline.cancel(): a wait that has not begun is not cancelled, one    *)
(* that has expired neither.                                               *)
Cancel == m_deadline' = IF m_deadline = "waiting" THEN "aborted" ELSE m_deadline

HandleWrite ==
    /\ write \in {"ok", "err"}
    /\ CASE write = "err" -> /\ Close(read, "none")
                             /\ ClearConnection
                             /\ UNCHANGED <<shut, m_deadline, terminated>>
         [] write = "ok" /\ ShutdownThrows -> /\ terminated' = TRUE
                                              /\ write' = "none"
                                              /\ UNCHANGED <<m_socket, read, in_connections, shut, m_deadline>>
         [] OTHER -> /\ shut' = TRUE
                     /\ Cancel
                     /\ write' = "none"
                     /\ UNCHANGED <<m_socket, read, in_connections, terminated>>
    /\ UNCHANGED <<accept, late, peer, request, clock, timed_out>>

HandleDeadline ==
    /\ m_deadline \in {"expired", "aborted"}
    /\ IF m_deadline = "expired"
       THEN Close(read, write) /\ timed_out' = TRUE
       ELSE UNCHANGED <<m_socket, read, write, timed_out>>
    /\ ClearConnection
    /\ late' = (late \/ accept = "insert")
    /\ m_deadline' = "none"
    /\ UNCHANGED <<accept, shut, peer, request, clock, terminated>>

Handlers == HandleRead \/ HandleWrite \/ HandleDeadline

-----------------------------------------------------------------------------
Next ==
    /\ ~terminated
    /\ \/ AcceptCompletes \/ HandleAccept
       \/ PeerLeaves \/ ReadCompletes \/ WriteCompletes \/ Tick
       \/ Handlers

(* Threads run and time passes.  No client need come, send, read or leave. *)
Fairness ==
    /\ WF_vars(~terminated /\ HandleAccept)
    /\ WF_vars(~terminated /\ HandleRead) /\ WF_vars(~terminated /\ HandleWrite)
    /\ WF_vars(~terminated /\ HandleDeadline)
    /\ WF_vars(~terminated /\ Tick)

Safety == Init /\ [][Next]_vars
Spec == Safety /\ Fairness

-----------------------------------------------------------------------------
Started == accept \notin {"accepting", "failed"}

(* What still holds a shared_ptr to the connection.                        *)
Referenced ==
    \/ accept \in {"accepting", "read", "deadline", "insert"} \/ in_connections
    \/ read # "none" \/ write # "none" \/ m_deadline # "none"

(* An entry of m_connections is going to be erased: the handler of the     *)
(* deadline has yet to run, unless it ran before the insert.               *)
EntryWillBeCleared == in_connections => m_deadline # "none" \/ late

(* The request is read, then the response written, once: m_request is not  *)
(* read into while m_response is being written, and the answer is complete *)
(* when the sending side is shut down.                                     *)
ReadThenWrite ==
    /\ read # "none" => write = "none" /\ ~shut
    /\ write # "none" => ~shut

(* A connection that has read and is still open has something to do, until *)
(* the response is out; nobody is left to the deadline alone.              *)
IdleOnlyWhenDone ==
    /\ Started /\ accept # "read" /\ m_socket = "open" /\ ~terminated
    => read # "none" \/ write # "none" \/ shut

(* What can end the server through a connection: a request for which no    *)
(* response can be made, a client that has reset, or the deadline.         *)
EndsForCause ==
    terminated => Throws(request) \/ peer = "reset" \/ (timed_out /\ clock >= DEADLINE)

(* CheckDeadline: whatever the client does, or does not do, its connection *)
(* comes to an end, by the deadline at last, and is released.              *)
EveryConnectionEnds == Started ~> (~Referenced \/ late \/ terminated)

(* A request that has been read is answered, or its connection closed.     *)
RequestAnswered == (read = "ok") ~> (shut \/ m_socket = "closed" \/ terminated)

(* The inductive invariant: what has begun at each step of the start, and  *)
(* that the deadline counts from the construction of the connection: a     *)
(* wait that has not expired still has time, and one that has cut its      *)
(* client off had none.                                                    *)
HttpInv ==
    /\ TypeOK
    /\ EntryWillBeCleared
    /\ ReadThenWrite
    /\ in_connections => accept = "accepted"
    /\ accept = "insert" => m_deadline # "none" \/ late
    /\ accept \in {"accepting", "failed", "read", "deadline"} => m_deadline = "none" /\ ~late
    /\ accept \in {"accepting", "failed", "read"} => read = "none" /\ write = "none" /\ ~shut
    /\ m_deadline = "waiting" => clock < DEADLINE
    /\ m_deadline = "expired" \/ timed_out => clock >= DEADLINE
    /\ m_socket = "new" <=> ~Started
    /\ accept = "read" => m_socket = "open"
    /\ read # "none" \/ write # "none" => m_socket = "open" \/ timed_out
    /\ IdleOnlyWhenDone
    /\ EndsForCause

-----------------------------------------------------------------------------
(* HttpConnection.h line 41: the timeout closes the request.  It does not  *)
(* end the server.                                                         *)
TimeoutClosesRequest == timed_out => ~terminated
=============================================================================
