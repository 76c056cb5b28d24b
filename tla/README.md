# A TLA+ verification project for boostDemo

## 1. Inventory

`project/asynServer` is the most complete program of the repository: a callback-style TCP
server (boost::asio) that reads length-prefixed frames, queues them for one logic thread and
sends the answers back. The other servers are variations of it.

| component | sources | state | operations | what makes it correct |
|---|---|---|---|---|
| logic queue | `asynServer/LogicSystem.{h,cpp}` | `m_msg_que`, `m_mutex`, `m_consume`, `m_b_stop`, worker thread | `PostMsgToQue`, `DealMsg`, destructor | every posted message dealt with once and in order; no lost wake-up; the queue is drained at stop; the destructor returns |
| session | `asynServer/CSession.{h,cpp}` | `_send_que`, `m_send_lock`, `m_socket`, `m_b_close`, receive nodes, pending asio operations | `Start`, `HandleReadHead`, `HandleReadMsg`, `Send`, `HandleWrite`, `Close` | one write in flight, answers whole and in order on the wire, the buffer of a pending write stays allocated, a closed session is released |
| acceptor | `asynServer/CServer.{h,cpp}` | `_sessions` | `StartAccept`, `HandleAccept`, `ClearSession` | a closed session leaves the map; accepting never stops |
| io_context pool | `asynServer/AsioIOContextPool.*`, `AsioThreadPool.*` | `m_ioContexts`, `m_works`, `m_threads`, `m_nextIOContext` | `GetIOContext`, `Stop` | round robin in range; `Stop` joins every thread |
| shutdown | `asynServer/main.cpp`, `Singleton.hpp` | lifetime of acceptor, pool, logic queue | signal handler, static destruction | nothing is used after it is destroyed |
| framing | `asynServer/MsgNode.*`, `const.h` | node buffers, 16-bit lengths | `SendNode`, `RecvNode`, head parsing | decode(encode(x)) = x in range |
| coroutine server | `coroutineServer/*` | as above, with a read coroutine, a map mutex, a send that unlocks before `async_write` | the same | the same |
| HTTP server | `httpServer/*` | connection, 60 s deadline timer, connection map | `Start`, `ProcessRequest`, `WriteResponse`, `CheckDeadline` | a deadline never races a finished answer into an exception |
| websocket server | `webSocket/*` | connection, send queue, text flag | `AsyncAccept`, `Start`, `AsyncSend`, `AsyncSendCallBack` | echo keeps order and type, write buffer outlives the write |
| study session | `source/asynReadWrite.cpp` | `_send_queue`, `send_pending`, `recv_pending`, `_recv_node` | three write and two read functions with their callbacks | every piece of a message once and in order, a read fills its node |
| blocking programs | `syncServer`, `syncClient`, `source/syncReadWrite.cpp` | one socket per thread | echo loop, request/answer loops | every byte echoed |
| grpc, nodejs and client programs | `grpcServer`, `grpcClient`, `nodejsServer`, `httpClient` | none of their own | one stateless handler each | nothing to check beyond the library |

How they interact, in every server: the main thread accepts and keeps a map of connections;
each connection belongs to one io_context, which one pool thread runs (the websocket server has
one thread for everything), so the handlers of a connection run one at a time; the session
servers hand each message to one logic thread through the logic queue, and that thread calls
`Send` back into the session. A session lives as long as the map, a pending operation or a
queued message holds a `shared_ptr` to it. When asynServer ends, main's frame (with the acceptor
and the map) goes first, while the pool still runs; then the pool and the logic queue, which are
statics. Which of these two goes first depends on the order in which they came into being; the
model leaves it open and has both.

What is hard in this code:

- *Interleavings.* `Send` (logic thread) against `HandleWrite` (pool thread); `HandleAccept`
  (main thread) against the first handlers of the connection it has just started but not yet put
  into the map; the destructor of the logic queue, which takes no lock, against its worker; in
  coroutineServer the gap between deciding on a write (under the lock) and starting it.
- *Ordering.* Operations that have completed keep their result while their handler waits; the
  HTTP deadline can expire, and close the socket, just then; objects are destroyed while handlers
  that use them still run.
- *Failure.* Peers leave, writes stay partial, heads come in pieces, accepts fail. Callbacks,
  `ReadFile` and the allocation of a node of negative length throw where nothing catches; the
  process then ends.
- *Boundaries.* The limit of the send queue is tested before the push and with `>`; ids and
  lengths are signed 16-bit numbers; the round robin wraps.
- *Liveness.* A worker that sleeps with messages queued, a closed session that nobody releases,
  a connection that its deadline never ends, a process that joins a thread that never returns.

Each of these is a hazard of `PROJECT.json`, with its line and the properties that cover it.

## 2. Modules

| module | what it models | composed from |
|---|---|---|
| `MsgService` | abstract: messages are dealt with once, in order; closes only when all are | |
| `LogicSystem` | the logic queue of asynServer | implements `MsgService` |
| `CoLogicSystem` | the logic queue of coroutineServer | extends `LogicSystem` |
| `AnswerStream` | abstract: accepted answers go to the wire in parts, whole and in order | |
| `SessionIO` | abstract: a session as its server sees it, one read and one write at a time, a number of answers queued and of messages asked | |
| `CSession` | one session of asynServer, with `HandleAccept`, the logic thread's calls, kernel and peer | implements `AnswerStream` and `SessionIO` |
| `CoSession` | one session of coroutineServer | extends `CSession`, implements it |
| `AsynServer` | the process of asynServer: acceptor, pool, several sessions, the logic queue and the end of them all | uses `MsgService`; each of its sessions implements `SessionIO` |
| `Wire` | the framing: what the three readers (asynServer, coroutineServer, syncClient) make of the bytes that `SendNode` wrote | |
| `HttpConnection` | one connection of httpServer with its deadline | |
| `WsConnection` | one connection of webSocket | implements `AnswerStream` |
| `StudySession` | the `Session` of `source/asynReadWrite.cpp` | |
| `*Proofs` | theorems and proofs about the module named (`LogicSystemProofs`: about both logic queues) | |
| `MC*` | definitions that give the constants their values for TLC | |

How state and actions correspond to the code:

- Names of variables, constants and actions are the source's where TLA+ allows it
  (`m_msg_que`, `m_b_stop`, `send_que` for `_send_que`, `DealMsg`, `HandleReadHead`, ...).
  Variables the code does not have are history variables or the state of the kernel and the
  peer; each declaration says which.
- A handler, or a critical section nothing can interleave with, is one action. Where another
  thread can step in between, the code is split: `DealMsg` at every point where the mutex is
  released or where the flag, written without the mutex, matters (`Lock`, `Test`, `Wait`,
  `Deal`, `Drain`, `Return`); `HandleAccept` into start and insert; `CheckDeadline` into the
  begin of the wait and what follows; coroutineServer's `Send` and `HandleWrite` at the unlock
  (`StartWrite`); the websocket `async_write` into what is written before the handler returns
  and what is written after (`Initiate`, `Transmit`); in `AsynServer` a handler into the moment
  its thread takes it from the context (`Dispatch`) and its work, so that the end of main can
  come in between.
- An asynchronous operation is a record with a state: `"io"` while the kernel has it, then
  `"ok"` or `"err"` until its handler runs. `close()` turns what is `"io"` into `"err"` and
  leaves what has completed.
- A message is its number (and, for websocket, its type); a write takes `Parts` parts, which is
  what makes interleaved or repeated writes visible on the wire. Whether a request has a
  callback, throws, or hits a page that cannot be opened is given by sets of constants. In
  `CSession` a head is good, bad (id or length refused), of negative length or short; `Wire` has
  the bytes. In `AsynServer` a message is the session it came from, and whether it is answered
  and whether its callback throws is left open at each.
- An exception that nothing catches ends the process: it sets `terminated` (in `LogicSystem` that
  is a state of the worker) and the model ends. In `CSession` and `AsynServer` it is a callback
  that throws (`CallBackThrows`) or a head of negative length (`NegativeLength`):
  `HandleReadHead` tests the length against its upper limit only. The coroutine of
  coroutineServer catches what it throws itself, so there a negative length closes the session
  instead (`CoReadHead`), but for -1, on which see section 6.
- The worker can miss the stop of `~LogicSystem` (variable `stop` of `AsynServer`, as in
  `LogicSystem`): while the queue is empty a stop may be heard or missed, and a missed one is
  heard at the next post or at a spurious wake-up.
- `AsynServer` takes its parts as their own modules show them to be: the logic queue as a
  `MsgService`, a session as a pending read, a pending write and the length of its send queue.
  `SessionIO` says what that is, and both sides are held to it: `CSession` shows that a session
  with heads, bodies, nodes and partial writes behaves so (`IOSafety`), `AsynServer` that it
  makes of a session nothing else (`SessionsKept`).
  A pool is a set of contexts and the context each thread runs, which covers both classes
  `const.h` chooses from.
- Undefined behaviour is recorded and ends the model (`misuse`, `fault`), or is a choice between
  the outcomes it can have (a piece that is read from freed memory is intact or not).
- `m_b_close` of asynServer is written and never read, and is left out. `m_flag_close` of
  coroutineServer is set next to the close of the socket on the thread that reads it, so the
  socket's state stands for both.
- Some operators stand next to a *wrong variant* of themselves (`Pop` / `PopTwice`). The
  variants are used by no action; the mutants in `PROJECT.json` put them in place to show that
  each property can fail.

## 3. Runs

Nine configurations must pass; with the wrong variants in place each of their properties fails.

| run | states | bounds | what it shows |
|---|---|---|---|
| `logic` | 31,704 | two posting threads, two messages each, requests that are registered, unregistered and throwing, a stop at any time, spurious wake-ups | nothing is lost, reordered or left behind; notifying only when the queue grows to one is enough; a stop outside one window ends with the join; the queue implements `MsgService` with its liveness |
| `co_logic` | 36,933 | the same | the same up to a stop; messages are left behind only by a return from the top of the loop |
| `session` | 10,133 | six frames, one without a callback, one whose callback throws, heads good, refused, short and of negative length, two parts per answer, a queue limit of one | one write at a time and of the front of the queue; answers whole, in order, for the right frames; no stall, no deaf session; a posted frame is answered unless its answer is refused, the session closes or an exception ends the process; a peer's close is noticed and a closed session released (but for the insert that comes late); implements `AnswerStream` and `SessionIO` |
| `co_session` | 11,948 | the same, without short heads | the unlock before `async_write` does not break the above: coroutineServer's session implements asynServer's, liveness included |
| `server` | 174,795 | two contexts with a thread each, two clients of one frame, one failed accept, a queue limit of one, messages with and without an answer, an exception from any callback or head, a signal at any time, a stop that is heard or missed, both orders of destruction | handlers of one session never overlap; the round robin is even; each step is of every session a step of `SessionIO` or none; open sessions are kept in the map, read and write what they queue; every client is accepted while the server runs; with the pool destroyed first everything posted is dealt with; after a signal the process ends, unless a destroyed object is used, an exception has ended it before or the worker misses its stop for ever |
| `wire` | 22,603 | each of three readers; three frames of ids and data within the limits, at them and beyond; bytes of four values | the messages passed on are those sent, however the bytes are cut; a reader closes only for the reasons its code has; what is sent arrives or the connection is closed |
| `http` | 3,456 | six kinds of request, one of two pages missing, clients that close or reset, a deadline of two ticks out of four | request and response do not overlap; the deadline cuts nobody off early; a request that has been read is answered or its connection closed (or the server ended by an exception); every connection ends and is released (but for the late insert) |
| `ws` | 17,954 | three messages of either type, two parts each | one write at a time and of the front; the echo implements `AnswerStream`; types are right up to a later read; the connection is released when its client goes |
| `study` | 122,155 | each of the three write functions, three messages of two parts, two reads into nodes of two bytes, a socket that fails at any time | pieces go out once and in order; nothing stalls on a live socket; a read fills its node without a gap unless a second one is begun |

Why the bounds are enough: two posting threads and two messages each let one thread post between
any two steps of the worker while a second message is already queued, which is the only situation
in which "notify at size one" could lose a message. Two parts are what it takes to interleave or
truncate an answer. Six frames with a limit of one reach a frame without a callback (the second),
a full queue (two nodes, the answers of the first and the third), a refusal (the fourth), an
answer after it (the fifth) and a callback that throws (the sixth). Two clients and a failed accept make
four sessions over two contexts, so that the round robin wraps, sessions share a context and a
handler of each kind can be in progress when main's frame goes. Bytes of four values make a
short one of -8 .. 7: numbers of one byte, of two different bytes and over the limits all
occur. Three websocket or study messages put one on the wire, one in the queue and one behind
it. Two ticks before the deadline and two after it put every event before, at and after the
expiry. The invariants, the action properties and the safety part of every refinement
are proved for every bound (section 5); what depends on the bounds alone is the liveness.

### Disagreements between the code and what it says

Each of these runs checks one property, taken from a comment of the code, that TLC finds violated.

| run | property | what happens |
|---|---|---|
| `http_timeout` | `TimeoutClosesRequest` | The deadline closes the socket while the handler of a completed write is queued; its throwing `shutdown` ends the process. |
| `ws_buffer` | `SentBack` | The buffer given to `async_write` is a local of the handler that has gone when the rest is written. |
| `server_gone` | `ServerThereToClear` | After a signal main destroys the `CServer` while pool threads run handlers; one that fails then calls `ClearSession` through a dangling `_server`. |

Not a run of their own, because the properties of the passing runs state exactly what holds
instead:

- `~LogicSystem` sets the flag and notifies without the mutex. Between the worker's test of the
  flag and its wait both are missed, the worker sleeps and `join()` never returns.
  `StopOutsideWindowJoins` is the promise that holds outside that window, and `ProcessEnds`
  excepts the process that hangs so.
- `HandleReadHead` tests `data_len > MAX_LENGTH` only (`CSession.cpp:105`). Of a negative length
  it makes a node (line 117), whose allocation throws out of an unguarded handler: one frame ends
  the server and every session. `FramesAnswered`, `ClosedIsReleased`, `PeerCloseNoticed`,
  `EveryClientServed` and `ProcessEnds` except it.
- coroutineServer's worker tests the flag at the top of its loop and returns with messages queued,
  although a comment (`coroutineServer/LogicSystem.cpp:42`) says the queue has to be emptied:
  `LeftOnlyFromTheTop`.
- A session that fails before `HandleAccept` inserts it clears nothing, and the entry made
  afterwards stays: `ClosedIsReleased` excepts it.
- The 60 s of an HTTP connection count from its construction (`HttpConnection.h:26`), not from
  when its client comes: `HttpInv` says so.
- `Send` tests `size() > MAX_SENDQUE` before it pushes, so the queue may hold one more than the
  "maximum length" of `const.h`: `SendQueBounded`, which is proved.
- `WriteAllToSocket` takes a partial `async_send` for the whole message, although the comment
  before it (`asynReadWrite.cpp:105`) says that `async_send` sends all: `Follows` and `Out` have a
  case for it. `WriteCallBackErr` does not look at its error and tries again for ever.

`CHECK_DEADLOCK FALSE` is set throughout because every one of these systems may rightly stop: a
connection ends, a server is stopped, an idle one waits for its peer.

## 4. Fairness

All of it is weak fairness, of one group of actions per party.

- *Threads.* The worker, the pool threads (`Run(t)`, each its own) and the main thread
  (`HandleAccept`; in `AsynServer` all of `Main`) are scheduled by the operating system; a handler
  whose operation has completed is run. In `LogicSystem` this includes the destructor once it has
  begun. A step that may end in an exception is fair together with it: a worker with a message
  due deals with it or is thrown out of its callback, a thread with a head read handles it or
  ends the process. Nobody is assumed to post, to signal or to stop, and a spurious wake-up is
  never assumed to come, in `AsynServer` no more than in `LogicSystem`.
- *The kernel.* `ReadFails`: a pending read notices that the peer's FIN or RST has arrived.
  `AcceptCompletes`: an accept completes when a client has connected; accepts fail at most
  `MaxFailures` times. `Wire`'s `Read`: bytes that were written are delivered while the connection
  lasts. The session servers and the websocket server have no timer, so a peer that dies silently
  is noticed by nobody, and no property says otherwise.
- *The peer.* `Writing` and `Transmit \/ WriteFails`: a peer that stays reads what it is sent. A
  peer that stays and does not read is out of what the session servers promise. `HttpConnection`
  assumes nothing of the client: its deadline covers the silent one.
- *Time.* `HttpConnection` assumes that the clock ticks.
- No fairness for a peer that connects, sends or leaves.

## 5. Proofs

TLAPS proves, for every value of the constants that satisfies the assumptions
(`LogicAssumption`, `SessionAssumption`, `HttpAssumption`, `WsAssumption`, `ServerAssumption`,
`WireAssumption`, `StudyAssumption`: bounds are naturals, an answer has at least one part, the
registered requests are among the requests, each thread runs one of the pool's contexts, what is
sent fits a short):

- `LogicSystemProofs`: `LogicInv`; exactly once and in order; no lost wake-up; drained at return; the
  answers are those of the registered requests, in order; and that the queue implements
  `MsgService` (safety). `NoLostWakeup` alone is not inductive. `LogicInv` adds who owns the mutex,
  and that the worker's last look at the queue is still true while it holds the mutex: a worker
  at "sleep" has found the queue empty and nobody can have posted since. `StopHeard` is the safety
  half of `StopOutsideWindowJoins`: if no stop falls into the window, then from the notification
  on the worker neither waits nor is about to (`StopInv`). Every step of coroutineServer's changed
  loop preserves the same invariants; `LeftOnlyFromTheTop`, `CoOrderKept` and `CoStopHeard` follow.
- `CSessionProofs`: `SessionInv`, and from it `OneWriteOfTheFront`, `WireInOrder`,
  `AnswersFollowFrames`, `StalledOnlyWhenClosed`, `OpenMeansReading`, `SendQueBounded`,
  `KeptOnlyWhenLate` (a closed session is in the map only if the insert came after the erase: the
  safety half of `ClosedIsReleased`), and that the session implements `AnswerStream` and
  `SessionIO` (safety). Three strengthenings make these inductive. *Sending* (`SendInv`): the send
  queue is the tail of the accepted answers, and the wire ends exactly where the pending write has
  got to, or, with none pending and the queue empty, at the end of the last answer. *Receiving*
  (`ReceiveInv`): the frames in the logic queue are later than all that is answered and earlier
  than the one being read. *Closing* (`CloseInv`): a session that closes before its
  insert has cleared the map in vain, and is recorded as late.
- `CoSessionProofs`: writes decided on and writes pending are together at most one, of the front
  (`CoSessionInv`), and the refinement `CoSafety => AsyncSafety`: a decided write counts as pending, a
  coroutine at the top of its loop as one with a read pending. The theorems of `CSessionProofs`
  are then instantiated under that mapping (`Proved`) and say of coroutineServer's session what
  they say of asynServer's: `CoWireOrdered`, `CoAnswersOrdered`, `CoNoStall`, `CoAlwaysReading`,
  `CoClosedLeavesTheMap`, and, by composition of two refinements, `CoImplementsStream` and
  `CoImplementsIO`. No invariant is proved twice.
- `AsynServerProofs`: `ServerInv` (which sessions exist and where, what the threads are in, and how far
  the end of the process has come), `OneHandlerAtATime`, and, with the pool destroyed first, that
  no handler posts to a queue that has gone and nothing is left undealt at exit; with the queue
  destroyed first, that the worker writes to no context that has gone. This takes that only a
  worker with nothing to deal with misses the stop, and that none returns which has not heard it
  (`QueueInv`). `RoundRobin` counts over
  the whole history; what makes it inductive is `RoundInv`: for some number of rounds, the
  contexts before `m_nextIOContext` have been given one session more than that, the others exactly
  that. `OpenAreAttended` is what the liveness of a session takes in a process with others: an open
  session is in the map, reads, and has what it queued being written (`LiveInv`); `NeverDeaf` is
  the same for the acceptor. `SessionsAreIO` is the refinement of every session at once:
  each handler, posted message and answer of the process is, of one session, a step of
  `SessionIO`, and of the others none. It needs that a session has at most one read and one write
  pending *or in the hands of a thread* (`StartInv`, `ThreadInv`), that nothing happens to one
  before it is started (`OpenInv`, `StartInv`), and counts the messages of each in the queue they
  share (`Asked`).
- `WireProofs`: `WireInv` (the bytes on the wire are the frames of what was sent, and the reader
  stands where the next one or its data starts), `FramesRecovered`, `ClosedForCause`, for every
  even number of byte values, every limit and every payload that fits.
- `HttpConnectionProofs`: `HttpInv` (which operations have begun at each step of `HandleAccept`, that
  a wait which has not expired has time left and a client is cut off only after it),
  `EntryWillBeCleared`, `ReadThenWrite`, `IdleOnlyWhenDone` (the safety half of
  `RequestAnswered`), and `EndsForCause`: what an exception that ends the server can come from.
- `WsConnectionProofs`: `EchoInv`, `OneWriteOfTheFront`, `StalledOnlyWhenFailed`,
  `EntryWillBeCleared`, `OpenInMap`, `TypeOfLatest`, and that the echo implements `AnswerStream`
  (safety). `SendInv` is that of the session; `TypeOfLatest` needs in addition that the flag of
  the stream is the type of the message last read.
- `StudySessionProofs`: `StudyInv`, `OneWriteOfTheFront`, `StalledOnlyWhenFailed`, `WireInOrder`,
  `NodeFilled`. The invariant falls into a half about writes (the queue is the tail of what the
  program has written, the wire ends where the pending write has got to, without one at the end
  of the last message) and one about reads (with no second read there is at most one, of the
  present node and from where it has got to); a step of one half leaves the other.

How the results about asynServer fit together: `LogicSystem` implements `MsgService` and
`CSession` implements `SessionIO`; `AsynServer` is written with the operators of `MsgService` for
its queue, so that nothing is left to show there, and each of its sessions is shown to be a
`SessionIO` (`SessionsAreIO`). So what the process does with its parts is what those parts are
shown to do. Two things pass between them without a theorem of their own: `CSession` has its
handlers run one at a time, which is `OneHandlerAtATime`; and the order in which the pool threads
post is taken as it comes on both sides.

Only model-checked: every liveness property and the liveness part of `ServiceSpec`, `StreamSpec`
and `AsyncSpec`. Liveness under fairness, ENABLED and induction over data are beyond the prover.
Where a liveness property has a safety half (nobody sleeps who was notified, nothing is left
without an operation that goes on with it) that half is proved, as named above.

## 6. Not modelled

- What a data race does: `_sessions` of asynServer is a `std::map` that two kinds of thread
  change without a lock, and an asio socket is used by the worker and closed by the pool thread.
  The models take each such operation as one step. The same goes for the timer of httpServer,
  which the main thread starts.
- What happens after the use of a destroyed object or after an exception that nothing catches:
  the model ends there, as the process does in the second case.
- A data length of exactly -1. `new char[data_len + 1]` then makes a node of no bytes and does not
  throw; the terminator is written beyond it, and a read of a huge length into it begins. That is
  undefined behaviour; `CSession` and `AsynServer` take it as the end of the process, which every
  other negative length is, and `CoSession` as a head that is refused.
- A sender of negative lengths in `Wire`, whose senders are `SendNode`s: `WireAssumption` has what
  is sent fit a short. What a reader does with such a head is in the session modules.
- An answer longer than a short can say: `SendNode` narrows its length without a check; the
  programs answer with short texts, and `WireAssumption` says so.
- A second message given to `WriteToSocketErr` before the first is done (it has no queue, and the
  header says so), and `StudySession` on several threads: nothing in the repository calls it.
- `asynServer/main.cpp` and `coroutineServer/main.cpp` differ in the order of the statics, which
  is a constant of `AsynServer`; the pools and mains of coroutineServer and httpServer are copies
  and have no module of their own.
- The text of answers, pages and logs; the JSON library, except that it throws.
- The first construction of the singletons: main constructs the logic queue before any other
  thread exists.
- The other programs of the repository: the blocking ones run one loop per thread on a socket
  of their own (their framing is a reader of `Wire`); the endpoint examples are straight-line
  calls of the asio API; the grpc and nodejs programs are single handlers over generated code.

Most lines of C++ in the repository are protobuf output and the compiler probes that CMake
leaves in its build directories (`CMakeCCompilerId.c` and the like), none of which is the
program's own logic. The share of *those* files in what is modelled is zero and will stay so.

## 7. Order of the work, and what could follow

The logic queue and its service; the session and its stream; the two components of
coroutineServer as variations and refinements of those; httpServer; webSocket; then the
whole process, the framing and the study session; proofs after each.

What could follow: several sessions of coroutineServer behind its map mutex; a refinement that
keeps the frames of each session apart in the process, so that `AnswersFollowFrames` is stated of
all of them at once.
