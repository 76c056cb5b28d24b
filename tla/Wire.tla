-------------------------------- MODULE Wire --------------------------------
(***************************************************************************)
(* Framing: what one side hands to SendNode and what the other side makes  *)
(* of the bytes.  A frame is a head of two 16-bit numbers in network byte  *)
(* order, the id and the length of the data, and the data.  TCP delivers   *)
(* the bytes in pieces of any size.                                        *)
(*                                                                         *)
(* Three readers share this protocol, and a behaviour has one of them:     *)
(*   "asyn"    asynServer: one async_read_some for the head, whatever it   *)
(*             brings; ids and lengths are limited                         *)
(*   "co"      coroutineServer: async_read for the whole head, limited     *)
(*   "client"  syncClient: read for the whole head, no limits              *)
(***************************************************************************)
EXTENDS Integers, Sequences

CONSTANTS Base,           \* values of a byte: 256
          MAX_LENGTH,     \* const.h; MAX_MSG_LENGTH in coroutineServer
          MaxId,          \* the limit of ids: MAX_RECVQUE, MAX_MSG_LENGTH
          Ids,            \* ids that are sent
          Payloads,       \* data that is sent
          MaxFrames       \* bound: frames that are sent

HEAD_ID_LENGTH == 2
HEAD_TOTAL_LEN == 4

(* A short is a signed number of two bytes.                                *)
MaxShort == (Base * Base) \div 2 - 1
Short == -MaxShort - 1 .. MaxShort
Byte == 0 .. Base - 1

(* Nodes fit a short with their head: the programs send texts of a hundred *)
(* bytes or so, and SendNode does not check.                               *)
ASSUME WireAssumption ==
    /\ Base \in Nat \ {0} /\ Base % 2 = 0
    /\ MAX_LENGTH \in Short /\ MaxId \in Short /\ MaxFrames \in Nat
    /\ Ids \subseteq Short
    /\ Payloads \subseteq Seq(Byte)
    /\ \A p \in Payloads : HEAD_TOTAL_LEN + Len(p) <= MaxShort

VARIABLES reader,         \* which of the three readers
          sent,           \* history: messages handed to SendNode
          start,          \* history: where each frame starts in log
          log,            \* the bytes written to the socket, ever
          gone,           \* the sender's process or connection has ended
          stage,          \* what the reader reads: "head", "body", or it has
                          \* "closed"
          base, got,      \* the bytes it has read: before this node, in all
          node,           \* the head it has decoded
          received,       \* history: the messages it passed on
          cause           \* history: why it closed

vars == <<reader, sent, start, log, gone, stage, base, got, node, received, cause>>
sending == <<reader, sent, start, log>>

Message == [id : Short, data : Seq(Byte)]
MsgHead == [id : Short, len : Short]

TypeOK ==
    /\ reader \in {"asyn", "co", "client"}
    /\ sent \in Seq([id : Ids, data : Payloads])
    /\ start \in Seq(Nat)
    /\ log \in Seq(Byte)
    /\ gone \in BOOLEAN
    /\ stage \in {"head", "body", "closed"}
    /\ base \in Nat /\ got \in Nat
    /\ node \in MsgHead
    /\ received \in Seq(Message)
    /\ cause \in {"none", "short", "refused", "gone"}

Init ==
    /\ reader \in {"asyn", "co", "client"}
    /\ sent = <<>> /\ start = <<0>> /\ log = <<>> /\ gone = FALSE
    /\ stage = "head" /\ base = 0 /\ got = 0
    /\ node = [id |-> 0, len |-> 0]
    /\ received = <<>> /\ cause = "none"

-----------------------------------------------------------------------------
(* A short as two bytes.  host_to_network_short and memcpy put the high    *)
(* byte first, whatever the machine's order is; the wrong variant is a     *)
(* memcpy alone on a little-endian machine.                                *)
Unsigned(v) == IF v < 0 THEN v + Base * Base ELSE v
Signed(n) == IF n > MaxShort THEN n - Base * Base ELSE n

HostShort(v) == <<Unsigned(v) % Base, Unsigned(v) \div Base>>
NetworkShort(v) == <<Unsigned(v) \div Base, Unsigned(v) % Base>>
ShortAt(i) == Signed(log[i] * Base + log[i + 1])

(* SendNode: the length it writes is the short its argument became.        *)
SendNode(m) == NetworkShort(m.id) \o NetworkShort(Len(m.data)) \o m.data

Send(m) ==
    LET frame == SendNode(m)
    IN  /\ ~gone /\ Len(sent) < MaxFrames
        /\ sent' = Append(sent, m)
        /\ log' = log \o frame
        /\ start' = Append(start, Len(log) + Len(frame))
        /\ UNCHANGED <<reader, gone, stage, base, got, node, received, cause>>

Leave ==
    /\ ~gone
    /\ gone' = TRUE
    /\ UNCHANGED <<sending, stage, base, got, node, received, cause>>

-----------------------------------------------------------------------------
CloseFor(why) == stage' = "closed" /\ cause' = why /\ UNCHANGED <<base, node, received>>

(* Heads are compared with upper limits; the wrong variant refuses data    *)
(* that is exactly as long as allowed.                                     *)
RefusedAtLimit(h) == reader # "client" /\ (h.id > MaxId \/ h.len >= MAX_LENGTH)
Refused(h) == reader # "client" /\ (h.id > MaxId \/ h.len > MAX_LENGTH)

(* The next head is read; the wrong variant forgets to.                    *)
NoNextHead(end) == stage' = "idle" /\ base' = end
NextHead(end) == stage' = "head" /\ base' = end

PassOn(h, from) ==
    /\ received' = Append(received, [id |-> h.id, data |-> [i \in 1 .. h.len |-> log[from + i]]])
    /\ NextHead(from + h.len)

(* A head is complete: HandleReadHead, the first half of the coroutine's   *)
(* loop, the first half of the client's.  A read of no data completes.     *)
HeadRead ==
    LET h == [id |-> ShortAt(base + 1), len |-> ShortAt(base + HEAD_ID_LENGTH + 1)]
        end == base + HEAD_TOTAL_LEN
    IN  IF Refused(h) THEN CloseFor("refused")
        ELSE /\ node' = h
             /\ UNCHANGED cause
             /\ IF h.len = 0 THEN PassOn(h, end)
                ELSE stage' = "body" /\ base' = end /\ UNCHANGED received

(* Some bytes of the head arrive.  async_read_some is over then;           *)
(* async_read and read go on until they have all of it.                    *)
ReadHead ==
    /\ stage = "head"
    /\ \E k \in 1 .. base + HEAD_TOTAL_LEN - got :
          /\ got + k <= Len(log)
          /\ got' = got + k
    /\ IF got' = base + HEAD_TOTAL_LEN THEN HeadRead
       ELSE IF reader = "asyn" THEN CloseFor("short")
       ELSE UNCHANGED <<stage, base, node, received, cause>>
    /\ UNCHANGED <<sending, gone>>

ReadBody ==
    /\ stage = "body"
    /\ \E k \in 1 .. base + node.len - got :
          /\ got + k <= Len(log)
          /\ got' = got + k
    /\ IF got' = base + node.len THEN PassOn(node, base)
       ELSE UNCHANGED <<stage, base, received>>
    /\ UNCHANGED <<sending, gone, node, cause>>

(* The end of the connection, which may overtake what was still on the way *)
(* (a reset does).  The servers close; in syncClient the exception ends    *)
(* the process.                                                            *)
ReadFails ==
    /\ stage # "closed" /\ gone
    /\ CloseFor("gone")
    /\ UNCHANGED <<sending, gone, got>>

Read == ReadHead \/ ReadBody \/ ReadFails

-----------------------------------------------------------------------------
Next == (\E i \in Ids, p \in Payloads : Send([id |-> i, data |-> p])) \/ Leave \/ Read

(* The network delivers, and the reader is scheduled.                      *)
Safety == Init /\ [][Next]_vars
Spec == Safety /\ WF_vars(Read)

-----------------------------------------------------------------------------
(* What is passed on is what was sent: each message once, in order, with   *)
(* its id and its data, however the bytes are cut into pieces.             *)
FramesRecovered ==
    /\ Len(received) <= Len(sent)
    /\ \A k \in 1 .. Len(received) : received[k] = sent[k]

(* A reader closes a connection that has not ended for a reason: the next  *)
(* message is beyond the limits, or (asynServer only) its head came in     *)
(* pieces.  The client never does.                                         *)
Limited(m) == m.id > MaxId \/ Len(m.data) > MAX_LENGTH
ClosedForCause ==
    stage = "closed" /\ cause # "gone" =>
        /\ reader # "client"
        /\ Len(received) < Len(sent)
        /\ Limited(sent[Len(received) + 1]) \/ (reader = "asyn" /\ cause = "short")

(* Every message is passed on unless the connection is closed.             *)
EveryFrameArrives ==
    \A k \in 1 .. MaxFrames : (Len(sent) >= k) ~> (Len(received) >= k \/ stage = "closed")

-----------------------------------------------------------------------------
(* The inductive invariant.  The bytes on the wire are the frames of what  *)
(* was sent, one after the other ...                                       *)
FrameAt(k) ==
    LET m == sent[k] IN
    /\ start[k + 1] = start[k] + HEAD_TOTAL_LEN + Len(m.data)
    /\ start[k + 1] <= Len(log)
    /\ ShortAt(start[k] + 1) = m.id
    /\ ShortAt(start[k] + HEAD_ID_LENGTH + 1) = Len(m.data)
    /\ \A i \in 1 .. Len(m.data) : log[start[k] + HEAD_TOTAL_LEN + i] = m.data[i]

LogInv ==
    /\ Len(start) = Len(sent) + 1
    /\ start[1] = 0 /\ start[Len(sent) + 1] = Len(log)
    /\ \A k \in 1 .. Len(sent) : FrameAt(k)

(* ... and the reader is where the next frame, or its data, starts.        *)
Due == Len(received) + 1
PlaceInv ==
    /\ got <= Len(log)
    /\ stage = "head" => base = start[Due] /\ got \in base .. base + HEAD_TOTAL_LEN - 1
    /\ stage = "body" =>
          /\ Due <= Len(sent)
          /\ base = start[Due] + HEAD_TOTAL_LEN
          /\ node = [id |-> sent[Due].id, len |-> Len(sent[Due].data)]
          /\ got \in base .. base + node.len - 1

WireInv ==
    /\ TypeOK
    /\ LogInv
    /\ PlaceInv
    /\ FramesRecovered
    /\ ClosedForCause
    /\ stage = "closed" <=> cause # "none"
=============================================================================
