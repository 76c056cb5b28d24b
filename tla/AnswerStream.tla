---------------------------- MODULE AnswerStream ----------------------------
(***************************************************************************)
(* What the sending side of a session promises to the logic thread: the    *)
(* answers it accepts are for later and later frames, and go to the peer   *)
(* part by part, whole and in the order in which they were accepted, until *)
(* the session closes.  There is no send queue and no pending write here;  *)
(* CSession (asynServer) and CoSession (coroutineServer) implement this.   *)
(***************************************************************************)
EXTENDS Naturals, Sequences

CONSTANTS Parts,          \* partial writes an answer takes
          Frames          \* the frames that may be answered

VARIABLES accepted,       \* the frame each accepted answer is for
          wire,           \* the parts that are out
          closed          \* the session has closed

avars == <<accepted, wire, closed>>

Init == accepted = <<>> /\ wire = <<>> /\ closed = FALSE

Accept(f) ==
    /\ \A i \in 1 .. Len(accepted) : accepted[i] < f
    /\ accepted' = Append(accepted, f)
    /\ UNCHANGED <<wire, closed>>

(* The part that goes out next.                                            *)
NextPart ==
    LET last == wire[Len(wire)]
    IN  IF wire = <<>> THEN [node |-> 1, part |-> 1]
        ELSE IF last.part < Parts THEN [node |-> last.node, part |-> last.part + 1]
        ELSE [node |-> last.node + 1, part |-> 1]

Transmit ==
    /\ ~closed
    /\ NextPart.node <= Len(accepted)
    /\ wire' = Append(wire, NextPart)
    /\ UNCHANGED <<accepted, closed>>

Close == closed' = TRUE /\ UNCHANGED <<accepted, wire>>

Next == (\E f \in Frames : Accept(f)) \/ Transmit \/ Close

Safety == Init /\ [][Next]_avars

(* An open session goes on sending what it has accepted.                   *)
Spec == Safety /\ WF_avars(Transmit)
=============================================================================
