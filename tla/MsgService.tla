----------------------------- MODULE MsgService -----------------------------
(***************************************************************************)
(* What the logic queue of a server promises to the network threads that   *)
(* post to it: messages are dealt with one at a time, each once, in the    *)
(* order in which they were posted, and the service closes only when it    *)
(* has dealt with everything posted so far.  It crashes only when the turn *)
(* of a fatal message comes.  There is no queue, no lock and no condition  *)
(* variable here; LogicSystem implements this module.                      *)
(***************************************************************************)
EXTENDS Naturals, Sequences

CONSTANTS Message,        \* the messages that may be posted
          Fatal           \* those that cannot be dealt with

VARIABLES posted,         \* every message posted, in order
          dealt,          \* every message dealt with, in order
          status          \* "open", "closed" or "crashed"

svars == <<posted, dealt, status>>

Init == posted = <<>> /\ dealt = <<>> /\ status = "open"

Post(m) == /\ posted' = Append(posted, m)
           /\ UNCHANGED <<dealt, status>>

Due == posted[Len(dealt) + 1]

Deal == /\ status = "open"
        /\ Len(dealt) < Len(posted)
        /\ Due \notin Fatal
        /\ dealt' = Append(dealt, Due)
        /\ UNCHANGED <<posted, status>>

Close == /\ status = "open"
         /\ dealt = posted
         /\ status' = "closed"
         /\ UNCHANGED <<posted, dealt>>

Crash == /\ status = "open"
         /\ Len(dealt) < Len(posted)
         /\ Due \in Fatal
         /\ status' = "crashed"
         /\ UNCHANGED <<posted, dealt>>

Next == (\E m \in Message : Post(m)) \/ Deal \/ Close \/ Crash

Safety == Init /\ [][Next]_svars

(* An open service does not leave a posted message lying.                  *)
Spec == Safety /\ WF_svars(Deal \/ Crash)
=============================================================================
