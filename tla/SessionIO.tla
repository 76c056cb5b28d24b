----------------------------- MODULE SessionIO -----------------------------
(***************************************************************************)
(* A session as the rest of its server sees it: whether its socket is      *)
(* open, the one read and the one write it has asked the kernel for, how   *)
(* many answers it has queued, and how many of its messages are with the   *)
(* logic thread.  An operation that has completed keeps its result until   *)
(* its handler has run.  There are no heads, bodies, nodes, partial writes *)
(* or peers here, and no threads.                                          *)
(*                                                                         *)
(* CSession implements this, and AsynServer takes each session as this.    *)
(***************************************************************************)
EXTENDS Naturals

CONSTANT MAX_SENDQUE

VARIABLES state,          \* "new", "open": accepted, "started", "closed"
          reading,        \* the read: "none", "io", or its result
          writing,        \* the write, likewise
          queued,         \* answers queued, the one being written included
          asked           \* messages posted and not yet dealt with

iovars == <<state, reading, writing, queued, asked>>

Init ==
    /\ state = "new" /\ reading = "none" /\ writing = "none"
    /\ queued = 0 /\ asked = 0

Begun == IF state = "started" THEN "io" ELSE "err"
Aborted(op) == IF op = "io" THEN "err" ELSE op

Accepted ==
    /\ state = "new"
    /\ state' \in {"open", "closed"}
    /\ UNCHANGED <<reading, writing, queued, asked>>

Start ==
    /\ state = "open"
    /\ state' = "started" /\ reading' = "io"
    /\ UNCHANGED <<writing, queued, asked>>

ReadCompletes ==
    /\ reading = "io"
    /\ reading' \in {"ok", "err"}
    /\ UNCHANGED <<state, writing, queued, asked>>

WriteCompletes ==
    /\ writing = "io"
    /\ writing' \in {"ok", "err"}
    /\ UNCHANGED <<state, reading, queued, asked>>

(* The handlers, each of the operation that has completed.                 *)
Post ==
    /\ reading = "ok"
    /\ reading' = Begun
    /\ asked' = asked + 1
    /\ UNCHANGED <<state, writing, queued>>

WriteNext ==
    /\ writing = "ok"
    /\ queued' = queued - 1
    /\ writing' = IF queued > 1 THEN Begun ELSE "none"
    /\ UNCHANGED <<state, reading, asked>>

Close ==
    /\ \/ reading = "err" /\ reading' = "none" /\ writing' = Aborted(writing)
       \/ writing = "err" /\ writing' = "none" /\ reading' = Aborted(reading)
    /\ state' = "closed"
    /\ UNCHANGED <<queued, asked>>

(* The logic thread deals with a message of the session and may answer it. *)
Send ==
    /\ queued <= MAX_SENDQUE
    /\ queued' = queued + 1
    /\ writing' = IF queued = 0 THEN Begun ELSE writing

Deal ==
    /\ asked > 0
    /\ asked' = asked - 1
    /\ Send \/ UNCHANGED <<queued, writing>>
    /\ UNCHANGED <<state, reading>>

Next ==
    \/ Accepted \/ Start \/ ReadCompletes \/ WriteCompletes
    \/ Post \/ WriteNext \/ Close \/ Deal

Safety == Init /\ [][Next]_iovars
=============================================================================
