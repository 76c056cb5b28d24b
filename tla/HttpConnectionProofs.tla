------------------------ MODULE HttpConnectionProofs ------------------------
(***************************************************************************)
(* Theorems about one connection of httpServer, for any requests, pages,   *)
(* deadline and clock.                                                     *)
(***************************************************************************)
EXTENDS HttpConnection, TLAPS

LEMMA InitIInv == Init => HttpInv
  <1> SUFFICES ASSUME Init PROVE HttpInv
    OBVIOUS
  <1>1. TypeOK
    <2>1. 0 \in 0 .. MaxClock
      BY HttpAssumption DEF HttpAssumption
    <2> QED
      BY <2>1 DEF Init, TypeOK, Result
  <1> QED
    BY <1>1 DEF Init, HttpInv, EntryWillBeCleared, ReadThenWrite, Started, IdleOnlyWhenDone, EndsForCause

LEMMA NextIInv == HttpInv /\ [Next]_vars => HttpInv'
  <1> SUFFICES ASSUME HttpInv, [Next]_vars PROVE HttpInv'
    OBVIOUS
  <1> USE HttpAssumption
      DEF HttpAssumption, HttpInv, TypeOK, Result, EntryWillBeCleared, ReadThenWrite, Started,
          IdleOnlyWhenDone, EndsForCause
  <1>1. CASE AcceptCompletes
    BY <1>1 DEF AcceptCompletes
  <1>2. CASE ReadRequest
    BY <1>2 DEF ReadRequest, Begun
  <1>3. CASE CheckDeadline
    BY <1>3 DEF CheckDeadline, AsyncWait, tcp
  <1>4. CASE Insert
    BY <1>4 DEF Insert, tcp
  <1>5. CASE PeerLeaves
    BY <1>5 DEF PeerLeaves, server
  <1>6. CASE ~terminated /\ ReadCompletes
    BY <1>6 DEF ReadCompletes, server
  <1>7. CASE WriteCompletes
    BY <1>7 DEF WriteCompletes, server
  <1>8. CASE Tick
    BY <1>8 DEF Tick, server, tcp
  <1>9. CASE HandleRead
    BY <1>9 DEF HandleRead, ReadNoMore, ProcessRequest, Begun, Close, Aborted, ClearConnection
  <1>10. CASE HandleWrite
    BY <1>10 DEF HandleWrite, ShutdownThrows, Cancel, Close, Aborted, ClearConnection
  <1>11. CASE HandleDeadline
    BY <1>11 DEF HandleDeadline, Close, Aborted, ClearConnection
  <1>12. CASE UNCHANGED vars
    BY <1>12 DEF vars, server, tcp
  <1> QED
    BY <1>1, <1>2, <1>3, <1>4, <1>5, <1>6, <1>7, <1>8, <1>9, <1>10, <1>11, <1>12
    DEF Next, HandleAccept, Handlers

(* Whatever order the main thread, the pool thread and the clock take.     *)
THEOREM InductiveInvariant == Safety => []HttpInv
  BY InitIInv, NextIInv, PTL DEF Safety

(* No entry of m_connections is left with nobody to erase it, but by the   *)
(* deadline's handler running before the insert.                           *)
THEOREM EntriesAreCleared == Safety => []EntryWillBeCleared
  <1>1. HttpInv => EntryWillBeCleared
    BY DEF HttpInv
  <1> QED
    BY <1>1, InductiveInvariant, PTL

(* The request and the response are never in progress at once, and nothing *)
(* is written after the sending side has been shut down.                   *)
THEOREM OneAfterTheOther == Safety => []ReadThenWrite
  <1>1. HttpInv => ReadThenWrite
    BY DEF HttpInv
  <1> QED
    BY <1>1, InductiveInvariant, PTL

(* HandleRead and HandleWrite leave no open connection without an          *)
(* operation before its response is out.                                   *)
THEOREM NeverIdle == Safety => []IdleOnlyWhenDone
  <1>1. HttpInv => IdleOnlyWhenDone
    BY DEF HttpInv
  <1> QED
    BY <1>1, InductiveInvariant, PTL

(* The handlers throw, and end the server, for a request they cannot       *)
(* answer, after a reset, or when the deadline has closed the socket of a  *)
(* response that was written: never before the deadline otherwise.         *)
THEOREM ServerEndsForCause == Safety => []EndsForCause
  <1>1. HttpInv => EndsForCause
    BY DEF HttpInv
  <1> QED
    BY <1>1, InductiveInvariant, PTL
=============================================================================
