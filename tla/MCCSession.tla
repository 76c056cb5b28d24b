----------------------------- MODULE MCCSession -----------------------------
(* Instances of CSession for TLC.                                          *)
EXTENDS CSession

(* One frame of an id without a callback, and one whose callback throws.   *)
AllButSecond == 1 .. MaxFrames \ {2}
Last == {MaxFrames}
=============================================================================
