---------------------------- MODULE MCCoSession ----------------------------
(* Instances of CoSession for TLC.                                         *)
EXTENDS CoSession

(* One frame of an id without a callback, and one whose callback throws.   *)
AllButSecond == 1 .. MaxFrames \ {2}
Last == {MaxFrames}
=============================================================================
