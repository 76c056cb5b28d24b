------------------------------- MODULE MCWire -------------------------------
(* Bytes of four values, so that a short is one of -8 .. 7.                *)
EXTENDS Wire

(* The second id is over the limit; its two bytes differ.                  *)
MCIds == {2, 6}
MCPayloads == {<<>>, <<1, 3>>, <<2, 0, 1>>}
=============================================================================
