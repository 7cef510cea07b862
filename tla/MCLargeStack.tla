---------------------------- MODULE MCLargeStack ----------------------------
(* Two words to a chunk, so that a region border can be crossed at one of    *)
(* them and Update called at the other, and enough depth to be moved from Y  *)
(* to A and spill a region that was moved.                                   *)
EXTENDS LargeStack
=============================================================================
