--------------------------- MODULE MCIntervalTree ---------------------------
(* Intervals that overlap, nest and share a lowest value, so that the       *)
(* shorter or the longer of two may be dropped.                             *)
EXTENDS IntervalTree

MCInterval ==
  {[low |-> 1, high |-> 2], [low |-> 2, high |-> 2], [low |-> 2, high |-> 5],
   [low |-> 2, high |-> 9],
   [low |-> 3, high |-> 9], [low |-> 4, high |-> 4], [low |-> 5, high |-> 8],
   [low |-> 6, high |-> 7], [low |-> 7, high |-> 7]}
=============================================================================
