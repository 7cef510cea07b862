----------------------------- MODULE MCSanitizer -----------------------------
(* Blocks with no symbolic object or two, addresses and jumps in any order.  The   *)
(* addresses meet the return address for one input, or for none, also where it     *)
(* lies between their values; they are zero for one where the log ends too early.  *)
EXTENDS Sanitizer

Space == INSTANCE IntervalNode

MCSymbolic == {<<>>, <<"addr", "addr">>, <<"addr", "jcc">>, <<"jcc", "addr">>}
MCFormula  == {<<98, 100>>, <<99, 0>>}
MCEmptySpace             == Space!Null
MCWithInterval(t, l, h)  == Space!AddTo(t, l, h)
MCInSpace(t, v)          == Space!Find(t, v)

\* What the proofs take of the tree: an interval alone in it is found.
ASSUME AloneFound ==
  \A l, h, v \in -2 .. 4 : InSpace(WithInterval(EmptySpace, l, h), v) <=> l <= v /\ v <= h
=============================================================================
