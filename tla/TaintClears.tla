----------------------------- MODULE TaintClears ----------------------------
(***************************************************************************)
(* The rule by which Execute recognises a cleared register, beside a       *)
(* history of which cells hold the same value.  Execute compares the taint *)
(* indices of the two operands of a xor; an index stands for a set of      *)
(* payload bytes, not for a value, because an instruction with one tracked *)
(* input hands that input's index on.                                      *)
(***************************************************************************)
EXTENDS TaintTrace

VARIABLE equal    \* history: pairs of cells known to hold the same value

Same(l, m) == l = m \/ {l, m} \in equal

\* After a move the written cell holds the value of the cell that was read.
Copied ==
  IF cur.op = "mov" /\ cur.narrow = {}
    THEN {{d, x} : d \in {l \in Loc : cur.opnd[0] = {l}},
                   x \in {y \in Loc \ cur.opnd[0] :
                            \E l \in Loc : cur.opnd[1] = {l} /\ Same(l, y)}}
    ELSE {}

FinishInstruction ==
  equal' = {e \in equal : e \cap Modified = {}} \cup Copied

CInit == Init /\ equal = {}

CNext ==
  /\ Next
  /\ IF Gathering THEN FinishInstruction ELSE UNCHANGED equal

cvars == <<vars, equal>>

CSpec == CInit /\ [][CNext]_cvars

\* A xor drops the taint of its result only when its two operands hold the same
\* value, which is what "clear registers" means.
ClearsOnlyEqualOperands ==
  [][ Gathering /\ IsClear /\ Tracked # {}
        => \E l, m \in Loc : /\ cur.opnd[0] = {l} /\ cur.opnd[1] = {m}
                             /\ Same(l, m) ]_cvars
=============================================================================
