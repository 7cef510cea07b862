----------------------------- MODULE IntervalNode -----------------------------
(***************************************************************************)
(* The nodes of the sanitizers' interval tree: a search tree by the lowest *)
(* value of the intervals, each node with the greatest value of its        *)
(* subtree and its height, which insertion keeps balanced by rotations.    *)
(*                                                                         *)
(* A tree is a value: the null pointer, a node, or what is left of it when *)
(* an operation reads through a null pointer (Crashed) or links a node     *)
(* below itself (Cyclic).                                                  *)
(***************************************************************************)
EXTENDS Integers

Null    == [is |-> "null"]
Crashed == [is |-> "crashed"]
Cyclic  == [is |-> "cyclic"]

IsNode(t) == t.is = "node"
Broken(t) == t.is \in {"crashed", "cyclic"}

Leaf(low, high) ==
  [is |-> "node", low |-> low, high |-> high, max |-> high, height |-> 1,
   left |-> Null, right |-> Null]

Greater(a, b) == IF a < b THEN b ELSE a

GetHeight(t) == IF IsNode(t) THEN t.height ELSE 0
UpdateHeight(t) == [t EXCEPT !.height = 1 + Greater(GetHeight(t.left), GetHeight(t.right))]
GetBalanceFactor(t) == GetHeight(t.left) - GetHeight(t.right)

\* Both children are read, whether the node has them or not.
UpdateMax(t) ==
  IF IsNode(t.left) /\ IsNode(t.right)
    THEN [t EXCEPT !.max = Greater(Greater(t.high, t.right.max), t.left.max)]
    ELSE Crashed

\* Mutant of SetMax: a new interval does not raise the maximum above it.
SetMaxNever(t, high) == t
SetMax(t, high)      == IF t.max < high THEN [t EXCEPT !.max = high] ELSE t

-----------------------------------------------------------------------------
(* The rotations.                                                           *)

\* Mutant of LeftRotate: the subtree between the two nodes is forgotten.
LeftRotateForgets(x) ==
  IF ~IsNode(x.right) THEN Crashed
  ELSE LET lowered == UpdateMax(UpdateHeight([x EXCEPT !.right = x.right.left]))
       IN IF Broken(lowered) THEN Crashed
          ELSE UpdateMax(UpdateHeight([x.right EXCEPT !.left = [lowered EXCEPT !.right = Null]]))

LeftRotate(x) ==
  IF ~IsNode(x.right) THEN Crashed
  ELSE LET lowered == UpdateMax(UpdateHeight([x EXCEPT !.right = x.right.left]))
       IN IF Broken(lowered) THEN Crashed
          ELSE UpdateMax(UpdateHeight([x.right EXCEPT !.left = lowered]))

\* The lowered node gets its new child on the right and keeps the raised one on
\* the left.  If neither maximum is read through a null pointer the two nodes are
\* now below each other, and what was on the right is lost.
RightRotate(z) ==
  LET y == z.left
  IN IF ~IsNode(y) \/ ~IsNode(y.right) \/ ~IsNode(y.left) THEN Crashed ELSE Cyclic

-----------------------------------------------------------------------------
(* Insertion.                                                               *)

\* Mutant of Rebalanced: a node is rotated before it leans.
RebalancedEarly(t, low) ==
  IF GetBalanceFactor(t) > 0 /\ low < t.left.low THEN RightRotate(t)
  ELSE IF GetBalanceFactor(t) < 0 /\ low > t.right.low THEN LeftRotate(t) ELSE t

Rebalanced(t, low) ==
  LET factor == GetBalanceFactor(t)
  IN CASE factor > 1 /\ low < t.left.low -> RightRotate(t)
       [] factor > 1 /\ low > t.left.low ->
            LET l == LeftRotate(t.left)
            IN IF Broken(l) THEN l ELSE RightRotate([t EXCEPT !.left = l])
       [] factor < -1 /\ low > t.right.low -> LeftRotate(t)
       [] factor < -1 /\ low < t.right.low ->
            LET r == RightRotate(t.right)
            IN IF Broken(r) THEN r ELSE LeftRotate([t EXCEPT !.right = r])
       [] OTHER -> t

\* An interval whose lowest value is in the tree is dropped.
RECURSIVE RecursiveAdd(_, _, _)
RecursiveAdd(t, low, high) ==
  LET Added(child) == IF IsNode(child) THEN RecursiveAdd(child, low, high)
                                       ELSE Leaf(low, high)
      child == Added(IF low < t.low THEN t.left ELSE t.right)
      grown == IF low < t.low THEN [t EXCEPT !.left = child]
                              ELSE [t EXCEPT !.right = child]
  IN IF low = t.low THEN t
     ELSE IF Broken(child) THEN child
     ELSE Rebalanced(UpdateHeight(SetMax(grown, high)), low)

AddTo(t, low, high) == IF IsNode(t) THEN RecursiveAdd(t, low, high) ELSE Leaf(low, high)

-----------------------------------------------------------------------------
(* Deletion.                                                                *)

RECURSIVE LeftMost(_)
LeftMost(t) == IF IsNode(t.left) THEN LeftMost(t.left) ELSE t

\* Mutant of Successor: any node of the right subtree, its root.
SuccessorRoot(t) == t.right
Successor(t)     == LeftMost(t.right)

Moved(t, s) == [t EXCEPT !.low = s.low, !.high = s.high]

Shrunk(t) == UpdateHeight(t)

\* A search that ends without finding the key returns null all the same: the node
\* it ended at is cut off with what is below it.
RECURSIVE RecursiveDelete(_, _, _)
RecursiveDelete(t, low, high) ==
  CASE low < t.low ->
         IF ~IsNode(t.left) THEN Null
         ELSE Shrunk([t EXCEPT !.left = RecursiveDelete(t.left, low, high)])
    [] low > t.low ->
         IF ~IsNode(t.right) THEN Null
         ELSE Shrunk([t EXCEPT !.right = RecursiveDelete(t.right, low, high)])
    [] low = t.low /\ high # t.high -> t
    [] low = t.low /\ high = t.high ->
         IF ~IsNode(t.left) THEN t.right
         ELSE IF ~IsNode(t.right) THEN t.left
         ELSE LET s == Successor(t)
              IN Shrunk([Moved(t, s) EXCEPT
                           !.right = RecursiveDelete(t.right, s.low, s.high)])

-----------------------------------------------------------------------------
(* Queries.                                                                 *)

\* A subtree is entered when its maximum is greater than the value, and the right
\* one only if the left one is not.
RECURSIVE HasValue(_, _)
HasValue(t, v) ==
  \/ v >= t.low /\ v <= t.high
  \/ IF IsNode(t.left) /\ t.left.max > v THEN HasValue(t.left, v)
     ELSE IsNode(t.right) /\ t.right.max > v /\ HasValue(t.right, v)

Find(t, v) == IsNode(t) /\ HasValue(t, v)

RECURSIVE Nodes(_)
Nodes(t) == IF IsNode(t) THEN {t} \cup Nodes(t.left) \cup Nodes(t.right) ELSE {}
=============================================================================
