----------------------------- MODULE IntervalTree -----------------------------
(***************************************************************************)
(* The sanitizers' interval tree, beside the set of intervals it stands    *)
(* for.  Once an operation has read through a null pointer or linked the   *)
(* tree to itself, the process is lost and nothing more is asked of it.    *)
(***************************************************************************)
EXTENDS IntervalNode, FiniteSets

CONSTANT Interval   \* the intervals that may be added and removed

ASSUME IntervalAssumption ==
  /\ IsFiniteSet(Interval) /\ Interval \subseteq [low : Int, high : Int]
  /\ \A i \in Interval : i.low <= i.high

VARIABLES
  root,
  stored,   \* history: the intervals that were added and not removed
  grown,    \* history: nothing has been removed, and no interval has been dropped that
            \* differs from the one with its lowest value
  exact     \* history: no removal has failed to find its interval's key

history == <<stored, grown, exact>>
vars == <<root, history>>

IsEmpty == root = Null

Usable == ~Broken(root)

HasKey(low) == \E i \in stored : i.low = low
Drops(i)    == HasKey(i.low) /\ i \notin stored

-----------------------------------------------------------------------------

AddInterval(i) ==
  /\ Usable
  /\ root' = AddTo(root, i.low, i.high)
  /\ stored' = IF exact /\ HasKey(i.low) THEN stored ELSE stored \cup {i}
  /\ grown' = (grown /\ ~Drops(i))
  /\ UNCHANGED exact

RemoveInterval(i) ==
  /\ Usable
  /\ root' = IF IsEmpty THEN root ELSE RecursiveDelete(root, i.low, i.high)
  /\ stored' = stored \ {i}
  /\ grown' = FALSE
  /\ exact' = (exact /\ (IsEmpty \/ HasKey(i.low)))

Init == root = Null /\ stored = {} /\ grown = TRUE /\ exact = TRUE

Next == \E i \in Interval : AddInterval(i) \/ RemoveInterval(i)

Spec == Init /\ [][Next]_vars

-----------------------------------------------------------------------------
(* Properties.                                                              *)

Tree == Nodes(root)
AsInterval(t) == [low |-> t.low, high |-> t.high]

\* The nodes stay ordered by their lowest values through rotations and through
\* deletions that move a node's successor up, and each height is the height of its
\* subtree, whatever was removed.
SearchTree ==
  Usable => \A t \in Tree :
    /\ \A n \in Nodes(t.left)  : n.low < t.low
    /\ \A n \in Nodes(t.right) : n.low > t.low
    /\ t.height = UpdateHeight(t).height

\* The tree holds the intervals added and not removed, each once, as long as only
\* intervals whose lowest value is in the tree are removed; and never others.
HoldsStored ==
  Usable => /\ {AsInterval(t) : t \in Tree} \subseteq stored
            /\ exact => /\ {AsInterval(t) : t \in Tree} = stored
                        /\ Cardinality(Tree) = Cardinality(stored)

Contains(i, v) == i.low <= v /\ v <= i.high
Values == UNION {i.low - 1 .. i.high + 1 : i \in Interval}

\* A value is only found if an interval contains it.  As long as nothing has been
\* removed, and no interval been dropped for one with its lowest value, it is found
\* if it is not the last of every interval that contains it: the search, which
\* enters one subtree, has entered the right one.  (An interval that is dropped
\* still raises the maxima above the node that was in its way, so that the search
\* may enter a subtree in which nothing contains the value.)
FindsValues ==
  Usable => \A v \in Values :
    /\ Find(root, v) => \E i \in stored : Contains(i, v)
    /\ grown /\ (\E i \in stored : Contains(i, v) /\ v # i.high) => Find(root, v)

\* The tree that insertion would leave without rotations.
RECURSIVE Placed(_, _)
Placed(t, low) ==
  IF ~IsNode(t) THEN Leaf(low, low)
  ELSE IF low < t.low THEN UpdateHeight([t EXCEPT !.left = Placed(t.left, low)])
  ELSE IF low > t.low THEN UpdateHeight([t EXCEPT !.right = Placed(t.right, low)])
  ELSE t

Leaning(t) == \E n \in Nodes(t) : GetBalanceFactor(n) \notin -1 .. 1

\* The process is lost only to a rotation: a tree survives each insertion that
\* leaves it balanced, and every removal.
BreaksOnlyLeaning ==
  [][Broken(root') => \E i \in Interval : AddInterval(i) /\ Leaning(Placed(root, i.low))]_vars
=============================================================================
