----------------------------- MODULE MCExplorer -----------------------------
(* Three programs.  The first is the demo's payload with two characters: a   *)
(* loop to the end of the string, then a test of both.  The second tests a   *)
(* variable again, so that one side is not feasible, jumps on, and tests     *)
(* what it has read before.  The third reads everything before it tests.     *)
(*                                                                           *)
(* What the proof that no path is run twice asks of a program is true of     *)
(* these: they test what they have read, and their conditions are about the  *)
(* variables they mention.                                                   *)
EXTENDS Explorer

CONSTANTS a, b

MCVariable == {a, b}
MCWord     == 0 .. 3
MCInput    == [MCVariable -> MCWord]

Jump(n)       == [reads |-> {}, test |-> [vars |-> {}, holds |-> {}], to |-> <<n, n>>]
If(r, v, h, yes, no) == [reads |-> r, test |-> [vars |-> v, holds |-> h], to |-> <<yes, no>>]

Where(v, set) == {x \in MCInput : x[v] \in set}
SumIs(n)      == {x \in MCInput : x[a] + x[b] = n}

Programs == <<
  \* CheckDword of the payload
  Jump(2), Jump(3),
  If({a}, {a}, Where(a, {0}), 28, 4),
  If({b}, {b}, Where(b, {0}), 6, 5),
  Jump(6),
  If({}, {a, b}, SumIs(3), 7, 8), Jump(0), Jump(0),
  \* a variable tested twice
  Jump(10), Jump(11),
  If({b}, {b}, Where(b, {1}), 12, 13), Jump(13),
  If({a}, {a}, Where(a, {0}), 14, 15), Jump(16), Jump(0),
  If({a}, {a}, Where(a, {0, 1}), 17, 15), Jump(18),
  If({b}, {b}, Where(b, {1, 2}), 15, 19), Jump(0),
  \* everything read early
  Jump(21), [Jump(22) EXCEPT !.reads = {a, b}],
  If({}, {a}, Where(a, {2}), 23, 24), Jump(24),
  If({}, {a, b}, SumIs(2), 25, 26), Jump(0),
  If({}, {b}, Where(b, {2}), 25, 27), Jump(0),
  \* CheckDword again, of the empty string
  If({}, {a}, Where(a, {2}), 7, 8) >>

MCBlock == DOMAIN Programs
MCEntry == {1, 9, 20}
MCReads == [n \in MCBlock |-> Programs[n].reads]
MCTest  == [n \in MCBlock |-> Programs[n].test]
MCSuccessors == [n \in MCBlock |-> Programs[n].to]

RECURSIVE TestsWhatIsRead(_, _)
TestsWhatIsRead(n, before) ==
  LET known == before \cup Reads[n]
  IN /\ Branches(n) => Test[n].vars \subseteq known
     /\ \A k \in 1 .. 2 : Successors[n][k] # NoBlock => TestsWhatIsRead(Successors[n][k], known)

ASSUME ProgramAssumption ==
  /\ \A n \in Entry : TestsWhatIsRead(n, {})
  /\ \A n \in Block : \A x, y \in Input :
       (\A v \in Test[n].vars : x[v] = y[v]) => (Holds(n, x) <=> Holds(n, y))
=============================================================================
