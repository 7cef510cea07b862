------------------------------ MODULE Sanitizer ------------------------------
(***************************************************************************)
(* The address sanitizer: main reads a log with TraceParser and then asks, *)
(* of each address the log holds, whether some input makes it the place of *)
(* the return address of the function that used it.  The solver gives the  *)
(* least and the greatest value of the address; if the return address lies *)
(* between them, it is asked for an input that makes the two equal.        *)
(*                                                                         *)
(* One optimizer, with its stack of assertions, serves all addresses.  It  *)
(* is Z3's, outside the repository, as are the formulas of the log.        *)
(***************************************************************************)
EXTENDS TraceParser

CONSTANTS
  Input,         \* the inputs of the traced program
  Formula,       \* what an address may be: functions from the input to the address
  EmptySpace,          \* IntervalTree: an empty one,
  WithInterval(_,_,_), \* the tree with an interval added,
  InSpace(_,_)         \* and whether an interval of a tree holds a value

\* An address depends on the input, or it would not be in the log.  So a model of
\* it names a part of the input, which is what makes solveEq's map not empty.
ASSUME SanitizerAssumption ==
  /\ Formula \subseteq [Input -> Nat] /\ Formula # {}
  /\ \A f \in Formula : \E x, y \in Input : f[x] # f[y]

NoVerdict == [index |-> 0]

VARIABLES
  main,      \* "parse" | "sanitize" | "solved" | "done"
  index,     \* the assertions GetAddressAssertion has given out
  formula,   \* symbolicAddress of the current assertion
  space,     \* address_space
  opt,       \* the optimizer: its frames, the oldest first
  verdict,   \* history: the last assertion sanitized, and whether it was reported
  home       \* history: where the return address was when each block began

sanitizer == <<main, index, formula, space, opt, verdict>>
all == <<vars, sanitizer, home>>

-----------------------------------------------------------------------------
(* The optimizer.                                                           *)

Solution == {[input |-> x, address |-> f[x]] : x \in Input, f \in Formula}
Frame    == [holds |-> Solution, objective |-> "none"]

OptimizePush(s) == Append(s, Frame)
OptimizePop(s)  == Front(s)
Asserted(s, holds)  == [s EXCEPT ![Len(s)].holds = @ \cap holds]
Optimize(s, objective) == [s EXCEPT ![Len(s)].objective = objective]

Feasible(s) == {x \in Solution : \A k \in DOMAIN s : x \in s[k].holds}

\* The first objective decides; without one any solution may be the model.
Models(s) ==
  LET First(k) == s[k].objective # "none" /\ \A j \in 1 .. k - 1 : s[j].objective = "none"
      Best(x, k) == \A y \in Feasible(s) : IF s[k].objective = "max" THEN x.address >= y.address
                                                                   ELSE x.address <= y.address
  IN {x \in Feasible(s) : \A k \in DOMAIN s : First(k) => Best(x, k)}

Graph(f) == {[input |-> x, address |-> f[x]] : x \in Input}

-----------------------------------------------------------------------------
(* Z3Handler.                                                               *)

Solved(s) == OptimizePop(OptimizePop(s))

\* Mutant of Lowest: the greatest value is still sought.
LowestGreatest(asserted) == OptimizePush(Optimize(OptimizePush(asserted), "max"))
Lowest(asserted)         == Optimize(OptimizePush(asserted), "min")

\* The address is asserted in one frame, each objective set in another above it.
Solve(f) ==
  LET asserted == Asserted(OptimizePush(opt), Graph(f))
      highest  == Optimize(OptimizePush(asserted), "max")
  IN /\ \E high \in Models(highest), low \in Models(Lowest(OptimizePop(highest))) :
          space' = WithInterval(EmptySpace, low.address, high.address)
     /\ opt' = Solved(Lowest(OptimizePop(highest)))

At(address) == {x \in Solution : x.address = address}

\* Whether solveEq finds an input.
SolveEq(f, concrete) ==
  LET asserted == Asserted(Asserted(OptimizePush(opt), Graph(f)), At(concrete))
  IN /\ verdict' = [index |-> index, formula |-> f,
                    reported |-> Models(OptimizePush(asserted)) # {}]
     /\ opt' = OptimizePop(OptimizePop(OptimizePush(asserted)))

-----------------------------------------------------------------------------
(* main.                                                                    *)

ParseEntry ==
  /\ main = "parse" /\ Parse
  /\ UNCHANGED <<sanitizer, home>>

\* The traced program goes on as long as its log is read.
WriteBlock ==
  /\ main = "parse" /\ RunBlock
  /\ home' = Append(home, Last(frames))
  /\ UNCHANGED sanitizer

\* Parse returns at the end of the log, which may be in the middle of a block: the
\* program was killed.  The model cuts the log between two entries.  (The code takes
\* an entry that is itself cut for a whole one that ends in zeros.)  Without
\* --address there is no more to do.
LogEnds ==
  /\ main = "parse" /\ state # "BREAK"
  /\ main' \in {"sanitize", "done"}
  /\ UNCHANGED <<vars, index, formula, space, opt, verdict, home>>

Following == index + 1

\* GetAddressAssertion, and the first half of sanitize.
Bound ==
  /\ main = "sanitize" /\ Following <= Len(addr)
  /\ main' = "solved" /\ index' = Following
  /\ \E f \in Formula : formula' = f /\ Solve(f)
  /\ UNCHANGED <<vars, verdict, home>>

\* The second half: the return address is sought if it is within the bounds.
Sanitize ==
  LET ebpPlusFour == addr[index].block.frame
  IN /\ main = "solved" /\ main' = "sanitize"
     /\ IF InSpace(space, ebpPlusFour) THEN SolveEq(formula, ebpPlusFour)
        ELSE /\ verdict' = [index |-> index, formula |-> formula, reported |-> FALSE]
             /\ UNCHANGED opt
     /\ space' = EmptySpace
     /\ UNCHANGED <<vars, index, formula, home>>

Finish ==
  /\ main = "sanitize" /\ Following > Len(addr)
  /\ main' = "done"
  /\ UNCHANGED <<vars, index, formula, space, opt, verdict, home>>

InitAll ==
  /\ Init
  /\ main = "parse" /\ index = 0 /\ formula \in {CHOOSE f \in Formula : TRUE}
  /\ space = EmptySpace /\ opt = <<Frame>> /\ verdict = NoVerdict /\ home = <<>>

NextAll == ParseEntry \/ WriteBlock \/ LogEnds \/ Bound \/ Sanitize \/ Finish

SpecAll == InitAll /\ [][NextAll]_all

-----------------------------------------------------------------------------
(* Properties.                                                              *)

Address == {x.address : x \in Solution}

\* The parser's variables and the sanitizer's have their types.
SanitizerTypeOK ==
  /\ TypeOK
  /\ main \in {"parse", "sanitize", "solved", "done"} /\ index \in 0 .. Len(addr)
  /\ formula \in Formula
  /\ space \in {EmptySpace} \cup {WithInterval(EmptySpace, l, h) : l, h \in Address}
  /\ opt \in Seq([holds : SUBSET Solution, objective : {"none", "max", "min"}])
  /\ verdict = NoVerdict \/ verdict \in [index : 1 .. Len(addr), formula : Formula,
                                        reported : BOOLEAN]
  /\ home \in Seq(Int) /\ Len(home) = blocks

\* Where the return address of the function is whose block the address was given:
\* its own, unless that began with its module.  It is zero if there was none, because
\* the log did not get that far.
Place(a) ==
  IF a.block = Clean THEN 0 ELSE home[IF a.of \in mixed THEN a.block.data ELSE a.of]

\* From log to report: an address is reported if and only if some input makes it that
\* place.  This takes the block the parser annotated it with, the calls it followed,
\* and an optimizer that earlier addresses have left as they found it.
ReportsExact ==
  verdict # NoVerdict =>
    (verdict.reported <=> \E x \in Input : verdict.formula[x] = Place(addr[verdict.index]))
=============================================================================
