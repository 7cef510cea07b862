------------------------------ MODULE FlagAlgebra ------------------------------
(***************************************************************************)
(* The processor flags: what the lazy flags of the symbolic executor build *)
(* from the operands and the result of an operation when they are asked    *)
(* for, beside what the processor computes.  A bit vector of w bits is a   *)
(* number below its size n = 2^w.                                          *)
(***************************************************************************)
EXTENDS Integers

BvAdd(a, b, n) == (a + b) % n
BvSub(a, b, n) == (a - b) % n

Msb(v, n)    == 2 * v >= n
Signed(v, n) == IF Msb(v, n) THEN v - n ELSE v

\* Set to the carry out of the most significant bit of an addition.
CarryOut(a, b, r) == (a /\ b) \/ (~r /\ (a \/ b))

\* Z3FlagCF::Eval.  The subtractions negate the second operand and the carry;
\* an SBB takes the old carry flag when its operands are equal.
FlagCF(func, p0, p1, source, cf, n) ==
  LET negated == func \in {"SUB", "CMP"}
      c == CarryOut(Msb(p0, n), negated # Msb(p1, n), Msb(source, n))
  IN IF func = "SBB" /\ p0 = p1 THEN cf ELSE negated # c

\* Z3FlagOF::Eval.
FlagOF(func, p0, p1, source, n) ==
  LET r == Msb(source, n)
      b == (func \in {"SUB", "CMP"}) # Msb(p1, n)
  IN func # "AND" /\ Msb(p0, n) # r /\ b # r

\* Eval meets an operation it has no formula for, and stops the process.
FlagBreaks(flag, func) ==
  \/ flag = "CF" /\ func \notin {"ADD", "SUB", "SBB", "CMP"}
  \/ flag = "OF" /\ func \notin {"ADD", "SUB", "CMP", "AND"}

-----------------------------------------------------------------------------
(* The processor.                                                           *)

AddCarries(a, b, n)    == a + b >= n
SubBorrows(a, b, n)    == a < b
AddOverflows(a, b, n)  == Signed(BvAdd(a, b, n), n) # Signed(a, n) + Signed(b, n)
SubOverflows(a, b, n)  == Signed(BvSub(a, b, n), n) # Signed(a, n) - Signed(b, n)
=============================================================================
