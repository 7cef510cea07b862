---------------------------- MODULE SymbolicExecutor ---------------------------
(***************************************************************************)
(* Z3SymbolicExecutor::Execute: the expressions it keeps for the places of *)
(* the traced program while the processor executes a straight line of      *)
(* instructions, and the conditions it hands to the solver.                *)
(*                                                                         *)
(* An expression is modelled by what it means: the value it takes for each *)
(* input.  The processor is modelled for all inputs at once, so that the   *)
(* two can be compared; the tracer itself only sees the run on `payload'.  *)
(*                                                                         *)
(* An operand is a cell, or two: a register and its low part overlap.  The *)
(* environment that keeps the expressions of the cells is outside the      *)
(* repository; it calls the executor back to take them apart and to put    *)
(* them together.                                                          *)
(***************************************************************************)
EXTENDS FlagAlgebra

CONSTANTS
  Cell, NoCell,
  CellSize,    \* Cell -> the number of values a cell may have
  Loc,         \* registers and parts of registers, memory and immediates
  Low, High,   \* Loc -> the cells of a place; it has a low one only, or both
  Accumulator, \* the place that cmpxchg compares with
  Input,       \* the inputs
  Payload,     \* the inputs the tracer may run on
  First,       \* Cell -> what the cell holds first, as a function of the input
  Symbolic,    \* the cells that are symbolic variables
  Instr,       \* the instructions of the traced program
  MaxSteps,    \* bound on the length of the program
  Leftover,    \* what a symbolic field that is not initialised may hold:
               \*   TRUE for a stale pointer, FALSE for null
  BitAnd(_, _), BitOr(_, _), BitXor(_, _), \* bitwise, on numbers
  BitOdd(_)    \* whether an odd number of bits is set

Flag == {"CF", "PF", "ZF", "SF", "OF"}
Condition == {"O", "B", "E", "BE", "S", "P", "L", "LE"}
CondOp == {"set", "cmov", "jump"}
Instruction ==
  [op : STRING, dst : Loc, src : Loc, cond : Condition, negated : BOOLEAN]

ASSUME PlacesAssumption ==
  /\ \A c \in Cell : CellSize[c] \in Nat \ {0} /\ CellSize[c] % 2 = 0
  /\ NoCell \notin Cell /\ Low \in [Loc -> Cell] /\ High \in [Loc -> Cell \cup {NoCell}]
  /\ \A l \in Loc : Low[l] # High[l]
  /\ Accumulator \in Loc /\ Symbolic \subseteq Cell /\ Payload \subseteq Input
  /\ \A c \in Cell : First[c] \in [Input -> 0 .. CellSize[c] - 1]
  /\ \A c \in Cell \ Symbolic : \A x, y \in Input : First[c][x] = First[c][y]
ASSUME ProgramAssumption ==
  Instr \subseteq Instruction /\ MaxSteps \in Nat /\ Leftover \subseteq BOOLEAN

NoAst  == << >>
NoLazy == [func |-> "none"]
NoTest == [symbolicCond |-> NoAst, taken |-> NoAst]

VARIABLES
  payload,  \* the input of this run
  steps, stopped,
  reg, cpu, \* the processor: its cells and flags, for every input
  sym,      \* the environment: the expression of each cell, or NoAst
  flg,      \* the environment: the lazy flag of each flag, or NoLazy
  test,     \* the condition of the last symbolic jump, and the jump itself
  stale,    \* history: the flags whose lazy flag may be of an earlier instruction
  lost      \* history: a handler has lost a result, or tested a stale flag

machine == <<reg, cpu>>
vars == <<payload, steps, stopped, machine, sym, flg, test, stale, lost>>

-----------------------------------------------------------------------------
(* Places and their cells.                                                  *)

Wide(l)  == High[l] # NoCell
Cells(l) == {Low[l], High[l]} \ {NoCell}
Size == [l \in Loc |-> CellSize[Low[l]] * (IF Wide(l) THEN CellSize[High[l]] ELSE 1)]

\* The operands of an arithmetic instruction have one size, and movsx does not
\* shorten; the bitwise operations give numbers.
ASSUME OperandsAssumption ==
  /\ \A i \in Instr : i.op \in {"movsx", "add", "sub", "cmp"} => Size[i.src] <= Size[i.dst]
  /\ \A l, m \in Loc : \A a \in 0 .. Size[l] - 1, b \in 0 .. Size[m] - 1 :
       BitAnd(a, b) \in Nat /\ BitOr(a, b) \in Nat /\ BitXor(a, b) \in Nat

\* Where Z3's terms would not fit together the code stops or builds none: operands
\* have one sort, or GetSymbolicValues has a DEBUG_BREAK; inc and dec add a one of 32
\* bits, movzx and movsx extend to 32 (movsx the lowest byte), and a concrete operand
\* that only a flag makes symbolic gets 32.  The model keeps to such instructions.
ASSUME SortsAssumption ==
  \A i \in Instr :
    /\ i.op \in {"add", "or", "sbb", "and", "sub", "xor", "cmp", "test", "cmpxchg", "imul"} =>
         Size[i.src] = Size[i.dst]
    /\ i.op \in {"inc", "dec", "movzx", "movsx", "cmov"} =>
         \A l \in Loc : Size[l] <= Size[i.dst]
    /\ i.op = "movsx" => \A l \in Loc : Size[i.src] <= Size[l]

\* On numbers: lsb and size are given as powers of two.
ExtractBits(v, lsb, size) == (v \div lsb) % size
ConcatBits(high, low, lowSize) == high * lowSize + low

\* A place's value, or expression, from those of its cells; and back.
Joined(l, cells) ==
  IF Wide(l) THEN [x \in Input |-> ConcatBits(cells[High[l]][x], cells[Low[l]][x], CellSize[Low[l]])]
             ELSE cells[Low[l]]
PartOf(l, c, v) ==
  [x \in Input |-> ExtractBits(v[x], IF c = Low[l] THEN 1 ELSE CellSize[Low[l]], CellSize[c])]
Stored(cells, l, v) ==
  [c \in Cell |-> IF c \in Cells(l) THEN PartOf(l, c, v) ELSE cells[c]]

Value(l) == Joined(l, reg)

-----------------------------------------------------------------------------
(* What an instruction reads and writes, from the disassembler.             *)

Unary   == {"inc", "dec", "neg", "not"}
Moves   == {"mov", "movzx", "movsx", "unknown"}

Written(i) ==
  (IF i.op \in {"cmp", "test", "jump"} THEN {} ELSE {i.dst})
    \cup (IF i.op = "cmpxchg" THEN {Accumulator} ELSE {})
Reads(i) ==
  (IF i.op \in Moves \cup {"set", "jump", "imul"} THEN {} ELSE {i.dst})
    \cup (IF i.op \in Unary \cup {"set", "jump"} THEN {} ELSE {i.src})
    \cup (IF i.op = "cmpxchg" THEN {Accumulator} ELSE {})

CondFlags(cond) ==
  CASE cond = "O" -> {"OF"}  [] cond = "B"  -> {"CF"}
    [] cond = "E" -> {"ZF"}  [] cond = "BE" -> {"ZF", "CF"}
    [] cond = "S" -> {"SF"}  [] cond = "P"  -> {"PF"}
    [] cond = "L" -> {"SF", "OF"} [] cond = "LE" -> {"ZF", "SF", "OF"}
TestFlags(i) ==
  IF i.op \in CondOp THEN CondFlags(i.cond)
  ELSE IF i.op \in {"adc", "sbb"} THEN {"CF"} ELSE {}
ModFlags(i) ==
  IF i.op \in Moves \cup CondOp \cup {"not"} THEN {}
  ELSE IF i.op \in {"inc", "dec"} THEN Flag \ {"CF"} ELSE Flag

-----------------------------------------------------------------------------
(* The processor.                                                           *)

Taken(i, x) ==
  LET f == [flag \in Flag |-> cpu[flag][x]]
      holds == CASE i.cond = "O" -> f["OF"] [] i.cond = "B"  -> f["CF"]
                 [] i.cond = "E" -> f["ZF"] [] i.cond = "BE" -> f["CF"] \/ f["ZF"]
                 [] i.cond = "S" -> f["SF"] [] i.cond = "P"  -> f["PF"]
                 [] i.cond = "L"  -> f["SF"] # f["OF"]
                 [] i.cond = "LE" -> f["ZF"] \/ f["SF"] # f["OF"]
  IN holds # i.negated

Carry(x) == IF cpu["CF"][x] THEN 1 ELSE 0

\* imul has an immediate, 3.
Alu(i, a, b, x) ==
  LET n == Size[i.dst]
  IN CASE i.op \in {"mov", "movzx", "unknown"} -> b
       [] i.op = "movsx" -> Signed(b, Size[i.src]) % n
       [] i.op = "set"   -> IF Taken(i, x) THEN 1 ELSE 0
       [] i.op = "cmov"  -> IF Taken(i, x) THEN b ELSE a
       [] i.op = "add" -> (a + b) % n        [] i.op = "inc" -> (a + 1) % n
       [] i.op = "adc" -> (a + b + Carry(x)) % n
       [] i.op \in {"sub", "cmp"} -> (a - b) % n
       [] i.op = "dec" -> (a - 1) % n        [] i.op = "neg" -> (-a) % n
       [] i.op = "sbb" -> (a - b - Carry(x)) % n
       [] i.op \in {"and", "test"} -> BitAnd(a, b)
       [] i.op = "or"  -> BitOr(a, b)           [] i.op = "xor" -> BitXor(a, b)
       [] i.op = "shl" -> (2 * a) % n        [] i.op = "not" -> n - 1 - a
       [] i.op = "imul" -> (3 * b) % n
       [] OTHER -> a

AluFlag(i, f, a, b, x) ==
  LET n == Size[i.dst]  c == Carry(x)
      sa == Signed(a, n)  sb == Signed(b, n)  r == Alu(i, a, b, x)
  IN CASE f = "ZF" -> r = 0
       [] f = "SF" -> Msb(r, n)
       [] f = "PF" -> ~BitOdd(r)
       [] f = "CF" -> \/ i.op = "add" /\ AddCarries(a, b, n)
                      \/ i.op = "adc" /\ a + b + c >= n
                      \/ i.op \in {"sub", "cmp"} /\ SubBorrows(a, b, n)
                      \/ i.op = "sbb" /\ a < b + c
                      \/ i.op = "neg" /\ a # 0
                      \/ i.op = "shl" /\ Msb(a, n)
       [] f = "OF" -> \/ i.op = "add" /\ AddOverflows(a, b, n)
                      \/ i.op = "adc" /\ Signed(r, n) # sa + sb + c
                      \/ i.op \in {"sub", "cmp"} /\ SubOverflows(a, b, n)
                      \/ i.op = "sbb" /\ Signed(r, n) # sa - sb - c
                      \/ i.op = "inc" /\ AddOverflows(a, 1, n)
                      \/ i.op = "dec" /\ SubOverflows(a, 1, n)
                      \/ i.op = "neg" /\ SubOverflows(0, a, n)
                      \/ i.op = "shl" /\ Msb(a, n) # Msb(r, n)

Executed(i) ==
  \E a \in {Value(i.dst)}, b \in {Value(i.src)} :
    /\ reg' = IF Written(i) = {} THEN reg
              ELSE Stored(reg, i.dst, [x \in Input |-> Alu(i, a[x], b[x], x)])
    /\ cpu' = [f \in Flag |-> IF f \in ModFlags(i)
                                THEN [x \in Input |-> AluFlag(i, f, a[x], b[x], x)] ELSE cpu[f]]

\* The accumulator and dst are compared; one of the two is replaced.
Exchanged(i) ==
  \E acc \in {Value(Accumulator)}, a \in {Value(i.dst)}, b \in {Value(i.src)} :
    LET same(x) == acc[x] = a[x]
        cmp == [i EXCEPT !.op = "cmp"]
    IN /\ reg' = Stored(Stored(reg, Accumulator, a), i.dst,
                       [x \in Input |-> IF same(x) THEN b[x] ELSE a[x]])
       /\ cpu' = [f \in Flag |-> [x \in Input |-> AluFlag(cmp, f, acc[x], a[x], x)]]

Machine(i) == IF i.op = "cmpxchg" THEN Exchanged(i) ELSE Executed(i)

-----------------------------------------------------------------------------
(* Execute: the operands and the flags the instruction reads.               *)

\* The value the run has; the executor knows no other of a concrete operand.
MakeConst(v) == [x \in Input |-> v[payload]]

\* GetSymbolicValues: a concrete operand, or cell of an operand, becomes a constant.
Ast(l) ==
  Joined(l, [c \in Cells(l) |-> IF sym[c] # NoAst THEN sym[c] ELSE MakeConst(reg[c])])

SymbolicPlace(l) == \E c \in Cells(l) : sym[c] # NoAst

\* Eval of the lazy flag f.
Eval(f, lazy, x) ==
  CASE f = "ZF" -> lazy.source[x] = 0
    [] f = "SF" -> Msb(lazy.source[x], lazy.size)
    [] f = "PF" -> BitOdd(lazy.source[x])
    [] f = "CF" -> FlagCF(lazy.func, lazy.p0[x], lazy.p1[x], lazy.source[x],
                          lazy.cf[x], lazy.size)
    [] f = "OF" -> FlagOF(lazy.func, lazy.p0[x], lazy.p1[x], lazy.source[x], lazy.size)

FlagAst(f) ==
  IF flg[f] = NoLazy THEN MakeConst(cpu[f])
                     ELSE [x \in Input |-> Eval(f, flg[f], x)]

\* A flag without a formula, or without a result, cannot be evaluated.
Broken(f) ==
  flg[f] # NoLazy /\ (FlagBreaks(f, flg[f].func) \/ flg[f].source = NoAst)

\* Mutant of IsSymbolic: only the operands are asked for.
IsSymbolicOperands(i) == \E l \in Reads(i) : SymbolicPlace(l)

IsSymbolic(i) ==
  \/ \E l \in Reads(i) : SymbolicPlace(l)
  \/ \E f \in TestFlags(i) : flg[f] # NoLazy

SetOperand(l, ast) == sym' = Stored(sym, l, ast)

\* No symbolic operand: what the instruction modifies is unset, a flag only if
\* the symbolic field of its FlagInfo, which nothing initialises, is not null.
Unset(i) ==
  /\ sym' = [c \in Cell |-> IF \E l \in Written(i) : c \in Cells(l) THEN NoAst ELSE sym[c]]
  /\ \E null \in SUBSET ModFlags(i) :
       /\ (null # {} => FALSE \in Leftover) /\ (null # ModFlags(i) => TRUE \in Leftover)
       /\ flg' = [f \in Flag |-> IF f \in ModFlags(i) \ null THEN NoLazy ELSE flg[f]]

-----------------------------------------------------------------------------
(* The handlers of executeFuncs.                                            *)

\* movzx adds zeros, which is nothing to a number.
Mov(i) ==
  /\ i.op \in {"mov", "movzx"}
  /\ SetOperand(i.dst, Ast(i.src))
  /\ UNCHANGED <<flg, test>>

\* Mutant of MovSx: the bits of the source are extended a second time.
MovSxTooWide(i) ==
  /\ i.op = "movsx"
  /\ \E a \in {Ast(i.src)} :
       sym' = [Stored(sym, i.dst, a) EXCEPT
                 ![High[i.dst]] = [x \in Input |-> IF Msb(a[x], Size[i.src]) THEN Size[i.dst] ELSE 0]]
  /\ UNCHANGED <<flg, test>>

MovSx(i) ==
  /\ i.op = "movsx"
  /\ \E a \in {Ast(i.src)} :
       SetOperand(i.dst, [x \in Input |-> IF Msb(a[x], Size[i.src])
                                            THEN a[x] + Size[i.dst] - Size[i.src] ELSE a[x]])
  /\ UNCHANGED <<flg, test>>

\* Mutant of CondAst: the signed and the unsigned comparison are swapped.
CondAstUnsigned(i) ==
  LET F(f, x) == FlagAst(f)[x]
      Cond(x) == CASE i.cond = "O" -> F("OF", x) [] i.cond \in {"B", "L"} -> F("CF", x)
                   [] i.cond = "E" -> F("ZF", x)
                   [] i.cond \in {"BE", "LE"} -> F("ZF", x) \/ F("CF", x)
                   [] i.cond = "S" -> F("SF", x) [] i.cond = "P" -> F("PF", x)
  IN [x \in Input |-> Cond(x) # i.negated]

\* The template arguments of the conditional handlers.
CondAst(i) ==
  LET F(f, x) == FlagAst(f)[x]
      Cond(x) == CASE i.cond = "O" -> F("OF", x) [] i.cond = "B"  -> F("CF", x)
                   [] i.cond = "E" -> F("ZF", x) [] i.cond = "BE" -> F("ZF", x) \/ F("CF", x)
                   [] i.cond = "S" -> F("SF", x) [] i.cond = "P"  -> F("PF", x)
                   [] i.cond = "L"  -> ~(F("SF", x) = F("OF", x))
                   [] i.cond = "LE" -> F("ZF", x) \/ ~(F("SF", x) = F("OF", x))
  IN [x \in Input |-> Cond(x) # i.negated]

JumpCC(i) ==
  /\ i.op = "jump"
  /\ test' = [symbolicCond |-> CondAst(i), taken |-> [x \in Input |-> Taken(i, x)]]
  /\ UNCHANGED <<sym, flg>>

SetCC(i) ==
  /\ i.op = "set"
  /\ \E c \in {CondAst(i)} : SetOperand(i.dst, [x \in Input |-> IF c[x] THEN 1 ELSE 0])
  /\ UNCHANGED <<flg, test>>

CmovCC(i) ==
  /\ i.op = "cmov"
  /\ \E c \in {CondAst(i)}, a \in {Ast(i.dst)}, b \in {Ast(i.src)} :
       SetOperand(i.dst, [x \in Input |-> IF c[x] THEN b[x] ELSE a[x]])
  /\ UNCHANGED <<flg, test>>

\* The flags are left as they are.
Cmpxchg(i) ==
  /\ i.op = "cmpxchg"
  /\ \E eax \in {Ast(Accumulator)}, o1 \in {Ast(i.dst)}, o2 \in {Ast(i.src)} :
       LET r1 == [x \in Input |-> IF eax[x] = o1[x] THEN eax[x] ELSE o1[x]]
           r2 == [x \in Input |-> IF eax[x] = o1[x] THEN o2[x] ELSE o1[x]]
       IN sym' = Stored(Stored(sym, Accumulator, r1), i.dst, r2)
  /\ UNCHANGED <<flg, test>>

\* The loop over the factors returns in its second round, if not before; what it
\* unsets, a factor without an expression, GetSymbolicValues has made a constant.
Imul(i) == i.op = "imul" /\ UNCHANGED <<sym, flg, test>>

Common == {"add", "or", "sbb", "and", "sub", "xor", "cmp", "test", "inc", "dec",
           "neg", "not", "shl"}
FuncCode(op) ==
  CASE op = "add" -> "ADD" [] op = "sub" -> "SUB" [] op = "cmp" -> "CMP"
    [] op = "sbb" -> "SBB" [] op = "or" -> "OR"   [] op = "xor" -> "XOR"
    [] op \in {"and", "test"} -> "AND"            [] op \in {"inc", "dec"} -> "INC"
    [] op = "neg" -> "NEG" [] op = "not" -> "NOT" [] op = "shl" -> "SHL"
LookupUnsetFlags(func) == IF func \in {"OR", "AND", "XOR"} THEN {"CF", "OF"} ELSE {}

\* What the function of a common operation builds.
Built(op, a, b, c, n) ==
  CASE op = "add" -> BvAdd(a, b, n) [] op \in {"sub", "cmp"} -> BvSub(a, b, n)
    [] op = "inc" -> BvAdd(a, 1, n) [] op = "dec" -> BvSub(a, 1, n)
    [] op = "neg" -> BvSub(0, a, n)
    [] op = "sbb" -> BvSub(a, BvAdd(b, IF c THEN 1 ELSE 0, n), n)
    [] op \in {"and", "test"} -> BitAnd(a, b)
    [] op = "or"  -> BitOr(a, b) [] op = "xor" -> BitXor(a, b)
    [] op = "shl" -> BvAdd(a, a, n) [] op = "not" -> n - 1 - a

\* The operations that call SetOperand.
Stores == {"add", "or", "sbb", "and", "sub", "xor", "inc", "dec", "neg"}

\* ExecuteXor gives up when its operands are one expression.  Equal expressions
\* built in different ways may be two.
MayGiveUp(i) ==
  {i.op = "xor" /\ (i.dst = i.src \/ Ast(i.dst) = Ast(i.src))}
    \cup (IF i.dst = i.src THEN {} ELSE {FALSE})

Lazy(i, ret) ==
  [func |-> FuncCode(i.op), p0 |-> Ast(i.dst), p1 |-> Ast(i.src), source |-> ret,
   cf |-> IF "CF" \in TestFlags(i) THEN FlagAst("CF") ELSE NoAst,
   size |-> Size[i.dst]]

\* Mutant of SetFlags: inc and dec take the carry flag, too.
SetFlagsAll(i, ret) ==
  flg' = [f \in Flag |->
            IF f \in LookupUnsetFlags(FuncCode(i.op)) THEN NoLazy
            ELSE IF i.op = "not" THEN flg[f] ELSE Lazy(i, ret)]

SetFlags(i, ret) ==
  flg' = [f \in Flag |->
            IF f \notin ModFlags(i) THEN flg[f]
            ELSE IF f \in LookupUnsetFlags(FuncCode(i.op)) THEN NoLazy
            ELSE Lazy(i, ret)]

CommonOperation(i) ==
  /\ i.op \in Common
  /\ \E givesUp \in MayGiveUp(i), a \in {Ast(i.dst)}, b \in {Ast(i.src)},
        c \in {IF "CF" \in TestFlags(i) THEN FlagAst("CF")
                                        ELSE [x \in Input |-> FALSE]} :
       LET ret == IF givesUp THEN NoAst
                  ELSE [x \in Input |-> Built(i.op, a[x], b[x], c[x], Size[i.dst])]
       IN /\ SetFlags(i, ret)
          /\ IF i.op \in Stores /\ ~givesUp THEN SetOperand(i.dst, ret) ELSE UNCHANGED sym
  /\ UNCHANGED test

\* An opcode that is not in the table is skipped.
Unknown(i) == i.op = "unknown" /\ UNCHANGED <<sym, flg, test>>

Handler(i) ==
  \/ Mov(i) \/ MovSx(i) \/ SetCC(i) \/ CmovCC(i) \/ JumpCC(i)
  \/ Cmpxchg(i) \/ Imul(i) \/ CommonOperation(i) \/ Unknown(i)

\* The handlers that lose a result: xor of an expression with itself, a shift or
\* a not, which do not store it, a borrow, whose carry is an addition's, the
\* conditions on the parity flag, which is its own negation, imul, and the opcodes
\* without a handler.
Incomplete(i) ==
  \/ i.op \in {"not", "shl", "sbb", "imul", "unknown"}
  \/ i.op = "xor" /\ TRUE \in MayGiveUp(i)
  \/ i.op \in CondOp /\ i.cond = "P"

\* A stale flag can make an operand wrong, or an instruction concrete.
TestsStale(i) == TestFlags(i) \cap stale # {}

-----------------------------------------------------------------------------

\* DEBUG_BREAK: a flag that cannot be evaluated, or ADC.
Stops(i) == i.op = "adc" \/ \E f \in TestFlags(i) : Broken(f)

ExecuteConcrete(i) ==
  /\ ~IsSymbolic(i) /\ Unset(i) /\ Machine(i)
  /\ stale' = (stale \ ModFlags(i)) \cup {f \in ModFlags(i) : flg'[f] # NoLazy}
  /\ lost' = (lost \/ TestsStale(i))
  /\ UNCHANGED <<stopped, test>>

ExecuteSymbolic(i) ==
  /\ IsSymbolic(i) /\ ~Stops(i) /\ Handler(i) /\ Machine(i)
  /\ stale' = IF i.op = "cmpxchg" THEN Flag ELSE stale \ ModFlags(i)
  /\ lost' = (lost \/ Incomplete(i) \/ TestsStale(i))
  /\ UNCHANGED stopped

ExecuteStops(i) ==
  /\ IsSymbolic(i) /\ Stops(i) /\ stopped' = TRUE
  /\ UNCHANGED <<machine, sym, flg, test, stale, lost>>

Execute(i) ==
  /\ ~stopped /\ steps < MaxSteps
  /\ ExecuteConcrete(i) \/ ExecuteSymbolic(i) \/ ExecuteStops(i)
  /\ steps' = steps + 1 /\ UNCHANGED payload

CreateVariable(c) == First[c]

Init ==
  /\ payload \in Payload /\ steps = 0 /\ stopped = FALSE
  /\ reg = First /\ cpu = [f \in Flag |-> [x \in Input |-> FALSE]]
  /\ sym = [c \in Cell |-> IF c \in Symbolic THEN CreateVariable(c) ELSE NoAst]
  /\ flg = [f \in Flag |-> NoLazy] /\ test = NoTest
  /\ stale = {} /\ lost = FALSE

Next == \E i \in Instr : Execute(i)

Spec == Init /\ [][Next]_vars

-----------------------------------------------------------------------------
(* Properties.                                                              *)

Fits(ast, c) == DOMAIN ast = Input /\ \A x \in Input : ast[x] \in 0 .. CellSize[c] - 1

\* Every variable has its type: the processor and the expressions stay within
\* the widths of their cells.
TypeOK ==
  /\ payload \in Payload /\ steps \in 0 .. MaxSteps /\ stopped \in BOOLEAN
  /\ stale \subseteq Flag /\ lost \in BOOLEAN
  /\ \A c \in Cell : Fits(reg[c], c) /\ (sym[c] = NoAst \/ Fits(sym[c], c))
  /\ \A f \in Flag : cpu[f] \in [Input -> BOOLEAN]

\* As long as no result is lost, the expression of a cell gives, for every input and
\* not only for the one that is run, the value the processor would have in it; and a
\* cell without an expression has the same value whatever the input.  This takes the
\* parts of a register that are concrete, when the others are not, to be put in as
\* constants.
OperandsExact ==
  ~lost =>
    \A c \in Cell : IF sym[c] # NoAst THEN sym[c] = reg[c]
                    ELSE \A x \in Input : reg[c][x] = reg[c][payload]

\* The flags no formula gives after a complete handler.
Unreadable == {<<"OF", "INC">>, <<"CF", "NEG">>, <<"OF", "NEG">>}

\* The same of the flags, however long after the operation that set it a flag is
\* evaluated, except of the parity flag and of those that cmpxchg, or a stale
\* pointer that is null, has left as they were before; and no flag stops the
\* tracer but the overflow after inc, dec and neg and the carry after neg.
FlagsExact ==
  ~lost => \A f \in Flag \ ({"PF"} \cup stale) :
    IF flg[f] # NoLazy THEN IF Broken(f) THEN <<f, flg[f].func>> \in Unreadable
                         ELSE FlagAst(f) = cpu[f]
    ELSE \A x \in Input : cpu[f][x] = cpu[f][payload]

\* The condition recorded for a jump is true of the inputs that take it, and of
\* no other: an input that solves its negation takes the other branch.
ConditionsExact == ~lost => test.symbolicCond = test.taken
=============================================================================
