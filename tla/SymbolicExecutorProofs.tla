------------------------ MODULE SymbolicExecutorProofs ------------------------
(***************************************************************************)
(* Proofs about SymbolicExecutor: for programs of any length, cells of any *)
(* size and any set of inputs, the expressions are what the processor      *)
(* computes.                                                               *)
(*                                                                         *)
(* The properties need each other to be inductive: an operand is exact     *)
(* only as long as the flags it was selected by are, and a flag only as    *)
(* long as the operands it keeps are.  The parity flag, which FlagsExact   *)
(* leaves out, must at least be concrete where it has no formula: a        *)
(* condition on it is then the same for all inputs.  Nothing is assumed of *)
(* the fields that are not initialised: a flag that they leave standing is *)
(* stale, and of a stale flag nothing is claimed until it is set again.    *)
(***************************************************************************)
EXTENDS SymbolicExecutor, TLAPS

-----------------------------------------------------------------------------
(* The flag formulas are the processor's flags, for bit vectors of every    *)
(* size and not only of the size TLC checks.                                *)

\* The remainders of a sum and of a difference, without the remainder.
LEMMA Remainders ==
  ASSUME NEW n \in Nat \ {0}, NEW a \in 0 .. n - 1, NEW b \in 0 .. n - 1
  PROVE  /\ BvAdd(a, b, n) = IF a + b >= n THEN a + b - n ELSE a + b
         /\ BvSub(a, b, n) = IF a < b THEN a - b + n ELSE a - b
  BY SMT DEF BvAdd, BvSub

\* The carry flag of an ADD is the carry out of the addition.
THEOREM CarryOfAdd ==
  ASSUME NEW h \in Nat \ {0}, NEW n, n = 2 * h,
         NEW a \in 0 .. n - 1, NEW b \in 0 .. n - 1, NEW cf
  PROVE  FlagCF("ADD", a, b, BvAdd(a, b, n), cf, n) <=> AddCarries(a, b, n)
  BY Remainders, SMT DEF FlagCF, CarryOut, Msb, AddCarries

\* The carry flag of a SUB and of a CMP is the borrow of the subtraction.
THEOREM CarryOfSub ==
  ASSUME NEW h \in Nat \ {0}, NEW n, n = 2 * h,
         NEW a \in 0 .. n - 1, NEW b \in 0 .. n - 1, NEW cf,
         NEW func \in {"SUB", "CMP"}
  PROVE  FlagCF(func, a, b, BvSub(a, b, n), cf, n) <=> SubBorrows(a, b, n)
  BY Remainders, SMT DEF FlagCF, CarryOut, Msb, SubBorrows

\* The overflow flag of an ADD says that the signed sum does not fit.
THEOREM OverflowOfAdd ==
  ASSUME NEW h \in Nat \ {0}, NEW n, n = 2 * h,
         NEW a \in 0 .. n - 1, NEW b \in 0 .. n - 1
  PROVE  FlagOF("ADD", a, b, BvAdd(a, b, n), n) <=> AddOverflows(a, b, n)
<1> DEFINE r == BvAdd(a, b, n)
<1>1. r = IF a + b >= n THEN a + b - n ELSE a + b
  BY Remainders
<1>2. FlagOF("ADD", a, b, r, n)
        <=> /\ (2 * a >= n) # (2 * r >= n)
            /\ (2 * b >= n) # (2 * r >= n)
  BY SMT DEF FlagOF, Msb
<1>3. AddOverflows(a, b, n)
        <=> /\ (2 * a >= n) # (2 * r >= n)
            /\ (2 * b >= n) # (2 * r >= n)
  <2> HIDE DEF r
  <2>1. Signed(r, n) = IF 2 * r >= n THEN r - n ELSE r
    BY DEF Signed, Msb
  <2>2. Signed(a, n) = IF 2 * a >= n THEN a - n ELSE a
    BY DEF Signed, Msb
  <2>3. Signed(b, n) = IF 2 * b >= n THEN b - n ELSE b
    BY DEF Signed, Msb
  <2>4. AddOverflows(a, b, n) <=> Signed(r, n) # Signed(a, n) + Signed(b, n)
    BY DEF AddOverflows, r
  <2> QED BY <1>1, <2>1, <2>2, <2>3, <2>4, SMT
<1> QED BY <1>2, <1>3

\* The overflow flag of a SUB and of a CMP says that the signed difference does
\* not fit.
THEOREM OverflowOfSub ==
  ASSUME NEW h \in Nat \ {0}, NEW n, n = 2 * h,
         NEW a \in 0 .. n - 1, NEW b \in 0 .. n - 1,
         NEW func \in {"SUB", "CMP"}
  PROVE  FlagOF(func, a, b, BvSub(a, b, n), n) <=> SubOverflows(a, b, n)
<1> DEFINE r == BvSub(a, b, n)
<1>1. r = IF a < b THEN a - b + n ELSE a - b
  BY Remainders
<1>2. FlagOF(func, a, b, r, n)
        <=> /\ (2 * a >= n) # (2 * r >= n)
            /\ (2 * b >= n) = (2 * r >= n)
  BY SMT DEF FlagOF, Msb
<1>3. SubOverflows(a, b, n)
        <=> /\ (2 * a >= n) # (2 * r >= n)
            /\ (2 * b >= n) = (2 * r >= n)
  <2> HIDE DEF r
  <2>1. Signed(r, n) = IF 2 * r >= n THEN r - n ELSE r
    BY DEF Signed, Msb
  <2>2. Signed(a, n) = IF 2 * a >= n THEN a - n ELSE a
    BY DEF Signed, Msb
  <2>3. Signed(b, n) = IF 2 * b >= n THEN b - n ELSE b
    BY DEF Signed, Msb
  <2>4. SubOverflows(a, b, n) <=> Signed(r, n) # Signed(a, n) - Signed(b, n)
    BY DEF SubOverflows, r
  <2> QED BY <1>1, <2>1, <2>2, <2>3, <2>4, SMT
<1> QED BY <1>2, <1>3

-----------------------------------------------------------------------------
(* The invariant.                                                           *)

\* The vectors of n values, one for each input.
Bits(n) == [Input -> 0 .. n - 1]

Sized(cells)  == \A c \in Cell : cells[c] \in Bits(CellSize[c])
Tracked(asts) == \A c \in Cell : asts[c] = NoAst \/ asts[c] \in Bits(CellSize[c])

\* What the types need besides TypeOK.
Typed ==
  /\ payload \in Payload /\ steps \in 0 .. MaxSteps /\ stopped \in BOOLEAN
  /\ stale \subseteq Flag /\ lost \in BOOLEAN
  /\ Sized(reg) /\ Tracked(sym)
  /\ cpu \in [Flag -> [Input -> BOOLEAN]]

\* The expressions asts are those of the values cells, of a run on input p.
Exact(asts, cells, p) ==
  \A c \in Cell : IF asts[c] # NoAst THEN asts[c] = cells[c]
                  ELSE \A x \in Input : cells[c][x] = cells[c][p]

\* What the environment has for a flag is right.
FlagRight(f) ==
  IF flg[f] = NoLazy THEN \A x \in Input : cpu[f][x] = cpu[f][payload]
  ELSE f # "PF" => IF Broken(f) THEN <<f, flg[f].func>> \in Unreadable ELSE FlagAst(f) = cpu[f]

FlagsRight == ~lost => \A f \in Flag \ stale : FlagRight(f)
CellsRight == ~lost => Exact(sym, reg, payload)

IInv == Typed /\ CellsRight /\ FlagsRight /\ ConditionsExact

-----------------------------------------------------------------------------
(* Sizes and places.                                                        *)

LEMMA CellSizes ==
  ASSUME NEW c \in Cell
  PROVE  /\ CellSize[c] \in Nat \ {0}
         /\ \E h \in Nat \ {0} : CellSize[c] = 2 * h
<1>1. CellSize[c] \in Nat \ {0} /\ CellSize[c] % 2 = 0
  BY PlacesAssumption
<1> DEFINE n == CellSize[c]
           h == n \div 2
<1> HIDE DEF n
<1>2. n \in Nat \ {0} /\ n % 2 = 0
  BY <1>1 DEF n
<1>3. h \in Nat \ {0} /\ n = 2 * h
  BY <1>2
<1> QED
  BY <1>2, <1>3 DEF n

LEMMA Places ==
  ASSUME NEW l \in Loc
  PROVE  /\ Low[l] \in Cell /\ Low[l] \in Cells(l) /\ Cells(l) \subseteq Cell
         /\ Wide(l) => High[l] \in Cell /\ High[l] \in Cells(l)
  BY PlacesAssumption DEF Cells, Wide

LEMMA EvenProduct ==
  ASSUME NEW h \in Nat \ {0}, NEW m \in Nat \ {0}
  PROVE  h * m \in Nat \ {0} /\ (2 * h) * m = 2 * (h * m)
  OBVIOUS

LEMMA Sizes ==
  ASSUME NEW l \in Loc
  PROVE  /\ Size[l] \in Nat \ {0} /\ \E h \in Nat \ {0} : Size[l] = 2 * h
         /\ Wide(l) => Size[l] = CellSize[Low[l]] * CellSize[High[l]]
         /\ ~Wide(l) => Size[l] = CellSize[Low[l]]
<1>1. PICK h \in Nat \ {0} : CellSize[Low[l]] = 2 * h
  BY Places, CellSizes
<1>2. CASE Wide(l)
  <2> DEFINE m == CellSize[High[l]]
  <2>1. m \in Nat \ {0}
    BY <1>2, Places, CellSizes
  <2>2. Size[l] = (2 * h) * m
    BY <1>1, <1>2 DEF Size
  <2> HIDE DEF m
  <2>3. h * m \in Nat \ {0} /\ Size[l] = 2 * (h * m)
    BY <1>1, <2>1, <2>2, EvenProduct
  <2> DEFINE g == h * m
  <2>4. g \in Nat \ {0} /\ Size[l] = 2 * g
    BY <2>3
  <2> HIDE DEF g
  <2> QED
    BY <1>1, <1>2, <2>2, <2>4 DEF m
<1>3. CASE ~Wide(l)
  <2>1. CellSize[Low[l]] \in Nat \ {0}
    BY Places, CellSizes
  <2>2. Size[l] = CellSize[Low[l]] * 1
    BY <1>3 DEF Size
  <2> QED
    BY <1>1, <1>3, <2>1, <2>2
<1> QED
  BY <1>2, <1>3

LEMMA Concatenated ==
  ASSUME NEW s \in Nat \ {0}, NEW t \in Nat \ {0}, NEW low \in 0 .. s - 1, NEW high \in 0 .. t - 1
  PROVE  ConcatBits(high, low, s) \in 0 .. s * t - 1
<1>1. /\ high * s \in Nat /\ high * s <= (t - 1) * s
      /\ (t - 1) * s = s * t - s
  BY Z3
<1> DEFINE a == high * s
           b == s * t
<1>2. a \in Nat /\ b \in Int /\ a <= b - s
  BY <1>1
<1> HIDE DEF a, b
<1>3. a + low \in 0 .. b - 1
  BY <1>2
<1> QED
  BY <1>3 DEF ConcatBits, a, b

\* What is put together from cells has the size of the place.
LEMMA JoinedFits ==
  ASSUME NEW l \in Loc, NEW cells, \A c \in Cells(l) : cells[c] \in Bits(CellSize[c])
  PROVE  Joined(l, cells) \in Bits(Size[l])
<1>1. cells[Low[l]] \in Bits(CellSize[Low[l]]) /\ CellSize[Low[l]] \in Nat \ {0}
  BY Places, CellSizes
<1>2. CASE Wide(l)
  <2>1. /\ cells[High[l]] \in Bits(CellSize[High[l]]) /\ CellSize[High[l]] \in Nat \ {0}
        /\ Size[l] = CellSize[Low[l]] * CellSize[High[l]]
    BY <1>2, Places, CellSizes, Sizes
  <2>2. ASSUME NEW x \in Input
        PROVE  ConcatBits(cells[High[l]][x], cells[Low[l]][x], CellSize[Low[l]]) \in 0 .. Size[l] - 1
    <3>1. cells[High[l]][x] \in 0 .. CellSize[High[l]] - 1 /\ cells[Low[l]][x] \in 0 .. CellSize[Low[l]] - 1
      BY <1>1, <2>1 DEF Bits
    <3> QED
      BY <1>1, <2>1, <3>1, Concatenated
  <2> QED
    BY <1>2, <2>2 DEF Joined, Bits
<1>3. CASE ~Wide(l)
  BY <1>1, <1>3, Sizes DEF Joined
<1> QED
  BY <1>2, <1>3

LEMMA Extracted ==
  ASSUME NEW v \in Int, NEW lsb \in Nat \ {0}, NEW size \in Nat \ {0}
  PROVE  ExtractBits(v, lsb, size) \in 0 .. size - 1
<1> DEFINE q == v \div lsb
<1>1. q \in Int
  BY Z3
<1> HIDE DEF q
<1>2. q % size \in 0 .. size - 1
  BY <1>1
<1> QED
  BY <1>2 DEF ExtractBits, q

\* A vector of numbers, whatever their size.
Numbers(v) == \A x \in Input : v[x] \in Int

LEMMA StoredFits ==
  ASSUME NEW l \in Loc, NEW cells, NEW v, Numbers(v)
  PROVE  /\ \A c \in Cells(l) : Stored(cells, l, v)[c] \in Bits(CellSize[c])
         /\ \A c \in Cell \ Cells(l) : Stored(cells, l, v)[c] = cells[c]
<1>1. ASSUME NEW c \in Cells(l)
      PROVE  PartOf(l, c, v) \in Bits(CellSize[c])
  <2> DEFINE lsb == IF c = Low[l] THEN 1 ELSE CellSize[Low[l]]
  <2>1. c \in Cell /\ CellSize[c] \in Nat \ {0} /\ lsb \in Nat \ {0}
    BY Places, CellSizes
  <2> HIDE DEF lsb
  <2>2. \A x \in Input : ExtractBits(v[x], lsb, CellSize[c]) \in 0 .. CellSize[c] - 1
    BY <2>1, Extracted DEF Numbers
  <2>3. PartOf(l, c, v) = [x \in Input |-> ExtractBits(v[x], lsb, CellSize[c])]
    BY DEF PartOf, lsb
  <2> QED
    BY <2>2, <2>3 DEF Bits
<1> QED
  BY <1>1, Places DEF Stored

LEMMA StoredSized ==
  ASSUME NEW l \in Loc, NEW cells, NEW v, Numbers(v)
  PROVE  /\ Sized(cells) => Sized(Stored(cells, l, v))
         /\ Tracked(cells) => Tracked(Stored(cells, l, v))
  BY StoredFits DEF Sized, Tracked

LEMMA PartsAgree ==
  ASSUME NEW l \in Loc, NEW c, NEW v, NEW w, \A x \in Input : v[x] = w[x]
  PROVE  PartOf(l, c, v) = PartOf(l, c, w)
  BY DEF PartOf

LEMMA NotNoAst ==
  ASSUME NEW p \in Input, NEW a, DOMAIN a = Input
  PROVE  a # NoAst
  BY DEF NoAst

\* Storing an expression and the value it stands for in one place.
LEMMA StoredExact ==
  ASSUME NEW p \in Input, NEW asts, NEW cells, Exact(asts, cells, p), NEW l \in Loc,
         NEW v, NEW w, \A x \in Input : v[x] = w[x]
  PROVE  Exact(Stored(asts, l, v), Stored(cells, l, w), p)
<1> DEFINE s == Stored(asts, l, v)
           r == Stored(cells, l, w)
<1>1. ASSUME NEW c \in Cell, c \in Cells(l)
      PROVE  s[c] # NoAst /\ s[c] = r[c]
  <2>1. s[c] = PartOf(l, c, v) /\ r[c] = PartOf(l, c, w)
    BY <1>1 DEF Stored
  <2>2. PartOf(l, c, v) = PartOf(l, c, w)
    BY PartsAgree
  <2>3. DOMAIN PartOf(l, c, v) = Input
    BY DEF PartOf
  <2>4. PartOf(l, c, v) # NoAst
    BY <2>3, NotNoAst
  <2> QED
    BY <2>1, <2>2, <2>4
<1>2. ASSUME NEW c \in Cell, c \notin Cells(l)
      PROVE  s[c] = asts[c] /\ r[c] = cells[c]
  BY <1>2 DEF Stored
<1> HIDE DEF s, r
<1>3. Exact(s, r, p)
  BY <1>1, <1>2 DEF Exact
<1> QED
  BY <1>3 DEF s, r

-----------------------------------------------------------------------------
(* Operands.                                                                *)

LEMMA PayloadIsInput == Typed => payload \in Input
  BY PlacesAssumption DEF Typed

LEMMA ValueFits ==
  ASSUME Typed, NEW l \in Loc
  PROVE  Value(l) \in Bits(Size[l])
  BY Places, JoinedFits DEF Value, Typed, Sized

\* A concrete operand is put in as the constant it has.
LEMMA AstIsValue ==
  ASSUME Typed, Exact(sym, reg, payload), NEW l \in Loc
  PROVE  Ast(l) = Value(l)
<1> DEFINE ast(c) == IF sym[c] # NoAst THEN sym[c] ELSE MakeConst(reg[c])
           asts == [c \in Cells(l) |-> ast(c)]
<1>1. ASSUME NEW c \in Cells(l)
      PROVE  asts[c] = reg[c]
  <2>1. c \in Cell /\ reg[c] \in Bits(CellSize[c])
    BY Places DEF Typed, Sized
  <2>2. CASE sym[c] # NoAst
    BY <2>1, <2>2 DEF Exact
  <2>3. CASE sym[c] = NoAst
    <3>1. \A x \in Input : reg[c][x] = reg[c][payload]
      BY <2>1, <2>3 DEF Exact
    <3>2. reg[c] = [x \in Input |-> reg[c][x]]
      BY <2>1 DEF Bits
    <3>3. MakeConst(reg[c]) = reg[c]
      BY <3>1, <3>2 DEF MakeConst
    <3> QED
      BY <2>3, <3>3
  <2> QED
    BY <2>2, <2>3
<1>2. Ast(l) = Joined(l, asts)
  BY DEF Ast
<1> HIDE DEF asts
<1>3. asts[Low[l]] = reg[Low[l]] /\ (Wide(l) => asts[High[l]] = reg[High[l]])
  BY <1>1, Places
<1> QED
  BY <1>2, <1>3 DEF Joined, Value

\* Without a symbolic cell, the value of an operand is the same for every input.
LEMMA ConcreteValue ==
  ASSUME Typed, Exact(sym, reg, payload), NEW l \in Loc, ~SymbolicPlace(l), NEW x \in Input
  PROVE  Value(l)[x] = Value(l)[payload]
<1>1. \A c \in Cells(l) : reg[c][x] = reg[c][payload]
  BY Places DEF SymbolicPlace, Exact
<1>2. payload \in Input
  BY PayloadIsInput
<1>3. reg[Low[l]][x] = reg[Low[l]][payload]
  BY <1>1, Places
<1>4. CASE Wide(l)
  <2>1. reg[High[l]][x] = reg[High[l]][payload]
    BY <1>1, <1>4, Places
  <2> QED
    BY <1>2, <1>3, <1>4, <2>1 DEF Value, Joined
<1>5. CASE ~Wide(l)
  BY <1>3, <1>5 DEF Value, Joined
<1> QED
  BY <1>4, <1>5

-----------------------------------------------------------------------------
(* The processor.                                                           *)

LEMMA AnInstruction ==
  ASSUME NEW i \in Instr
  PROVE  i.dst \in Loc /\ i.src \in Loc /\ i.cond \in Condition /\ i.negated \in BOOLEAN
  BY ProgramAssumption DEF Instruction

LEMMA Remains ==
  ASSUME NEW n \in Nat \ {0}, NEW v \in Int
  PROVE  v % n \in 0 .. n - 1
  OBVIOUS

LEMMA SignedIsInt ==
  ASSUME NEW v \in Int, NEW n \in Int
  PROVE  Signed(v, n) \in Int
  BY DEF Signed, Msb

LEMMA AluIsInt ==
  ASSUME NEW i \in Instr, NEW a \in 0 .. Size[i.dst] - 1, NEW b \in 0 .. Size[i.src] - 1, NEW x
  PROVE  Alu(i, a, b, x) \in Int
<1> DEFINE n == Size[i.dst]
           s == Signed(b, Size[i.src])
<1>1. /\ n \in Nat \ {0} /\ Size[i.src] \in Int
      /\ i.dst \in Loc /\ i.src \in Loc
  BY AnInstruction, Sizes
<1>2. a \in Int /\ b \in Int /\ s \in Int /\ Carry(x) \in Int
  <2>1. a \in Int /\ b \in Int
    OBVIOUS
  <2>2. s \in Int
    BY <1>1, <2>1, SignedIsInt
  <2>3. Carry(x) \in Int
    BY DEF Carry
  <2> QED
    BY <2>1, <2>2, <2>3
<1>3. BitAnd(a, b) \in Int /\ BitOr(a, b) \in Int /\ BitXor(a, b) \in Int
  BY <1>1, OperandsAssumption
<1>4. \A v \in Int : v % n \in Int
  BY <1>1, Remains
<1>5. Alu(i, a, b, x) = 
        CASE i.op \in {"mov", "movzx", "unknown"} -> b
          [] i.op = "movsx" -> s % n
          [] i.op = "set"   -> IF Taken(i, x) THEN 1 ELSE 0
          [] i.op = "cmov"  -> IF Taken(i, x) THEN b ELSE a
          [] i.op = "add" -> (a + b) % n        [] i.op = "inc" -> (a + 1) % n
          [] i.op = "adc" -> (a + b + Carry(x)) % n
          [] i.op \in {"sub", "cmp"} -> (a - b) % n
          [] i.op = "dec" -> (a - 1) % n        [] i.op = "neg" -> (-a) % n
          [] i.op = "sbb" -> (a - b - Carry(x)) % n
          [] i.op \in {"and", "test"} -> BitAnd(a, b)
          [] i.op = "or"  -> BitOr(a, b)           [] i.op = "xor" -> BitXor(a, b)
          [] i.op = "shl" -> (2 * a) % n        [] i.op = "not" -> n - 1 - a
          [] i.op = "imul" -> (3 * b) % n
          [] OTHER -> a
  BY DEF Alu
<1> HIDE DEF n, s
<1>6. /\ (a + b) % n \in Int /\ (a + 1) % n \in Int /\ (a + b + Carry(x)) % n \in Int
      /\ (a - b) % n \in Int /\ (a - 1) % n \in Int /\ (-a) % n \in Int
      /\ (a - b - Carry(x)) % n \in Int /\ (2 * a) % n \in Int /\ (3 * b) % n \in Int
      /\ s % n \in Int /\ n - 1 - a \in Int
  BY <1>1, <1>2, <1>4
<1> QED
  BY <1>2, <1>3, <1>5, <1>6

LEMMA FlagIsBoolean ==
  ASSUME NEW i, NEW f \in Flag, NEW a, NEW b, NEW x
  PROVE  AluFlag(i, f, a, b, x) \in BOOLEAN
<1>1. CASE f = "ZF"
  BY <1>1 DEF AluFlag
<1>2. CASE f = "SF"
  BY <1>2 DEF AluFlag, Msb
<1>3. CASE f = "PF"
  BY <1>3 DEF AluFlag
<1>4. CASE f = "CF"
  BY <1>4 DEF AluFlag
<1>5. CASE f = "OF"
  BY <1>5 DEF AluFlag
<1> QED
  BY <1>1, <1>2, <1>3, <1>4, <1>5 DEF Flag

\* What the processor computes depends only on what the disassembler says is read.
ReadsSame(i, a, b, x, c, d, y) ==
  /\ i.op \notin Moves \cup {"set", "jump", "imul"} => a = c
  /\ i.op \notin Unary \cup {"set", "jump"} => b = d
  /\ i.op \in CondOp => Taken(i, x) = Taken(i, y)
  /\ i.op \in {"adc", "sbb"} => Carry(x) = Carry(y)

LEMMA AluReads ==
  ASSUME NEW i, NEW a, NEW b, NEW x, NEW c, NEW d, NEW y, ReadsSame(i, a, b, x, c, d, y)
  PROVE  /\ i.op # "jump" => Alu(i, a, b, x) = Alu(i, c, d, y)
         /\ \A f \in ModFlags(i) : AluFlag(i, f, a, b, x) = AluFlag(i, f, c, d, y)
<1> USE DEF ReadsSame
<1>1. i.op # "jump" => Alu(i, a, b, x) = Alu(i, c, d, y)
  BY DEF Alu, Moves, Unary, CondOp
<1>2. ASSUME NEW f \in ModFlags(i)
      PROVE  AluFlag(i, f, a, b, x) = AluFlag(i, f, c, d, y)
  <2>1. i.op \notin Moves \cup CondOp \cup {"not"} /\ f \in Flag
    BY DEF ModFlags
  <2> DEFINE r == Alu(i, a, b, x)
             q == Alu(i, c, d, y)
  <2>2. r = q
    BY <1>1, <2>1 DEF CondOp
  <2> HIDE DEF r, q
  <2>3. AluFlag(i, f, a, b, x) \in BOOLEAN /\ AluFlag(i, f, c, d, y) \in BOOLEAN
    BY <2>1, FlagIsBoolean
  <2>4. CASE f \in {"ZF", "SF", "PF"}
    BY <2>2, <2>4 DEF AluFlag, r, q
  <2>5. CASE f = "CF"
    BY <2>1, <2>2, <2>5 DEF AluFlag, Unary, Moves, CondOp
  <2>6. CASE f = "OF"
    BY <2>1, <2>2, <2>6 DEF AluFlag, Unary, Moves, CondOp, r, q
  <2> QED
    BY <2>1, <2>4, <2>5, <2>6 DEF Flag
<1> QED
  BY <1>1, <1>2

LEMMA TakenReads ==
  ASSUME NEW i \in Instr, NEW x, NEW y, \A f \in CondFlags(i.cond) : cpu[f][x] = cpu[f][y]
  PROVE  Taken(i, x) = Taken(i, y)
<1>1. i.cond \in Condition
  BY AnInstruction
<1> QED
  BY <1>1 DEF Condition, CondFlags, Taken, Flag

LEMMA Flagged == \A i : TestFlags(i) \subseteq Flag \/ i.cond \notin Condition
  BY DEF TestFlags, CondFlags, Flag, Condition

\* The results of the instruction, for every input.
Result(i) == [x \in Input |-> Alu(i, Value(i.dst)[x], Value(i.src)[x], x)]
ResultFlag(i, f) == [x \in Input |-> AluFlag(i, f, Value(i.dst)[x], Value(i.src)[x], x)]
Replaced(i) ==
  [x \in Input |-> IF Value(Accumulator)[x] = Value(i.dst)[x] THEN Value(i.src)[x]
                                                             ELSE Value(i.dst)[x]]
ComparedFlag(i, f) ==
  [x \in Input |-> AluFlag([i EXCEPT !.op = "cmp"], f, Value(Accumulator)[x], Value(i.dst)[x], x)]

LEMMA MachineGives ==
  ASSUME NEW i, Machine(i)
  PROVE  /\ i.op # "cmpxchg" =>
              /\ reg' = IF Written(i) = {} THEN reg ELSE Stored(reg, i.dst, Result(i))
              /\ cpu' = [f \in Flag |-> IF f \in ModFlags(i) THEN ResultFlag(i, f) ELSE cpu[f]]
         /\ i.op = "cmpxchg" =>
              /\ reg' = Stored(Stored(reg, Accumulator, Value(i.dst)), i.dst, Replaced(i))
              /\ cpu' = [f \in Flag |-> ComparedFlag(i, f)]
<1>1. CASE i.op # "cmpxchg"
  BY <1>1 DEF Machine, Executed, Result, ResultFlag
<1>2. CASE i.op = "cmpxchg"
  BY <1>2 DEF Machine, Exchanged, Replaced, ComparedFlag
<1> QED
  BY <1>1, <1>2

LEMMA BitsAreNumbers ==
  ASSUME NEW n \in Int, NEW v \in Bits(n)
  PROVE  Numbers(v)
  BY DEF Bits, Numbers

LEMMA ResultsAreNumbers ==
  ASSUME Typed, NEW i \in Instr
  PROVE  Numbers(Result(i)) /\ Numbers(Replaced(i)) /\ Numbers(Value(i.dst))
<1>1. i.dst \in Loc /\ i.src \in Loc
  BY AnInstruction
<1>2. Value(i.dst) \in Bits(Size[i.dst]) /\ Value(i.src) \in Bits(Size[i.src])
  BY <1>1, ValueFits
<1>3. \A x \in Input : Alu(i, Value(i.dst)[x], Value(i.src)[x], x) \in Int
  BY <1>2, AluIsInt DEF Bits
<1>4. Numbers(Value(i.dst)) /\ Numbers(Value(i.src))
  BY <1>1, <1>2, Sizes, BitsAreNumbers
<1> QED
  BY <1>3, <1>4 DEF Numbers, Result, Replaced

LEMMA MachineTyped ==
  ASSUME Typed, NEW i \in Instr, Machine(i)
  PROVE  Sized(reg') /\ cpu' \in [Flag -> [Input -> BOOLEAN]]
<1>1. i.dst \in Loc /\ Accumulator \in Loc /\ Sized(reg) /\ cpu \in [Flag -> [Input -> BOOLEAN]]
  BY AnInstruction, PlacesAssumption DEF Typed
<1>2. Numbers(Result(i)) /\ Numbers(Replaced(i)) /\ Numbers(Value(i.dst))
  BY ResultsAreNumbers
<1>3. \A f \in Flag : ResultFlag(i, f) \in [Input -> BOOLEAN] /\ ComparedFlag(i, f) \in [Input -> BOOLEAN]
  BY FlagIsBoolean DEF ResultFlag, ComparedFlag
<1>4. CASE i.op # "cmpxchg"
  <2>1. Sized(Stored(reg, i.dst, Result(i)))
    BY <1>1, <1>2, StoredSized
  <2> QED
    BY <1>1, <1>3, <1>4, <2>1, MachineGives
<1>5. CASE i.op = "cmpxchg"
  <2> DEFINE once == Stored(reg, Accumulator, Value(i.dst))
  <2>1. Sized(once)
    BY <1>1, <1>2, StoredSized
  <2>2. Sized(Stored(once, i.dst, Replaced(i)))
    BY <1>1, <1>2, <2>1, StoredSized
  <2> QED
    BY <1>1, <1>3, <1>5, <2>2, MachineGives
<1> QED
  BY <1>4, <1>5

-----------------------------------------------------------------------------
(* An instruction without a symbolic operand.                               *)

\* Storing a value that is the same for every input, and forgetting the expression.
LEMMA StoredConcrete ==
  ASSUME NEW p \in Input, NEW asts, NEW cells, Exact(asts, cells, p), NEW l \in Loc,
         NEW v, \A x \in Input : v[x] = v[p],
         NEW forgot, \A c \in Cell : forgot[c] = IF c \in Cells(l) THEN NoAst ELSE asts[c]
  PROVE  Exact(forgot, Stored(cells, l, v), p)
<1> DEFINE r == Stored(cells, l, v)
<1>1. ASSUME NEW c \in Cell, c \in Cells(l), NEW x \in Input
      PROVE  r[c][x] = r[c][p]
  <2>1. r[c] = PartOf(l, c, v)
    BY <1>1 DEF Stored
  <2>2. v[x] = v[p]
    OBVIOUS
  <2> HIDE DEF r
  <2> QED
    BY <2>1, <2>2 DEF PartOf
<1>2. ASSUME NEW c \in Cell, c \notin Cells(l)
      PROVE  r[c] = cells[c]
  BY <1>2 DEF Stored
<1> HIDE DEF r
<1>3. Exact(forgot, r, p)
  BY <1>1, <1>2 DEF Exact
<1> QED
  BY <1>3 DEF r

\* What is read is the same for every input.
LEMMA ConcreteReads ==
  ASSUME IInv, NEW i \in Instr, ~IsSymbolic(i), ~lost, ~TestsStale(i), NEW x \in Input
  PROVE  /\ \A l \in Reads(i) : l \in Loc => Value(l)[x] = Value(l)[payload]
         /\ i.op \in CondOp => Taken(i, x) = Taken(i, payload)
         /\ i.op \in {"adc", "sbb"} => Carry(x) = Carry(payload)
<1>1. Typed /\ Exact(sym, reg, payload) /\ FlagsRight
  BY DEF IInv, CellsRight
<1>2. \A l \in Reads(i) : l \in Loc => Value(l)[x] = Value(l)[payload]
  BY <1>1, ConcreteValue DEF IsSymbolic
<1>3. ASSUME NEW f \in TestFlags(i)
      PROVE  cpu[f][x] = cpu[f][payload]
  <2>1. f \in Flag \ stale /\ flg[f] = NoLazy
    BY <1>1, <1>3, AnInstruction, Flagged DEF IsSymbolic, TestsStale
  <2> QED
    BY <1>1, <2>1 DEF FlagsRight, FlagRight
<1>4. i.op \in CondOp => Taken(i, x) = Taken(i, payload)
  BY <1>3, TakenReads DEF TestFlags
<1>5. i.op \in {"adc", "sbb"} => Carry(x) = Carry(payload)
  BY <1>3 DEF TestFlags, Carry, CondOp
<1> QED
  BY <1>2, <1>4, <1>5

\* and so is what is computed.
LEMMA ConcreteResults ==
  ASSUME IInv, NEW i \in Instr, ~IsSymbolic(i), ~lost, ~TestsStale(i), NEW x \in Input
  PROVE  /\ i.op \notin {"cmpxchg", "jump"} => Result(i)[x] = Result(i)[payload]
         /\ i.op # "cmpxchg" => \A f \in ModFlags(i) : ResultFlag(i, f)[x] = ResultFlag(i, f)[payload]
         /\ i.op = "cmpxchg" =>
              /\ Value(i.dst)[x] = Value(i.dst)[payload]
              /\ Replaced(i)[x] = Replaced(i)[payload]
              /\ \A f \in Flag : ComparedFlag(i, f)[x] = ComparedFlag(i, f)[payload]
<1>1. payload \in Input /\ i.dst \in Loc /\ i.src \in Loc /\ Accumulator \in Loc
  BY PayloadIsInput, AnInstruction, PlacesAssumption DEF IInv
<1>2. /\ i.op \notin Moves \cup {"set", "jump", "imul"} => Value(i.dst)[x] = Value(i.dst)[payload]
      /\ i.op \notin Unary \cup {"set", "jump"} => Value(i.src)[x] = Value(i.src)[payload]
      /\ i.op = "cmpxchg" => Value(Accumulator)[x] = Value(Accumulator)[payload]
      /\ i.op \in CondOp => Taken(i, x) = Taken(i, payload)
      /\ i.op \in {"adc", "sbb"} => Carry(x) = Carry(payload)
  BY <1>1, ConcreteReads DEF Reads
<1>3. CASE i.op # "cmpxchg"
  <2> DEFINE a == Value(i.dst)[x]
             b == Value(i.src)[x]
             c == Value(i.dst)[payload]
             d == Value(i.src)[payload]
  <2>1. /\ i.op \notin Moves \cup {"set", "jump", "imul"} => a = c
        /\ i.op \notin Unary \cup {"set", "jump"} => b = d
    BY <1>2
  <2>2. /\ Result(i)[x] = Alu(i, a, b, x) /\ Result(i)[payload] = Alu(i, c, d, payload)
        /\ \A f : /\ ResultFlag(i, f)[x] = AluFlag(i, f, a, b, x)
                 /\ ResultFlag(i, f)[payload] = AluFlag(i, f, c, d, payload)
    BY <1>1 DEF Result, ResultFlag
  <2> HIDE DEF a, b, c, d
  <2>3. /\ i.op # "jump" => Alu(i, a, b, x) = Alu(i, c, d, payload)
        /\ \A f \in ModFlags(i) : AluFlag(i, f, a, b, x) = AluFlag(i, f, c, d, payload)
    <3>1. ReadsSame(i, a, b, x, c, d, payload)
      BY <1>2, <2>1 DEF ReadsSame
    <3> QED
      BY <3>1, AluReads
  <2> QED
    BY <1>3, <2>2, <2>3
<1>4. CASE i.op = "cmpxchg"
  <2> DEFINE cmp == [i EXCEPT !.op = "cmp"]
  <2>1. /\ Value(i.dst)[x] = Value(i.dst)[payload]
        /\ Value(i.src)[x] = Value(i.src)[payload]
        /\ Value(Accumulator)[x] = Value(Accumulator)[payload]
    BY <1>2, <1>4 DEF Moves, Unary
  <2>2. cmp.op = "cmp"
    BY ProgramAssumption DEF Instruction
  <2> HIDE DEF cmp
  <2>3. ModFlags(cmp) = Flag
    BY <2>2 DEF ModFlags, Moves, CondOp
  <2> DEFINE a == Value(Accumulator)[x]
             b == Value(i.dst)[x]
             c == Value(Accumulator)[payload]
             d == Value(i.dst)[payload]
  <2>4. a = c /\ b = d
    BY <2>1
  <2>5. \A f : /\ ComparedFlag(i, f)[x] = AluFlag(cmp, f, a, b, x)
              /\ ComparedFlag(i, f)[payload] = AluFlag(cmp, f, c, d, payload)
    BY <1>1 DEF ComparedFlag, cmp
  <2> HIDE DEF a, b, c, d
  <2>6. cmp.op \notin CondOp /\ cmp.op \notin {"adc", "sbb"}
    BY <2>2 DEF CondOp
  <2>7. \A f \in ModFlags(cmp) : AluFlag(cmp, f, a, b, x) = AluFlag(cmp, f, c, d, payload)
    <3>1. ReadsSame(cmp, a, b, x, c, d, payload)
      BY <2>4, <2>6 DEF ReadsSame
    <3> QED
      BY <3>1, AluReads
  <2>8. \A f \in Flag : ComparedFlag(i, f)[x] = ComparedFlag(i, f)[payload]
    BY <2>3, <2>5, <2>7
  <2> QED
    BY <1>1, <1>4, <2>1, <2>8 DEF Replaced
<1> QED
  BY <1>3, <1>4

LEMMA ConcreteStep ==
  ASSUME IInv, NEW i \in Instr, ExecuteConcrete(i),
         steps' \in 0 .. MaxSteps, UNCHANGED payload
  PROVE  IInv'
<1>1. Typed /\ CellsRight /\ FlagsRight /\ ConditionsExact
  BY DEF IInv
<1>2. /\ ~IsSymbolic(i) /\ Unset(i) /\ Machine(i)
      /\ stale' = (stale \ ModFlags(i)) \cup {f \in ModFlags(i) : flg'[f] # NoLazy}
      /\ lost' = (lost \/ TestsStale(i)) /\ UNCHANGED <<stopped, test>>
  BY DEF ExecuteConcrete
<1>3. payload \in Input /\ i.dst \in Loc /\ Accumulator \in Loc
  BY <1>1, PayloadIsInput, AnInstruction, PlacesAssumption
<1>4. /\ sym' = [c \in Cell |-> IF \E l \in Written(i) : c \in Cells(l) THEN NoAst ELSE sym[c]]
      /\ \A f \in Flag \ ModFlags(i) : flg'[f] = flg[f]
  BY <1>2 DEF Unset
<1>5. Typed'
  <2>1. Tracked(sym')
    BY <1>1, <1>4 DEF Typed, Tracked
  <2>2. stale' \subseteq Flag /\ lost' \in BOOLEAN
    BY <1>1, <1>2 DEF Typed, ModFlags, Flag
  <2> QED
    BY <1>1, <1>2, <2>1, <2>2, MachineTyped DEF Typed
<1>6. ASSUME ~lost'
      PROVE  ~lost /\ ~TestsStale(i)
  BY <1>1, <1>2, <1>6 DEF Typed
<1>7. ASSUME ~lost'
      PROVE  Exact(sym', reg', payload)
  <2>1. Exact(sym, reg, payload)
    BY <1>1, <1>6, <1>7 DEF CellsRight
  <2>2. CASE i.op = "cmpxchg"
    <3> DEFINE forgot == [c \in Cell |-> IF c \in Cells(Accumulator) THEN NoAst ELSE sym[c]]
               once   == Stored(reg, Accumulator, Value(i.dst))
    <3>1. /\ \A x \in Input : Value(i.dst)[x] = Value(i.dst)[payload]
          /\ \A x \in Input : Replaced(i)[x] = Replaced(i)[payload]
      BY <1>2, <1>6, <1>7, <2>2, ConcreteResults
    <3>2. \A c \in Cell : forgot[c] = IF c \in Cells(Accumulator) THEN NoAst ELSE sym[c]
      OBVIOUS
    <3>3. \A c \in Cell : sym'[c] = IF c \in Cells(i.dst) THEN NoAst ELSE forgot[c]
      BY <1>4, <2>2 DEF Written
    <3>4. reg' = Stored(once, i.dst, Replaced(i))
      BY <1>2, <2>2, MachineGives
    <3> HIDE DEF forgot
    <3>5. Exact(forgot, once, payload)
      BY <1>3, <2>1, <3>1, <3>2, StoredConcrete
    <3> HIDE DEF once
    <3> QED
      BY <1>3, <3>1, <3>3, <3>4, <3>5, StoredConcrete
  <2>3. CASE i.op # "cmpxchg" /\ Written(i) = {}
    <3>1. reg' = reg
      BY <1>2, <2>3, MachineGives
    <3>2. \A c \in Cell : sym'[c] = sym[c]
      BY <1>4, <2>3
    <3> QED
      BY <2>1, <3>1, <3>2 DEF Exact
  <2>4. CASE i.op # "cmpxchg" /\ Written(i) # {}
    <3>1. Written(i) = {i.dst} /\ i.op # "jump"
      BY <2>4 DEF Written
    <3>2. reg' = Stored(reg, i.dst, Result(i))
      BY <1>2, <2>4, MachineGives
    <3>3. \A c \in Cell : sym'[c] = IF c \in Cells(i.dst) THEN NoAst ELSE sym[c]
      BY <1>4, <3>1
    <3>4. \A x \in Input : Result(i)[x] = Result(i)[payload]
      BY <1>2, <1>6, <1>7, <2>4, <3>1, ConcreteResults
    <3> QED
      BY <1>3, <2>1, <3>2, <3>3, <3>4, StoredConcrete
  <2> QED
    BY <2>2, <2>3, <2>4
<1>8. CellsRight'
  BY <1>7 DEF CellsRight
<1>9. FlagsRight'
  <2> SUFFICES ASSUME ~lost', NEW f \in Flag \ stale' PROVE FlagRight(f)'
    BY DEF FlagsRight
  <2>1. ~lost /\ ~TestsStale(i) /\ (f \notin ModFlags(i) => FlagRight(f))
    BY <1>1, <1>2, <1>6 DEF FlagsRight
  <2>2. ModFlags(i) \subseteq Flag /\ (i.op = "cmpxchg" => ModFlags(i) = Flag)
    BY DEF ModFlags, Moves, CondOp
  <2>3. CASE f \in ModFlags(i)
    <3>1. flg'[f] = NoLazy
      BY <1>2, <2>3
    <3>2. cpu'[f] = IF i.op = "cmpxchg" THEN ComparedFlag(i, f) ELSE ResultFlag(i, f)
      BY <1>2, <2>3, MachineGives
    <3>3. \A x \in Input : cpu'[f][x] = cpu'[f][payload]
      BY <1>2, <1>6, <2>1, <2>3, <3>2, ConcreteResults
    <3> QED
      BY <3>1, <3>3 DEF FlagRight
  <2>4. CASE f \notin ModFlags(i)
    <3>1. flg'[f] = flg[f] /\ cpu'[f] = cpu[f]
      BY <1>2, <1>4, <2>2, <2>4, MachineGives
    <3> QED
      BY <2>1, <2>4, <3>1 DEF FlagRight, FlagAst, MakeConst, Broken
  <2> QED
    BY <2>3, <2>4
<1>10. ConditionsExact'
  BY <1>1, <1>2, <1>6 DEF ConditionsExact
<1> QED
  BY <1>5, <1>8, <1>9, <1>10 DEF IInv

-----------------------------------------------------------------------------
(* An instruction with a symbolic operand: the types.                       *)

LEMMA AstFits ==
  ASSUME Typed, NEW l \in Loc
  PROVE  Ast(l) \in Bits(Size[l]) /\ Numbers(Ast(l))
<1> DEFINE asts == [c \in Cells(l) |-> IF sym[c] # NoAst THEN sym[c] ELSE MakeConst(reg[c])]
<1>1. payload \in Input
  BY PayloadIsInput
<1>2. ASSUME NEW c \in Cells(l)
      PROVE  asts[c] \in Bits(CellSize[c])
  <2>1. c \in Cell /\ reg[c] \in Bits(CellSize[c]) /\ (sym[c] = NoAst \/ sym[c] \in Bits(CellSize[c]))
    BY Places DEF Typed, Sized, Tracked
  <2>2. MakeConst(reg[c]) \in Bits(CellSize[c])
    BY <1>1, <2>1 DEF MakeConst, Bits
  <2> QED
    BY <2>1, <2>2
<1>3. Ast(l) = Joined(l, asts)
  BY DEF Ast
<1> HIDE DEF asts
<1>4. Ast(l) \in Bits(Size[l])
  BY <1>2, <1>3, JoinedFits
<1> QED
  BY <1>4, Sizes, BitsAreNumbers

LEMMA BuiltIsInt ==
  ASSUME NEW op \in Stores, NEW l \in Loc, NEW m \in Loc,
         NEW a \in 0 .. Size[l] - 1, NEW b \in 0 .. Size[m] - 1, NEW c
  PROVE  Built(op, a, b, c, Size[l]) \in Int
<1> DEFINE n == Size[l]
           k == BvAdd(b, IF c THEN 1 ELSE 0, n)
<1>1. n \in Nat \ {0} /\ Size[m] \in Int
  BY Sizes
<1>2. a \in Int /\ b \in Int
  OBVIOUS
<1>3. BitAnd(a, b) \in Int /\ BitOr(a, b) \in Int /\ BitXor(a, b) \in Int
  BY OperandsAssumption
<1> HIDE DEF n
<1>4. /\ BvAdd(a, b, n) \in Int /\ BvSub(a, b, n) \in Int /\ BvAdd(a, 1, n) \in Int
      /\ BvSub(a, 1, n) \in Int /\ BvSub(0, a, n) \in Int /\ k \in Int
  BY <1>1, <1>2, Remains DEF BvAdd, BvSub
<1> HIDE DEF k
<1>5. BvSub(a, k, n) \in Int
  BY <1>1, <1>2, <1>4, Remains DEF BvSub
<1>6. Built(op, a, b, c, n) =
        CASE op = "add" -> BvAdd(a, b, n) [] op \in {"sub", "cmp"} -> BvSub(a, b, n)
          [] op = "inc" -> BvAdd(a, 1, n) [] op = "dec" -> BvSub(a, 1, n)
          [] op = "neg" -> BvSub(0, a, n)
          [] op = "sbb" -> BvSub(a, k, n)
          [] op \in {"and", "test"} -> BitAnd(a, b)
          [] op = "or"  -> BitOr(a, b) [] op = "xor" -> BitXor(a, b)
          [] op = "shl" -> BvAdd(a, a, n) [] op = "not" -> n - 1 - a
  BY DEF Built, k
<1>7. Built(op, a, b, c, n) \in Int
  BY <1>3, <1>4, <1>5, <1>6 DEF Stores
<1> QED
  BY <1>7 DEF n

LEMMA HandlerTyped ==
  ASSUME Typed, NEW i \in Instr, Handler(i)
  PROVE  Tracked(sym')
<1>1. i.dst \in Loc /\ i.src \in Loc /\ Accumulator \in Loc /\ Tracked(sym)
  BY AnInstruction, PlacesAssumption DEF Typed
<1>2. /\ Numbers(Ast(i.dst)) /\ Numbers(Ast(i.src)) /\ Numbers(Ast(Accumulator))
      /\ Ast(i.dst) \in Bits(Size[i.dst]) /\ Ast(i.src) \in Bits(Size[i.src])
  BY <1>1, AstFits
<1>3. \A v : Numbers(v) => Tracked(Stored(sym, i.dst, v))
  BY <1>1, StoredSized
<1>4. CASE Mov(i)
  BY <1>2, <1>3, <1>4 DEF Mov, SetOperand
<1>5. CASE MovSx(i)
  <2> DEFINE v == [x \in Input |-> IF Msb(Ast(i.src)[x], Size[i.src])
                                   THEN Ast(i.src)[x] + Size[i.dst] - Size[i.src] ELSE Ast(i.src)[x]]
  <2>1. Size[i.dst] \in Int /\ Size[i.src] \in Int
    BY <1>1, Sizes
  <2>2. Numbers(v)
    BY <1>2, <2>1 DEF Numbers
  <2>3. sym' = Stored(sym, i.dst, v)
    BY <1>5 DEF MovSx, SetOperand
  <2> QED
    BY <1>3, <2>2, <2>3
<1>6. CASE SetCC(i)
  <2> DEFINE v == [x \in Input |-> IF CondAst(i)[x] THEN 1 ELSE 0]
  <2>1. Numbers(v)
    BY DEF Numbers
  <2>2. sym' = Stored(sym, i.dst, v)
    BY <1>6 DEF SetCC, SetOperand
  <2> QED
    BY <1>3, <2>1, <2>2
<1>7. CASE CmovCC(i)
  <2> DEFINE v == [x \in Input |-> IF CondAst(i)[x] THEN Ast(i.src)[x] ELSE Ast(i.dst)[x]]
  <2>1. Numbers(v)
    BY <1>2 DEF Numbers
  <2>2. sym' = Stored(sym, i.dst, v)
    BY <1>7 DEF CmovCC, SetOperand
  <2> QED
    BY <1>3, <2>1, <2>2
<1>8. CASE Cmpxchg(i)
  <2> DEFINE same(x) == Ast(Accumulator)[x] = Ast(i.dst)[x]
             v == [x \in Input |-> IF same(x) THEN Ast(Accumulator)[x] ELSE Ast(i.dst)[x]]
             w == [x \in Input |-> IF same(x) THEN Ast(i.src)[x] ELSE Ast(i.dst)[x]]
             once == Stored(sym, Accumulator, v)
  <2>1. Numbers(v) /\ Numbers(w)
    BY <1>2 DEF Numbers
  <2>2. sym' = Stored(once, i.dst, w)
    BY <1>8 DEF Cmpxchg
  <2> HIDE DEF v, w
  <2>3. Tracked(once)
    BY <1>1, <2>1, StoredSized
  <2> HIDE DEF once
  <2> QED
    BY <1>1, <2>1, <2>2, <2>3, StoredSized
<1>9. CASE CommonOperation(i)
  <2>0. PICK givesUp \in MayGiveUp(i) : \E c :
          LET ret == IF givesUp THEN NoAst
                     ELSE [x \in Input |-> Built(i.op, Ast(i.dst)[x], Ast(i.src)[x], c[x], Size[i.dst])]
          IN IF i.op \in Stores /\ ~givesUp THEN SetOperand(i.dst, ret) ELSE UNCHANGED sym
    BY <1>9 DEF CommonOperation
  <2>1. PICK c :
          LET ret == IF givesUp THEN NoAst
                     ELSE [x \in Input |-> Built(i.op, Ast(i.dst)[x], Ast(i.src)[x], c[x], Size[i.dst])]
          IN IF i.op \in Stores /\ ~givesUp THEN SetOperand(i.dst, ret) ELSE UNCHANGED sym
    BY <2>0
  <2>2. CASE i.op \in Stores /\ ~givesUp
    <3> DEFINE v == [x \in Input |-> Built(i.op, Ast(i.dst)[x], Ast(i.src)[x], c[x], Size[i.dst])]
    <3>1. \A x \in Input : Ast(i.dst)[x] \in 0 .. Size[i.dst] - 1 /\ Ast(i.src)[x] \in 0 .. Size[i.src] - 1
      BY <1>2 DEF Bits
    <3>2. Numbers(v)
      BY <1>1, <2>2, <3>1, BuiltIsInt DEF Numbers
    <3>3. sym' = Stored(sym, i.dst, v)
      BY <2>1, <2>2 DEF SetOperand
    <3> QED
      BY <1>3, <3>2, <3>3
  <2>3. CASE ~(i.op \in Stores /\ ~givesUp)
    BY <1>1, <2>1, <2>3
  <2> QED
    BY <2>2, <2>3
<1>10. CASE JumpCC(i) \/ Imul(i) \/ Unknown(i)
  BY <1>1, <1>10 DEF JumpCC, Imul, Unknown
<1> QED
  BY <1>4, <1>5, <1>6, <1>7, <1>8, <1>9, <1>10 DEF Handler

-----------------------------------------------------------------------------
(* The expressions.                                                         *)

\* A flag that does not stop the tracer is what the processor has.
LEMMA FlagKnown ==
  ASSUME IInv, ~lost, NEW f \in Flag \ ({"PF"} \cup stale), ~Broken(f)
  PROVE  FlagAst(f) = cpu[f]
<1>1. FlagRight(f) /\ cpu[f] \in [Input -> BOOLEAN]
  BY DEF IInv, FlagsRight, Typed
<1>2. CASE flg[f] = NoLazy
  BY <1>1, <1>2 DEF FlagRight, FlagAst, MakeConst
<1>3. CASE flg[f] # NoLazy
  BY <1>1, <1>3 DEF FlagRight
<1> QED
  BY <1>2, <1>3

\* The condition of a conditional instruction is the one the processor tests.
LEMMA CondIsTaken ==
  ASSUME IInv, ~lost, NEW i \in Instr, ~TestsStale(i), i.op \in CondOp, i.cond # "P", ~Stops(i)
  PROVE  CondAst(i) = [x \in Input |-> Taken(i, x)]
<1>1. i.cond \in Condition \ {"P"} /\ i.negated \in BOOLEAN
  BY AnInstruction
<1>2. \A f \in CondFlags(i.cond) : f \in Flag \ ({"PF"} \cup stale) /\ ~Broken(f)
  BY <1>1 DEF Stops, TestsStale, TestFlags, CondFlags, Condition, Flag
<1>3. \A f \in CondFlags(i.cond) : FlagAst(f) = cpu[f] /\ cpu[f] \in [Input -> BOOLEAN]
  BY <1>2, FlagKnown DEF IInv, Typed
<1>4. ASSUME NEW x \in Input
      PROVE  CondAst(i)[x] = Taken(i, x)
  <2>1. CASE i.cond \in {"O", "B", "E", "S"}
    BY <1>3, <2>1 DEF CondAst, Taken, CondFlags, Flag
  <2>2. CASE i.cond = "BE"
    BY <1>3, <2>2 DEF CondAst, Taken, CondFlags, Flag
  <2>3. CASE i.cond = "L"
    BY <1>3, <2>3 DEF CondAst, Taken, CondFlags, Flag
  <2>4. CASE i.cond = "LE"
    BY <1>3, <2>4 DEF CondAst, Taken, CondFlags, Flag
  <2> QED
    BY <1>1, <2>1, <2>2, <2>3, <2>4 DEF Condition
<1> QED
  BY <1>4 DEF CondAst

LEMMA SignExtended ==
  ASSUME NEW m \in Nat \ {0}, NEW n \in Nat \ {0}, m <= n, NEW b \in 0 .. m - 1
  PROVE  Signed(b, m) % n = IF Msb(b, m) THEN b + n - m ELSE b
  BY DEF Signed, Msb

\* What a common operation that does not give up builds is what the processor computes.
LEMMA BuiltIsAlu ==
  ASSUME NEW i, i.op \in Common \ {"sbb"}, Size[i.dst] \in Nat \ {0},
         NEW a \in 0 .. Size[i.dst] - 1, NEW b \in Int, NEW c, NEW x
  PROVE  Built(i.op, a, b, c, Size[i.dst]) = Alu(i, a, b, x)
<1> DEFINE n == Size[i.dst]
<1>1. BvSub(0, a, n) = (-a) % n /\ BvAdd(a, a, n) = (2 * a) % n
  BY DEF BvSub, BvAdd
<1>2. /\ BvAdd(a, b, n) = (a + b) % n /\ BvSub(a, b, n) = (a - b) % n
      /\ BvAdd(a, 1, n) = (a + 1) % n /\ BvSub(a, 1, n) = (a - 1) % n
  BY DEF BvSub, BvAdd
<1> QED
  BY <1>1, <1>2 DEF Built, Alu, Common

\* What a common operation does when it has a complete handler.
LEMMA CommonGives ==
  ASSUME NEW i \in Instr, CommonOperation(i), ~Incomplete(i)
  PROVE  \E c :
           LET ret == [x \in Input |-> Built(i.op, Ast(i.dst)[x], Ast(i.src)[x], c[x], Size[i.dst])]
           IN /\ SetFlags(i, ret)
              /\ IF i.op \in Stores THEN sym' = Stored(sym, i.dst, ret) ELSE UNCHANGED sym
<1>1. \A givesUp \in MayGiveUp(i) : givesUp = FALSE
  <2>1. i.op = "xor" => TRUE \notin MayGiveUp(i)
    BY DEF Incomplete
  <2>2. \A givesUp \in MayGiveUp(i) : givesUp \in BOOLEAN
    BY DEF MayGiveUp
  <2>3. CASE i.op = "xor"
    BY <2>1, <2>2, <2>3
  <2>4. CASE i.op # "xor"
    BY <2>4 DEF MayGiveUp
  <2> QED
    BY <2>3, <2>4
<1>0. PICK givesUp \in MayGiveUp(i) : \E c :
        LET ret == IF givesUp THEN NoAst
                   ELSE [x \in Input |-> Built(i.op, Ast(i.dst)[x], Ast(i.src)[x], c[x], Size[i.dst])]
        IN /\ SetFlags(i, ret)
           /\ IF i.op \in Stores /\ ~givesUp THEN SetOperand(i.dst, ret) ELSE UNCHANGED sym
  BY DEF CommonOperation
<1>2. PICK c :
        LET ret == IF givesUp THEN NoAst
                   ELSE [x \in Input |-> Built(i.op, Ast(i.dst)[x], Ast(i.src)[x], c[x], Size[i.dst])]
        IN /\ SetFlags(i, ret)
           /\ IF i.op \in Stores /\ ~givesUp THEN SetOperand(i.dst, ret) ELSE UNCHANGED sym
  BY <1>0
<1>3. ~givesUp
  BY <1>1, <1>0
<1> QED
  BY <1>2, <1>3 DEF SetOperand

LEMMA SymbolicCells ==
  ASSUME IInv, NEW i \in Instr, ~Stops(i), Handler(i), Machine(i),
         ~lost, ~Incomplete(i), ~TestsStale(i)
  PROVE  Exact(sym', reg', payload)
<1>1. /\ Typed /\ Exact(sym, reg, payload) /\ payload \in Input
      /\ i.dst \in Loc /\ i.src \in Loc /\ Accumulator \in Loc
  BY PayloadIsInput, AnInstruction, PlacesAssumption DEF IInv, CellsRight
<1>2. /\ Ast(i.dst) = Value(i.dst) /\ Ast(i.src) = Value(i.src)
      /\ Ast(Accumulator) = Value(Accumulator)
  BY <1>1, AstIsValue
<1>3. /\ i.op # "cmpxchg" =>
           reg' = IF Written(i) = {} THEN reg ELSE Stored(reg, i.dst, Result(i))
      /\ i.op = "cmpxchg" =>
           reg' = Stored(Stored(reg, Accumulator, Value(i.dst)), i.dst, Replaced(i))
  BY MachineGives
<1>4. i.op \in CondOp => CondAst(i) = [x \in Input |-> Taken(i, x)]
  <2> SUFFICES ASSUME i.op \in CondOp PROVE CondAst(i) = [x \in Input |-> Taken(i, x)]
    OBVIOUS
  <2>1. i.cond # "P"
    BY DEF Incomplete
  <2> QED
    BY <2>1, CondIsTaken
<1>5. ASSUME NEW v, \A x \in Input : v[x] = Result(i)[x],
             sym' = Stored(sym, i.dst, v), i.op # "cmpxchg", Written(i) # {}
      PROVE  Exact(sym', reg', payload)
  BY <1>1, <1>3, <1>5, StoredExact
<1>6. CASE Mov(i)
  <2>1. i.op \in {"mov", "movzx"} /\ sym' = Stored(sym, i.dst, Value(i.src))
    BY <1>2, <1>6 DEF Mov, SetOperand
  <2>2. \A x \in Input : Value(i.src)[x] = Result(i)[x]
    BY <2>1 DEF Result, Alu
  <2>3. Written(i) # {} /\ i.op # "cmpxchg"
    BY <2>1 DEF Written
  <2> QED
    BY <1>5, <2>1, <2>2, <2>3
<1>7. CASE MovSx(i)
  <2> DEFINE v == [x \in Input |-> IF Msb(Value(i.src)[x], Size[i.src])
                     THEN Value(i.src)[x] + Size[i.dst] - Size[i.src] ELSE Value(i.src)[x]]
  <2>1. i.op = "movsx" /\ sym' = Stored(sym, i.dst, v)
    BY <1>2, <1>7 DEF MovSx, SetOperand
  <2>2. /\ Size[i.src] \in Nat \ {0} /\ Size[i.dst] \in Nat \ {0} /\ Size[i.src] <= Size[i.dst]
        /\ Value(i.src) \in Bits(Size[i.src])
    BY <1>1, <2>1, Sizes, OperandsAssumption, ValueFits
  <2>3. ASSUME NEW x \in Input
        PROVE  v[x] = Result(i)[x]
    <3> DEFINE b == Value(i.src)[x]
    <3>1. b \in 0 .. Size[i.src] - 1
      BY <2>2 DEF Bits
    <3>2. Result(i)[x] = Signed(b, Size[i.src]) % Size[i.dst]
      BY <2>1 DEF Result, Alu
    <3>3. v[x] = IF Msb(b, Size[i.src]) THEN b + Size[i.dst] - Size[i.src] ELSE b
      OBVIOUS
    <3> HIDE DEF b, v
    <3> QED
      BY <2>2, <3>1, <3>2, <3>3, SignExtended
  <2>4. Written(i) # {} /\ i.op # "cmpxchg"
    BY <2>1 DEF Written
  <2> HIDE DEF v
  <2> QED
    BY <1>5, <2>1, <2>3, <2>4
<1>8. CASE SetCC(i)
  <2> DEFINE v == [x \in Input |-> IF CondAst(i)[x] THEN 1 ELSE 0]
  <2>1. i.op = "set" /\ sym' = Stored(sym, i.dst, v)
    BY <1>8 DEF SetCC, SetOperand
  <2>2. \A x \in Input : v[x] = Result(i)[x]
    BY <1>4, <2>1 DEF Result, Alu, CondOp
  <2>3. Written(i) # {} /\ i.op # "cmpxchg"
    BY <2>1 DEF Written
  <2> QED
    BY <1>5, <2>1, <2>2, <2>3
<1>9. CASE CmovCC(i)
  <2> DEFINE v == [x \in Input |-> IF CondAst(i)[x] THEN Value(i.src)[x] ELSE Value(i.dst)[x]]
  <2>1. i.op = "cmov" /\ sym' = Stored(sym, i.dst, v)
    BY <1>2, <1>9 DEF CmovCC, SetOperand
  <2>2. \A x \in Input : v[x] = Result(i)[x]
    BY <1>4, <2>1 DEF Result, Alu, CondOp
  <2>3. Written(i) # {} /\ i.op # "cmpxchg"
    BY <2>1 DEF Written
  <2> QED
    BY <1>5, <2>1, <2>2, <2>3
<1>10. CASE JumpCC(i)
  <2>1. i.op = "jump" /\ sym' = sym
    BY <1>10 DEF JumpCC
  <2>2. reg' = reg
    BY <1>3, <2>1 DEF Written
  <2> QED
    BY <1>1, <2>1, <2>2
<1>11. CASE Cmpxchg(i)
  <2> DEFINE same(x) == Value(Accumulator)[x] = Value(i.dst)[x]
             v == [x \in Input |-> IF same(x) THEN Value(Accumulator)[x] ELSE Value(i.dst)[x]]
             w == [x \in Input |-> IF same(x) THEN Value(i.src)[x] ELSE Value(i.dst)[x]]
             asts  == Stored(sym, Accumulator, v)
             cells == Stored(reg, Accumulator, Value(i.dst))
  <2>1. i.op = "cmpxchg" /\ sym' = Stored(asts, i.dst, w)
    BY <1>2, <1>11 DEF Cmpxchg
  <2>2. \A x \in Input : v[x] = Value(i.dst)[x]
    OBVIOUS
  <2>3. \A x \in Input : w[x] = Replaced(i)[x]
    BY DEF Replaced
  <2>4. reg' = Stored(cells, i.dst, Replaced(i))
    BY <1>3, <2>1
  <2> HIDE DEF v, w
  <2>5. Exact(asts, cells, payload)
    BY <1>1, <2>2, StoredExact
  <2> HIDE DEF asts, cells
  <2> QED
    BY <1>1, <2>1, <2>3, <2>4, <2>5, StoredExact
<1>12. CASE CommonOperation(i)
  <2>1. i.op \in Common \ {"not", "shl", "sbb"}
    BY <1>12 DEF CommonOperation, Incomplete
  <2>2. PICK c : LET ret == [x \in Input |-> Built(i.op, Ast(i.dst)[x], Ast(i.src)[x], c[x], Size[i.dst])]
                 IN IF i.op \in Stores THEN sym' = Stored(sym, i.dst, ret) ELSE UNCHANGED sym
    BY <1>12, CommonGives
  <2>3. CASE i.op \in Stores
    <3> DEFINE v == [x \in Input |-> Built(i.op, Value(i.dst)[x], Value(i.src)[x], c[x], Size[i.dst])]
    <3>1. sym' = Stored(sym, i.dst, v)
      BY <1>2, <2>2, <2>3
    <3>2. ASSUME NEW x \in Input
          PROVE  v[x] = Result(i)[x]
      <4> DEFINE a == Value(i.dst)[x]
                 b == Value(i.src)[x]
      <4>1. Size[i.dst] \in Nat \ {0} /\ a \in 0 .. Size[i.dst] - 1 /\ b \in Int
        BY <1>1, Sizes, ValueFits, BitsAreNumbers DEF Bits, Numbers
      <4>2. v[x] = Built(i.op, a, b, c[x], Size[i.dst]) /\ Result(i)[x] = Alu(i, a, b, x)
        BY DEF Result
      <4> HIDE DEF a, b, v
      <4>3. Built(i.op, a, b, c[x], Size[i.dst]) = Alu(i, a, b, x)
        BY <2>1, <4>1, BuiltIsAlu
      <4> QED
        BY <4>2, <4>3
    <3>3. Written(i) # {} /\ i.op # "cmpxchg"
      BY <2>3 DEF Written, Stores
    <3> HIDE DEF v
    <3> QED
      BY <1>5, <3>1, <3>2, <3>3
  <2>4. CASE i.op \notin Stores
    <3>1. i.op \in {"cmp", "test"} /\ sym' = sym
      BY <2>1, <2>2, <2>4 DEF Stores, Common
    <3>2. reg' = reg
      BY <1>3, <3>1 DEF Written
    <3> QED
      BY <1>1, <3>1, <3>2
  <2> QED
    BY <2>3, <2>4
<1>13. ~Imul(i) /\ ~Unknown(i)
  BY DEF Imul, Unknown, Incomplete
<1> QED
  BY <1>6, <1>7, <1>8, <1>9, <1>10, <1>11, <1>12, <1>13 DEF Handler

-----------------------------------------------------------------------------
(* The flags.                                                               *)

\* The formula of a flag, from the operation that set it.
LEMMA EvalIsFlag ==
  ASSUME NEW i \in Instr, i.op \in Common \ {"sbb", "not", "shl"},
         NEW n, n = Size[i.dst], Size[i.src] <= n \/ i.op \notin {"add", "sub", "cmp"},
         NEW a \in 0 .. n - 1, NEW b \in 0 .. Size[i.src] - 1, NEW x, NEW f \in Flag \ {"PF"},
         ~FlagBreaks(f, FuncCode(i.op)), f \notin LookupUnsetFlags(FuncCode(i.op)),
         NEW lazy, lazy.func = FuncCode(i.op), lazy.size = n,
         lazy.p0[x] = a, lazy.p1[x] = b, lazy.source[x] = Alu(i, a, b, x)
  PROVE  Eval(f, lazy, x) = AluFlag(i, f, a, b, x)
<1> DEFINE r == Alu(i, a, b, x)
<1>1. PICK h \in Nat \ {0} : n = 2 * h
  BY AnInstruction, Sizes
<1>2. CASE f = "ZF"
  BY <1>2 DEF Eval, AluFlag
<1>3. CASE f = "SF"
  BY <1>3 DEF Eval, AluFlag
<1>4. CASE f \in {"CF", "OF"}
  <2>1. i.op \in {"add", "sub", "cmp"}
    BY <1>4 DEF FlagBreaks, FuncCode, LookupUnsetFlags, Common
  <2>2. n \in Nat \ {0} /\ Size[i.src] \in Int /\ b \in 0 .. n - 1
    BY <1>1, <2>1, AnInstruction, Sizes
  <2>3. /\ FuncCode("add") = "ADD" /\ FuncCode("sub") = "SUB" /\ FuncCode("cmp") = "CMP"
        /\ i.op = "add" => r = BvAdd(a, b, n)
        /\ i.op \in {"sub", "cmp"} => r = BvSub(a, b, n)
    BY DEF FuncCode, Alu, BvAdd, BvSub
  <2>4. /\ lazy.source[x] = r /\ lazy.func = FuncCode(i.op)
        /\ lazy.size = n /\ lazy.p0[x] = a /\ lazy.p1[x] = b
    OBVIOUS
  <2> HIDE DEF r
  <2> DEFINE cf == lazy.cf[x]
  <2>7. AluFlag(i, f, a, b, x) \in BOOLEAN /\ FlagCF(FuncCode(i.op), a, b, r, cf, n) \in BOOLEAN
    <3>1. FlagCF(FuncCode(i.op), a, b, r, cf, n) \in BOOLEAN
      BY <2>1, <2>3 DEF FlagCF, CarryOut, Msb
    <3> QED
      BY <3>1, FlagIsBoolean
  <2>5. CASE f = "CF"
    <3>1. Eval(f, lazy, x) = FlagCF(FuncCode(i.op), a, b, r, cf, n)
      BY <2>4, <2>5 DEF Eval
    <3> HIDE DEF cf
    <3>2. CASE i.op = "add"
      <4>1. AluFlag(i, f, a, b, x) <=> AddCarries(a, b, n)
        BY <2>5, <3>2 DEF AluFlag
      <4>2. FlagCF("ADD", a, b, BvAdd(a, b, n), cf, n) <=> AddCarries(a, b, n)
        BY <1>1, <2>2, CarryOfAdd
      <4> QED
        BY <2>3, <2>7, <3>1, <3>2, <4>1, <4>2
    <3>3. CASE i.op \in {"sub", "cmp"}
      <4>1. AluFlag(i, f, a, b, x) <=> SubBorrows(a, b, n)
        BY <2>5, <3>3 DEF AluFlag
      <4>2. FlagCF(FuncCode(i.op), a, b, BvSub(a, b, n), cf, n) <=> SubBorrows(a, b, n)
        BY <1>1, <2>2, <2>3, <3>3, CarryOfSub
      <4> QED
        BY <2>3, <2>7, <3>1, <3>3, <4>1, <4>2
    <3> QED
      BY <2>1, <3>2, <3>3
  <2>6. CASE f = "OF"
    <3>1. Eval(f, lazy, x) = FlagOF(FuncCode(i.op), a, b, r, n)
      BY <2>4, <2>6 DEF Eval
    <3>2. CASE i.op = "add"
      <4>1. AluFlag(i, f, a, b, x) = AddOverflows(a, b, n)
        BY <2>6, <3>2 DEF AluFlag, AddOverflows
      <4>2. FlagOF("ADD", a, b, BvAdd(a, b, n), n) <=> AddOverflows(a, b, n)
        BY <1>1, <2>2, OverflowOfAdd
      <4> QED
        BY <2>3, <3>1, <3>2, <4>1, <4>2 DEF FlagOF, AddOverflows
    <3>3. CASE i.op \in {"sub", "cmp"}
      <4>1. AluFlag(i, f, a, b, x) = SubOverflows(a, b, n)
        BY <2>6, <3>3 DEF AluFlag, SubOverflows
      <4>2. FlagOF(FuncCode(i.op), a, b, BvSub(a, b, n), n) <=> SubOverflows(a, b, n)
        BY <1>1, <2>2, <2>3, <3>3, OverflowOfSub
      <4> QED
        BY <2>3, <3>1, <3>3, <4>1, <4>2 DEF FlagOF, SubOverflows
    <3> QED
      BY <2>1, <3>2, <3>3
  <2> QED
    BY <1>4, <2>5, <2>6
<1> QED
  BY <1>2, <1>3, <1>4 DEF Flag

\* The flags that have no formula, and those that a logical operation clears.
LEMMA WithoutFormula ==
  ASSUME NEW i, i.op \in Common \ {"sbb", "not", "shl"}, NEW f \in ModFlags(i)
  PROVE  /\ f \in LookupUnsetFlags(FuncCode(i.op)) =>
              \A a, b, x : ~AluFlag(i, f, a, b, x)
         /\ f \notin LookupUnsetFlags(FuncCode(i.op)) =>
              (FlagBreaks(f, FuncCode(i.op)) => <<f, FuncCode(i.op)>> \in Unreadable)
<1>1. f \in Flag /\ (i.op \in {"inc", "dec"} => f # "CF")
  BY DEF ModFlags
<1>2. ASSUME f \in LookupUnsetFlags(FuncCode(i.op)), NEW a, NEW b, NEW x
      PROVE  ~AluFlag(i, f, a, b, x)
  <2>1. i.op \in {"and", "test", "or", "xor"} /\ f \in {"CF", "OF"}
    BY <1>2 DEF LookupUnsetFlags, FuncCode, Common
  <2>2. CASE f = "CF"
    BY <2>1, <2>2 DEF AluFlag
  <2>3. CASE f = "OF"
    BY <2>1, <2>3 DEF AluFlag
  <2> QED
    BY <2>1, <2>2, <2>3
<1>3. ASSUME f \notin LookupUnsetFlags(FuncCode(i.op)), FlagBreaks(f, FuncCode(i.op))
      PROVE  <<f, FuncCode(i.op)>> \in Unreadable
  <2>1. f \in {"CF", "OF"}
    BY <1>3 DEF FlagBreaks
  <2>2. i.op \notin {"and", "test", "or", "xor", "add", "sub", "cmp"}
    BY <1>3, <2>1 DEF FlagBreaks, FuncCode, LookupUnsetFlags
  <2>3. i.op \in {"inc", "dec", "neg"}
    BY <2>2 DEF Common
  <2>4. FuncCode(i.op) = IF i.op = "neg" THEN "NEG" ELSE "INC"
    BY <2>3 DEF FuncCode
  <2> QED
    BY <1>1, <2>1, <2>3, <2>4 DEF Unreadable
<1> QED
  BY <1>2, <1>3

LEMMA SymbolicFlags ==
  ASSUME IInv, NEW i \in Instr, Handler(i), Machine(i), UNCHANGED payload,
         ~lost, ~Incomplete(i), i.op # "cmpxchg", NEW f \in Flag, f \in stale => f \in ModFlags(i)
  PROVE  FlagRight(f)'
<1>1. /\ Typed /\ Exact(sym, reg, payload) /\ payload \in Input
      /\ i.dst \in Loc /\ i.src \in Loc /\ (f \notin stale => FlagRight(f))
  BY PayloadIsInput, AnInstruction DEF IInv, CellsRight, FlagsRight
<1>2. cpu'[f] = IF f \in ModFlags(i) THEN ResultFlag(i, f) ELSE cpu[f]
  BY MachineGives
<1>3. ASSUME f \notin ModFlags(i), flg'[f] = flg[f]
      PROVE  FlagRight(f)'
  BY <1>1, <1>2, <1>3 DEF FlagRight, FlagAst, MakeConst, Broken
<1>4. CASE ~CommonOperation(i)
  <2>1. /\ UNCHANGED flg /\ i.op \in {"mov", "movzx", "movsx", "set", "cmov", "jump"}
    BY <1>4 DEF Handler, Mov, MovSx, SetCC, CmovCC, JumpCC, Cmpxchg, Imul, Unknown, Incomplete
  <2>2. f \notin ModFlags(i)
    BY <2>1 DEF ModFlags, Moves, CondOp
  <2> QED
    BY <1>3, <2>1, <2>2
<1>5. CASE CommonOperation(i)
  <2>1. i.op \in Common \ {"not", "shl", "sbb"} /\ (i.op = "xor" => TRUE \notin MayGiveUp(i))
    BY <1>5 DEF CommonOperation, Incomplete
  <2>2. PICK c : SetFlags(i, [x \in Input |->
                   Built(i.op, Ast(i.dst)[x], Ast(i.src)[x], c[x], Size[i.dst])])
    BY <1>5, CommonGives
  <2> DEFINE v == [x \in Input |-> Built(i.op, Ast(i.dst)[x], Ast(i.src)[x], c[x], Size[i.dst])]
             func == FuncCode(i.op)
             lazy == Lazy(i, v)
  <2>3. flg'[f] = IF f \notin ModFlags(i) THEN flg[f]
                  ELSE IF f \in LookupUnsetFlags(func) THEN NoLazy ELSE lazy
    BY <2>2 DEF SetFlags
  <2>4. CASE f \notin ModFlags(i)
    BY <1>3, <2>3, <2>4
  <2>5. CASE f \in ModFlags(i) /\ f \in LookupUnsetFlags(func)
    <3>1. \A a, b, x : ~AluFlag(i, f, a, b, x) /\ AluFlag(i, f, a, b, x) \in BOOLEAN
      BY <2>1, <2>5, WithoutFormula, FlagIsBoolean
    <3>2. \A x \in Input : cpu'[f][x] = FALSE
      BY <1>2, <2>5, <3>1 DEF ResultFlag
    <3> QED
      BY <1>1, <2>3, <2>5, <3>2 DEF FlagRight
  <2>6. CASE f \in ModFlags(i) /\ f \notin LookupUnsetFlags(func)
    <3>1. /\ lazy.func = func /\ lazy.size = Size[i.dst] /\ lazy.source = v
          /\ lazy.p0 = Value(i.dst) /\ lazy.p1 = Value(i.src)
      BY <1>1, AstIsValue DEF Lazy
    <3>2. flg'[f] = lazy /\ cpu'[f] = ResultFlag(i, f)
      BY <1>2, <2>3, <2>6
    <3>3. v # NoAst
      BY <1>1, NotNoAst
    <3>4. func # "none"
      BY <2>1 DEF FuncCode, Common
    <3>5. \A x \in Input : v[x] = Built(i.op, Value(i.dst)[x], Value(i.src)[x], c[x], Size[i.dst])
      BY <1>1, AstIsValue
    <3> HIDE DEF v, lazy
    <3>6. lazy # NoLazy
      BY <3>1, <3>4 DEF NoLazy
    <3>7. CASE FlagBreaks(f, func)
      <4>1. <<f, func>> \in Unreadable
        BY <2>1, <2>6, <3>7, WithoutFormula
      <4> QED
        BY <3>1, <3>2, <3>6, <3>7, <4>1 DEF FlagRight, Broken
    <3>8. CASE ~FlagBreaks(f, func) /\ f # "PF"
      <4>1. ASSUME NEW x \in Input
            PROVE  Eval(f, lazy, x) = ResultFlag(i, f)[x]
        <5> DEFINE a == Value(i.dst)[x]
                   b == Value(i.src)[x]
                   n == Size[i.dst]
        <5>1. /\ n \in Nat \ {0} /\ a \in 0 .. n - 1 /\ b \in 0 .. Size[i.src] - 1 /\ b \in Int
              /\ i.op \in {"add", "sub", "cmp"} => Size[i.src] <= n
          BY <1>1, Sizes, ValueFits, BitsAreNumbers, OperandsAssumption DEF Bits, Numbers
        <5>2. v[x] = Alu(i, a, b, x)
          <6>1. v[x] = Built(i.op, a, b, c[x], Size[i.dst])
            BY <3>5
          <6> HIDE DEF a, b
          <6>2. Built(i.op, a, b, c[x], Size[i.dst]) = Alu(i, a, b, x)
            BY <2>1, <5>1, BuiltIsAlu
          <6> QED
            BY <6>1, <6>2
        <5>3. ResultFlag(i, f)[x] = AluFlag(i, f, a, b, x)
          BY DEF ResultFlag
        <5>4. lazy.p0[x] = a /\ lazy.p1[x] = b /\ lazy.source[x] = Alu(i, a, b, x)
          BY <3>1, <5>2
        <5>5. lazy.func = FuncCode(i.op) /\ lazy.size = n /\ n = Size[i.dst]
          BY <3>1
        <5> HIDE DEF a, b, n
        <5>6. Eval(f, lazy, x) = AluFlag(i, f, a, b, x)
          BY <2>1, <2>6, <3>8, <5>1, <5>4, <5>5, EvalIsFlag
        <5> QED
          BY <5>3, <5>6
      <4>2. (FlagAst(f) = cpu[f])'
        BY <3>2, <3>6, <4>1 DEF FlagAst, ResultFlag
      <4>3. ~Broken(f)'
        BY <3>1, <3>2, <3>3, <3>8 DEF Broken
      <4> QED
        BY <3>2, <3>6, <4>2, <4>3 DEF FlagRight
    <3>9. CASE f = "PF"
      BY <3>2, <3>6, <3>9 DEF FlagRight
    <3> QED
      BY <3>7, <3>8, <3>9
  <2> QED
    BY <2>4, <2>5, <2>6
<1> QED
  BY <1>4, <1>5

-----------------------------------------------------------------------------
(* The steps.                                                               *)

LEMMA SymbolicStep ==
  ASSUME IInv, NEW i \in Instr, ExecuteSymbolic(i), steps' \in 0 .. MaxSteps, UNCHANGED payload
  PROVE  IInv'
<1>1. Typed /\ CellsRight /\ FlagsRight /\ ConditionsExact
  BY DEF IInv
<1>2. /\ ~Stops(i) /\ Handler(i) /\ Machine(i) /\ UNCHANGED stopped
      /\ stale' = IF i.op = "cmpxchg" THEN Flag ELSE stale \ ModFlags(i)
      /\ lost' = (lost \/ Incomplete(i) \/ TestsStale(i))
  BY DEF ExecuteSymbolic
<1>3. stale' \subseteq Flag /\ lost' \in BOOLEAN
  BY <1>1, <1>2 DEF Typed, Incomplete, TestsStale
<1>4. Typed'
  BY <1>1, <1>2, <1>3, MachineTyped, HandlerTyped DEF Typed
<1>5. ~lost' => ~lost /\ ~Incomplete(i) /\ ~TestsStale(i)
  BY <1>2
<1>6. CellsRight'
  <2>1. ~lost' => Exact(sym', reg', payload)
    BY <1>2, <1>5, SymbolicCells
  <2> QED
    BY <2>1 DEF CellsRight
<1>7. FlagsRight'
  <2>1. ASSUME ~lost', NEW f \in Flag \ stale' PROVE FlagRight(f)'
    <3>1. i.op # "cmpxchg" /\ (f \in stale => f \in ModFlags(i))
      BY <1>2
    <3> QED
      BY <1>2, <1>5, <2>1, <3>1, SymbolicFlags
  <2> QED
    BY <2>1 DEF FlagsRight
<1>8. ConditionsExact'
  <2> SUFFICES ASSUME ~lost' PROVE test'.symbolicCond = test'.taken
    BY DEF ConditionsExact
  <2>1. CASE JumpCC(i)
    <3>1. i.op \in CondOp /\ i.cond # "P"
      BY <1>5, <2>1 DEF JumpCC, Incomplete, CondOp
    <3>2. CondAst(i) = [x \in Input |-> Taken(i, x)]
      BY <1>2, <1>5, <3>1, CondIsTaken
    <3> QED
      BY <2>1, <3>2 DEF JumpCC
  <2>2. CASE ~JumpCC(i)
    <3>1. UNCHANGED test
      BY <1>2, <2>2
         DEF Handler, Mov, MovSx, SetCC, CmovCC, Cmpxchg, Imul, CommonOperation, Unknown
    <3> QED
      BY <1>1, <1>5, <3>1 DEF ConditionsExact
  <2> QED
    BY <2>1, <2>2
<1> QED
  BY <1>4, <1>6, <1>7, <1>8 DEF IInv

\* Nothing that the invariant speaks of changes.
LEMMA StillRight ==
  ASSUME IInv, UNCHANGED <<payload, machine, sym, flg, test, stale, lost>>,
         steps' \in 0 .. MaxSteps, stopped' \in BOOLEAN
  PROVE  IInv'
<1>1. Typed /\ CellsRight /\ FlagsRight /\ ConditionsExact
  BY DEF IInv
<1>2. UNCHANGED <<reg, cpu>>
  BY DEF machine
<1>3. Typed'
  BY <1>1, <1>2 DEF Typed
<1>4. CellsRight'
  BY <1>1, <1>2 DEF CellsRight
<1>5. FlagsRight'
  BY <1>1, <1>2 DEF FlagsRight, FlagRight, FlagAst, MakeConst, Broken
<1>6. ConditionsExact'
  BY <1>1 DEF ConditionsExact
<1> QED
  BY <1>3, <1>4, <1>5, <1>6 DEF IInv

LEMMA ExecuteStep ==
  ASSUME IInv, NEW i \in Instr, Execute(i)
  PROVE  IInv'
<1>1. steps' \in 0 .. MaxSteps /\ UNCHANGED payload /\ stopped \in BOOLEAN
  BY ProgramAssumption DEF Execute, IInv, Typed
<1>2. CASE ExecuteConcrete(i)
  BY <1>1, <1>2, ConcreteStep
<1>3. CASE ExecuteSymbolic(i)
  BY <1>1, <1>3, SymbolicStep
<1>4. CASE ExecuteStops(i)
  BY <1>1, <1>4, StillRight DEF ExecuteStops
<1> QED
  BY <1>2, <1>3, <1>4 DEF Execute

LEMMA Initially == Init => IInv
<1> SUFFICES ASSUME Init PROVE IInv
  OBVIOUS
<1>1. payload \in Input /\ payload \in Payload
  BY PlacesAssumption DEF Init
<1>2. Sized(First)
  <2>1. ASSUME NEW c \in Cell PROVE First[c] \in Bits(CellSize[c])
    BY PlacesAssumption DEF Bits
  <2> QED
    BY <2>1 DEF Sized
<1>3. Typed
  <2>1. Tracked(sym) /\ Sized(reg)
    BY <1>2 DEF Init, Tracked, Sized, CreateVariable
  <2>2. cpu \in [Flag -> [Input -> BOOLEAN]] /\ steps \in 0 .. MaxSteps
    BY ProgramAssumption DEF Init
  <2> QED
    BY <1>1, <2>1, <2>2 DEF Init, Typed
<1>4. CellsRight
  <2>1. ASSUME NEW c \in Cell
        PROVE  IF sym[c] # NoAst THEN sym[c] = reg[c] ELSE \A x \in Input : reg[c][x] = reg[c][payload]
    <3>1. reg[c] = First[c] /\ sym[c] = IF c \in Symbolic THEN First[c] ELSE NoAst
      BY DEF Init, CreateVariable
    <3>2. First[c] # NoAst
      BY <1>1, PlacesAssumption, NotNoAst
    <3>3. c \notin Symbolic => \A x \in Input : First[c][x] = First[c][payload]
      BY <1>1, PlacesAssumption
    <3> QED
      BY <3>1, <3>2, <3>3
  <2> QED
    BY <2>1 DEF CellsRight, Exact
<1>5. FlagsRight
  BY <1>1 DEF Init, FlagsRight, FlagRight
<1>6. ConditionsExact
  BY DEF Init, ConditionsExact, NoTest
<1> QED
  BY <1>3, <1>4, <1>5, <1>6 DEF IInv

LEMMA Inductive == Spec => []IInv
<1>1. IInv /\ [Next]_vars => IInv'
  <2> SUFFICES ASSUME IInv, [Next]_vars PROVE IInv'
    OBVIOUS
  <2>1. CASE Next
    BY <2>1, ExecuteStep DEF Next
  <2>2. CASE UNCHANGED vars
    BY <2>2, StillRight DEF vars, IInv, Typed
  <2> QED
    BY <2>1, <2>2
<1> QED
  BY <1>1, Initially, PTL DEF Spec

\* The processor and the expressions stay within the widths of their cells, right
\* or not, and whatever the fields that are not initialised hold.
THEOREM ExecutorIsTyped == Spec => []TypeOK
<1>1. Init => Typed
  BY Initially DEF IInv
<1>2. Typed /\ [Next]_vars => Typed'
  <2> SUFFICES ASSUME Typed, [Next]_vars PROVE Typed'
    OBVIOUS
  <2>1. CASE UNCHANGED vars
    BY <2>1 DEF vars, machine, Typed
  <2>2. CASE Next
    <3>1. PICK i \in Instr : Execute(i)
      BY <2>2 DEF Next
    <3>2. steps' \in 0 .. MaxSteps /\ payload' = payload
      BY <3>1, ProgramAssumption DEF Execute, Typed
    <3>3. CASE ExecuteConcrete(i)
      <4>1. Tracked(sym')
        BY <3>3 DEF ExecuteConcrete, Unset, Typed, Tracked
      <4>2. Sized(reg') /\ cpu' \in [Flag -> [Input -> BOOLEAN]]
        BY <3>1, <3>3, MachineTyped DEF ExecuteConcrete
      <4>3. stale' \subseteq Flag /\ lost' \in BOOLEAN
        BY <3>3 DEF ExecuteConcrete, Typed, ModFlags, Flag, TestsStale
      <4> QED
        BY <3>2, <3>3, <4>1, <4>2, <4>3 DEF ExecuteConcrete, Typed
    <3>4. CASE ExecuteSymbolic(i)
      <4>1. /\ Handler(i) /\ Machine(i) /\ stopped' = stopped
            /\ stale' = IF i.op = "cmpxchg" THEN Flag ELSE stale \ ModFlags(i)
            /\ lost' = (lost \/ Incomplete(i) \/ TestsStale(i))
        BY <3>4 DEF ExecuteSymbolic
      <4>2. Tracked(sym') /\ Sized(reg') /\ cpu' \in [Flag -> [Input -> BOOLEAN]]
        BY <3>1, <4>1, HandlerTyped, MachineTyped
      <4>3. stale' \subseteq Flag /\ lost' \in BOOLEAN
        BY <4>1 DEF Typed, Incomplete, TestsStale
      <4> QED
        BY <3>2, <4>1, <4>2, <4>3 DEF Typed
    <3>5. CASE ExecuteStops(i)
      BY <3>2, <3>5 DEF ExecuteStops, machine, Typed
    <3> QED
      BY <3>1, <3>3, <3>4, <3>5 DEF Execute
  <2> QED
    BY <2>1, <2>2
<1>3. Typed => TypeOK
  BY DEF Typed, TypeOK, Sized, Tracked, Bits, Fits
<1> QED
  BY <1>1, <1>2, <1>3, PTL DEF Spec

\* As long as no result is lost, the expression of a cell is its value for every
\* input, whatever instructions are executed, in any order, on cells of any size.
THEOREM OperandsAreExact == Spec => []OperandsExact
<1>1. IInv => OperandsExact
  BY DEF IInv, CellsRight, Exact, OperandsExact
<1> QED
  BY <1>1, Inductive, PTL

\* As long as no result is lost, the lazy flags that are not stale give the
\* processor's flags, whenever they are evaluated.
THEOREM FlagsAreExact == Spec => []FlagsExact
<1>1. IInv => FlagsExact
  BY DEF IInv, FlagsRight, FlagRight, FlagsExact
<1> QED
  BY <1>1, Inductive, PTL

\* As long as no result is lost, a recorded condition holds for the inputs that take
\* the jump, and for no others.
THEOREM ConditionsAreExact == Spec => []ConditionsExact
<1>1. IInv => ConditionsExact
  BY DEF IInv
<1> QED
  BY <1>1, Inductive, PTL
=============================================================================
