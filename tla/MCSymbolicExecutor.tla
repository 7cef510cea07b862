-------------------------- MODULE MCSymbolicExecutor --------------------------
(* Two three-bit registers, both read from the payload, the low two bits of    *)
(* one of them, a register with a constant, and the immediate 1.               *)
EXTENDS SymbolicExecutor, Bitwise

CONSTANTS ax, bx, cx, al, ah, one

MCCell == {al, ah, bx, cx, one}
MCCellSize == [c \in MCCell |-> CASE c = al -> 4 [] c = ah -> 2 [] OTHER -> 8]
MCLoc  == {ax, bx, cx, al, one}
MCLow  == [l \in MCLoc |-> IF l = ax THEN al ELSE l]
MCHigh == [l \in MCLoc |-> IF l = ax THEN ah ELSE NoCell]
MCInput == (0 .. 7) \X (0 .. 7)
\* One run: an expression depends on the run only through a lost result.
MCPayload == {<<5, 3>>}
MCFirst ==
  [c \in MCCell |-> [x \in MCInput |->
     CASE c = al -> x[1] % 4 [] c = ah -> x[1] \div 4 [] c = bx -> x[2] [] c = cx -> 2 [] c = one -> 1]]
MCSymbols == {al, ah, bx}

AndTable == [a, b \in 0 .. 7 |-> a & b]
OrTable  == [a, b \in 0 .. 7 |-> a | b]
XorTable == [a, b \in 0 .. 7 |-> a ^^ b]
MCAnd(a, b) == AndTable[a, b]
MCOr(a, b)  == OrTable[a, b]
MCXor(a, b) == XorTable[a, b]
MCOdd(a) == a \in {1, 2, 4, 7}

Ins(op, d, s) == [op |-> op, dst |-> d, src |-> s, cond |-> "E", negated |-> FALSE]
Cc(op, d, s, c, n) == [op |-> op, dst |-> d, src |-> s, cond |-> c, negated |-> n]

\* The instructions the executor has a complete handler for,
MCComplete ==
  { Ins("mov", ax, bx), Ins("mov", ax, one),
    Ins("movzx", bx, al), Ins("movsx", ax, al),
    Ins("add", ax, bx), Ins("sub", ax, bx), Ins("sub", bx, one),
    Ins("cmp", ax, bx), Ins("cmp", cx, one),
    Ins("and", ax, bx), Ins("or", bx, one), Ins("test", ax, ax),
    Ins("inc", ax, ax), Ins("dec", bx, bx), Ins("neg", ax, ax), Ins("add", al, al),
    Cc("set", al, al, "L", TRUE), Cc("set", al, al, "B", FALSE),
    Cc("cmov", ax, bx, "LE", FALSE), Cc("cmov", bx, one, "O", TRUE) }
  \cup { Cc("jump", one, one, c, FALSE) : c \in Condition \ {"P"} }
  \cup { Cc("jump", one, one, c, TRUE) : c \in {"B", "LE"} }

\* and one of each kind it does not.
MCInstr == MCComplete \cup
  { Ins("sbb", bx, ax), Ins("xor", ax, ax), Ins("xor", bx, ax), Ins("not", ax, ax),
    Ins("shl", bx, one), Ins("unknown", ax, bx), Ins("adc", ax, bx),
    Ins("cmpxchg", bx, one), Ins("imul", ax, bx),
    Cc("jump", one, one, "P", FALSE) }
===============================================================================
