---------------------------- MODULE MCTaintClears ---------------------------
(* Moves, an increment by an immediate, and xor, over one payload byte.     *)
EXTENDS TaintClears

CONSTANTS ax, bx, ZF

MCReg  == {ax, bx}
MCFlag == {ZF}

Shape(op, o0, o1, reads, wf) ==
  [op |-> op,
   opnd |-> [s \in 0 .. 3 |-> IF s = 0 THEN o0 ELSE IF s = 1 THEN o1 ELSE {}],
   narrow |-> {}, reads |-> reads, writes |-> {0}, readsF |-> {}, writesF |-> wf]

MCInstr ==
  { Shape("mov",   {ax}, {0},  {1},    {}),       \* mov al, [byte 0]
    Shape("mov",   {bx}, {ax}, {1},    {}),       \* mov bl, al
    Shape("other", {ax}, {},   {0},    MCFlag),   \* add al, imm
    Shape("xor",   {ax}, {bx}, {0, 1}, MCFlag),   \* xor al, bl
    Shape("xor",   {ax}, {ax}, {0, 1}, MCFlag) }  \* xor al, al
=============================================================================
