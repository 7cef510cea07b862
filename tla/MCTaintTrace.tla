---------------------------- MODULE MCTaintTrace ----------------------------
(***************************************************************************)
(* A small x86-like instruction set over two payload bytes, two registers  *)
(* and two flags.                                                          *)
(***************************************************************************)
EXTENDS TaintTrace

CONSTANTS ax, bx, CF, ZF

MCReg  == {ax, bx}
MCFlag == {CF, ZF}

Shape(op, o0, o1, reads, writes, narrow, rf, wf) ==
  [op |-> op,
   opnd |-> [s \in 0 .. 3 |-> IF s = 0 THEN o0 ELSE IF s = 1 THEN o1 ELSE {}],
   narrow |-> narrow, reads |-> reads, writes |-> writes,
   readsF |-> rf, writesF |-> wf]

MCInstr ==
  { Shape("mov",   {ax}, {0, 1},  {1},    {0}, {},  {}, {}),      \* mov ax, [payload]
    Shape("mov",   {bx}, {0},     {1},    {0}, {},  {}, {}),      \* mov bx, [byte 0]
    Shape("other", {bx}, {ax},    {1},    {0}, {1}, {}, {}),      \* movzx bx, al
    Shape("mov",   {ax}, {},      {},     {0}, {},  {}, {}),      \* mov ax, imm
    Shape("other", {1},  {ax},    {0, 1}, {0}, {},  {}, MCFlag),  \* add [byte 1], ax
    Shape("other", {ax}, {bx},    {0, 1}, {0}, {},  {CF}, MCFlag),\* adc ax, bx
    Shape("xor",   {ax}, {ax},    {0, 1}, {0}, {},  {}, MCFlag),  \* xor ax, ax
    Shape("xor",   {ax}, {bx},    {0, 1}, {0}, {},  {}, MCFlag),  \* xor ax, bx
    Shape("other", {bx}, {},      {},     {0}, {},  MCFlag, {}),  \* setbe bl
    Shape("other", {0, 1}, {bx},  {1},    {0}, {},  {}, {}) }     \* mov [payload], bx

=============================================================================
