----------------------------- MODULE TraceParser -----------------------------
(***************************************************************************)
(* The log parser of the offline sanitizers: TraceParser::Parse with its   *)
(* CallStack.  It reads the log of a traced program entry by entry.  The   *)
(* symbolic addresses and jump conditions of a basic block come before the *)
(* block's own entries, so the parser collects them first and annotates    *)
(* them with the block when the block's last entry has come.  From the     *)
(* blocks' stack pointers it also follows the program's calls.             *)
(*                                                                         *)
(* The log is written by a library outside the repository; which entries a *)
(* block has, and their order, are taken from the comment above Parse, and *)
(* from the number of successors the tracers give each block.  Names of    *)
(* modules are left out, the entries that carry them are not.              *)
(***************************************************************************)
EXTENDS Integers, Sequences, SequencesExt

CONSTANTS
  MaxBlocks,      \* bound on the blocks of the log
  Symbolic,       \* what a block may put before its entries: seqs of "addr", "jcc"
  Locals,         \* how many words a function may push before it calls
  Arguments       \* how many words of arguments a function's ret may remove

ASSUME ParserAssumption ==
  /\ MaxBlocks \in Nat /\ Locals \subseteq Nat /\ Arguments \subseteq Nat
  /\ Symbolic \subseteq Seq({"addr", "jcc"})

VARIABLES
  state,       \* ParserState, or "BREAK" after a DEBUG_BREAK
  next,        \* successors of the current block seen so far
  tmp,         \* tmpBasicBlock
  kind,        \* symbolicType
  addr,        \* addrAssertions
  jcc,         \* jccConditions
  lviAddr,
  lviJcc,
  callStack,   \* the stack pointers of callStack
  log,         \* the entries written and not yet read
  blocks,      \* number of blocks written
  frames,      \* the program: where the return address of each active call is
  mixed        \* history: the blocks whose own entries began with their module though
               \* symbolic objects had come before them

parser  == <<state, next, tmp, kind, addr, jcc, lviAddr, lviJcc, callStack>>
program == <<blocks, frames, mixed>>
vars    == <<parser, log, program>>

StackBase == 100
NoFrame   == -1
\* A basic block as the parser knows it: the block its offset is in, the block
\* its stack pointer and jump are of, the block its successors are of, and the
\* frame it ran in.  0 stands for zeroed memory.
Clean == [offset |-> 0, data |-> 0, next |-> 0, frame |-> 0]

-----------------------------------------------------------------------------
(* The traced program and the writer of its log.                            *)

E(type)      == [type |-> type]
OffsetEntry(b, jump, esp) == [type |-> "OFFSET", block |-> b, jump |-> jump, esp |-> esp]
SymbolEntry(b, k) == [type |-> "SYMBOLIC", block |-> b, kind |-> k]
NextEntry(b) == [type |-> "NEXT_OFFSET", block |-> b]
Optional(yes, type) == IF yes THEN <<E(type)>> ELSE <<>>

\* Each symbolic object is followed by its formula.
SymbolicEntries(b, s) ==
  [j \in 1 .. 2 * Len(s) |-> IF j % 2 = 1 THEN SymbolEntry(b, s[(j + 1) \div 2]) ELSE E("AST")]

Write(b, s, zmodule, module, nmodule, jump, esp) ==
  log' = Optional(zmodule /\ s # <<>> /\ Head(s) = "addr", "Z3_MODULE")
           \o SymbolicEntries(b, s)
           \o Optional(module, "MODULE") \o <<OffsetEntry(b, jump, esp)>>
           \o <<NextEntry(b)>> \o Optional(nmodule, "NEXT_MODULE") \o <<NextEntry(b)>>

\* The stack pointer is logged after the block's jump: at the return address
\* after a call, above it and the arguments removed after a return.
RunBlock ==
  /\ log = <<>> /\ blocks < MaxBlocks
  /\ blocks' = blocks + 1
  /\ \E s \in Symbolic, zmodule, nmodule, module \in BOOLEAN :
       /\ mixed' = IF module /\ s # <<>> THEN mixed \cup {blocks'} ELSE mixed
       /\ \/ /\ frames' = frames
             /\ Write(blocks', s, zmodule, module, nmodule, "other", Last(frames) - 1)
          \/ \E k \in Locals :
               /\ frames' = Append(frames, Last(frames) - 1 - k)
               /\ Write(blocks', s, zmodule, module, nmodule, "call", Last(frames'))
          \/ \E n \in Arguments :
               /\ Len(frames) > 1 /\ frames' = Front(frames)
               /\ Write(blocks', s, zmodule, module, nmodule, "ret", Last(frames) + 1 + n)
  /\ UNCHANGED parser

-----------------------------------------------------------------------------
(* CallStack, followed by HandleRegisters and HandleCallInstruction.        *)

GetLastCallFrame == IF callStack = <<>> THEN NoFrame ELSE Last(callStack)
Push(esp) == Append(callStack, esp)
Pop == IF callStack = <<>> THEN <<>> ELSE Front(callStack)

\* Mutant of HandleCallInstruction: the return address is taken to be still
\* on the stack when the stack pointer is logged.
HandleCallInstructionOff(jump, esp) ==
  callStack' = IF jump = "call" THEN Push(esp)
               ELSE IF jump = "ret" /\ GetLastCallFrame = esp THEN Pop
               ELSE callStack

\* A word is the unit here, four bytes in the code.  A return that does not
\* correspond to the last call is ignored.
HandleCallInstruction(jump, esp) ==
  callStack' = IF jump = "call" THEN Push(esp)
               ELSE IF jump = "ret" /\ GetLastCallFrame + 1 = esp THEN Pop
               ELSE callStack

-----------------------------------------------------------------------------
(* Parse, one entry per step.                                               *)

Read(type) == state # "BREAK" /\ log # <<>> /\ Head(log).type = type /\ log' = Tail(log)

\* A DEBUG_BREAK stops the parser, the rest of whose state is of no use.
Break ==
  /\ state' = "BREAK"
  /\ UNCHANGED <<next, tmp, kind, addr, jcc, lviAddr, lviJcc, callStack>>

HandleRegisters ==
  /\ Read("REGISTERS")
  /\ callStack' = IF callStack = <<>> THEN Push(Head(log).esp) ELSE callStack
  /\ UNCHANGED <<state, next, tmp, kind, addr, jcc, lviAddr, lviJcc, program>>

BasicBlockModule ==
  /\ Read("MODULE")
  /\ IF state \in {"Z3_MODULE", "Z3_SYMBOLIC_OBJECT"} THEN Break
     ELSE /\ state' = IF state = "NONE" THEN "NONE" ELSE "Z3_OFFSET"
          /\ UNCHANGED <<next, tmp, kind, addr, jcc, lviAddr, lviJcc, callStack>>
  /\ UNCHANGED program

\* The offset is kept when a symbolic address has set it.
BasicBlockOffset ==
  /\ Read("OFFSET")
  /\ LET e == Head(log) IN
       /\ state' = IF state = "Z3_OFFSET" THEN "NONE" ELSE "Z3_OFFSET"
       /\ tmp' = [tmp EXCEPT !.offset = IF @ = 0 THEN e.block ELSE @,
                             !.data = e.block, !.frame = GetLastCallFrame]
       /\ HandleCallInstruction(e.jump, e.esp)
  /\ UNCHANGED <<next, kind, addr, jcc, lviAddr, lviJcc, program>>

\* Mutant of FirstNewAddr: the loop over the addresses starts as the one over
\* the jumps does.
FirstNewAddrOff == lviAddr
FirstNewAddr    == lviAddr + 1
\* lviJcc is compared with an unsigned size: the loop does nothing at -1.
JccLoop == IF lviJcc < 0 THEN {} ELSE {i \in 1 .. Len(jcc) : i - 1 >= lviJcc}

Annotated(as, loop, block) ==
  [i \in 1 .. Len(as) |-> IF i \in loop THEN [as[i] EXCEPT !.block = block] ELSE as[i]]

\* Mutant of LastIndex: the size.
LastIndexOff(as) == Len(as)
LastIndex(as)    == Len(as) - 1

\* Mutant of Annotate: the parser stays in the middle of the block.
AnnotateStuck(block) ==
  /\ addr' = Annotated(addr, {i \in 1 .. Len(addr) : i - 1 >= FirstNewAddr}, block)
  /\ jcc'  = Annotated(jcc, JccLoop, block)
  /\ lviAddr' = LastIndex(addr) /\ lviJcc' = LastIndex(jcc)
  /\ next' = 0 /\ state' = state /\ tmp' = Clean

Annotate(block) ==
  /\ addr' = Annotated(addr, {i \in 1 .. Len(addr) : i - 1 >= FirstNewAddr}, block)
  /\ jcc'  = Annotated(jcc, JccLoop, block)
  /\ lviAddr' = LastIndex(addr) /\ lviJcc' = LastIndex(jcc)
  /\ next' = 0 /\ state' = "NONE" /\ tmp' = Clean

NextOffset ==
  /\ Read("NEXT_OFFSET")
  /\ LET block == [tmp EXCEPT !.next = Head(log).block] IN
       IF state = "NONE" THEN UNCHANGED parser
       ELSE IF state # "Z3_OFFSET" THEN Break
       ELSE \/ /\ next = 0 /\ next' = 1 /\ tmp' = block
               /\ UNCHANGED <<state, kind, addr, jcc, lviAddr, lviJcc, callStack>>
            \/ /\ next = 1 /\ Annotate(block)
               /\ UNCHANGED <<kind, callStack>>
  /\ UNCHANGED program

NextModule ==
  /\ Read("NEXT_MODULE")
  /\ IF state \in {"NONE", "Z3_OFFSET"} THEN UNCHANGED parser ELSE Break
  /\ UNCHANGED program

Z3Module ==
  /\ Read("Z3_MODULE")
  /\ IF state # "NONE" THEN Break
     ELSE /\ state' = "Z3_MODULE"
          /\ UNCHANGED <<next, tmp, kind, addr, jcc, lviAddr, lviJcc, callStack>>
  /\ UNCHANGED program

Z3Symbolic ==
  /\ Read("SYMBOLIC")
  /\ LET e == Head(log)
         cleaned == IF state = "Z3_AST" THEN Clean ELSE tmp IN
       IF state \notin {"NONE", "Z3_MODULE", "Z3_AST"} THEN Break
       ELSE /\ state' = "Z3_SYMBOLIC_OBJECT" /\ kind' = e
            /\ tmp' = IF e.kind = "addr" THEN [cleaned EXCEPT !.offset = e.block]
                                         ELSE cleaned
            /\ UNCHANGED <<next, addr, jcc, lviAddr, lviJcc, callStack>>
  /\ UNCHANGED program

Z3Ast ==
  /\ Read("AST")
  /\ LET new == [of |-> kind.block, block |-> Clean] IN
       IF state # "Z3_SYMBOLIC_OBJECT" THEN Break
       ELSE /\ state' = "Z3_AST"
            /\ addr' = IF kind.kind = "addr" THEN Append(addr, new) ELSE addr
            /\ jcc'  = IF kind.kind = "jcc"  THEN Append(jcc, new)  ELSE jcc
            /\ UNCHANGED <<next, tmp, kind, lviAddr, lviJcc, callStack>>
  /\ UNCHANGED program

-----------------------------------------------------------------------------

Init ==
  /\ state = "NONE" /\ next = 0 /\ tmp = Clean
  /\ kind = SymbolEntry(0, "addr")
  /\ addr = <<>> /\ jcc = <<>> /\ lviAddr = -1 /\ lviJcc = -1
  /\ callStack = <<>>
  /\ log = <<[type |-> "REGISTERS", esp |-> StackBase]>>
  /\ blocks = 0 /\ frames = <<StackBase>> /\ mixed = {}

Parse ==
  \/ HandleRegisters
  \/ BasicBlockModule \/ BasicBlockOffset \/ NextOffset \/ NextModule
  \/ Z3Module \/ Z3Symbolic \/ Z3Ast

Next == Parse \/ RunBlock

Spec == Init /\ [][Next]_vars

-----------------------------------------------------------------------------
(* Properties.                                                              *)

Assertion == [of : 1 .. MaxBlocks,
              block : [offset : 0 .. MaxBlocks, data : 0 .. MaxBlocks,
                       next : 0 .. MaxBlocks, frame : Int]]

\* Every variable has its type.
TypeOK ==
  /\ state \in {"NONE", "Z3_MODULE", "Z3_SYMBOLIC_OBJECT", "Z3_AST", "Z3_OFFSET", "BREAK"}
  /\ next \in 0 .. 1
  /\ addr \in Seq(Assertion) /\ jcc \in Seq(Assertion)
  /\ lviAddr \in -1 .. Len(addr) - 1 /\ lviJcc \in -1 .. Len(jcc) - 1
  /\ blocks \in 0 .. MaxBlocks /\ mixed \subseteq 1 .. blocks

Settled == log = <<>> /\ blocks > 0

Own(a) == a.block.offset = a.of /\ a.block.data = a.of /\ a.block.next = a.of
Later(a) == a.block = Clean \/ (a.block.data > a.of /\ a.block.next = a.block.data)

\* When a block has been read, the parser accepts the next one: no log that
\* keeps the documented order stops it.
NeverBreaks == state # "BREAK" /\ (Settled => state = "NONE")

\* When a block has been read, every symbolic address read so far is annotated with
\* the block it came with, and no later block has touched it.  The addresses of a
\* block that began with its module are the only ones to suffer for it: they get a
\* later block, if there is one that did not.
AddressesAnnotated ==
  Settled => \A i \in 1 .. Len(addr) :
               IF addr[i].of \in mixed THEN Later(addr[i]) ELSE Own(addr[i])

\* The same for the conditions of the symbolic jumps.
JumpsAnnotated == Settled => \A i \in 1 .. Len(jcc) : Own(jcc[i])

\* The parser knows which calls are active, and where their return addresses
\* are, from the stack pointers of calls and returns alone.
CallsFollowed == Settled => callStack = frames
=============================================================================
