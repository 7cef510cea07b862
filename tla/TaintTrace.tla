----------------------------- MODULE TaintTrace -----------------------------
(***************************************************************************)
(* The taint engine of the annotated tracer: TrackingExecutor with its     *)
(* TaintedIndex.  Each executed instruction is handed to Execute, which    *)
(* gathers the taint indices of its operands and flags, writes a record    *)
(* that names the indices it depends on, and stores the record's index in  *)
(* every operand and flag the instruction modifies.  A consumer of the     *)
(* record stream rebuilds from it, offline, which payload bytes reach      *)
(* which branch: the stream is the product.                                *)
(*                                                                         *)
(* The symbolic environment that maps registers, memory and flags to       *)
(* indices is a library outside the repository; `taint' and the operand    *)
(* reads are modelled from the calls the executor makes on it and the      *)
(* virtual functions it calls back.                                        *)
(***************************************************************************)
EXTENDS Naturals, Sequences

CONSTANTS
  NumSymbolicVariables,  \* payload bytes registered as symbolic variables
  Reg,                   \* registers and other tracked cells
  Flag,                  \* the flags of flagList
  Instr,                 \* the instructions the traced program may execute
  MaxIndex               \* bound: no instruction starts past this index

Variable == 0 .. NumSymbolicVariables - 1
\* Payload byte i lives in the cell i (payloadBuff + i).
Loc   == Variable \cup Reg
Place == Loc \cup Flag
Slot  == 0 .. 3

\* An operand is one cell, spans two, or is no cell at all (an immediate).
Operand == {{}} \cup {{l, m} : l, m \in Loc}

\* An instruction, as far as Execute and the environment look at it: "xor" is
\* an opcode in 0x30..0x33, "mov" is told apart by history variables only.
Instruction ==
  [op : {"mov", "xor", "other"}, opnd : [Slot -> Operand],
   narrow : SUBSET Slot, reads : SUBSET Slot, writes : SUBSET Slot,
   readsF : SUBSET Flag, writesF : SUBSET Flag]

Kind == {"Payload", "Const", "Extract", "Concat", "Execute"}

\* "@<i>" is written into an array of eight characters: six digits at most.
ASSUME SizeAssumption ==
  /\ NumSymbolicVariables \in Nat /\ NumSymbolicVariables <= 1000000
  /\ MaxIndex \in Nat
ASSUME PlaceAssumption == Flag \cap Loc = {} /\ Flag \cap Slot = {}
ASSUME InstrAssumption == Instr \subseteq Instruction

VARIABLES
  pc,      \* "register" | "idle" | "gather"
  cur,     \* the instruction Execute works on
  slot,    \* the loop index of Execute over the operands
  ops,     \* ops.operands: the index of each operand read so far, 0 for none
  next,    \* TaintedIndex::Index
  taint,   \* the environment: place -> taint index, 0 when not symbolic
  trace,   \* the records written so far
  deps,    \* history: place -> the payload bytes its value was computed from
  roots    \* history: for each record, the payload bytes its value came from

vars == <<pc, cur, slot, ops, next, taint, trace, deps, roots>>

NoSource == NumSymbolicVariables
NoOps    == [s \in Slot |-> 0]
NoInstr  == [op |-> "other", opnd |-> [s \in Slot |-> {}], narrow |-> {},
             reads |-> {}, writes |-> {}, readsF |-> {}, writesF |-> {}]

Record == [kind : Kind, dest : Nat, deps : SUBSET Nat, source : Nat]

WrittenRecord(k, dest, d) ==
  [kind |-> k, dest |-> dest, deps |-> d, source |-> NoSource]

-----------------------------------------------------------------------------
(* Registration: one CreateVariable per payload byte, named "@<i>".  The    *)
(* executor takes the variable's number from the third character on, which  *)
(* drops the first digit of i.                                              *)

Power10 == {10, 100, 1000, 10000, 100000}

\* Mutant of SourceOf: the names are taken to count from one.
SourceOfOneBased(i) == i - 1

SourceOf(i) ==
  IF i < 10 THEN 0
  ELSE i % (CHOOSE p \in Power10 : p <= i /\ i < 10 * p)

\* Mutant of PayloadRecord: the index is advanced before the record is written.
PayloadRecordLate(i) ==
  [kind |-> "Payload", dest |-> next + 1, deps |-> {}, source |-> SourceOf(i)]

PayloadRecord(i) ==
  [kind |-> "Payload", dest |-> next, deps |-> {}, source |-> SourceOf(i)]

\* The index is consumed whether or not the record is written.
CreateVariable(i) ==
  /\ IF SourceOf(i) < NumSymbolicVariables
       THEN trace' = Append(trace, PayloadRecord(i))
       ELSE trace' = trace
  /\ next' = next + 1
  /\ taint' = [taint EXCEPT ![i] = next]
  /\ deps'  = [deps EXCEPT ![i] = {i}]
  /\ roots' = Append(roots, {i})

RegisterVariable ==
  /\ pc = "register"
  /\ next - 1 < NumSymbolicVariables
  /\ CreateVariable(next - 1)
  /\ UNCHANGED <<pc, cur, slot, ops>>

RegistrationDone ==
  /\ pc = "register"
  /\ next - 1 = NumSymbolicVariables
  /\ pc' = "idle"
  /\ UNCHANGED <<cur, slot, ops, next, taint, trace, deps, roots>>

-----------------------------------------------------------------------------
(* Execute, first loop: one operand slot per step.                          *)

BeginInstruction(i) ==
  /\ pc = "idle"
  /\ next <= MaxIndex
  /\ pc' = "gather" /\ cur' = i /\ slot' = 0 /\ ops' = NoOps
  /\ UNCHANGED <<next, taint, trace, deps, roots>>

TaintedPart(s) == {l \in cur.opnd[s] : taint[l] # 0}

Reading(s) == pc = "gather" /\ slot = s /\ s \in cur.reads /\ TaintedPart(s) # {}

Gathered(s, index) ==
  /\ ops'  = [ops EXCEPT ![s] = index]
  /\ slot' = s + 1
  /\ UNCHANGED <<pc, cur, taint, deps>>

\* GetOperand says the slot is unused, or that its value is concrete.
ConcreteOperand(s) ==
  /\ pc = "gather" /\ slot = s
  /\ s \notin cur.reads \/ TaintedPart(s) = {}
  /\ slot' = s + 1
  /\ UNCHANGED <<pc, cur, ops, next, taint, trace, deps, roots>>

\* The operand is one cell, read as it was written.
WholeOperand(s) ==
  /\ Reading(s) /\ s \notin cur.narrow
  /\ \E l \in Loc : cur.opnd[s] = {l} /\ Gathered(s, taint[l])
  /\ UNCHANGED <<next, trace, roots>>

\* Mutant of ExtractBits: the index handed back is the counter, advanced already.
ExtractBitsLate(s) ==
  /\ Reading(s) /\ s \in cur.narrow
  /\ \E l \in Loc :
       /\ cur.opnd[s] = {l}
       /\ trace' = Append(trace, WrittenRecord("Extract", next, {taint[l]}))
       /\ roots' = Append(roots, deps[l])
  /\ next' = next + 1
  /\ Gathered(s, next + 1)

\* The operand is a part of one cell: the environment calls ExtractBits.
ExtractBits(s) ==
  /\ Reading(s) /\ s \in cur.narrow
  /\ \E l \in Loc :
       /\ cur.opnd[s] = {l}
       /\ trace' = Append(trace, WrittenRecord("Extract", next, {taint[l]}))
       /\ roots' = Append(roots, deps[l])
  /\ next' = next + 1
  /\ Gathered(s, next)

\* The operand spans two tainted cells: the environment calls ConcatBits.
ConcatBits(s) ==
  /\ Reading(s)
  /\ \E l, m \in Loc :
       /\ l # m /\ cur.opnd[s] = {l, m} /\ taint[l] # 0 /\ taint[m] # 0
       /\ trace' = Append(trace,
                     WrittenRecord("Concat", next, {taint[l], taint[m]}))
       /\ roots' = Append(roots, deps[l] \cup deps[m])
  /\ next' = next + 1
  /\ Gathered(s, next)

\* Mutant of MakeConst: the constant's index is handed on, not the Concat's.
MakeConstOnly(s) ==
  /\ Reading(s)
  /\ \E l, m \in Loc :
       /\ l # m /\ cur.opnd[s] = {l, m} /\ taint[l] # 0 /\ taint[m] = 0
       /\ trace' = Append(Append(trace, WrittenRecord("Const", next, {})),
                     WrittenRecord("Concat", next + 1, {taint[l], next}))
       /\ roots' = Append(Append(roots, {}), deps[l])
  /\ next' = next + 2
  /\ Gathered(s, next)

\* One of the two cells is concrete: it becomes a constant before the Concat.
MakeConst(s) ==
  /\ Reading(s)
  /\ \E l, m \in Loc :
       /\ l # m /\ cur.opnd[s] = {l, m} /\ taint[l] # 0 /\ taint[m] = 0
       /\ trace' = Append(Append(trace, WrittenRecord("Const", next, {})),
                     WrittenRecord("Concat", next + 1, {taint[l], next}))
       /\ roots' = Append(Append(roots, {}), deps[l])
  /\ next' = next + 2
  /\ Gathered(s, next + 1)

GetOperand(s) ==
  \/ ConcreteOperand(s)
  \/ WholeOperand(s)
  \/ ExtractBits(s)
  \/ ConcatBits(s)
  \/ MakeConst(s)

-----------------------------------------------------------------------------
(* Execute, after the loops: what the gathered indices make of the result.  *)

\* Slots and flags that carry an index; trk is their number.
Tracked  == {s \in Slot : ops[s] # 0} \cup {f \in cur.readsF : taint[f] # 0}
IndexOf(t) == IF t \in Slot THEN ops[t] ELSE taint[t]

\* Mutant of TrackedDeps: the flags' indices are left out of the record.
TrackedDepsNoFlags == {ops[s] : s \in {x \in Slot : ops[x] # 0}}
TrackedDeps == {IndexOf(t) : t \in Tracked}

Modified == (UNION {cur.opnd[s] : s \in cur.writes}) \cup cur.writesF

\* Mutants of SetOperands: the flags are forgotten; the index stored is the
\* counter after the record's has been advanced past it.
SetOperandsNoFlags(index) ==
  taint' = [p \in Place |-> IF p \in Modified \ Flag THEN index ELSE taint[p]]
SetOperandsLate(index) ==
  LET stored == IF index = next THEN index + 1 ELSE index
  IN taint' = [p \in Place |-> IF p \in Modified THEN stored ELSE taint[p]]

SetOperands(index) ==
  taint' = [p \in Place |-> IF p \in Modified THEN index ELSE taint[p]]
UnsetOperands == SetOperands(0)

\* What the result was computed from, by the history of the operands.
Flow == UNION ({deps[l] : l \in UNION {cur.opnd[s] : s \in cur.reads}}
               \cup {deps[f] : f \in cur.readsF})
SetDeps(d) == deps' = [p \in Place |-> IF p \in Modified THEN d ELSE deps[p]]

Gathering == pc = "gather" /\ slot = 4
Done == pc' = "idle" /\ cur' = NoInstr /\ slot' = 0 /\ ops' = NoOps

\* "clear registers": a xor whose two operands carry the same index.
IsClear == cur.op = "xor" /\ ops[0] = ops[1]

ClearOperands ==
  /\ Gathering /\ IsClear
  /\ UnsetOperands /\ SetDeps({})
  /\ Done /\ UNCHANGED <<next, trace, roots>>

Untracked ==
  /\ Gathering /\ ~IsClear
  /\ Tracked = {}
  /\ UnsetOperands /\ SetDeps(Flow)
  /\ Done /\ UNCHANGED <<next, trace, roots>>

\* A single tracked input: its index is handed on, no record is written.
Propagate ==
  /\ Gathering /\ ~IsClear
  /\ \E t \in Slot \cup Flag : Tracked = {t} /\ SetOperands(IndexOf(t))
  /\ SetDeps(Flow)
  /\ Done /\ UNCHANGED <<next, trace, roots>>

WriteExecute ==
  /\ Gathering /\ ~IsClear
  /\ Tracked # {} /\ \A t \in Slot \cup Flag : Tracked # {t}
  /\ trace' = Append(trace, WrittenRecord("Execute", next, TrackedDeps))
  /\ roots' = Append(roots, Flow)
  /\ next' = next + 1
  /\ SetOperands(next) /\ SetDeps(Flow)
  /\ Done

-----------------------------------------------------------------------------

Init ==
  /\ pc = "register" /\ slot = 0 /\ ops = NoOps
  /\ cur = NoInstr
  /\ next = 1
  /\ taint = [p \in Place |-> 0]
  /\ trace = <<>>
  /\ deps = [p \in Place |-> {}]
  /\ roots = <<>>

Next ==
  \/ RegisterVariable
  \/ RegistrationDone
  \/ \E i \in Instr : BeginInstruction(i)
  \/ \E s \in Slot : GetOperand(s)
  \/ ClearOperands
  \/ Untracked
  \/ Propagate
  \/ WriteExecute

Spec == Init /\ [][Next]_vars

-----------------------------------------------------------------------------
(* Properties.                                                              *)

\* Every variable has its type.
TypeOK ==
  /\ pc \in {"register", "idle", "gather"}
  /\ cur \in Instr \cup {NoInstr}
  /\ slot \in 0 .. 4
  /\ ops \in [Slot -> Nat]
  /\ next \in Nat \ {0}
  /\ taint \in [Place -> Nat]
  /\ trace \in Seq(Record)
  /\ deps \in [Place -> SUBSET Variable]
  /\ roots \in Seq(SUBSET Variable)

\* The stream has no gap: the k-th record defines index k, and every index
\* handed out so far has its record (CreateVariable consumes an index even when
\* it writes nothing, and every other writer reads the counter and advances it
\* in separate statements).
IndicesAreDense ==
  /\ Len(trace) = next - 1
  /\ \A k \in 1 .. Len(trace) : trace[k].dest = k

\* Whatever a record depends on was defined by an earlier record: the consumer
\* reads the stream once, front to back.
DepsWrittenBefore ==
  \A k \in 1 .. Len(trace) : trace[k].deps \subseteq 1 .. k - 1

\* An index kept in the environment, or gathered by a half executed
\* instruction, names a record already in the stream.
IndicesKnown ==
  /\ \A p \in Place : taint[p] < next
  /\ \A s \in Slot : ops[s] < next

RootsOf(index) == IF index = 0 THEN {} ELSE roots[index]

\* The records' dependencies explain the data flow: the payload bytes a record's
\* value was computed from are exactly those reached through the records it names.
\* Which byte a Payload record stands for is told by its position in the stream,
\* the first record being byte 0.  Its source does not tell: the code writes 0 for
\* byte 1 (PayloadNamesItsByte).
RootsFollowTrace ==
  \A k \in 1 .. Len(trace) :
    roots[k] = IF trace[k].kind = "Payload"
                 THEN {k - 1}
                 ELSE UNION {roots[d] : d \in trace[k].deps}

\* Taint is neither lost nor invented: the index of every register, cell and flag
\* leads back, by the records' dependencies, to exactly the payload bytes its
\* value was computed from (the result of a xor recognised as a clear counts as
\* computed from none).
TaintExact == \A p \in Place : deps[p] = RootsOf(taint[p])

\* No place carries an index that leads back to no payload byte.
TaintHasSource == \A p \in Place : taint[p] # 0 => RootsOf(taint[p]) # {}

\* The payload record of variable i says it is byte i of the payload.  This is not
\* so: it fails as soon as there are two payload bytes.
PayloadNamesItsByte ==
  \A k \in 1 .. Len(trace) :
    trace[k].kind = "Payload" => trace[k].source = k - 1
=============================================================================
