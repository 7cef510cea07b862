-------------------------- MODULE TaintTraceProofs --------------------------
(***************************************************************************)
(* Proofs about the taint engine, for every number of payload bytes, every *)
(* set of registers and flags and every instruction set.                   *)
(***************************************************************************)
EXTENDS TaintTrace, SequenceTheorems, TLAPS

(***************************************************************************)
(* The stream part of the invariant, over the values of the record stream, *)
(* the history of roots and the next index.                                *)
(***************************************************************************)
StreamAt(t, r, n) ==
  /\ n \in Nat \ {0}
  /\ t \in Seq(Record) /\ Len(t) = n - 1
  /\ r \in Seq(SUBSET Variable) /\ Len(r) = n - 1
  /\ \A k \in 1 .. n - 1 :
       /\ t[k].dest = k
       /\ t[k].deps \subseteq 1 .. k - 1
       /\ r[k] = IF t[k].kind = "Payload" THEN {k - 1}
                 ELSE UNION {r[d] : d \in t[k].deps}

\* The gathered operands stand for the data flow of the slots already read.
OpsExact ==
  /\ pc # "gather" => slot = 0 /\ ops = NoOps
  /\ \A s \in Slot : s \notin cur.reads \/ s >= slot => ops[s] = 0
  /\ \A s \in Slot : s \in cur.reads /\ s < slot =>
       RootsOf(ops[s]) = UNION {deps[l] : l \in cur.opnd[s]}

\* No index in use leads back to no payload byte.
Sourced ==
  /\ TaintHasSource
  /\ \A s \in Slot : ops[s] # 0 => RootsOf(ops[s]) # {}

IInv ==
  /\ TypeOK
  /\ StreamAt(trace, roots, next)
  /\ IndicesKnown
  /\ TaintExact
  /\ OpsExact
  /\ Sourced

-----------------------------------------------------------------------------
(* Registration.                                                            *)

\* Dropping the first digit of a variable's number never makes it larger, so
\* CreateVariable writes a record for every registered variable.
LEMMA SourceOfBound ==
  ASSUME NEW i \in Variable
  PROVE  SourceOf(i) \in Nat /\ SourceOf(i) < NumSymbolicVariables
<1>1. /\ i \in Nat /\ i < 1000000
      /\ NumSymbolicVariables \in Nat /\ i < NumSymbolicVariables
  BY SMT, SizeAssumption DEF Variable
<1>2. CASE i < 10
  <2>1. SourceOf(i) = 0 BY Zenon, <1>2 DEF SourceOf
  <2>2. QED BY SMT, <1>1, <2>1
<1>3. CASE i >= 10
  <2> DEFINE p == CHOOSE q \in Power10 : q <= i /\ i < 10 * q
  <2>1. \E q \in Power10 : q <= i /\ i < 10 * q
    <3>1. CASE i < 100       BY SMT, <1>1, <1>3, <3>1 DEF Power10
    <3>2. CASE i >= 100 /\ i < 1000       BY SMT, <1>1, <3>2 DEF Power10
    <3>3. CASE i >= 1000 /\ i < 10000     BY SMT, <1>1, <3>3 DEF Power10
    <3>4. CASE i >= 10000 /\ i < 100000   BY SMT, <1>1, <3>4 DEF Power10
    <3>5. CASE i >= 100000 /\ i < 1000000 BY SMT, <1>1, <3>5 DEF Power10
    <3>6. QED BY SMT, <1>1, <3>1, <3>2, <3>3, <3>4, <3>5
  <2>2. p \in Power10 /\ p <= i
    BY SMT, <2>1
  <2>3. SourceOf(i) = i % p
    BY SMT, <1>1, <1>3 DEF SourceOf
  <2> HIDE DEF p
  <2>4. i % p \in Nat /\ i % p <= i
    <3>1. CASE p = 10     BY SMT, <1>1, <3>1
    <3>2. CASE p = 100    BY SMT, <1>1, <3>2
    <3>3. CASE p = 1000   BY SMT, <1>1, <3>3
    <3>4. CASE p = 10000  BY SMT, <1>1, <3>4
    <3>5. CASE p = 100000 BY SMT, <1>1, <3>5
    <3>6. QED BY SMT, <2>2, <3>1, <3>2, <3>3, <3>4, <3>5 DEF Power10
  <2>5. QED BY SMT, <1>1, <2>3, <2>4, SizeAssumption
<1>4. QED BY SMT, <1>1, <1>2, <1>3

-----------------------------------------------------------------------------
(* The stream.                                                              *)

\* Appending a record whose dependencies are already in the stream keeps the
\* stream well formed.
LEMMA StreamAppend ==
  ASSUME NEW t, NEW r, NEW n, StreamAt(t, r, n),
         NEW rec \in Record, rec.dest = n, rec.deps \subseteq 1 .. n - 1,
         NEW e \in SUBSET Variable,
         e = IF rec.kind = "Payload" THEN {n - 1}
             ELSE UNION {r[d] : d \in rec.deps}
  PROVE  StreamAt(Append(t, rec), Append(r, e), n + 1)
<1> DEFINE tt == Append(t, rec)
           rr == Append(r, e)
<1>1. /\ n \in Nat \ {0} /\ t \in Seq(Record) /\ r \in Seq(SUBSET Variable)
      /\ Len(t) = n - 1 /\ Len(r) = n - 1
  BY DEF StreamAt
<1>2. /\ tt \in Seq(Record) /\ Len(tt) = n
      /\ \A k \in 1 .. n - 1 : tt[k] = t[k]
      /\ tt[n] = rec
  BY <1>1, AppendProperties
<1>3. /\ rr \in Seq(SUBSET Variable) /\ Len(rr) = n
      /\ \A k \in 1 .. n - 1 : rr[k] = r[k]
      /\ rr[n] = e
  BY <1>1, AppendProperties
<1> HIDE DEF tt, rr
<1>4. ASSUME NEW k \in 1 .. n
      PROVE  /\ tt[k].dest = k
             /\ tt[k].deps \subseteq 1 .. k - 1
             /\ rr[k] = IF tt[k].kind = "Payload" THEN {k - 1}
                        ELSE UNION {rr[d] : d \in tt[k].deps}
  <2>1. CASE k \in 1 .. n - 1
    <3>1. /\ tt[k].dest = k
          /\ tt[k].deps \subseteq 1 .. k - 1
          /\ r[k] = IF tt[k].kind = "Payload" THEN {k - 1}
                    ELSE UNION {r[d] : d \in tt[k].deps}
      BY <1>2, <2>1 DEF StreamAt
    <3>2. \A d \in tt[k].deps : rr[d] = r[d]
      BY <1>1, <1>3, <2>1, <3>1
    <3>3. {rr[d] : d \in tt[k].deps} = {r[d] : d \in tt[k].deps}
      BY <3>2
    <3>4. QED BY <1>3, <2>1, <3>1, <3>3
  <2>2. CASE k = n
    <3>1. \A d \in rec.deps : rr[d] = r[d]
      BY <1>3
    <3>2. {rr[d] : d \in rec.deps} = {r[d] : d \in rec.deps}
      BY <3>1
    <3>3. QED BY <1>1, <1>2, <1>3, <2>2, <3>2
  <2>3. QED BY <1>1, <2>1, <2>2
<1>5. StreamAt(tt, rr, n + 1)
  BY <1>1, <1>2, <1>3, <1>4 DEF StreamAt
<1>6. QED BY <1>5 DEF tt, rr

\* A record written by any function but CreateVariable.
LEMMA WrittenRecordType ==
  ASSUME NEW k \in Kind \ {"Payload"}, NEW dest \in Nat, NEW d \in SUBSET Nat
  PROVE  /\ WrittenRecord(k, dest, d) \in Record
         /\ WrittenRecord(k, dest, d).dest = dest
         /\ WrittenRecord(k, dest, d).deps = d
         /\ WrittenRecord(k, dest, d).kind # "Payload"
BY SMT, SizeAssumption DEF WrittenRecord, Record, NoSource

-----------------------------------------------------------------------------
(* What the indices stand for.                                              *)

\* What a step may do to the stream: extend it, and keep the roots it has.
StreamGrows ==
  /\ StreamAt(trace', roots', next')
  /\ next' >= next
  /\ \A k \in 1 .. next - 1 : roots'[k] = roots[k]

\* What the executor works on is an instruction.
LEMMA InstrType == NoInstr \in Instruction /\ Instr \cup {NoInstr} \subseteq Instruction
BY InstrAssumption DEF NoInstr, Instruction, Operand

\* The cells of an operand are tracked places.
LEMMA OperandCells ==
  ASSUME IInv, NEW s \in Slot
  PROVE  cur.opnd[s] \subseteq Loc
<1>1. cur \in Instruction
  BY InstrType DEF IInv, TypeOK
<1>2. cur.opnd[s] \in Operand
  BY <1>1 DEF Instruction
<1>3. QED BY <1>2 DEF Operand

\* While the stream only grows, an index in use keeps its meaning.
LEMMA RootsKept ==
  ASSUME IInv, StreamGrows, NEW x \in Nat, x < next
  PROVE  x < next' /\ (x # 0 => roots'[x] = roots[x])
<1>1. next \in Nat /\ next' \in Nat
  BY DEF IInv, StreamGrows, StreamAt
<1>2. QED BY <1>1 DEF StreamGrows

\* A step that leaves the environment alone keeps what its indices stand for.
LEMMA PlacesKept ==
  ASSUME IInv, StreamGrows, UNCHANGED <<taint, deps>>
  PROVE  TaintExact' /\ TaintHasSource' /\ \A p \in Place : taint'[p] < next'
<1>1. \A p \in Place : taint[p] \in Nat /\ taint[p] < next
  BY DEF IInv, TypeOK, IndicesKnown
<1>2. \A p \in Place : RootsOf(taint[p])' = RootsOf(taint[p]) /\ taint'[p] < next'
  <2> TAKE p \in Place
  <2>1. RootsOf(taint[p]) = IF taint[p] = 0 THEN {} ELSE roots[taint[p]]
    BY DEF RootsOf
  <2>2. RootsOf(taint[p])' = IF taint[p] = 0 THEN {} ELSE roots'[taint[p]]
    BY DEF RootsOf
  <2>3. taint[p] # 0 => roots'[taint[p]] = roots[taint[p]]
    BY <1>1, RootsKept
  <2>4. QED BY <1>1, <2>1, <2>2, <2>3, RootsKept
<1>3. QED
  BY <1>2 DEF IInv, TaintExact, Sourced, TaintHasSource

\* Storing one index, with the bytes it stands for, in every place the
\* instruction modifies.
LEMMA PlacesWritten ==
  ASSUME IInv, StreamGrows,
         NEW index \in Nat, index < next',
         NEW d \in SUBSET Variable,
         d = IF index = 0 THEN {} ELSE roots'[index],
         index # 0 => d # {},
         SetOperands(index), SetDeps(d)
  PROVE  /\ taint' \in [Place -> Nat] /\ deps' \in [Place -> SUBSET Variable]
         /\ TaintExact' /\ TaintHasSource'
         /\ \A p \in Place : taint'[p] < next'
<1>1. /\ \A p \in Place : taint[p] \in Nat /\ taint[p] < next
      /\ taint \in [Place -> Nat] /\ deps \in [Place -> SUBSET Variable]
  BY DEF IInv, TypeOK, IndicesKnown
<1>2. /\ \A p \in Place : taint'[p] = IF p \in Modified THEN index ELSE taint[p]
      /\ \A p \in Place : deps'[p] = IF p \in Modified THEN d ELSE deps[p]
      /\ taint' \in [Place -> Nat] /\ deps' \in [Place -> SUBSET Variable]
  BY <1>1 DEF SetOperands, SetDeps
<1>3. ASSUME NEW p \in Place
      PROVE  /\ deps'[p] = RootsOf(taint[p])' /\ taint'[p] < next'
             /\ taint'[p] # 0 => RootsOf(taint[p])' # {}
  <2>1. RootsOf(taint[p])' = IF taint'[p] = 0 THEN {} ELSE roots'[taint'[p]]
    BY DEF RootsOf
  <2>2. CASE p \in Modified
    BY <1>2, <2>1, <2>2
  <2>3. CASE p \notin Modified
    <3>1. taint'[p] = taint[p] /\ deps'[p] = deps[p]
      BY <1>2, <2>3
    <3>2. /\ deps[p] = IF taint[p] = 0 THEN {} ELSE roots[taint[p]]
          /\ taint[p] # 0 => deps[p] # {}
      BY DEF IInv, TaintExact, Sourced, TaintHasSource, RootsOf
    <3>3. taint[p] # 0 => roots'[taint[p]] = roots[taint[p]]
      BY <1>1, RootsKept
    <3>4. QED BY <1>1, <2>1, <3>1, <3>2, <3>3, RootsKept
  <2>4. QED BY <2>2, <2>3
<1>4. QED BY <1>2, <1>3 DEF TaintExact, TaintHasSource

\* Once every operand is gathered, the tracked indices lead back to exactly what
\* the instruction's result is computed from.
LEMMA FlowIsTracked ==
  ASSUME IInv, Gathering
  PROVE  /\ \A t \in Tracked : IndexOf(t) \in 1 .. next - 1
         /\ Flow = UNION {roots[d] : d \in TrackedDeps}
         /\ Flow \subseteq Variable
         /\ Tracked # {} => Flow # {}
         /\ Tracked \subseteq Slot \cup Flag
<1> USE DEF Gathering
<1>1. cur \in Instruction
  BY InstrType DEF IInv, TypeOK
<1>2. /\ cur.reads \subseteq Slot /\ cur.readsF \subseteq Flag
      /\ \A s \in Slot : cur.opnd[s] \subseteq Loc
  BY <1>1 DEF Instruction, Operand
<1>3. /\ \A s \in Slot : ops[s] \in Nat /\ ops[s] < next
      /\ \A p \in Place : taint[p] \in Nat /\ taint[p] < next
      /\ next \in Nat /\ deps \in [Place -> SUBSET Variable]
  BY DEF IInv, TypeOK, IndicesKnown
<1>4. /\ \A s \in Slot : s \notin cur.reads => ops[s] = 0
      /\ \A s \in Slot : s \in cur.reads =>
           RootsOf(ops[s]) = UNION {deps[l] : l \in cur.opnd[s]}
  BY DEF IInv, OpsExact, Slot
<1>5. \A f \in cur.readsF : /\ f \in Place /\ f \notin Slot
                            /\ deps[f] = RootsOf(taint[f])
  BY <1>2, PlaceAssumption DEF IInv, TaintExact, Place
<1>6. \A t \in Tracked : /\ IndexOf(t) \in 1 .. next - 1
                         /\ RootsOf(IndexOf(t)) = roots[IndexOf(t)]
                         /\ RootsOf(IndexOf(t)) # {}
                         /\ RootsOf(IndexOf(t)) \subseteq Flow
  <2> TAKE t \in Tracked
  <2>1. CASE t \in Slot
    <3>1. /\ IndexOf(t) = ops[t] /\ ops[t] # 0
      BY <2>1, <1>5 DEF Tracked, IndexOf
    <3>2. t \in cur.reads
      BY <2>1, <3>1, <1>4
    <3>3. UNION {deps[l] : l \in cur.opnd[t]} \subseteq Flow
      BY <3>2 DEF Flow
    <3>4. QED BY <2>1, <3>1, <3>2, <3>3, <1>3, <1>4 DEF RootsOf, IInv, Sourced
  <2>2. CASE t \notin Slot
    <3>1. /\ t \in cur.readsF /\ taint[t] # 0 /\ IndexOf(t) = taint[t]
      BY <2>2 DEF Tracked, IndexOf
    <3>2. deps[t] \subseteq Flow
      BY <3>1 DEF Flow
    <3>3. QED BY <3>1, <3>2, <1>3, <1>5 DEF RootsOf, IInv, Sourced, TaintHasSource
  <2>3. QED BY <2>1, <2>2
<1>7. ASSUME NEW x \in Flow
      PROVE  \E t \in Tracked : x \in RootsOf(IndexOf(t))
  <2>1. \/ \E s \in cur.reads : \E l \in cur.opnd[s] : x \in deps[l]
        \/ \E f \in cur.readsF : x \in deps[f]
    BY DEF Flow
  <2>2. CASE \E s \in cur.reads : \E l \in cur.opnd[s] : x \in deps[l]
    <3>1. PICK s \in cur.reads : \E l \in cur.opnd[s] : x \in deps[l]
      BY <2>2
    <3>2. s \in Slot /\ x \in RootsOf(ops[s])
      BY <3>1, <1>2, <1>4
    <3>3. ops[s] # 0
      BY <3>2 DEF RootsOf
    <3>4. s \in Tracked /\ IndexOf(s) = ops[s]
      BY <3>2, <3>3 DEF Tracked, IndexOf
    <3>5. QED BY <3>2, <3>4
  <2>3. CASE \E f \in cur.readsF : x \in deps[f]
    <3>1. PICK f \in cur.readsF : x \in deps[f]
      BY <2>3
    <3>2. x \in RootsOf(taint[f]) /\ taint[f] # 0
      BY <3>1, <1>5 DEF RootsOf
    <3>3. f \in Tracked /\ IndexOf(f) = taint[f]
      BY <3>1, <3>2, <1>5 DEF Tracked, IndexOf
    <3>4. QED BY <3>2, <3>3
  <2>4. QED BY <2>1, <2>2, <2>3
<1>8. Flow = UNION {roots[d] : d \in TrackedDeps}
  <2>1. \A x \in Flow : \E d \in TrackedDeps : x \in roots[d]
    BY <1>6, <1>7 DEF TrackedDeps
  <2>2. \A d \in TrackedDeps : roots[d] \subseteq Flow
    BY <1>6 DEF TrackedDeps
  <2>3. QED BY <2>1, <2>2
<1>9. Flow \subseteq Variable
  BY <1>2, <1>3 DEF Flow, Place
<1>10. Tracked # {} => Flow # {}
  BY <1>6
<1>11. Tracked \subseteq Slot \cup Flag
  BY <1>2 DEF Tracked
<1>12. QED BY <1>6, <1>8, <1>9, <1>10, <1>11

\* Handing a gathered index on from the environment to the operand loop.
LEMMA OperandGathered ==
  ASSUME IInv, StreamGrows, NEW s \in Slot, Reading(s),
         NEW index \in Nat, index # 0, index < next', Gathered(s, index),
         roots'[index] = UNION {deps[l] : l \in cur.opnd[s]}
  PROVE  IInv'
<1> USE DEF Reading, Gathered
<1>1. /\ ops \in [Slot -> Nat] /\ slot = s /\ s \in 0 .. 3 /\ s \in cur.reads
      /\ pc = "gather" /\ pc' = pc /\ cur' = cur /\ slot' = s + 1
      /\ ops' = [ops EXCEPT ![s] = index]
      /\ taint' = taint /\ deps' = deps
  BY DEF IInv, TypeOK, Slot
<1>2. /\ \A x \in Slot : x # s => ops'[x] = ops[x]
      /\ ops'[s] = index
      /\ ops' \in [Slot -> Nat]
      /\ \A x \in Slot : ops[x] \in Nat /\ ops[x] < next
  BY <1>1 DEF IInv, IndicesKnown
<1>3. TypeOK'
  BY <1>1, <1>2 DEF IInv, TypeOK, StreamGrows, StreamAt
<1>4. TaintExact' /\ TaintHasSource' /\ \A p \in Place : taint'[p] < next'
  BY <1>1, PlacesKept
<1>5. \A x \in Slot : x # s =>
         /\ ops'[x] < next'
         /\ RootsOf(ops[x])' = RootsOf(ops[x])
  <2> SUFFICES ASSUME NEW x \in Slot, x # s
               PROVE  ops'[x] < next' /\ RootsOf(ops[x])' = RootsOf(ops[x])
    OBVIOUS
  <2>1. RootsOf(ops[x])' = IF ops'[x] = 0 THEN {} ELSE roots'[ops'[x]]
    BY DEF RootsOf
  <2>2. RootsOf(ops[x]) = IF ops[x] = 0 THEN {} ELSE roots[ops[x]]
    BY DEF RootsOf
  <2>3. QED BY <1>2, <2>1, <2>2, RootsKept
<1>6. RootsOf(ops[s])' = UNION {deps[l] : l \in cur.opnd[s]} /\ ops'[s] < next'
  <2>1. RootsOf(ops[s])' = IF ops'[s] = 0 THEN {} ELSE roots'[ops'[s]]
    BY DEF RootsOf
  <2>2. QED BY <1>2, <2>1
<1>7. IndicesKnown'
  BY <1>4, <1>5, <1>6 DEF IndicesKnown
<1>8. OpsExact'
  <2>1. (pc # "gather" => slot = 0 /\ ops = NoOps)'
    BY <1>1
  <2>2. \A x \in Slot : x \notin cur'.reads \/ x >= slot' => ops'[x] = 0
    BY <1>1, <1>2 DEF IInv, OpsExact, Slot
  <2>3. ASSUME NEW x \in Slot, x \in cur.reads, x < s + 1
        PROVE  RootsOf(ops[x])' = UNION {deps'[l] : l \in cur'.opnd[x]}
    <3>1. CASE x = s BY <3>1, <1>1, <1>6
    <3>2. CASE x # s
      <4>1. x < slot BY <1>1, <2>3, <3>2 DEF Slot
      <4>2. QED BY <4>1, <3>2, <2>3, <1>1, <1>5 DEF IInv, OpsExact
    <3>3. QED BY <3>1, <3>2
  <2>4. QED BY <1>1, <2>1, <2>2, <2>3 DEF OpsExact
<1>9. UNION {deps[l] : l \in cur.opnd[s]} # {}
  <2>1. PICK l \in cur.opnd[s] : taint[l] # 0
    BY DEF TaintedPart
  <2>2. l \in Place
    BY OperandCells DEF Place
  <2>3. deps[l] # {}
    BY <2>1, <2>2 DEF IInv, TaintExact, Sourced, TaintHasSource
  <2>4. QED BY <2>1, <2>3
<1>10. \A x \in Slot : ops'[x] # 0 => RootsOf(ops[x])' # {}
  <2> TAKE x \in Slot
  <2>1. CASE x = s BY <2>1, <1>6, <1>9
  <2>2. CASE x # s BY <2>2, <1>2, <1>5 DEF IInv, Sourced
  <2>3. QED BY <2>1, <2>2
<1>11. QED
  BY <1>3, <1>4, <1>7, <1>8, <1>10 DEF IInv, Sourced, StreamGrows

\* A finished instruction leaves no operand behind.
LEMMA InstructionDone ==
  ASSUME IInv, StreamGrows, Done,
         taint' \in [Place -> Nat], deps' \in [Place -> SUBSET Variable],
         TaintExact', TaintHasSource', \A p \in Place : taint'[p] < next'
  PROVE  IInv'
<1> USE DEF Done
<1>1. /\ \A s \in Slot : ops'[s] = 0
      /\ ops' \in [Slot -> Nat] /\ next' \in Nat \ {0}
  BY DEF NoOps, StreamGrows, StreamAt
<1>2. TypeOK'
  BY <1>1 DEF TypeOK, StreamGrows, StreamAt
<1>3. IndicesKnown'
  BY <1>1 DEF IndicesKnown
<1>4. OpsExact'
  BY <1>1 DEF OpsExact, NoInstr
<1>5. QED
  BY <1>1, <1>2, <1>3, <1>4 DEF IInv, Sourced, StreamGrows

-----------------------------------------------------------------------------
(* The inductive step, one lemma per group of actions.                      *)

\* The invariant holds before the first variable is registered.
LEMMA InitIInv == Init => IInv
<1> SUFFICES ASSUME Init PROVE IInv
  OBVIOUS
<1> USE DEF Init
<1>1. Len(trace) = 0 /\ Len(roots) = 0
  OBVIOUS
<1>2. trace \in Seq(Record) /\ roots \in Seq(SUBSET Variable)
  OBVIOUS
<1>3. TypeOK
  BY <1>2 DEF TypeOK, NoOps
<1>4. StreamAt(trace, roots, next)
  BY <1>1, <1>2 DEF StreamAt
<1>5. IndicesKnown /\ TaintExact
  BY DEF IndicesKnown, TaintExact, RootsOf, NoOps
<1>6. OpsExact
  BY DEF OpsExact, NoOps, NoInstr, Slot
<1>7. Sourced
  BY DEF Sourced, TaintHasSource, NoOps
<1>8. QED BY <1>3, <1>4, <1>5, <1>6, <1>7 DEF IInv

\* A stream left alone satisfies StreamGrows.
LEMMA StreamKept ==
  ASSUME IInv, UNCHANGED <<next, trace, roots>>
  PROVE  StreamGrows
<1>1. next \in Nat /\ StreamAt(trace, roots, next)
  BY DEF IInv, TypeOK
<1>2. QED BY <1>1 DEF StreamGrows

\* A stream stays well formed when a function other than CreateVariable writes.
LEMMA RecordAppend ==
  ASSUME NEW t, NEW r, NEW n, StreamAt(t, r, n),
         NEW kind \in Kind \ {"Payload"}, NEW ds \in SUBSET (1 .. n - 1),
         NEW e \in SUBSET Variable, e = UNION {r[d] : d \in ds}
  PROVE  StreamAt(Append(t, WrittenRecord(kind, n, ds)), Append(r, e), n + 1)
<1>1. n \in Nat /\ ds \in SUBSET Nat
  BY DEF StreamAt
<1> DEFINE rec == WrittenRecord(kind, n, ds)
<1>2. rec \in Record /\ rec.dest = n /\ rec.deps = ds /\ rec.kind # "Payload"
  BY <1>1, WrittenRecordType
<1> HIDE DEF rec
<1>3. /\ e = IF rec.kind = "Payload" THEN {n - 1}
             ELSE UNION {r[d] : d \in rec.deps}
      /\ rec.deps \subseteq 1 .. n - 1
  BY <1>2
<1>4. StreamAt(Append(t, rec), Append(r, e), n + 1)
  BY <1>2, <1>3, StreamAppend
<1>5. QED BY <1>4 DEF rec

\* The roots of a stream that got one more record.
LEMMA RootsAppend ==
  ASSUME NEW t, NEW r, NEW n, StreamAt(t, r, n), NEW e \in SUBSET Variable
  PROVE  (\A k \in 1 .. n - 1 : Append(r, e)[k] = r[k]) /\ Append(r, e)[n] = e
<1>1. r \in Seq(SUBSET Variable) /\ Len(r) = n - 1 /\ n \in Nat \ {0}
  BY DEF StreamAt
<1>2. QED BY <1>1, AppendProperties

\* The stream stays well formed when one record is appended.
LEMMA OneRecord ==
  ASSUME IInv, NEW kind \in Kind \ {"Payload"}, NEW ds \in SUBSET (1 .. next - 1),
         NEW e \in SUBSET Variable, e = UNION {roots[d] : d \in ds},
         trace' = Append(trace, WrittenRecord(kind, next, ds)),
         roots' = Append(roots, e), next' = next + 1
  PROVE  StreamGrows /\ roots'[next] = e
<1>1. next \in Nat \ {0} /\ StreamAt(trace, roots, next)
  BY DEF IInv, TypeOK
<1>2. StreamAt(Append(trace, WrittenRecord(kind, next, ds)),
               Append(roots, e), next + 1)
  BY Zenon, <1>1, RecordAppend
<1>3. StreamAt(trace', roots', next')
  BY <1>2
<1>4. /\ \A k \in 1 .. next - 1 : roots'[k] = roots[k]
      /\ roots'[next] = e
  <2>1. roots \in Seq(SUBSET Variable) /\ Len(roots) = next - 1
    BY <1>1 DEF StreamAt
  <2>2. QED BY <1>1, <2>1, AppendProperties
<1>5. next' >= next
  BY <1>1
<1>6. QED BY Zenon, <1>3, <1>4, <1>5 DEF StreamGrows

\* CreateVariable for one more payload byte.
LEMMA RegisterVariableStep == IInv /\ RegisterVariable => IInv'
<1> SUFFICES ASSUME IInv, RegisterVariable PROVE IInv'
  OBVIOUS
<1> DEFINE i == next - 1
           rec == PayloadRecord(i)
<1>1. next \in Nat \ {0} /\ i \in Variable /\ i \in Place
  BY SMT, SizeAssumption DEF IInv, TypeOK, RegisterVariable, Variable, Place, Loc
<1>2. SourceOf(i) \in Nat /\ SourceOf(i) < NumSymbolicVariables
  BY <1>1, SourceOfBound
<1>3. /\ trace' = Append(trace, rec) /\ roots' = Append(roots, {i})
      /\ next' = next + 1
      /\ taint' = [taint EXCEPT ![i] = next] /\ deps' = [deps EXCEPT ![i] = {i}]
      /\ UNCHANGED <<pc, cur, slot, ops>> /\ pc = "register"
  BY <1>2 DEF RegisterVariable, CreateVariable
<1>4. /\ rec \in Record /\ rec.dest = next /\ rec.deps = {} /\ rec.kind = "Payload"
  BY <1>1, <1>2 DEF PayloadRecord, Record, Kind
<1>5. StreamAt(trace, roots, next) /\ {i} \in SUBSET Variable
  BY <1>1 DEF IInv
<1> HIDE DEF rec, i
<1>6. i = next - 1
  BY DEF i
<1>7. StreamAt(Append(trace, rec), Append(roots, {i}), next + 1)
  <2>1. /\ {i} = IF rec.kind = "Payload" THEN {next - 1}
               ELSE UNION {roots[d] : d \in rec.deps}
        /\ rec.deps \subseteq 1 .. next - 1
    BY <1>4, <1>6
  <2>2. QED BY <1>4, <1>5, <2>1, StreamAppend
<1>8. StreamGrows /\ roots'[next] = {i} /\ next < next'
  <2>1. StreamAt(trace', roots', next')
    BY <1>3, <1>7
  <2>2. /\ \A k \in 1 .. next - 1 : roots'[k] = roots[k]
        /\ roots'[next] = {i}
    <3>1. roots \in Seq(SUBSET Variable) /\ Len(roots) = next - 1
      BY <1>5 DEF StreamAt
    <3>2. QED BY <1>1, <1>3, <1>5, <3>1, AppendProperties
  <2>3. next' >= next /\ next < next'
    BY <1>1, <1>3
  <2>4. QED BY Zenon, <2>1, <2>2, <2>3 DEF StreamGrows
<1>9. ops = NoOps /\ \A s \in Slot : ops[s] = 0
  BY <1>3 DEF IInv, OpsExact, NoOps
<1>10. ASSUME NEW p \in Place
       PROVE  /\ deps'[p] = RootsOf(taint[p])' /\ taint'[p] < next'
              /\ taint'[p] # 0 => RootsOf(taint[p])' # {}
  <2>1. RootsOf(taint[p])' = IF taint'[p] = 0 THEN {} ELSE roots'[taint'[p]]
    BY DEF RootsOf
  <2>2. taint \in [Place -> Nat] /\ deps \in [Place -> SUBSET Variable]
        /\ taint[p] < next
    BY DEF IInv, TypeOK, IndicesKnown
  <2>3. CASE p = i
    <3>1. taint'[p] = next /\ deps'[p] = {i}
      BY <1>3, <2>2, <2>3
    <3>2. next # 0 /\ next < next'
      BY <1>1, <1>3
    <3> QED
      BY <1>8, <2>1, <3>1, <3>2
  <2>4. CASE p # i
    <3>1. taint'[p] = taint[p] /\ deps'[p] = deps[p]
      BY <1>3, <2>2, <2>4
    <3>2. /\ deps[p] = IF taint[p] = 0 THEN {} ELSE roots[taint[p]]
          /\ taint[p] # 0 => deps[p] # {}
      BY DEF IInv, TaintExact, Sourced, TaintHasSource, RootsOf
    <3>3. QED BY <1>8, <2>1, <2>2, <3>1, <3>2, RootsKept
  <2>5. QED BY <2>3, <2>4
<1>11. TypeOK'
  BY <1>1, <1>3, <1>8 DEF IInv, TypeOK, StreamGrows, StreamAt, i
<1>12. IndicesKnown'
  BY <1>1, <1>3, <1>8, <1>9, <1>10 DEF IndicesKnown
<1>13. TaintExact' /\ TaintHasSource'
  BY <1>10 DEF TaintExact, TaintHasSource
<1>14. OpsExact'
  <2>1. \A s \in Slot : s \notin cur.reads \/ ~(s < slot)
    BY <1>3 DEF IInv, OpsExact, Slot
  <2>2. QED BY <1>3, <1>9, <2>1 DEF IInv, OpsExact
<1>15. QED
  BY <1>3, <1>8, <1>9, <1>11, <1>12, <1>13, <1>14 DEF IInv, Sourced, StreamGrows

\* The end of the registration loop of ExecutionBegin.
LEMMA RegistrationDoneStep == IInv /\ RegistrationDone => IInv'
<1> SUFFICES ASSUME IInv, RegistrationDone PROVE IInv'
  OBVIOUS
<1> USE DEF RegistrationDone
<1>1. StreamGrows
  BY StreamKept
<1>2. TaintExact' /\ TaintHasSource' /\ \A p \in Place : taint'[p] < next'
  BY <1>1, PlacesKept
<1>3. ops = NoOps /\ \A s \in Slot : ops[s] = 0
  BY DEF IInv, OpsExact, NoOps
<1>4. TypeOK' /\ IndicesKnown'
  BY <1>2, <1>3 DEF IInv, TypeOK, IndicesKnown
<1>5. OpsExact'
  <2>1. slot = 0 /\ \A s \in Slot : ~(s < slot)
    BY DEF IInv, OpsExact, Slot
  <2>2. QED BY <1>3, <2>1 DEF OpsExact
<1>6. QED
  BY <1>1, <1>2, <1>3, <1>4, <1>5 DEF IInv, Sourced, StreamGrows

\* Execute is entered with a new instruction.
LEMMA BeginInstructionStep ==
  ASSUME IInv, NEW i \in Instr, BeginInstruction(i)
  PROVE  IInv'
<1> USE DEF BeginInstruction
<1>1. StreamGrows
  BY StreamKept
<1>2. TaintExact' /\ TaintHasSource' /\ \A p \in Place : taint'[p] < next'
  BY <1>1, PlacesKept
<1>3. \A s \in Slot : ops'[s] = 0
  BY DEF NoOps
<1>4. OpsExact'
  BY <1>3 DEF OpsExact, Slot
<1>5. TypeOK'
  BY DEF IInv, TypeOK, NoOps
<1>6. IndicesKnown'
  BY <1>2, <1>3 DEF IndicesKnown, IInv, TypeOK
<1>7. QED
  BY <1>1, <1>2, <1>3, <1>4, <1>5, <1>6 DEF IInv, Sourced, StreamGrows

\* The operand loop passes a slot that carries no taint.
LEMMA ConcreteOperandStep ==
  ASSUME IInv, NEW s \in Slot, ConcreteOperand(s)
  PROVE  IInv'
<1> USE DEF ConcreteOperand
<1>1. StreamGrows
  BY StreamKept
<1>2. TaintExact' /\ TaintHasSource' /\ \A p \in Place : taint'[p] < next'
  BY <1>1, PlacesKept
<1>3. slot = s /\ s \in 0 .. 3 /\ ops[s] = 0
  BY DEF IInv, OpsExact, Slot
<1>4. \A x \in Slot : RootsOf(ops[x])' = RootsOf(ops[x])
  BY DEF RootsOf
<1>5. s \in cur.reads => UNION {deps[l] : l \in cur.opnd[s]} = {}
  <2> SUFFICES ASSUME s \in cur.reads, NEW l \in cur.opnd[s]
               PROVE  deps[l] = {}
    OBVIOUS
  <2>1. l \in Loc /\ taint[l] = 0
    BY OperandCells DEF TaintedPart
  <2>2. QED BY <2>1 DEF IInv, TaintExact, RootsOf, Place
<1>6. ASSUME NEW x \in Slot, x \in cur.reads, x < s + 1
      PROVE  RootsOf(ops[x])' = UNION {deps'[l] : l \in cur'.opnd[x]}
  <2>1. CASE x = s
    <3>1. RootsOf(ops[x]) = {}
      BY <1>3, <2>1 DEF RootsOf
    <3>2. QED BY <1>4, <1>5, <1>6, <2>1, <3>1
  <2>2. CASE x # s
    <3>1. x < slot BY <1>3, <1>6, <2>2 DEF Slot
    <3>2. QED BY <1>4, <1>6, <3>1 DEF IInv, OpsExact
  <2>3. QED BY <2>1, <2>2
<1>7. OpsExact'
  <2>1. \A x \in Slot : x \notin cur'.reads \/ x >= slot' => ops'[x] = 0
    BY <1>3 DEF IInv, OpsExact, Slot
  <2>2. QED BY <1>3, <1>6, <2>1 DEF OpsExact
<1>8. TypeOK'
  BY <1>3 DEF IInv, TypeOK
<1>9. IndicesKnown'
  BY <1>2 DEF IInv, IndicesKnown
<1>10. QED
  BY <1>1, <1>2, <1>4, <1>7, <1>8, <1>9 DEF IInv, Sourced, StreamGrows

\* The operand loop takes the index of a cell as it is.
LEMMA WholeOperandStep ==
  ASSUME IInv, NEW s \in Slot, WholeOperand(s)
  PROVE  IInv'
<1>1. PICK l \in Loc : cur.opnd[s] = {l} /\ Gathered(s, taint[l])
  BY DEF WholeOperand
<1>2. Reading(s) /\ UNCHANGED <<next, trace, roots>>
  BY DEF WholeOperand
<1>3. taint[l] # 0 /\ l \in Place
  BY <1>1, <1>2 DEF Reading, TaintedPart, Place
<1>4. StreamGrows
  BY <1>2, StreamKept
<1>5. taint[l] \in Nat /\ taint[l] < next'
  BY <1>2, <1>3 DEF IInv, TypeOK, IndicesKnown
<1>6. roots'[taint[l]] = deps[l]
  BY <1>2, <1>3 DEF IInv, TaintExact, RootsOf
<1>7. UNION {deps[m] : m \in cur.opnd[s]} = deps[l]
  BY <1>1
<1>8. QED BY <1>1, <1>2, <1>3, <1>4, <1>5, <1>6, <1>7, OperandGathered

\* A tainted cell holds an index that is in the stream, with the cell's bytes.
LEMMA CellIndex ==
  ASSUME IInv, NEW l \in Loc, taint[l] # 0
  PROVE  /\ taint[l] \in 1 .. next - 1
         /\ roots[taint[l]] = deps[l]
         /\ deps[l] \in SUBSET Variable
<1>1. l \in Place
  BY DEF Place
<1>2. QED BY <1>1 DEF IInv, TypeOK, IndicesKnown, TaintExact, RootsOf

\* The operand loop reads a part of a cell.
LEMMA ExtractBitsStep ==
  ASSUME IInv, NEW s \in Slot, ExtractBits(s)
  PROVE  IInv'
<1> USE DEF ExtractBits
<1>1. PICK l \in Loc :
        /\ cur.opnd[s] = {l}
        /\ trace' = Append(trace, WrittenRecord("Extract", next, {taint[l]}))
        /\ roots' = Append(roots, deps[l])
  OBVIOUS
<1>2. Reading(s) /\ Gathered(s, next) /\ next' = next + 1 /\ next \in Nat \ {0}
  BY DEF IInv, TypeOK
<1>3. taint[l] # 0
  BY <1>1, <1>2 DEF Reading, TaintedPart
<1>4. /\ {taint[l]} \in SUBSET (1 .. next - 1)
      /\ deps[l] = UNION {roots[d] : d \in {taint[l]}}
      /\ deps[l] \in SUBSET Variable
  BY <1>3, CellIndex
<1>5. "Extract" \in Kind \ {"Payload"}
  BY DEF Kind
<1>6. StreamGrows /\ roots'[next] = deps[l]
  BY Zenon, <1>1, <1>2, <1>4, <1>5, OneRecord
<1>7. UNION {deps[m] : m \in cur.opnd[s]} = deps[l]
  BY <1>1
<1>8. next < next'
  BY <1>2
<1>9. QED BY <1>2, <1>6, <1>7, <1>8, OperandGathered

\* The operand loop reads two tainted cells at once.
LEMMA ConcatBitsStep ==
  ASSUME IInv, NEW s \in Slot, ConcatBits(s)
  PROVE  IInv'
<1> USE DEF ConcatBits
<1>1. PICK l, m \in Loc :
        /\ l # m /\ cur.opnd[s] = {l, m} /\ taint[l] # 0 /\ taint[m] # 0
        /\ trace' = Append(trace,
                      WrittenRecord("Concat", next, {taint[l], taint[m]}))
        /\ roots' = Append(roots, deps[l] \cup deps[m])
  OBVIOUS
<1>2. Reading(s) /\ Gathered(s, next) /\ next' = next + 1 /\ next \in Nat \ {0}
  BY DEF IInv, TypeOK
<1> DEFINE ds == {taint[l], taint[m]}
           e  == deps[l] \cup deps[m]
<1>3. /\ ds \in SUBSET (1 .. next - 1)
      /\ e = UNION {roots[d] : d \in ds}
      /\ e \in SUBSET Variable
  BY <1>1, CellIndex
<1>4. "Concat" \in Kind \ {"Payload"}
  BY DEF Kind
<1>5. /\ trace' = Append(trace, WrittenRecord("Concat", next, ds))
      /\ roots' = Append(roots, e)
  BY <1>1
<1>6. UNION {deps[x] : x \in cur.opnd[s]} = e
  BY <1>1
<1> HIDE DEF ds, e
<1>7. StreamGrows /\ roots'[next] = e
  BY Zenon, <1>2, <1>3, <1>4, <1>5, OneRecord
<1>8. next < next'
  BY <1>2
<1>9. QED BY <1>2, <1>6, <1>7, <1>8, OperandGathered

\* The operand loop reads a tainted and a concrete cell at once.
LEMMA MakeConstStep ==
  ASSUME IInv, NEW s \in Slot, MakeConst(s)
  PROVE  IInv'
<1>1. PICK l, m \in Loc :
        /\ l # m /\ cur.opnd[s] = {l, m} /\ taint[l] # 0 /\ taint[m] = 0
        /\ trace' = Append(Append(trace, WrittenRecord("Const", next, {})),
                      WrittenRecord("Concat", next + 1, {taint[l], next}))
        /\ roots' = Append(Append(roots, {}), deps[l])
  BY DEF MakeConst
<1>2. /\ Reading(s) /\ Gathered(s, next + 1) /\ next' = next + 2
      /\ next \in Nat \ {0} /\ StreamAt(trace, roots, next)
  BY DEF MakeConst, IInv, TypeOK
<1> DEFINE t1 == Append(trace, WrittenRecord("Const", next, {}))
           r1 == Append(roots, {})
           n1 == next + 1
           ds == {taint[l], next}
           e  == deps[l]
<1>3. "Const" \in Kind \ {"Payload"} /\ "Concat" \in Kind \ {"Payload"}
  BY DEF Kind
<1>4. StreamAt(t1, r1, n1)
  <2>1. {} \in SUBSET (1 .. next - 1) /\ {} \in SUBSET Variable
        /\ {} = UNION {roots[d] : d \in {}}
    OBVIOUS
  <2>2. QED BY Zenon, <1>2, <1>3, <2>1, RecordAppend
<1>5. (\A k \in 1 .. next - 1 : r1[k] = roots[k]) /\ r1[next] = {}
  <2>1. roots \in Seq(SUBSET Variable) /\ Len(roots) = next - 1
    BY <1>2 DEF StreamAt
  <2>2. QED BY <1>2, <2>1, AppendProperties
<1>6. /\ taint[l] \in 1 .. next - 1
      /\ roots[taint[l]] = e /\ e \in SUBSET Variable
  BY <1>1, CellIndex
<1>7. trace' = Append(t1, WrittenRecord("Concat", n1, ds)) /\ roots' = Append(r1, e)
  BY <1>1
<1>8. /\ n1 \in Nat \ {0} /\ n1 < next' /\ next' = n1 + 1 /\ next < n1
      /\ ds \in SUBSET (1 .. n1 - 1)
  BY <1>2, <1>6
<1>9. UNION {deps[x] : x \in cur.opnd[s]} = e
  <2>1. deps[m] = {}
    BY <1>1 DEF IInv, TaintExact, RootsOf, Place
  <2>2. QED BY <1>1, <2>1
<1> HIDE DEF t1, r1, n1, e
<1>10. e = UNION {r1[d] : d \in ds}
  <2>1. r1[taint[l]] = e
    BY <1>5, <1>6
  <2>2. QED BY <1>5, <2>1
<1> HIDE DEF ds
<1>11. StreamAt(Append(t1, WrittenRecord("Concat", n1, ds)), Append(r1, e), n1 + 1)
  BY Zenon, <1>3, <1>4, <1>6, <1>8, <1>10, RecordAppend
<1>12. StreamAt(trace', roots', next')
  BY Zenon, <1>7, <1>8, <1>11
<1>13. (\A k \in 1 .. n1 - 1 : roots'[k] = r1[k]) /\ roots'[n1] = e
  <2>1. r1 \in Seq(SUBSET Variable) /\ Len(r1) = n1 - 1
    BY <1>4 DEF StreamAt
  <2>2. (\A k \in 1 .. n1 - 1 : Append(r1, e)[k] = r1[k]) /\ Append(r1, e)[n1] = e
    BY <1>6, <1>8, <2>1, AppendProperties
  <2>3. QED BY Zenon, <1>7, <2>2
<1>14. \A k \in 1 .. next - 1 : roots'[k] = roots[k]
  <2>1. n1 = next + 1 BY DEF n1
  <2>2. ASSUME NEW k \in 1 .. next - 1 PROVE roots'[k] = roots[k]
    <3>1. k \in 1 .. n1 - 1 BY <1>2, <2>1
    <3>2. QED BY Zenon, <1>5, <1>13, <3>1
  <2>3. QED BY <2>2
<1>15. StreamGrows
  <2>1. next' >= next BY <1>2
  <2>2. QED BY Zenon, <1>12, <1>14, <2>1 DEF StreamGrows
<1>16. Gathered(s, n1)
  BY <1>2 DEF n1
<1>17. QED BY <1>2, <1>8, <1>9, <1>13, <1>15, <1>16, OperandGathered

\* Execute recognises a clear and unsets what is modified.
LEMMA ClearOperandsStep == IInv /\ ClearOperands => IInv'
<1> SUFFICES ASSUME IInv, ClearOperands PROVE IInv'
  OBVIOUS
<1> USE DEF ClearOperands
<1>1. StreamGrows /\ Done
  BY StreamKept
<1>2. SetOperands(0) /\ SetDeps({}) /\ 0 < next' /\ {} \in SUBSET Variable
  BY DEF UnsetOperands, IInv, TypeOK
<1>3. /\ taint' \in [Place -> Nat] /\ deps' \in [Place -> SUBSET Variable]
      /\ TaintExact' /\ TaintHasSource'
      /\ \A p \in Place : taint'[p] < next'
  BY <1>1, <1>2, PlacesWritten
<1>4. QED BY <1>1, <1>3, InstructionDone

\* Execute finds no tracked input and unsets what is modified.
LEMMA UntrackedStep == IInv /\ Untracked => IInv'
<1> SUFFICES ASSUME IInv, Untracked PROVE IInv'
  OBVIOUS
<1> USE DEF Untracked
<1>1. StreamGrows /\ Done /\ Gathering
  BY StreamKept
<1>2. Flow = {}
  BY <1>1, FlowIsTracked DEF TrackedDeps
<1>3. SetOperands(0) /\ SetDeps({}) /\ 0 < next' /\ {} \in SUBSET Variable
  BY <1>2 DEF UnsetOperands, IInv, TypeOK
<1>4. /\ taint' \in [Place -> Nat] /\ deps' \in [Place -> SUBSET Variable]
      /\ TaintExact' /\ TaintHasSource'
      /\ \A p \in Place : taint'[p] < next'
  BY <1>1, <1>3, PlacesWritten
<1>5. QED BY <1>1, <1>4, InstructionDone

\* Execute hands the index of the only tracked input on.
LEMMA PropagateStep == IInv /\ Propagate => IInv'
<1> SUFFICES ASSUME IInv, Propagate PROVE IInv'
  OBVIOUS
<1> USE DEF Propagate
<1>1. StreamGrows /\ Done /\ Gathering /\ SetDeps(Flow)
  BY StreamKept
<1>2. PICK t \in Slot \cup Flag : Tracked = {t} /\ SetOperands(IndexOf(t))
  OBVIOUS
<1>3. /\ IndexOf(t) \in 1 .. next - 1 /\ Flow \in SUBSET Variable /\ Flow # {}
  BY <1>1, <1>2, FlowIsTracked
<1>4. Flow = roots[IndexOf(t)]
  <2>1. TrackedDeps = {IndexOf(t)}
    BY <1>2 DEF TrackedDeps
  <2>2. QED BY <1>1, <2>1, FlowIsTracked
<1>5. /\ IndexOf(t) \in Nat /\ IndexOf(t) # 0 /\ IndexOf(t) < next'
      /\ roots' = roots
  BY <1>3 DEF IInv, TypeOK
<1>6. /\ taint' \in [Place -> Nat] /\ deps' \in [Place -> SUBSET Variable]
      /\ TaintExact' /\ TaintHasSource'
      /\ \A p \in Place : taint'[p] < next'
  BY <1>1, <1>2, <1>3, <1>4, <1>5, PlacesWritten
<1>7. QED BY <1>1, <1>6, InstructionDone

\* Execute writes a record and stores its index.
LEMMA WriteExecuteStep == IInv /\ WriteExecute => IInv'
<1> SUFFICES ASSUME IInv, WriteExecute PROVE IInv'
  OBVIOUS
<1> USE DEF WriteExecute
<1>1. /\ Gathering /\ Done /\ SetOperands(next) /\ SetDeps(Flow)
      /\ next \in Nat \ {0} /\ next' = next + 1
  BY DEF IInv, TypeOK
<1>2. /\ TrackedDeps \in SUBSET (1 .. next - 1)
      /\ Flow \in SUBSET Variable /\ Flow # {}
      /\ Flow = UNION {roots[d] : d \in TrackedDeps}
  BY <1>1, FlowIsTracked DEF TrackedDeps
<1>3. "Execute" \in Kind \ {"Payload"}
  BY DEF Kind
<1>4. StreamGrows /\ roots'[next] = Flow
  BY Zenon, <1>1, <1>2, <1>3, OneRecord
<1>5. next < next' /\ next # 0 /\ next \in Nat
  BY <1>1
<1>6. /\ taint' \in [Place -> Nat] /\ deps' \in [Place -> SUBSET Variable]
      /\ TaintExact' /\ TaintHasSource'
      /\ \A p \in Place : taint'[p] < next'
  BY <1>1, <1>2, <1>4, <1>5, PlacesWritten
<1>7. QED BY <1>1, <1>4, <1>6, InstructionDone

-----------------------------------------------------------------------------
(* The theorems.                                                            *)

\* Every step keeps the invariant.
LEMMA NextIInv == IInv /\ [Next]_vars => IInv'
<1> SUFFICES ASSUME IInv, [Next]_vars PROVE IInv'
  OBVIOUS
<1>1. CASE RegisterVariable    BY <1>1, RegisterVariableStep
<1>2. CASE RegistrationDone    BY <1>2, RegistrationDoneStep
<1>3. CASE \E i \in Instr : BeginInstruction(i)  BY <1>3, BeginInstructionStep
<1>4. CASE \E s \in Slot : GetOperand(s)
  <2>1. PICK s \in Slot : GetOperand(s)
    BY <1>4
  <2>2. QED
    BY <2>1, ConcreteOperandStep, WholeOperandStep, ExtractBitsStep,
       ConcatBitsStep, MakeConstStep DEF GetOperand
<1>5. CASE ClearOperands       BY <1>5, ClearOperandsStep
<1>6. CASE Untracked           BY <1>6, UntrackedStep
<1>7. CASE Propagate           BY <1>7, PropagateStep
<1>8. CASE WriteExecute        BY <1>8, WriteExecuteStep
<1>9. CASE UNCHANGED vars
  <2> USE <1>9 DEF vars
  <2>1. TypeOK' BY DEF IInv, TypeOK
  <2>2. StreamAt(trace', roots', next') BY DEF IInv
  <2>3. IndicesKnown' BY DEF IInv, IndicesKnown
  <2>4. TaintExact' BY DEF IInv, TaintExact, RootsOf
  <2>5. OpsExact' BY DEF IInv, OpsExact, RootsOf
  <2>6. Sourced' BY DEF IInv, Sourced, TaintHasSource, RootsOf
  <2>7. QED BY <2>1, <2>2, <2>3, <2>4, <2>5, <2>6 DEF IInv
<1>10. QED
  BY <1>1, <1>2, <1>3, <1>4, <1>5, <1>6, <1>7, <1>8, <1>9 DEF Next

\* IInv is an inductive invariant of the taint engine.
THEOREM Invariance == Spec => []IInv
<1>1. Init => IInv               BY InitIInv
<1>2. IInv /\ [Next]_vars => IInv'  BY NextIInv
<1>3. QED BY <1>1, <1>2, PTL DEF Spec

\* Type correctness.
THEOREM TypeCorrect == Spec => []TypeOK
<1>1. IInv => TypeOK BY DEF IInv
<1>2. QED BY <1>1, Invariance, PTL

\* The record stream can be read once, front to back, whatever the traced
\* program executes: every record defines the next index and depends only on
\* records before it, and every index in use has its record.
THEOREM StreamIsOrdered ==
  Spec => [](IndicesAreDense /\ DepsWrittenBefore /\ IndicesKnown)
<1>1. IInv => IndicesAreDense /\ DepsWrittenBefore /\ IndicesKnown
  BY DEF IInv, StreamAt, IndicesAreDense, DepsWrittenBefore
<1>2. QED BY <1>1, Invariance, PTL

\* The record stream explains the data flow of the traced program exactly: the
\* index of every place leads to the payload bytes its value was computed from
\* and to no others, where a xor recognised as a clear yields a value computed
\* from none (see TaintClears for when that is right).
THEOREM TaintIsExact ==
  Spec => [](TaintExact /\ RootsFollowTrace /\ TaintHasSource)
<1>1. IInv => TaintExact /\ RootsFollowTrace /\ TaintHasSource
  BY DEF IInv, StreamAt, RootsFollowTrace, Sourced
<1>2. QED BY <1>1, Invariance, PTL

\* A record depends only on records written before it, and not on itself.
COROLLARY DependenciesComeFirst == Spec => []DepsWrittenBefore
  BY StreamIsOrdered, PTL

\* Every index a place of the program carries is one whose record is written.
COROLLARY IndicesHaveRecords == Spec => []IndicesKnown
  BY StreamIsOrdered, PTL

\* The payload bytes an index leads to in the stream are those of the computation
\* it stands for.
COROLLARY StreamFollowsData == Spec => []RootsFollowTrace
  BY TaintIsExact, PTL

\* A place that is tainted has payload bytes it is tainted by.
COROLLARY TaintComesFromPayload == Spec => []TaintHasSource
  BY TaintIsExact, PTL
=============================================================================
