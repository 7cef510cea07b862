# simpletracer in TLA+

simpletracer traces a program under RIVER's execution controller. A server, or
a corpus on stdin, hands it payloads; for each one it runs the traced program's
entry point and reports what happened: the basic blocks (simple tracer), which
payload bytes reached which value (annotated tracer, taint tracking), or the
conditions of the jumps that depend on the payload (annotated tracer, Z3). The
offline sanitizers read such a log later.

The modules here model the parts that hold state across steps, and state what
makes each of them correct. TLC checks them on small instances; TLAPS proves
the most important results for every value of the constants. Paths below are
under `src/`.

Contents: 1 the system, 2 the modules, 3 the runs, 4 fairness, 5 the proofs,
6 where the code departs from what it says, 7 what is left out, 8 the plan.

## 1. The system

```
 server or corpus --payloads--> Run/ExecutionEnd --Execute/RESTART--> execution controller
        ^                            |  ^                                  (external)
        +------- answers ------------+  |  ExecutionBegin/Control/End          |
                                        +--------------------------------------+
                                                                               |
        log <--- TrackingExecutor or Z3SymbolicExecutor <--- each instruction--+
         |                         |
         +--> TraceParser          +--> symbolic environment (external)
```

| component | state it keeps | operations | what is hard |
|---|---|---|---|
| AnnotatedTracer and its observer (`libtracer/annotated.tracer/annotated.tracer.cpp`) | `flowMode`, the payload buffer, `NumSymbolicVariables`, `fileName`, `ctxInit`, the output buffer | `Run`, `ExecutionBegin`, `ExecutionControl`, `ExecutionEnd`, `TranslationError` | tasks are read in two places; the observer's decision, not a loop, starts the next run; hangups and short reads; an error path that calls `ExecutionEnd` |
| SimpleTracer and its observer (`libtracer/simple.tracer/simple.tracer.cpp`) | as above, with opcodes on stdin | the same | opcodes that are corrupted or missing, a buffer that is partly overwritten |
| BasicObserver (`libtracer/basic.observer.cpp`) | the patched memory | `HandlePatchLibrary`, `PatchLibrary` | a line that fails in the middle of the file |
| TrackingExecutor, TaintedIndex (`tainted.index/`) | the index counter, the stream of records, the index of every place | `CreateVariable`, `MakeConst`, `ExtractBits`, `ConcatBits`, `Execute` | callbacks from the environment write records in the middle of an `Execute` |
| Z3SymbolicExecutor and its lazy flags (`z3.executor/`) | the expression of every place, a lazy flag per flag, the test of the last jump | `Execute` and the instruction handlers | flags are evaluated long after they were set; a condition is right only if it is right for inputs that were never run |
| LargeStack (`z3.executor/LargeStack.cpp`) | a window on a stack in a file | `VirtualPush`, `VirtualPop`, `Update`, `Push`, `Pop` | region borders, moves between the ends of the buffer, spilled regions that must come back in order |
| the symbolic demo (`SymbolicDemoMain.cpp`, `ReversibleAction.h`) | the search state, a pool of conditions, two logs of undoable actions, the solver's frames | `ExecutionBegin`, `ExecutionControl`, `ExecutionEnd`, `TrackCallback`, `StepForward`, `StepBackward` | program, solver and logs must stay in step in both directions; the input is changed in the middle of a run; termination |
| TraceParser, CallStack (`offline.sanitizers/`) | the parser's state, assertions collected but not annotated, the call stack | one handler per entry type | entries belong to a block that is only named later; two partial resets |
| IntervalTree (`IntervalTree.h`) | a balanced tree of intervals | `AddInterval`, `RemoveInterval`, `HasValue` | rotations, maxima that are not refreshed, keys that are not there |
| AddressSanitizer, Z3Handler, `main` (`offline.sanitizers/`) | the address space of one assertion, one optimizer for all | `sanitize`, `solve`, `solveEq` | logs of programs that were killed; frames left on the optimizer |
| corpus aggregator, `main`, `utils` | none | copying files, options, `ReadFromFile` | - |

What makes each correct:

- a session answers each task it takes, in order, with that task's output and
  no other's, and ends when its peer closes it;
- the taint stream's dependencies explain which payload bytes every value came
  from;
- the expressions and conditions of one concrete run are right for all inputs;
- the parser annotates every symbolic object with the block it came with, and
  knows the calls that are active;
- the sanitizer reports an address if and only if some input puts it on a
  return address;
- the interval tree finds what was put in, and nothing else;
- a word popped is the last one pushed, wherever the stack has spilled it;
- the search runs every path that some input takes, each once, and ends;
- what is in memory is what the patch file asked for.

`PROJECT.json` lists every component with its status, and under `hazards` the
places in the code where these can go wrong and a test would hardly show it.

## 2. The modules

| module | models | correspondence |
|---|---|---|
| `TaintTrace` | TrackingExecutor, TaintedIndex | `next` is `TaintedIndex::Index`; `trace` is what `AnnotatedTracerFormatHandler` is told; `taint` is the environment's map of symbolic values; `ops`, `slot` and `cur` are the locals of an `Execute` under way |
| `TaintClears` | the clear rule of `Execute`, with a history of equal cells | adds one history variable to `TaintTrace` |
| `AnnotatedTracer` | `Run`, `CustomObserver`, the executor's pending test | `pc` is where the one thread is: `read` in the loops of `Run`, `begin` in `ExecutionBegin`, `run` in the traced program, `end` and `next` in `ExecutionEnd` before and after the answer is sent |
| `TaskService` | nothing: the abstract service a flow session promises | three variables; `AnnotatedTracer!Service` is the refinement mapping; `Safety` is what a single step can break, `Spec` adds that a task taken is answered |
| `SimpleTracer` | `Run` and its observer | as above; `contents` is the set of tasks whose bytes are in `payloadBuff` |
| `PatchLibrary` | `HandlePatchLibrary`, `PatchLibrary` | one action per outcome of a line |
| `FlagAlgebra` | `Z3FlagCF::Eval`, `Z3FlagOF::Eval` beside the processor's flags | operators only |
| `SymbolicExecutor` | `Execute`, the operand and flag values, the handlers of moves, conditionals, cmpxchg, imul and common operations, `CreateVariable`, `MakeConst`, `ExtractBits`, `ConcatBits`; `SetSource`, `GetValue` and `Eval` of the flags | `sym` and `flg` are the environment; `reg` and `cpu` are the processor; both by cells, of which an operand has one or two |
| `Explorer` | the demo's `SymbolicExecution`, `ConditionTracker`, `ReversibleAction`, the executor's steps | `call` is what the controller does next; `solver` is the stack of frames; `conds` and `locks` are the two logs, `step` their common position; `tvds` the conditions taken from the log on the way back |
| `LargeStack` | `LargeStack.cpp` | `memory`, `stackTop` and `currentRegion` are its members, pointers as indices; `file` is the spilled regions |
| `TraceParser` | `Parse` and `CallStack` | `state`, `next`, `tmp`, `kind`, `lviAddr`, `lviJcc` are its members; one action per entry type |
| `IntervalNode`, `IntervalTree` | `IntervalNode`, `IntervalTree` | the nodes' methods as recursive operators on trees, which are values; `root` |
| `Sanitizer` | `SanitizerMain`, `AddressSanitizer`, `Z3Handler` | extends `TraceParser`; `main` is where `main` is; `opt` is the optimizer's stack of frames; the tree comes in as constants (`EmptySpace`, `WithInterval`, `InSpace`), to which MCSanitizer gives `IntervalNode`'s operators |
| `TaintTraceProofs`, `SymbolicExecutorProofs`, `AnnotatedTracerProofs`, `SimpleTracerProofs`, `SanitizerProofs`, `LargeStackProofs`, `ExplorerProofs`, `PatchLibraryProofs` | - | the theorems of section 5; each extends the module it is named after |
| `MC*` | - | the small instances of section 3 |

Three abstractions carry most of the weight.

*The controller.* RIVER's execution controller is not in the repository. The
model takes from the code what the code takes for granted: one `ExecutionBegin`
per `Execute`; for each block, its instructions to the executor and then
`ExecutionControl`; `ExecutionEnd` when the entry point returns;
`TranslationError` for a block that cannot be translated;
`EXECUTION_RESTART` runs the entry point again without `ExecutionBegin`. The
symbolic environment, also external, is modelled from the calls the executors
make on it and the virtual functions it calls back.

*Values by their meaning.* A Z3 expression is the function from inputs to
values that it denotes. The processor is modelled for all inputs at once, and
the tracer sees one. "The expression is right" is then an equality, not a
comparison of terms. In the same way a formula of the search or of an address
is the set of the inputs, or solutions, it holds for, and a solver's answer is
any member.

*History.* `deps` and `roots` (`TaintTrace`) carry the payload bytes that a
value was truly computed from; `runs` and `jumps` (`AnnotatedTracer`) the jumps
that were truly taken and the sizes of the tasks; `executed` and `unpatched` (`SimpleTracer`) what was
executed; `frames` (`TraceParser`) the calls the program truly made; `equal`
(`TaintClears`) cells that truly hold the same value; `stale` and `lost`
(`SymbolicExecutor`) the flags that may be an earlier instruction's, and whether
a result is gone; `explored` and `fitted` (`Explorer`) the paths run to their end,
and whether every value found was a byte; `stack` and `sound` (`LargeStack`),
`stored`, `grown` and `exact` (`IntervalTree`) what the caller did; `mixed`
(`TraceParser`) the blocks that began with their module although they had symbolic
objects; `verdict` and `home` (`Sanitizer`) the last answer and the true return
addresses. No guard of the program reads them.

Names ending in `Off`, `Late`, `Stale` and the like, commented "Mutant of", are
faulty variants of the definition that follows them. No specification uses
them: replacing the definition by its variant must make a run fail, which shows
that the property depends on that code.

### How the pieces interact

`AnnotatedTracer` composes the session, the observer and the part of the Z3
executor that outlives an instruction, the pending test (`test`): a symbolic
jump makes it, the first instruction of the next block writes it, and in
between the execution may end. Within an execution the two executors work on
state the session never reads, so they have modules of their own, `TaintTrace`
and `SymbolicExecutor`. `Explorer` is the other user of the Z3 executor: it
calls its `StepForward` and `StepBackward`, and through them the solver.
`Sanitizer` composes everything behind the log: the traced program that writes
it, in the order of entries in the comment above `Parse`, the parser that reads
it, the annotated assertions, the interval tree and the optimizer. It is checked
end to end, from the calls the program makes to the report.

## 3. The runs

Every run explores its whole state space. "Shows" says what would have to be
wrong in the code for it to fail.

| run | module | states | question |
|---|---|---|---|
| MCTaintTrace | TaintTrace | 523,392 | is the taint stream dense, ordered, exact? |
| MCFlow | AnnotatedTracer | 3,081 | does a flow session serve its tasks, with their own tests, and end? |
| MCSessions | AnnotatedTracer | 4,436 | do tasks and names keep their order when patches are missing, and in batch mode? which bytes are symbolic? |
| MCSimpleTracer | SimpleTracer | 2,573 | is each task executed once, and does a closed session end? |
| MCPatchLibrary | PatchLibrary | 1,448,745 | is what is in memory what the lines read so far ask for? |
| MCSymbolicExecutor | SymbolicExecutor | 35,045 | are expressions, flags and conditions right for every input? |
| MCExplorer | Explorer | 8,691 | does the search keep its state in step, and run every path once? |
| MCLargeStack | LargeStack | 1,609,257 | does a pop return what was pushed? |
| MCSanitizer | Sanitizer, TraceParser | 3,027,237 | is every address annotated with its block, are calls followed, is the report exact? |
| MCIntervalTree | IntervalTree | 179,629 | does the tree hold and find what was put in, and when is it lost? |
| MCTaintClears | TaintClears | | a counterexample, see section 6 |

### MCTaintTrace

Two payload bytes, two registers, two flags; ten instruction shapes, among them
a read that spans two cells (`ConcatBits`), a read of a part of one
(`ExtractBits`), a read of one symbolic and one concrete cell (`MakeConst`), a
write of two cells, flags read and written, an immediate, and a xor of a
register with itself and with another. With
`MaxIndex = 5` an instruction starts as long as at most four records are
written, two for the payload and two by earlier instructions, and adds its own;
an instruction that hands an index on writes none, so runs are not bounded in
length. Two bytes
are enough for a value to come from one, the other or both; two operands enough
for sharing, merging and losing an index. The proofs of section 5 remove the
bounds.

- `IndicesAreDense`, `DepsWrittenBefore`, `IndicesKnown`: a consumer can read
  the stream once, front to back. Each writer reads the counter, writes, then
  advances it, with callbacks between.
- `RootsFollowTrace`, `TaintExact`, `TaintHasSource`: following the records'
  dependencies one gets, for every place, exactly the payload bytes its value was
  computed from. A payload record is told by its position: the stream begins with
  one record per byte, in order. It is not told by the `source` it names, which
  the code writes as 0 for byte 1 as for byte 0 in this very run (section 6): a
  consumer that trusts it gets the wrong byte.
  The history counts a value as computed from everything its instruction read;
  it counts the result of a xor recognised as a clear as computed from nothing,
  as the code does. Whether that recognition is right is `MCTaintClears`'s
  question, and it is not.

### MCFlow and MCSessions

The traced program has two nested branches on payload bytes, `b1` and `b2`,
that end in `b3`, and a block `bx` behind `b2` that cannot be translated. A server
sends up to three tasks, or fewer, or closes the session, or hangs up anywhere, also in the middle of a payload. Three tasks are
the least with which a test, an answer or a payload of one task can stray past
its neighbour; one goes through `Run` and two through `ExecutionEnd`.

In MCFlow tasks have one byte or two, and the patch file is found. It checks that
the session implements `TaskService` (`ServesTasks`): tasks are taken one at a
time, each is answered before the next is taken, and the tracer may go down at
any moment for good. The refinement maps `taken` to `loaded`, `answered` to the
tasks of the finished runs, and `up` to `pc` being neither `done` nor `exited`.
The abstract `Answer` is fair, so a task taken is answered unless the tracer
goes down. `AnswersFaithful` says that each answer holds the tests of its own
run's jumps, all of them, in order, with the branch taken. It is about the jumps
on bytes that the first run's payload had, for the others have no test: a jump
gets one only if an operand or a flag is symbolic, and the variables are
registered once, for the first task that is run. So after a first task of one byte
`b2` is never tested, although later payloads have the byte; and after a first
task of which nothing arrived, no jump is. A run that a translation error ended
may lack the last test (section 6). `AnswersFramed` says that an answer is one
`begin` to `end` frame.

MCSessions runs both modes with taint tracking, payloads of two sizes, one of
them empty, and a patch file that may be missing at each `ExecutionBegin`. A
task whose patch file is missing is dropped without an answer (in that case
`TaskService` is not implemented, and answers are framed twice), so only
`AnswersInOrder` is claimed of them. `PayloadSymbolic` says which bytes are
symbolic: those of the first payload that is run, in both modes and for tasks of
any size; a task dropped before it does not count, and nothing is registered
again. In batch mode `NamesFollowItems` relates the log to the items executed;
items are read in two places with different bookkeeping.

`Stops` in both: once the server has closed the session, the tracer ends.

### MCSimpleTracer

Both modes, up to four opcodes (close, task, corrupted), payloads cut short,
hangups, a patch file that may be missing, a translation error in any run.
`MaxTokens = 4` allows a corrupted opcode between tasks, both ways round, read
by `Run` and by `ExecutionEnd`; `MaxRuns = 6` bounds the executions a session
whose writer hung up repeats for ever. `ExecutesEachOnce` is claimed while the
stream is not cut; `NoTaskSkipped` always. `Stops` asks that the session be
closed with its opcode: a hangup ends it only by luck (section 6).

### MCSanitizer

The traced program and its log: up to three blocks in the order documented above
`Parse`, each with no symbolic object, two addresses, or an address and a jump
condition in either order; each may begin with the entry of its module, and goes
on, calls (after pushing no or one word) or returns. The log may be cut short
between any two entries, as it is when the program
is killed. Three blocks are enough for an assertion to be overwritten by a later
block, to be collected after a block without any, and for a call to be returned
from.

`NeverBreaks` says that no such log stops the parser or leaves it out of step.
`AddressesAnnotated` says that an address is annotated with the block it came with.
The exception is a *mixed* block, one that begins with its module's entry after
symbolic objects: the entry puts the parser into the state that the offset then
toggles, so that it takes the block for read and skips its successors
(`TraceParser.cpp:78-90`). Its addresses wait, and get the next block that is not
mixed, or none; the property says that this is all that happens to them, and
that no other block's suffer. `CallsFollowed` holds because `Arguments = {0}`: a
return removes no arguments from the stack. With 1 added (stdcall) the return is
not recognised and it fails.

`ReportsExact` is the sanitizer's promise: an address is reported if and only if
some input makes it the return address's place. The two formulas over two
inputs put an address on the stack's position 100 or 98 with its greatest or its
least value, on neither although 99 lies between the two, or on 0 or 99.
The property compares the report with where the return address truly was, so it
needs the right block, the right call and an optimizer without leftovers. An
address of a mixed block is compared with the place in the block it was annotated
with, and one whose block the log does not finish with the place zero that
its cleared `BasicBlock` has; the property (`Place`) says both.

### MCIntervalTree

Every sequence of additions and removals of nine intervals that overlap, nest,
touch and share a lowest value, so that the shorter or the longer of two may come
second and be dropped. The module is honest about what the code does
to itself: a rotation whose node lacks a child reads through a null pointer
(`UpdateMax`), a right rotation otherwise links two nodes below each other, and
the process is lost. `BreaksOnlyLeaning` says that nothing else loses it: only
an insertion that would leave the tree unbalanced. Until then `SearchTree` holds,
and the other two as far as the code lets them:

- `HoldsStored`: the tree holds nothing it was not given. That it holds all of it is
  claimed until a removal whose key is absent, which drops a subtree (`exact`).
- `FindsValues`: a value is found only if an interval contains it. That it is found
  if one does is claimed as long as the maxima mean what the search takes them for
  (`grown`), and not of the last value of an interval, as `HasValue` compares with
  `>`. A removal does not lower the maxima above it; and an interval that is
  dropped, because one with its lowest value is there already, still raises them
  (`IntervalTree.h:229-236`): after (4,4), (1,2), (5,8), (2,2) the interval (2,9) is
  dropped and leaves a maximum of 9 at (1,2), the search for 6 goes left, and does
  not find it in (5,8).

The seven keys allow left rotations that the tree
survives and rotations that it does not, and the removal of nodes with none, one
and two children.
The sanitizer's own use, a tree of one interval, is inside these bounds, and is
what MCSanitizer's assumption `AloneFound` is about.

### MCLargeStack

A stack of up to 21 words in a buffer of sixteen: chunks of two words, so that a
region border can be crossed at one word and `Update` called at the next; seven
regions in the file; depth enough to descend through A, B and C, be moved from Y
to A and spill a region that was itself moved. The words are told apart by
marking one at a time, which is enough because the code only copies them.
`PopsWhatWasPushed` compares each pop with the sequence of words pushed, as a
refinement to an abstract stack would, at the words a program can see. The program
calls `Update` wherever it likes, at least once per region. The claim ends
(`sound`) at a load that follows a load, because the file is never cut, and at
`Push` and `Pop` (section 6).

### MCExplorer

Three programs over two input variables of four values each, from all sixteen
inputs: the demo's own payload, two characters long; a program that tests a
variable again after it has been tested, so that one side of a branch is not
feasible; one that reads everything before it tests anything, so that the input
can only be changed far from the branch. Each is searched with two executors:

- `reports = FALSE` is this commit's. It never sets `lastCondition`, but leaves a
  test pending after a symbolic jump, and the first instruction of the next block
  writes that test to `aFormat` (`Z3SymbolicExecutor.cpp:1092-1096`), for which the
  demo passes null (`SymbolicDemoMain.cpp:205`). The search ends there, in its
  first pass, in a `Crash`.
- `reports = TRUE` is the executor that the demo is written for: it hands each
  condition over and writes no test. This commit has none, so what the run shows
  of the search is about `SymbolicDemoMain.cpp`, `ReversibleAction.h` and the
  executor's two steps, not about a program that can be run today.

`PathState` says that whenever the
program is run on, the solver's frames hold exactly the inputs that follow the
path so far (if the executor reports), and the locks exactly what it has read,
unchanged since. `OnlyNewPaths` and `ExploresAll` are the search's promise: no path
twice, then an end, and then every input's path. Both are claimed as long as every
value the solver has found fits into the byte that the code cuts it to (`fitted`).
The solver may find 3, and `ByteSize = 3` cuts it to 0, so that searches with and
without a cut value are both in the run; without `fitted` in it `OnlyNewPaths` fails.

The bounds are tight on purpose. The programs need seven conditions and
`PoolSize` is 8; with 6, `ExploresAll` fails, as conditions that were inverted
are never freed. They read two variables and `LogSize` is 2; with 1, `PathState`
fails. `OnlyNewPaths` fails as well for a program that tests a word it has
not read: the word is then not locked, it is patched behind the test, and run
forward again the program takes the old branch once more. `ProgramAssumption`
excludes this; TLC checks it of the three programs, and it is what
`SearchIsNew` (section 5) asks of every program. `PreambleAssumption` keeps tests out
of the first two blocks, which the search cannot change; so `ExecutionBegin` is never called in the
middle of a patch, where it would go forward without `ExecutionControl`'s
bookkeeping (`SymbolicDemoMain.cpp:225`). `BranchAssumption` says that a
conditional jump goes to a block: a condition handed over by the last block
would still be pending when the program is run forward again. A condition that Z3
can tell to be true or false is not put into the pool (`:418`), so `Backtrack` has no
case for the negation of one (`:301`).

### MCPatchLibrary

Every file of up to three lines over one loaded and one other module, two
offsets, two values, plain and marked (`!`) patches, comments and empty lines,
with and without a leading blank. Three lines allow two writes to one address
with a rejected line before, between or after. `PrefixApplied` says that memory
is at any moment what the lines read so far ask for, the last write winning,
so that a rejected line is a clean cut. `AllApplied` says that a file of plain
patches and comments is applied whole. It says no more than that because the
code rejects the others: the name looked up is everything before the `+`,
blanks and `!` included, although the comments (`basic.observer.cpp:38`) call
`!` a "force patch line"; an empty line is one without `+`, as `getline` strips
the newline the code looks for. Each of these lines ends the patching, and
`HandlePatchLibrary` still reports success.

### MCSymbolicExecutor

Every program of three instructions over two three-bit registers, both read from
the payload, the low two bits of one of them under a name of their own, a register
with a constant, and an immediate: 64 inputs. The instructions have one or more of
each kind of handler, and jumps on each condition, negated or not. Three are enough for one to set the
flags, another to overwrite some of them or their operands, and a third to test
them; three bits are enough for carry, overflow, sign and zero to be independent;
the two parts of the wide register go through `ExtractBits`, `ConcatBits` and
`MakeConst` when one part is overwritten, concrete or extended. One payload is
run: as long as the claims below are made, an expression depends on nothing but
operands that are the same for all payloads. `OperandsAssumption` keeps to
instructions that the processor has: a source is not wider than its destination.
`SortsAssumption` keeps to those whose terms fit together, where the code would
stop or Z3 reject them otherwise (section 7).

`OperandsExact`, `FlagsExact` and `ConditionsExact` compare what the executor
built on one payload with the processor on all of them. They are claimed until a
result is lost (`lost`). A symbolic instruction with one of these handlers loses
it; such instructions are executed all the same, so that `TypeOK` and the rest of
the machine see them:

- a xor of an expression with itself returns without storing anything;
- shifts, rotations and `not` build their result and do not store it;
- the carry of a borrow (SBB) is computed as an addition's
  (`Z3SymbolicFlags.cpp:240`), and the parity flag is the negation of the
  processor's (`:135`);
- the imul of three operands returns from the loop over its factors
  (`Z3SymbolicExecutor.cpp:865`) before it stores the product;
- an opcode without a handler leaves the old state.

A flag may also be left behind without any result being lost, and is then `stale`,
that is, its lazy flag may be of an earlier instruction:

- cmpxchg sets its operands but no flags (`:504`);
- when a concrete instruction overwrites a flag, the code unsets the lazy flag only
  if the `symbolic` field of a `FlagInfo` is not null, which nothing has initialised
  (`:1196-1238`). The run takes both outcomes, `Leftover = {TRUE, FALSE}`, of each
  flag.

`FlagsExact` exempts a stale flag until another instruction sets it. An instruction
that tests one loses its result, for a jump would be judged by the wrong
instruction; `cmp cx, one` is a concrete instruction that makes flags stale, and
the jumps, set and cmov test them. `FlagsExact` also names the flags that stop the
tracer when they are asked for (`Unreadable`): the overflow after inc, dec and neg,
the carry after neg.

## 4. Fairness

The annotated and the simple tracer have one thread. Their fairness is
`WF_state(TracerStep)`: as long as that thread can take a step it takes one.
This includes the traced program, whose control flow is acyclic in the
instances, so an execution ends; a payload that makes the traced program loop
for ever would block its session, and nothing in the code would notice. It does
not include the server or the writer: they may stop sending at any moment
without closing, and the tracer then waits in a read, which is why deadlock is
not checked in these runs. The abstract service asks fairness of `Answer` only.
`Explorer` has `WF_vars(Next)`: the controller and the traced program, which is
loop-free in the instances, go on as long as they can, which is all that happens
in the demo's one thread. The other modules make no liveness claim and have no
fairness; what they model ends, so deadlock is not checked there either.

## 5. The proofs

A run of section 3 covers one small instance. The theorems below hold for every
value of the constants that satisfies the assumptions their module names. Most
of the properties are not inductive: they are claimed at a point where the code
has just finished something, and hold there because of what was true on the way.
Each proof therefore states an invariant that is true at every step (`IInv`, or
one invariant per property), shows that every action of `Next` keeps it, one
lemma or step for each, and that it implies the property.

### The taint engine: `TaintTraceProofs`

For any number of payload bytes, registers, flags and instructions (and any
`MaxIndex`):

| theorem | says |
|---|---|
| `TypeCorrect` | `[]TypeOK` |
| `StreamIsOrdered` | `[](IndicesAreDense /\ DepsWrittenBefore /\ IndicesKnown)` |
| `TaintIsExact` | `[](TaintExact /\ RootsFollowTrace /\ TaintHasSource)` |
| `DependenciesComeFirst`, `IndicesHaveRecords`, `StreamFollowsData`, `TaintComesFromPayload` | the parts of these two, by themselves |
| `Invariance` | `[]IInv`, from which they follow |

Assumptions: `SizeAssumption` (at most a million payload bytes: their names,
`"@%d"`, are written into eight characters), `PlaceAssumption` (flags are not
cells) and `InstrAssumption` (instructions have the shape that `Execute` and the
environment look at).

`TaintExact` is not inductive: an instruction's result is right because its
gathered operands are, and the record it writes is right because earlier records
are. `IInv` adds what is needed:

- `StreamAt`: the stream and its roots have length `next - 1`, record `k`
  defines `k`, depends on earlier records, and its roots are the union of
  theirs. Without it an index in use could lead anywhere.
- `IndicesKnown`: every index in use is below `next`, so that appending a record
  does not change what it leads to (`RootsKept`, `PlacesKept`).
- `OpsExact`: in the middle of an `Execute`, `ops[s]` leads to exactly the bytes
  of the operand in slot `s` if that slot was read, and is 0 otherwise. This
  carries exactness across the callbacks that write records between the start of
  an instruction and its end.
- `Sourced`: no index leads to nothing. Without it, an operand that is tracked
  but has no source could be told from an untracked one by the history and not
  by the code.

The argument runs: `SourceOfBound` (the number parsed from a name is in range,
so registration writes a record for every variable), `StreamAppend` (appending
one well-formed record keeps `StreamAt`), `RootsKept`, `PlacesKept`,
`PlacesWritten` (what an append and a write to the modified places do to
`TaintExact`), `FlowIsTracked` (what the gathered indices lead to is what the
instruction read), `OperandGathered` and `InstructionDone` (the two ways an
action ends), one lemma per action, and `NextIInv`.

### The annotated tracer's session: `AnnotatedTracerProofs`

For any traced program, any number of tasks and any way in which they arrive and
executions end:

| theorem | says | for |
|---|---|---|
| `TracerTyped` | `[]TypeOK` | every session |
| `AnswersOrdered` | `[]AnswersInOrder` | every session |
| `ServesSafely` | `Service!Safety`: every step is one of `TaskService` or changes nothing of it | flow mode, patch file found |
| `AnswersAreFramed` | `[]AnswersFramed` | patch file found |
| `AnswersAreFaithful` | `[]AnswersFaithful` | z3 tracking |
| `PayloadIsSymbolic` | `[]PayloadSymbolic` | every session |
| `ItemsAreNamed` | `[]NamesFollowItems` | taint tracking |

The last column is a hypothesis of the theorem and each is needed: without the
patch file a task is dropped, so an answer may be missing and a frame may end
without having begun; the two kinds of tracking write different entries, and
a property of one says nothing of the other.

`Typed` (type correctness, and that a session at `begin`, `run` or `end` has a
task loaded) is common to all. On it rest one invariant each:

- `Ordered`: the tasks in `runs` are below the loaded one, or equal to it where
  its execution has just ended. `ServesSafely` needs `Counted` instead, the
  equation between `loaded` and `Len(runs)` for each `pc`: it is what makes
  `loaded` increase only when all before it are answered.
- `Framed`: the output buffer is empty, or begins with `Begin` and has no other,
  according to `pc`.
- `Faithful`: what `buffer` holds of the running task's tests, together with the
  pending one, are the jumps it took. A test crosses from `test` to `buffer` one
  block after its jump, so this is where a test could stray. Which jumps have a
  test is `Registering`'s matter.
- `NamesWritten`: the names in the buffer are those of the executed items and of
  the loaded one once it is named. Two handlers write names, for two kinds of
  items.
- `Registering`: the executor exists from the moment the first run begins, and its
  variables are that run's payload, whatever the later tasks' sizes.

`Selects` (the entries of one kind in a log, in order) is defined by counting;
`SelectsOther`, `SelectsSame` and `SelectsNothing` say what an append does to it.

### The simple tracer's session: `SimpleTracerProofs`

For sessions of any length: `SessionTyped` (`[]TypeOK`), `OneTaskEach`
(`[]ExecutesEachOnce`) and `NoneSkipped` (`[]NoTaskSkipped`), without further
hypotheses. The invariant follows a task from the read to the execution:
`PendingIsFresh` says that a task that waits for its execution is the last one
read, is alone in the buffer and was not executed, `HandledOrPending` that every
task but that one was executed or dropped for want of its patch file, and
`SentWhole` that only a stream that ended has cut a payload. The two reads, in
`Run` and in `ExecutionEnd`, share the lemma `PayloadRead`.

### The patches: `PatchLibraryProofs`

`MemoryFollowsFile` (`[]PrefixApplied`) and `LoadableIsApplied` (`[]AllApplied`),
for every set of modules, offsets and values and files of any length.
`PrefixApplied` is inductive once an address that some line writes is known to
have a last such line (`LastLines`); `OneMoreLine` says what one more line adds
to the lines that write an address. `AllApplied` needs `EndsRightly`: the loop
ends at the end of the file or at a line that is not loadable.

### The symbolic executor: `SymbolicExecutorProofs`

The first four theorems are about the formulas of the lazy flags, for bit
vectors of every even size `n` (so for `n = 2^w`, every width `w`): `CarryOfAdd`,
`CarryOfSub`, `OverflowOfAdd`, `OverflowOfSub`. Each says that what `Eval`
rebuilds from three most significant bits is the carry, borrow or signed
overflow of the operation.

The others rest on them: for programs of any length, any set of
inputs, and registers of any number and size,

| theorem | says |
|---|---|
| `ExecutorIsTyped` | `[]TypeOK` |
| `OperandsAreExact` | `[]OperandsExact` |
| `FlagsAreExact` | `[]FlagsExact` |
| `ConditionsAreExact` | `[]ConditionsExact` |

without further hypotheses: the uninitialised fields may hold anything, and each of
the last three is claimed until a result is lost, as section 3 says. Assumptions:
`PlacesAssumption` (places
are made of cells, and a cell that is not symbolic starts with the same value for
every input), `ProgramAssumption`, `OperandsAssumption` (operand sizes that
the processor has; the bitwise operations, which are constants, give numbers), and
`SortsAssumption` (operands whose terms fit together).

The three properties need each other: an operand selected by a condition is exact
only if the flags are, a flag only if the operands it keeps are. The invariant is
their conjunction with the types, with one addition: the parity flag, whose
formula is wrong, must at least be concrete where it has none, or a jump on it
would be recorded as one that all inputs decide alike. A stale flag is in none of
them; an instruction that tests one ends the claim, and any other does not look. The proof has a lemma for
each way in which a handler ends: what a store into one or two cells does to
exactness, what a common operation does to the flags it sets, keeps and unsets,
and what the conditions read from exact flags are.

### From log to report: `SanitizerProofs`

For any number of blocks, of symbolic objects in front of a block, and of active
calls:

| theorem | says | for |
|---|---|---|
| `NeverLost` | `[]NeverBreaks` | every log in the documented order |
| `ParserIsTyped` | `[]TypeOK` | the same |
| `CallsAreFollowed` | `[]CallsFollowed` | returns that remove no arguments |
| `AddressesAreAnnotated` | `[]AddressesAnnotated` | every log in the documented order |
| `ParserWithin` | `SpecAll => Spec`: what is said of the parser alone holds in the sanitizer | the same |
| `SanitizerIsTyped` | `[]SanitizerTypeOK` | the same, and any tree |
| `ReportsAreExact` | `[]ReportsExact` | returns that remove no arguments, and `Alone` |

Without the hypothesis on returns the code fails (section 3). `Alone` says that an interval alone in the tree is found
for its values and for no others; it is all the sanitizer asks of the tree, MCSanitizer
evaluates it on `IntervalNode` for small numbers, and it is the only thing the
proof takes from the recursive methods.

The parser reads one entry at a time, and whether an entry is expected depends
on the ones before it. The rest of the log is described locally, by what may
follow what (`Follows`, `InOrder`, and `OfBlock`, that all of a block's entries
are of that block); this survives the removal of the first entry, which needs no
induction over the log. `Placed` then says for each type of entry that can be
first in which state the parser is. `Behind` and `Followed` say how the call
stack lags behind the program's calls until the block's successors are read.
`Owed` says which addresses are still without their block: those from `lviAddr`
on, each of them of the block that is being read or of a mixed block before it; and
`Fated` what an address with a block has: its own, or, if that was mixed, a later
one.

For the report the invariant adds `Homed`, that the frame noted with an annotated
address is where the return address was when the block it was annotated with began
(`FramesKnown`), `Rested`, that
between two addresses the optimizer is its one empty frame and the tree is empty,
and in between the tree is the interval of the current formula's least and greatest
value, and `Judged`, that the last verdict is about the frame that its address
has. `SanitizerIsTyped` needs of these only `Rested`. Lemmas about the optimizer say what `Solve` finds there: with one formula
asserted and one objective on top, a model is a solution of that formula with the
greatest, or the least, address. So the return address is outside the interval
only if no input meets it, and inside it `solveEq` decides.

### The large stack: `LargeStackProofs`

`StackIsTyped` (`[]TypeOK`) and `PopsInOrder` (`[]PopsWhatWasPushed`), for chunks
of any size, stacks of any depth and files of any length. The words of the stack
are numbered by where they would be if the buffer went on for ever; moving the
pointer between the ends of the buffer renumbers them. `Near` says that the
pointer is at most one region from where `Update` left it; `Reachable` which
words are in place; `Joins` and `Copies` that in the two halves of C and X that
overlap a word is six chunks away; `Spilled` that the file's last region
holds the words that the next load brings back. Only the last region needs to be
described: the claim ends with a load that follows a load, as the code never cuts
the file.

### The symbolic search: `ExplorerProofs`

`PathIsKnown` (`[]PathState`), for every program, every set of inputs and either
kind of executor. Hypotheses: the variables are finitely many and the log of the
locks has room for each (the code reads at most 8 words and `lockedVariables`
holds 32); with a smaller log the claim is false (section 3).

`PathState` speaks of the moments when the program is run on. Between them the
program, the solver and the two logs are a step apart, and the invariant says by
how much, for each value of `call` and in both directions: how many frames are
open (`Opened`) and how many of them hold the condition of their step
(`Settled`); what the pending condition is (`ConditionRight`); and which blocks'
reads are locked (`Trail`), of which the log must have each once, with the step
that read it first. `Backward` pops only from the top of a log, so the invariant
also says that the log can be split at every step (`Splits`), and as no variable
is logged twice, the log never overflows, `Push` never fails, and nothing stays
locked. A patch changes the input in the middle of a path: `ReadRight` says that
every value read so far, at every block and not only at the last one, is still
the input's, as the blocks may be undone one by one later.

What the conditions taken from the log are is not part of this invariant. An
inverted condition is asserted in the frame of a block that is undone next, and
that frame is dropped with it; `PathState` therefore holds even if a condition
is restored at the wrong branch.

`SearchIsNew` (`[]OnlyNewPaths`): the search runs no path to its end twice. It
says so of every program of which two things are true, besides the two
hypotheses above. `TestsWhatItRead`: on no way from an entry does a block test a
word that neither it nor a block before it has read; a symbolic value comes into
being when a word is read, so the executor can hand over no other condition.
`TestsDepend`: a condition is about the variables it mentions, as a formula is.
Without the first the claim is false (section 3). Of the values that the solver
finds nothing is assumed. The words have 32 bits, the code takes the last byte of
each (`SymbolicDemoMain.cpp:340`), and nothing tells the solver to look for a value
that survives this: the constraint that `CreateVariable` would assert is commented
out (`Z3SymbolicExecutor.cpp:73-108`). So the claim is made until a value is cut
(`fitted`), and so is the invariant below. `PoolSize` may have any value: where `AllocCondition`
has nothing left the code breaks, and no path is run again before that.

Whether a path is new is decided long before it is run, when an input is found
for it, so the second invariant (`JInv`) follows a *route* from there to the
end. A route is the path the program is on and, once an input was found, the
blocks that this input leads to, up to and including the first block on the
other side of the inverted branch.

- `Replays`: the input found takes every step of the route, and no explored path
  shares all of it (`Fresh`). That it takes the steps before the branch is known
  from the solver's frames (`PathState`'s invariant), that it takes the other
  step at the branch from the inverted condition; that setting to 0 what the
  formulas do not mention changes neither, nor the cut if every value fits, is
  `Rounded`.
- `Recorded` and `Meant`: the log has the conditions of the route's steps up to
  where the search is, one for each step that asks something, in their order;
  each holds exactly for the inputs that take its step; and as long as it is not
  inverted, the explored paths that came this far all took that step
  (`OneSided`). This is why inverting it leads to a path that is new
  (`OtherSide`).
- `Awaited`: of the conditions in `tvds`, those that belong to the route come
  back in the order in which the program meets its branches, the last one
  first. Those of routes that were given up stay below them and are never
  asked for: the condition that was just inverted is the route's last.
- `IdsRight`: no condition is in two of the log, `tvds` and `freeConditions`, or
  twice in one. Without it an inversion could change what another step's
  condition means, and the log, which has as many entries as the pool, could
  overflow (`PoolFits`).

Run forward again, the program must take the route: its branch depends on what
it holds in registers, not on the input. `ReadRight` and `TestsWhatItRead` say
that everything it tests was read with the value of the found input, even where
it was read before the point from which the program is run again. At the end
the path that was run is the route, which shares its last block with no explored
path.

### What stays with TLC

- *Liveness*: `Stops`, `ExploresAll`, and the fairness in `ServesTasks`, whose
  safety part is `ServesSafely`. They need `ENABLED`, which is out of the
  prover's reach.
- *Recursive operators*: `IntervalNode`'s methods recur on trees. What they
  compute for every tree needs an induction that the provers cannot instantiate,
  so `SearchTree`, `HoldsStored`, `FindsValues` and `BreaksOnlyLeaning` are
  model-checked, as is `Alone`, the one fact of it that `ReportsAreExact` uses.
- *The counterexample*: the property of MCTaintClears does not hold (section 6).

## 6. Where the code departs from what it says

One run ends in a counterexample, on purpose. It checks what a comment of the
code says of it.

| run | what happens |
|---|---|
| MCTaintClears | the rule that "clears registers" compares taint indices. An instruction with one tracked input hands its index on, so two different values have one index: `mov al, [0]; mov bl, al; add al, 5; xor al, bl` clears `al` (`TrackingExecutor.cpp:148`) |

Three properties are stated beside their models and checked by no run, because
they fail on the first occasion and nothing is learnt by repeating it:

- `PayloadNamesItsByte` (`TaintTrace`): `CreateVariable` skips two characters of
  the name `"@12"`, so byte 12 is recorded as byte 2 and bytes 0 to 9 as byte 0
  (`TrackingExecutor.cpp:21`). Two payload bytes suffice.
- `ExecutesReceived` (`SimpleTracer`): the opcode is preset to "task" and a
  failed read is only logged, so at the end of the stream the last payload is
  executed once more than it was sent (`simple.tracer.cpp:93`, `:259`).
- `JumpsAnnotated` (`TraceParser`): the loop over the conditions starts at the
  last one annotated, and compares -1 with an unsigned size: the first
  conditions are never annotated and later ones overwrite their predecessor
  (`TraceParser.cpp:128`).

In `LargeStack` and the flags that use it:

- `Push` assigns the word to the stack pointer, and `Pop` returns the pointer
  (`LargeStack.cpp:167`, `:172`). The lazy flags' `SaveState` and `LoadState`,
  called at every step of the explorer, go through them, so what a flag was
  before a step is lost; and `LoadState` would bring back a flag's source but
  not its value (`Z3SymbolicFlags.cpp:55`).
- `Update`, which spills and loads, is called by nothing in the repository; the
  model is of the use its layout was made for.
- `VirtualPop` truncates the file to a negative length, which Linux refuses
  (`:98`): the next load reads the same region again.
- the move from X to C moves only the pointer (`:121`): words pushed in X would
  be left behind.

In the annotated tracer's session:

- the test of a jump is written by the next block's first instruction. When that
  block cannot be translated, the answer is sent without it, and the test is never
  written (`annotated.tracer.cpp:215`).
- the payload's variables are registered for the first task that is run
  (`:67-90`): the bytes that a later, longer payload adds are not symbolic, and
  jumps that depend only on them have no test.
- a translation error ends the tracer with the next task already taken (`:220`),
  though it logs "Restarting after issue"; `TaskService` allows going down at that
  point.

In the parser: a block with symbolic objects that begins with its module's entry is
taken for read before it is, and its addresses get a later block
(`TraceParser.cpp:78-90`); and an entry that is cut short by the end of the log is
taken for a whole one that ends in zeros, as `fread` never returns less than zero
(`:49-66`, `:231-237`).

In the interval tree: an interval dropped for one with its lowest value raises the
maxima above it all the same (`IntervalTree.h:229-236`), `UpdateMax` reads both
children of a rotated node (`:128`), a right rotation keeps the lowered node's old left child
(`:198`), the removal of an absent key drops the subtree where the search ends
(`:284`), the last value of an interval may be missed (`:147`).

In the explorer: values the solver finds are cut to a byte
(`SymbolicDemoMain.cpp:340`), inverted conditions are never freed (`:135`), and
the search depends on `lastCondition`, which this commit's executor sets to null
in its constructor and nowhere else (`Z3SymbolicExecutor.cpp:253`). With that
executor the demo does not get as far as a search: the first symbolic jump leaves a
test pending, and the next instruction writes it through the format that the demo
passes as null (`SymbolicDemoMain.cpp:205`).

These and other departures stay inside passing runs, as exceptions the properties
spell out: besides the above, the rejected lines of a patch file, the incomplete
handlers, the uninitialised `FlagInfo::symbolic`, returns that remove arguments
(section 3). Of those in this section only the cut entry is left out of the model.

## 7. What is left out

- *External code*: the execution controller, the symbolic environment, Z3, the
  disassembler, and whoever writes the log that the parser reads. The models
  contain them as far as the code uses them.
- *Integer wrap*: taint indices are 32 bits and -1 is the value for "none"; the
  model counts in `Nat`, with 0 for "none", and `MaxIndex` bounds the runs only.
- *Layout*: the text and binary formats of the log, module names, the contents
  of the simple tracer's log.
- *The blocks of a path*: `OnExecutionControl` notes every block for the next test
  (`pathBBlocks`, `Z3SymbolicExecutor.cpp:1083-1086`). Nothing under `src/` clears the
  set at the end of an execution, so the last blocks of one task go out with the
  first test of the next, or stay for ever, depending on what
  `SingleTestDetails::Reset`, which is not in the repository, does.
- *An entry of the log that is itself cut short* (section 6): the sanitizer's log is
  cut between two entries.
- *Option parsing, socket set-up*, and the single-run mode, which is one
  `Execute` without a loop.
- *Numbers that `std::stoul` rejects* in a patch file.
- *In the executor*: the multiplications and divisions of one operand, rotations,
  addresses (their tracking is disabled by `#if 0`), and the adjust and direction
  flags (their `Eval` stops). And terms that do not fit together
  (`SortsAssumption`): operands of different sizes, at which `GetSymbolicValues` has
  a `DEBUG_BREAK`, and concrete operands of another size than 32 bits where only a flag
  is symbolic, as they are made constants of 32 (`:930-954`); inc and dec of
  anything but 32 bits, the size of the one they add (`:528`, `:540`);
  movzx and movsx to anything but 32 bits, and movsx of anything but the lowest byte
  (`:828`, `:847`).
- *In the explorer*: `VariableTracker`, which `ReversibleAction` replaced; blocks
  that test flags set by an earlier block (they are lost over a step, section 6).
- *In the sanitizer*: `--memory`, for which there is no sanitizer; Z3's optimizer
  beyond frames, assertions and one objective.
- *The corpus aggregator and the tracer's `main`*: a copy of files and a choice
  of options.
- *Vendored code* (`ezOptionParser`, `windirent`, `crc32`, `BitMap`) and generated code.

## 8. The plan

Done, in this order: the taint engine and its proof (the product of the
annotated tracer); the sessions and the abstract service; the symbolic executor
and the algebra of its flags; the parser; the patches; the interval tree; the
sanitizer, from log to report; the large stack; the symbolic search;
overlapping registers, cmpxchg and imul in the executor.

What is left to model differs from what is modelled in data more than in
control (section 7). The proofs followed the same order: the taint engine and
the flags; the patches; both sessions and the safety of the abstract service;
the parser; the large stack; the symbolic executor; the state of the search; the
sanitizer; the order of the search. What is left to prove is of `IntervalTree`:
what can be said of one rotation or one insertion without recursion, as lemmas
on trees whose subtrees are search trees.
