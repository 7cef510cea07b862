------------------------------ MODULE Explorer ------------------------------
(***************************************************************************)
(* The symbolic demo: a search through all paths of a program.  The traced *)
(* program is run forward to its end, then undone block by block; where it *)
(* took a branch, the solver is asked for an input that takes the other    *)
(* one.  The input can only be changed where the program has not yet read  *)
(* what changes, so the program is undone further, until those variables   *)
(* are unlocked, and then run forward again.                               *)
(*                                                                         *)
(* The controller that runs and undoes the program is outside the          *)
(* repository: it calls ExecutionBegin before the first block and when     *)
(* that is undone, ExecutionEnd after the last one, and ExecutionControl   *)
(* between two blocks, in either direction.  A formula is the set of the   *)
(* inputs it holds for; a block sets the flags that its condition tests    *)
(* (those saved over a step are lost, see LargeStack's Push).  Where the   *)
(* code has a DEBUG_BREAK, or reads outside an array, there is no step.    *)
(***************************************************************************)
EXTENDS Integers, Sequences, FiniteSets, SequencesExt

CONSTANTS
  Variable,   \* the words of bufferDword
  Word,       \* their values
  ByteSize,   \* one more than the greatest value a found input can have
  Block, NoBlock,
  Entry,      \* the blocks at which the program may be entered
  Reads,      \* the variables each block reads
  Test,       \* the condition each block branches on: its variables, and where it holds
  Successors, \* where it goes: if the condition holds, and if not
  PoolSize,   \* conditionPool
  LogSize,    \* the size of lockedVariables
  Reports     \* whether the executor hands its conditions over; this one does not

Input == [Variable -> Word]

ASSUME ExplorerAssumption ==
  /\ Word \subseteq Nat /\ ByteSize \in Nat \ {0} /\ 0 \in Word /\ Entry \subseteq Block
  /\ NoBlock \notin Block /\ Reads \in [Block -> SUBSET Variable]
  /\ Test \in [Block -> [vars : SUBSET Variable, holds : SUBSET Input]]
  /\ Successors \in [Block -> (Block \cup {NoBlock}) \X (Block \cup {NoBlock})]
  /\ PoolSize \in Nat /\ LogSize \in Nat /\ Reports \subseteq BOOLEAN
  /\ \A w \in Word : w % ByteSize \in Word

\* A conditional jump is not the end of the program.
ASSUME BranchAssumption ==
  \A b \in Block : Successors[b][1] # Successors[b][2] =>
    NoBlock \notin {Successors[b][1], Successors[b][2]}

\* The first block is never undone in front of ExecutionControl, and the second
\* only once: what they read and test the search cannot change, and a patch is
\* never still being made when ExecutionBegin is called.
ASSUME PreambleAssumption ==
  \A b \in Entry :
    /\ Reads[b] = {} /\ Successors[b][1] = Successors[b][2]
    /\ \A c \in Block : c = Successors[b][1] => Successors[c][1] = Successors[c][2]

VARIABLES
  pc, path, input,   \* the program: its next block, those it has run, its input
  read,              \* the program: the values it has read, before each block and now
  call,              \* the controller: what it does next
  reports,           \* the executor hands its conditions over
  lastCondition,     \* executor->lastCondition
  solver,            \* executor->solver: its frames, the oldest first
  executionState, backSteps, lastDirection, newPass,
  step,              \* of both logs, which are moved together
  conds,             \* the log of conditions
  locks,             \* lockedVariables, the log of locks
  locked,            \* the variables whose flag is set
  pool,              \* conditionPool
  free,              \* freeConditions
  tvds, lastCond,    \* the conditions taken from the log going back
  explored,          \* history: the paths run to their end
  fitted             \* history: no value of a found input has been cut

program  == <<pc, path, input, read>>
executor == <<lastCondition, solver>>
cec      == <<conds, pool, free, tvds, lastCond>>
lock     == <<locks, locked>>
search   == <<executionState, backSteps, lastDirection, newPass>>
vars == <<program, call, reports, executor, search, step, cec, lock, explored, fitted>>

-----------------------------------------------------------------------------
(* The program and the executor.                                            *)

Branches(b) == Successors[b][1] # Successors[b][2]
Holds(b, x) == x \in Test[b].holds
SuccessorOf(b, x) == Successors[b][IF Holds(b, x) THEN 1 ELSE 2]

None  == [vars |-> {}, holds |-> {}]
Not(c) == [c EXCEPT !.holds = Input \ @]
Taken(b, x) == IF Holds(b, x) THEN Test[b] ELSE Not(Test[b])

\* Z3_get_bool_value says Z3_L_UNDEF.
IsUndefined(c) == c.holds \notin {{}, Input}

NoFormula == [vars |-> {}, holds |-> Input]
Asserted(s, c)    == [s EXCEPT ![Len(s)] = [vars |-> @.vars \cup c.vars, holds |-> @.holds \cap c.holds]]
StepForward(s)  == Append(s, NoFormula)
StepBackward(s) == Front(s)

Models(s)    == {x \in Input : \A k \in DOMAIN s : x \in s[k].holds}
Mentioned(s) == UNION {s[k].vars : k \in DOMAIN s}

\* What is left of a model: a variable it does not mention is 0, a value a byte.
Cut(s, x)  == [v \in Variable |-> IF v \in Mentioned(s) THEN x[v] % ByteSize ELSE 0]
Fits(s, x) == \A v \in Mentioned(s) : x[v] < ByteSize

-----------------------------------------------------------------------------
(* ReversibleAction.                                                        *)

Logged(log, items, size) ==
  LET all == log \o [i \in 1 .. Len(items) |-> [item |-> items[i], step |-> step]]
  IN SubSeq(all, 1, IF Len(all) < size THEN Len(all) ELSE size)

\* Mutant of IsUndone: one step too many.
IsUndoneEarly(entry) == entry.step >= step - 1
IsUndone(entry)      == entry.step > step - 1

\* Entries are popped while the last one is to be undone: what is left, and what
\* was popped, in that order.
Left(log)   == CHOOSE n \in 0 .. Len(log) : /\ n = 0 \/ ~IsUndone(log[n])
                                           /\ \A i \in n + 1 .. Len(log) : IsUndone(log[i])
Kept(log)   == SubSeq(log, 1, Left(log))
Undone(log) == [i \in 1 .. Len(log) - Left(log) |-> log[Len(log) + 1 - i].item]

-----------------------------------------------------------------------------
(* The callbacks.                                                           *)

ExecutionBegin ==
  /\ call = "begin"
  /\ \/ executionState = "EXPLORING" /\ call' = "run"
     \/ executionState = "BACKTRACKING" /\ call' = "done"
  /\ UNCHANGED <<program, reports, executor, search, step, cec, lock, explored, fitted>>

\* A condition that is not handed over is left pending, and the next instruction
\* writes it to aFormat, which the demo sets to null.
WritesPending == ~reports /\ path # <<>> /\ Branches(Last(path))

Crash ==
  /\ call = "run" /\ WritesPending /\ call' = "crashed"
  /\ UNCHANGED <<program, reports, executor, search, step, cec, lock, explored, fitted>>

\* TrackCallback locks what the block reads.
RunBlock ==
  LET new  == IF lastDirection = "ADVANCE" THEN Reads[pc] \ locked ELSE {}
      held == [v \in Variable |-> IF v \in Reads[pc] THEN input[v] ELSE Last(read)[v]]
  IN /\ call = "run" /\ ~WritesPending
     /\ locked' = locked \cup new /\ locks' = Logged(locks, SetToSeq(new), LogSize)
     /\ read' = Append(read, held)
     /\ path' = Append(path, pc) /\ pc' = SuccessorOf(pc, held)
     /\ lastCondition' = IF reports /\ Branches(pc) THEN Taken(pc, held) ELSE lastCondition
     /\ call' = IF pc' = NoBlock THEN "end" ELSE "control"
     /\ UNCHANGED <<input, reports, solver, search, step, cec, explored, fitted>>

Undo ==
  /\ call = "undo"
  /\ pc' = Last(path) /\ path' = Front(path) /\ read' = Front(read)
  /\ call' = IF path' = <<>> THEN "begin" ELSE "control"
  /\ UNCHANGED <<input, reports, executor, search, step, cec, lock, explored, fitted>>

ExecutionEnd ==
  /\ call = "end" /\ executionState = "EXPLORING"
  /\ lastDirection' = "BACKTRACK" /\ executionState' = "BACKTRACKING" /\ call' = "undo"
  /\ explored' = explored \cup {path}
  /\ UNCHANGED <<program, reports, executor, backSteps, newPass, step, cec, lock, fitted>>

\* The end of an ExecutionControl that returns EXECUTION_ADVANCE.
Advances(s) ==
  /\ lastDirection' = "ADVANCE" /\ call' = "run"
  /\ solver' = StepForward(s)

Pending == IsUndefined(lastCondition)

Tracks(cond) == conds' = Logged(conds, <<cond>>, PoolSize)

Explore ==
  /\ call = "control" /\ lastDirection = "ADVANCE" /\ executionState = "EXPLORING"
  /\ \/ /\ ~Pending /\ Advances(solver)
        /\ UNCHANGED <<lastCondition, conds, pool, free>>
     \/ /\ Pending /\ free # <<>>
        /\ free' = Front(free) /\ Tracks(Last(free))
        /\ pool' = [pool EXCEPT ![Last(free)] = [wasInverted |-> FALSE, ast |-> lastCondition]]
        /\ Advances(Asserted(solver, lastCondition)) /\ lastCondition' = None
  /\ step' = step + 1
  /\ UNCHANGED <<program, reports, executionState, backSteps, newPass, tvds, lastCond, lock, explored, fitted>>

\* The conditions come back in the order they were taken from the log.
Restore ==
  LET cond == Last(tvds)
      left == IF Pending THEN Front(tvds) ELSE tvds
  IN /\ call = "control" /\ lastDirection = "ADVANCE" /\ executionState = "RESTORING"
     /\ \/ /\ ~Pending /\ Advances(solver)
           /\ UNCHANGED <<lastCondition, conds, pool>>
        \/ /\ Pending /\ tvds # <<>> /\ Tracks(cond) /\ pool' = [pool EXCEPT ![cond].ast = lastCondition]
           /\ Advances(Asserted(solver, lastCondition)) /\ lastCondition' = None
     /\ \/ /\ backSteps > 0 /\ backSteps' = backSteps - 1 /\ tvds' = left
           /\ UNCHANGED <<executionState, free>>
        \/ /\ backSteps = 0 /\ executionState' = "EXPLORING"
           /\ free' = free \o left /\ tvds' = <<>> /\ UNCHANGED backSteps
     /\ step' = step + 1
     /\ UNCHANGED <<program, reports, newPass, lastCond, lock, explored, fitted>>

\* What both directions of going back share: the logs are undone.
GoesBack(state) ==
  /\ call = "control" /\ lastDirection = "BACKTRACK" /\ executionState = state
  /\ locks' = Kept(locks) /\ locked' = locked \ ToSet(Undone(locks))
  /\ conds' = Kept(conds)
  /\ UNCHANGED <<reports, lastCondition, free, explored>>

Unloaded == tvds \o Undone(conds)
LastUnloaded == IF Undone(conds) = <<>> THEN lastCond ELSE Last(Undone(conds))

NoCond == 0

\* TryPop forgets the last condition, and takes it if there is one.
Popped == IF Unloaded = <<>> THEN NoCond ELSE LastUnloaded
LeftByTryPop == IF Unloaded = <<>> THEN LastUnloaded ELSE NoCond

\* Mutant of Inverted: it is not remembered.
InvertedForgets(c) == [c EXCEPT !.ast = Not(@)]
Inverted(c)        == [wasInverted |-> TRUE, ast |-> Not(c.ast)]

\* The conditions in the pool, and so their negations, are undefined ones.
Backtrack ==
  LET back == StepBackward(solver)
      tried == Asserted(back, Not(pool[Popped].ast))
  IN /\ GoesBack("BACKTRACKING")
     /\ \/ /\ Popped = NoCond
           /\ tvds' = Unloaded /\ lastCond' = LeftByTryPop /\ solver' = back
           /\ UNCHANGED <<pool, newPass, executionState, fitted>>
        \/ /\ Popped # NoCond /\ pool[Popped].wasInverted
           /\ tvds' = Front(Unloaded) /\ lastCond' = NoCond /\ solver' = back
           /\ UNCHANGED <<pool, newPass, executionState, fitted>>
        \/ /\ Popped # NoCond /\ ~pool[Popped].wasInverted
           /\ pool' = [pool EXCEPT ![Popped] = Inverted(@)]
           /\ tvds' = Append(Front(Unloaded), Popped) /\ lastCond' = Popped
           /\ solver' = tried
           /\ \/ \E x \in Models(tried) :
                   /\ newPass' = Cut(tried, x) /\ fitted' = (fitted /\ Fits(tried, x))
                   /\ executionState' = "PATCHING"
              \/ /\ Models(tried) = {} /\ UNCHANGED <<newPass, executionState, fitted>>
     /\ call' = "undo" /\ step' = step - 1
     /\ UNCHANGED <<program, backSteps, lastDirection>>

Differs(v) == input[v] # newPass[v]

\* Mutant of MayPatch: a variable the program has read is changed as well.
MayPatchAll(v) == TRUE
MayPatch(v)    == v \notin locked'

\* What is not locked is changed at once, the rest further back.
Patch ==
  /\ GoesBack("PATCHING")
  /\ tvds' = Unloaded /\ lastCond' = LastUnloaded
  /\ backSteps' = backSteps + 1
  /\ input' = [v \in Variable |-> IF MayPatch(v) THEN newPass[v] ELSE input[v]]
  /\ \/ /\ \A v \in Variable : Differs(v) => MayPatch(v)
        /\ executionState' = "RESTORING"
        /\ Advances(StepBackward(solver)) /\ step' = step
     \/ /\ \E v \in Variable : Differs(v) /\ ~MayPatch(v)
        /\ solver' = StepBackward(solver) /\ call' = "undo" /\ step' = step - 1
        /\ UNCHANGED <<executionState, lastDirection>>
  /\ UNCHANGED <<pc, path, read, pool, newPass, fitted>>

-----------------------------------------------------------------------------

Init ==
  /\ pc \in Entry /\ path = <<>> /\ input \in Input /\ call = "begin"
  /\ read = <<[v \in Variable |-> 0]>>
  /\ reports \in Reports /\ lastCondition = None /\ solver = <<NoFormula>>
  /\ executionState = "EXPLORING" /\ backSteps = 0 /\ lastDirection = "ADVANCE"
  /\ newPass = [v \in Variable |-> 0]
  /\ step = 0 /\ conds = <<>> /\ locks = <<>> /\ locked = {}
  /\ pool = [c \in 1 .. PoolSize |-> [wasInverted |-> FALSE, ast |-> None]]
  /\ free = [i \in 1 .. PoolSize |-> i]
  /\ tvds = <<>> /\ lastCond = NoCond /\ explored = {} /\ fitted = TRUE

Next ==
  \/ ExecutionBegin \/ RunBlock \/ Crash \/ Undo \/ ExecutionEnd
  \/ Explore \/ Restore \/ Backtrack \/ Patch

Spec == Init /\ [][Next]_vars /\ WF_vars(Next)

-----------------------------------------------------------------------------
(* Properties.                                                              *)

Follows(p, x) == \A i \in 1 .. Len(p) - 1 : p[i + 1] = SuccessorOf(p[i], x)

\* Wherever the program is run on, forward for the first time or again, the solver
\* holds the conditions of the path it is on and no others, and the variables that
\* are locked are those the path has read, which still have the value it read.
PathState ==
  call = "run" =>
    /\ reports => Models(solver) = {x \in Input : Follows(Append(path, pc), x)}
    /\ locked = UNION {Reads[b] : b \in ToSet(path)}
    /\ \A v \in locked : Last(read)[v] = input[v]

\* As long as every value the solver has found fits into a byte, the search does
\* not run a path to its end twice.
OnlyNewPaths == call = "end" /\ fitted => path \notin explored

\* An executor that hands its conditions over makes the search end, with every
\* input's path run, unless the solver has found a value that does not fit.
ExploresAll ==
  reports => <>(\/ ~fitted
                \/ call = "done" /\ \A x \in Input : \E p \in explored : Follows(p, x))
=============================================================================
