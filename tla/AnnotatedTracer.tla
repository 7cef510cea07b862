--------------------------- MODULE AnnotatedTracer ---------------------------
(***************************************************************************)
(* The annotated tracer's session: AnnotatedTracer::Run with the observer  *)
(* it gives to the execution controller, and the one piece of the symbolic *)
(* executor that outlives an instruction, the concolic test of the last    *)
(* symbolic jump.  In flow mode a server sends tasks over a socket and     *)
(* waits for the buffered output of each; in batch mode the tasks are the  *)
(* items of stdin and the output goes to a log.                            *)
(*                                                                         *)
(* The execution controller is a library outside the repository.  It calls *)
(* ExecutionBegin once for each Execute; for each basic block it sets the  *)
(* block's description, hands the instructions to the executor and calls   *)
(* ExecutionControl; it calls ExecutionEnd when the entry point returns    *)
(* and TranslationError for a block it cannot translate; it runs the entry *)
(* point again, without ExecutionBegin, when told EXECUTION_RESTART.       *)
(***************************************************************************)
EXTENDS Integers, Sequences, FiniteSets, SequencesExt

CONSTANTS
  Modes,           \* whether it may be run with --batch: TRUE, FALSE (--flow)
  TrackingMode,    \* "z3" or "taint"
  MaxSize,         \* bound on the size of a payload
  Size,            \* the sizes a task may have
  MaxTasks,        \* bound on the tasks the server sends
  Block,           \* the basic blocks of the traced program
  Entry,           \* its first block
  Branch,          \* block -> <<taken, not taken>>, <<next>>, or <<>> to return
  Tested,          \* block -> the payload bytes its last jump depends on
  Untranslatable,  \* the blocks the controller cannot translate
  PatchFound       \* whether HandlePatchLibrary may find its file: TRUE, FALSE

TERMINATION == -1
Close == [size |-> TERMINATION, arrived |-> 0]
Task == {i \in [size : Size, arrived : 0 .. MaxSize] : i.arrived <= i.size}
Item == {Close} \cup Task

ASSUME ModeAssumption ==
  /\ Modes \subseteq BOOLEAN /\ TrackingMode \in {"z3", "taint"}
  /\ MaxTasks \in Nat /\ MaxSize \in Nat /\ Size \subseteq 0 .. MaxSize
  /\ PatchFound \subseteq BOOLEAN
NoBlock == "none"
NoTest  == [block |-> NoBlock, blockOptionTaken |-> NoBlock]

ASSUME ProgramAssumption ==
  /\ NoBlock \notin Block
  /\ Entry \in Block /\ Untranslatable \subseteq Block
  /\ Tested \in [Block -> SUBSET Nat]
  /\ Branch \in [Block -> {<<>>} \cup {<<b>> : b \in Block} \cup (Block \X Block)]
  /\ \A b \in Block :
       Tested[b] # {} => Len(Branch[b]) = 2 /\ Branch[b][1] # Branch[b][2]

VARIABLES
  pc,          \* "read" | "begin" | "run" | "end" | "next" | "done" | "exited"
  failing,     \* ExecutionEnd was called by TranslationError
  batched,
  flowMode,
  input,       \* what the peer has written and the tracer has not read
  eof,         \* the peer has closed its end
  loaded,      \* number of the task whose payload is in payloadBuff
  vars,        \* NumSymbolicVariables
  fileName,    \* the task whose name Run put in fileName, 0 for none
  ctxInit,     \* the executor exists and its variables are registered
  registered,  \* how many payload bytes SetSymbolicVariable was called for
  logEsp,
  target,      \* the block the program goes to next
  test,        \* m_lastConcolicTest while it is pending
  buffer,      \* the output that has not been sent
  answers,     \* the buffers sent so far
  jumps,       \* history: the jumps of the running task on the bytes followed
  runs         \* history: for each answer, its task, that task's size and jumps

task    == <<loaded, vars, fileName>>
context == <<ctxInit, registered, logEsp>>
output  == <<buffer, answers>>
mode    == <<batched, flowMode>>
tracer  == <<pc, failing, mode, task, context, target, test, output>>
history == <<jumps, runs>>
state   == <<tracer, input, eof, history>>

Begin == [kind |-> "begin"]
End   == [kind |-> "end"]
Name(t) == [kind |-> "name", task |-> t]
Jump(block, taken) == [kind |-> "test", block |-> block, taken |-> taken]

-----------------------------------------------------------------------------
(* The server, outside the repository.                                      *)

Closing == eof \/ Close \in ToSet(input) \/ ~flowMode \/ pc \in {"done", "exited"}

\* A payload cut short is the last thing written before the peer closes.
Send(item) ==
  /\ ~batched /\ ~Closing
  /\ loaded + Len(input) < MaxTasks
  /\ input' = Append(input, item)
  /\ eof' = (item.arrived < item.size)
  /\ UNCHANGED <<tracer, history>>

Hangup ==
  /\ ~batched /\ ~eof
  /\ eof' = TRUE
  /\ UNCHANGED <<tracer, input, history>>

ServerStep ==
  \/ \E item \in Item : Send(item)
  \/ Hangup

-----------------------------------------------------------------------------
(* Reading the next task: the same code in Run and in ExecutionEnd.         *)

AtEnd     == input = <<>> /\ eof
TakeClose == input # <<>> /\ Head(input) = Close /\ input' = Tail(input)

\* Mutant of TakeTask: the loop goes round without the next payload.
TakeTaskStale(then) ==
  /\ input # <<>> /\ Head(input) # Close
  /\ pc' = then
  /\ input' = Tail(input)
  /\ UNCHANGED <<loaded, vars>>

\* A build with assertions stops at a payload cut short; the release build goes
\* on with the bytes that came.
TakeTask(then) ==
  /\ input # <<>> /\ Head(input) # Close
  /\ \/ pc' = then
     \/ Head(input).arrived < Head(input).size /\ pc' = "exited"
  /\ input' = Tail(input)
  /\ loaded' = loaded + 1
  /\ vars' = Head(input).arrived

\* Batch mode: an item that is not there whole is the end of stdin.
HasItem == input # <<>> /\ Head(input).arrived = Head(input).size

-----------------------------------------------------------------------------
(* Run: the loops around Execute.                                           *)

RunReadsTask ==
  /\ pc = "read" /\ ~batched /\ flowMode
  /\ TakeTask("begin")
  /\ UNCHANGED <<failing, mode, eof, fileName, context, target, test,
                 output, history>>

RunStops ==
  /\ pc = "read" /\ ~batched
  /\ \/ ~flowMode /\ pc' = "done" /\ UNCHANGED input
     \/ flowMode /\ TakeClose /\ pc' = "done"
     \/ flowMode /\ AtEnd /\ pc' = "exited" /\ UNCHANGED input
  /\ UNCHANGED <<failing, mode, eof, task, context, target, test, output,
                 history>>

RunReadsItem ==
  /\ pc = "read" /\ batched /\ HasItem
  /\ input' = Tail(input)
  /\ loaded' = loaded + 1 /\ vars' = Head(input).size /\ fileName' = loaded + 1
  /\ pc' = "begin"
  /\ UNCHANGED <<failing, mode, eof, context, target, test, output, history>>

\* Mutant of RunFindsEnd: the loop is not left at the end of stdin.
RunFindsEndOn ==
  /\ pc = "read" /\ batched /\ ~HasItem
  /\ input' = <<>>
  /\ UNCHANGED <<pc, failing, mode, eof, task, context, target, test, output,
                 history>>

RunFindsEnd ==
  /\ pc = "read" /\ batched /\ ~HasItem
  /\ pc' = "done" /\ input' = <<>>
  /\ UNCHANGED <<failing, mode, eof, task, context, target, test, output,
                 history>>

-----------------------------------------------------------------------------
(* CustomObserver::ExecutionBegin.                                          *)

\* Mutant of Registered: the last byte of the payload is not registered.
RegisteredButLast == IF ctxInit THEN registered ELSE vars - 1
Registered        == IF ctxInit THEN registered ELSE vars

Patched ==
  /\ pc' = "run" /\ target' = Entry
  /\ ctxInit' = TRUE /\ registered' = Registered
  /\ IF TrackingMode = "z3"
       THEN logEsp' = FALSE /\ buffer' = Append(buffer, Begin)
       ELSE logEsp' = TRUE /\ buffer' = buffer \o <<Begin, Name(fileName)>>

\* Mutant of NotPatched: the variables are registered before the patches.
NotPatchedRegistered ==
  /\ pc' = "read"
  /\ buffer' = Append(buffer, Begin)
  /\ ctxInit' = TRUE /\ registered' = Registered
  /\ UNCHANGED <<target, logEsp>>

\* HandlePatchLibrary failed: Execute returns to Run.
NotPatched ==
  /\ pc' = "read"
  /\ buffer' = Append(buffer, Begin)
  /\ UNCHANGED <<target, context>>

ExecutionBegin ==
  /\ pc = "begin"
  /\ \/ TRUE \in PatchFound /\ Patched
     \/ FALSE \in PatchFound /\ NotPatched
  /\ UNCHANGED <<failing, mode, input, eof, task, test, answers, history>>

-----------------------------------------------------------------------------
(* A basic block of the traced program.                                     *)

Pending == test # NoTest

\* Mutant of Flushed: the two branches are swapped.
FlushedSwapped(b) ==
  IF Pending THEN <<Jump(test.block, b # test.blockOptionTaken)>> ELSE <<>>
\* Z3SymbolicExecutor::Execute: the first instruction after a symbolic jump
\* writes the jump's test, now that the block jumped to is known.
Flushed(b) ==
  IF Pending THEN <<Jump(test.block, b = test.blockOptionTaken)>> ELSE <<>>

\* SymbolicJumpCC, which the block's last instruction may be: it is called only
\* if a flag is symbolic, that is, made from a byte that was registered.
NewTest(b) ==
  IF TrackingMode = "z3" /\ \E i \in Tested[b] : i < registered
    THEN [block |-> b, blockOptionTaken |-> Branch[b][1]]
    ELSE NoTest

\* ExecutionControl.
Logged ==
  IF TrackingMode = "z3" THEN <<>>
  ELSE IF logEsp THEN <<[kind |-> "registers"], [kind |-> "block"]>>
  ELSE <<[kind |-> "block"]>>

\* Mutant of Return: the output of the run is not sent.
ReturnUnsent == pc' = "next" /\ UNCHANGED <<target, jumps>>
Return       == pc' = "end"  /\ UNCHANGED <<target, jumps>>

\* The bytes that are followed in every run: the first run's payload, whatever
\* the sizes of the later ones.
FirstSize == IF runs = <<>> THEN vars ELSE runs[1].size
Followed(b) == \E i \in Tested[b] : i < FirstSize

\* (OnExecutionControl also notes the block in the test's pathBBlocks, which the
\* executor only ever adds to; see the README, section 7.)
RunBlock ==
  /\ pc = "run" /\ target \notin Untranslatable
  /\ test' = NewTest(target)
  /\ buffer' = buffer \o Flushed(target) \o Logged
  /\ logEsp' = FALSE
  /\ IF Branch[target] = <<>>
       THEN Return
       ELSE \E i \in DOMAIN Branch[target] :
              /\ pc' = "run" /\ target' = Branch[target][i]
              /\ jumps' = IF Followed(target)
                            THEN Append(jumps, Jump(target, i = 1)) ELSE jumps
  /\ UNCHANGED <<failing, mode, input, eof, task, ctxInit, registered,
                 answers, runs>>

TranslationError ==
  /\ pc = "run" /\ target \in Untranslatable
  /\ pc' = "end" /\ failing' = TRUE
  /\ UNCHANGED <<mode, input, eof, task, context, target, test, output,
                 history>>

-----------------------------------------------------------------------------
(* CustomObserver::ExecutionEnd.                                            *)

RunOver ==
  /\ runs' = Append(runs, [task |-> loaded, size |-> vars, jumps |-> jumps])
  /\ jumps' = <<>>

\* TranslationError exits whatever ExecutionEnd, which it calls, decides.
Decided(then) == IF failing THEN "exited" ELSE then

SendAnswer ==
  /\ pc = "end" /\ ~batched
  /\ pc' = "next"
  /\ answers' = Append(answers, Append(buffer, End)) /\ buffer' = <<>>
  /\ RunOver
  /\ UNCHANGED <<failing, mode, input, eof, task, context, target, test>>

\* Mutant of EndReadsTask: the format is not told that an execution begins.
EndReadsTaskUnframed ==
  /\ pc = "next"
  /\ TakeTask(Decided("run"))
  /\ target' = Entry
  /\ UNCHANGED <<failing, mode, eof, fileName, context, test, output, history>>

EndReadsTask ==
  /\ pc = "next"
  /\ TakeTask(Decided("run"))
  /\ target' = Entry
  /\ buffer' = Append(buffer, Begin)
  /\ UNCHANGED <<failing, mode, eof, fileName, context, test, answers,
                 history>>

\* Mutant of EndStops: flowMode is left set when the session is closed.
EndStopsOpen ==
  /\ pc = "next"
  /\ \/ TakeClose /\ pc' = Decided("read")
     \/ AtEnd /\ pc' = "exited" /\ UNCHANGED input
  /\ UNCHANGED <<failing, mode, eof, task, context, target, test, output,
                 history>>

EndStops ==
  /\ pc = "next"
  /\ \/ TakeClose /\ flowMode' = FALSE /\ pc' = Decided("read")
     \/ AtEnd /\ pc' = "exited" /\ UNCHANGED <<input, flowMode>>
  /\ UNCHANGED <<failing, batched, eof, task, context, target, test, output, history>>

\* Batch mode: NumSymbolicVariables and fileName stay what they were.
\* Mutant of NextName: the name Run read last.
StaleName == fileName
NextName  == loaded + 1

EndReadsItem ==
  /\ pc = "end" /\ batched /\ HasItem
  /\ input' = Tail(input) /\ loaded' = loaded + 1
  /\ buffer' = Append(buffer, Name(NextName))
  /\ pc' = Decided("run") /\ target' = Entry
  /\ RunOver
  /\ UNCHANGED <<failing, mode, eof, vars, fileName, context, test, answers>>

EndFindsEnd ==
  /\ pc = "end" /\ batched /\ ~HasItem
  /\ input' = <<>> /\ pc' = Decided("read")
  /\ RunOver
  /\ UNCHANGED <<failing, mode, eof, task, context, target, test, output>>

-----------------------------------------------------------------------------

\* In batch mode all of stdin is there; its last item may be cut short.
Stdin ==
  {s \in UNION {[1 .. n -> Task] : n \in 0 .. MaxTasks} :
     \A k \in 1 .. Len(s) - 1 : s[k].arrived = s[k].size}

Init ==
  /\ pc = "read" /\ failing = FALSE
  /\ batched \in Modes /\ flowMode = ~batched /\ eof = batched
  /\ input \in IF batched THEN Stdin ELSE {<<>>}
  /\ loaded = 0 /\ vars = 1 /\ fileName = 0
  /\ ctxInit = FALSE /\ registered = 0 /\ logEsp = FALSE
  /\ target = NoBlock /\ test = NoTest
  /\ buffer = <<>> /\ answers = <<>>
  /\ jumps = <<>> /\ runs = <<>>

TracerStep ==
  \/ RunReadsTask \/ RunStops \/ RunReadsItem \/ RunFindsEnd
  \/ ExecutionBegin
  \/ RunBlock \/ TranslationError
  \/ SendAnswer \/ EndReadsTask \/ EndStops \/ EndReadsItem \/ EndFindsEnd

Next == TracerStep \/ ServerStep

Spec == Init /\ [][Next]_state

\* The tracer's only thread is scheduled; nothing makes the server do anything.
FairSpec == Spec /\ WF_state(TracerStep)

-----------------------------------------------------------------------------
(* Properties.                                                              *)

TestEntry == [kind : {"test"}, block : Block, taken : BOOLEAN]
LogEntry  == TestEntry \cup [kind : {"begin", "end", "registers", "block"}]
                       \cup [kind : {"name"}, task : Nat]

\* part is the subsequence of the log's entries of one kind: the n-th entry of the
\* kind in the log is the n-th of part.  (What SelectSeq computes, put in a form
\* that can be reasoned about.)
Selects(part, kind, log) ==
  LET ns == {n \in 1 .. Len(log) : log[n].kind = kind}
  IN /\ Len(part) = Cardinality(ns)
     /\ \A n \in ns : part[Cardinality({m \in ns : m <= n})] = log[n]

\* Every variable has its type.
TypeOK ==
  /\ pc \in {"read", "begin", "run", "end", "next", "done", "exited"}
  /\ {failing, batched, flowMode, eof, ctxInit, logEsp} \subseteq BOOLEAN
  /\ input \in Seq(Item)
  /\ {loaded, vars, fileName, registered} \subseteq Nat
  /\ target \in Block \cup {NoBlock}
  /\ test \in {NoTest} \cup [block : Block, blockOptionTaken : Block]
  /\ buffer \in Seq(LogEntry) /\ answers \in Seq(Seq(LogEntry))
  /\ jumps \in Seq(TestEntry)
  /\ runs \in Seq([task : Nat, size : Nat, jumps : Seq(TestEntry)])

\* Each answer holds the tests of its own run's jumps on the bytes followed, all
\* of them, in order and with the branch that was taken: no test strays into a
\* neighbour's answer although a test is written one block after its jump.  The
\* bytes followed are those the first run's payload had: a jump that depends only
\* on what a later, longer payload adds has no test.  (A run that a translation
\* error ended may lack the test of its last jump.)
AnswersFaithful ==
  \A k \in 1 .. Len(answers) :
    \/ Selects(runs[k].jumps, "test", answers[k])
    \/ /\ failing /\ k = Len(answers) /\ runs[k].jumps # <<>>
       /\ Selects(Front(runs[k].jumps), "test", answers[k])

\* Each answer is one task's: it begins and ends once.
AnswersFramed ==
  \A k \in 1 .. Len(answers) :
    /\ Head(answers[k]) = Begin /\ Last(answers[k]) = End
    /\ \A j \in 2 .. Len(answers[k]) - 1 : answers[k][j] \notin {Begin, End}

\* No task is answered twice and none before an earlier one: the server, which
\* gets no task number back, may only be wrong about which tasks were dropped.
AnswersInOrder ==
  \A k \in 1 .. Len(runs) : \A j \in 1 .. k - 1 : runs[j].task < runs[k].task

\* The variables are registered once, in the ExecutionBegin of the first run, for
\* the payload of that run: not for a task that was dropped before it, and not
\* again for the tasks after it, longer or shorter.  A byte of a running payload
\* is a symbolic variable if and only if the first run's payload had it.
PayloadSymbolic == pc = "run" => registered = FirstSize

\* Batch mode, taint tracking: the log names the items in the order they were
\* executed, one name for each, whether Run or ExecutionEnd read the item.
Named == [k \in 1 .. Len(runs) |-> Name(runs[k].task)]
           \o (IF pc \in {"run", "end"} THEN <<Name(loaded)>> ELSE <<>>)
NamesFollowItems == batched /\ pc # "exited" => Selects(Named, "name", buffer)

\* Flow mode implements the service, as long as the patch file is found: the
\* tasks are those loaded, and the k-th answer is the answer to runs[k].task.
Service == INSTANCE TaskService WITH
  taken    <- loaded,
  answered <- [k \in 1 .. Len(runs) |-> runs[k].task],
  up       <- pc \notin {"done", "exited"}

\* Every task taken is answered before the next is taken, or the tracer stops.
ServesTasks == Service!Spec

\* Once the server has closed the session, however it did, the tracer stops.
Stops == Closing ~> pc \in {"done", "exited"}
=============================================================================
