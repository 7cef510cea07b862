---------------------------- MODULE SimpleTracer ----------------------------
(***************************************************************************)
(* The simple tracer's session: SimpleTracer::Run and its observer.  In    *)
(* flow mode stdin carries the payload size once and then a stream of      *)
(* tasks, each an opcode and a payload of that size; in batch mode it      *)
(* carries the items of a corpus.  Like the annotated tracer it runs one   *)
(* task per Execute or EXECUTION_RESTART of the execution controller, a    *)
(* library outside the repository, but it reads its tasks differently.     *)
(***************************************************************************)
EXTENDS Naturals, Sequences

CONSTANTS
  Modes,       \* whether the tracer may be run with --batch: TRUE, FALSE (--flow)
  MayHangUp,   \* the writer of a flow may close stdin without E_NEXTOP_CLOSE
  MaxTokens,   \* bound on what the writer sends
  MaxRuns,     \* bound on the executions
  PatchFound,  \* whether HandlePatchLibrary may find its file: TRUE, FALSE
  MayFail      \* whether the traced program has an untranslatable block

ASSUME SimpleAssumption ==
  /\ {MayHangUp, MayFail} \subseteq BOOLEAN
  /\ Modes \subseteq BOOLEAN /\ PatchFound \subseteq BOOLEAN
  /\ MaxTokens \in Nat /\ MaxRuns \in Nat

\* An opcode with, for a task, its payload: whole, or cut by the end of stdin.
\* A corpus item is a task whose opcode is its header.
FlowOpCode == {"CLOSE", "TASK", "corrupted"}
Token == [op : FlowOpCode, whole : BOOLEAN]

VARIABLES
  pc,        \* "size" | "read" | "begin" | "run" | "end" | "done" | "exited"
  failing,   \* ExecutionEnd was called by TranslationError
  batched,
  flowMode,
  input,     \* what the writer has written and the tracer has not read
  eof,       \* the writer has closed stdin
  feof,      \* a read of stdin has met its end
  received,  \* how many tasks were read from stdin
  contents,  \* payloadBuff: the tasks whose bytes are in it
  executed,  \* history: the payload of each execution
  unpatched  \* history: the tasks dropped for want of the patch file

control == <<pc, failing, batched, flowMode>>
stdin   == <<input, eof, feof>>
payload == <<received, contents>>
history == <<executed, unpatched>>
state   == <<control, stdin, payload, history>>

-----------------------------------------------------------------------------
(* The writer, outside the repository.                                      *)

Sent(op) == \E k \in 1 .. Len(input) : input[k].op = op

Write(token) ==
  /\ ~batched /\ ~eof /\ ~Sent("CLOSE") /\ flowMode /\ pc \notin {"done", "exited"}
  /\ received + Len(input) < MaxTokens
  /\ token.whole \/ (MayHangUp /\ token.op = "TASK")
  /\ input' = Append(input, token) /\ eof' = ~token.whole
  /\ UNCHANGED <<control, feof, payload, history>>

Hangup ==
  /\ MayHangUp /\ ~eof
  /\ eof' = TRUE
  /\ UNCHANGED <<control, input, feof, payload, history>>

WriterStep == Hangup \/ \E token \in Token : Write(token)

-----------------------------------------------------------------------------
(* Reading stdin: the same code in Run and in ExecutionEnd.                 *)

NextIs(op) == input # <<>> /\ Head(input).op = op
AtEnd     == input = <<>> /\ eof

\* Mutant of ReadPayload: the new payload does not replace the old one.
ReadPayloadOver ==
  /\ received' = received + 1
  /\ contents' = contents \cup {received + 1}
  /\ feof' = (feof \/ ~Head(input).whole)
  /\ input' = Tail(input) /\ eof' = eof

\* Mutant of ReadPayload: a payload is skipped before the one that is read.
ReadPayloadAhead ==
  /\ received' = received + 1
  /\ contents' = {received + 2}
  /\ feof' = (feof \/ ~Head(input).whole)
  /\ input' = Tail(input) /\ eof' = eof

ReadPayload ==
  /\ received' = received + 1
  /\ contents' = IF Head(input).whole THEN {received + 1}
                                      ELSE contents \cup {received + 1}
  /\ feof' = (feof \/ ~Head(input).whole)
  /\ input' = Tail(input) /\ eof' = eof

\* The opcode is E_NEXTOP_TASK before it is read, and a read that fails is only
\* logged: at the end of stdin there is always one more task.
MissingTask ==
  /\ AtEnd
  /\ feof' = TRUE
  /\ UNCHANGED <<input, eof, payload>>

TakeTask == (NextIs("TASK") /\ ReadPayload) \/ MissingTask

TakeOp(op) ==
  /\ NextIs(op)
  /\ input' = Tail(input)
  /\ UNCHANGED <<eof, feof, payload>>

HasItem == input # <<>> /\ Head(input).whole

-----------------------------------------------------------------------------
(* Run.                                                                     *)

\* Without the size the tasks' payloads are empty, but then feof is set, too.
ReadSize ==
  /\ pc = "size"
  /\ \/ UNCHANGED feof
     \/ ~batched /\ AtEnd /\ feof' = TRUE
  /\ pc' = "read"
  /\ UNCHANGED <<failing, batched, flowMode, input, eof, payload, history>>

Looping == ~feof /\ (batched \/ flowMode)

RunReadsTask ==
  /\ pc = "read" /\ ~batched /\ Looping
  /\ TakeTask
  /\ pc' = "begin"
  /\ UNCHANGED <<failing, batched, flowMode, history>>

RunStops ==
  /\ pc = "read" /\ pc' = "done"
  /\ \/ ~Looping /\ UNCHANGED <<stdin, payload>>
     \/ ~batched /\ Looping /\ (TakeOp("CLOSE") \/ TakeOp("corrupted"))
  /\ UNCHANGED <<failing, batched, flowMode, history>>

RunReadsItem ==
  /\ pc = "read" /\ batched /\ Looping
  /\ IF HasItem THEN ReadPayload /\ pc' = "begin"
     ELSE /\ feof' = TRUE /\ input' = <<>>
          /\ UNCHANGED <<pc, eof, payload>>
  /\ UNCHANGED <<failing, batched, flowMode, history>>

-----------------------------------------------------------------------------
(* The observer.                                                            *)

ExecutionBegin ==
  /\ pc = "begin"
  /\ \/ TRUE \in PatchFound /\ pc' = "run" /\ UNCHANGED unpatched
     \/ /\ FALSE \in PatchFound /\ pc' = "read"
        /\ unpatched' = unpatched \cup contents
  /\ UNCHANGED <<failing, batched, flowMode, stdin, payload, executed>>

\* The traced program, from the entry point to its return or to a block that
\* cannot be translated.
Trace ==
  /\ pc = "run" /\ Len(executed) < MaxRuns
  /\ executed' = Append(executed, contents)
  /\ pc' = "end" /\ failing' \in {FALSE, MayFail}
  /\ UNCHANGED <<batched, flowMode, stdin, payload, unpatched>>

\* Mutant of Decided: the execution ends although a task was taken.
DecidedRead(then) == IF failing THEN "exited" ELSE "read"

\* TranslationError exits whatever ExecutionEnd, which it calls, decides.
Decided(then) == IF failing THEN "exited" ELSE then

EndReadsTask ==
  /\ pc = "end" /\ ~batched
  /\ TakeTask
  /\ pc' = Decided("run")
  /\ UNCHANGED <<failing, batched, flowMode, history>>

\* A corrupted opcode ends the execution, not the session: Run reads on.
EndStops ==
  /\ pc = "end" /\ ~batched
  /\ \/ TakeOp("CLOSE") /\ flowMode' = FALSE /\ pc' = Decided("read")
     \/ TakeOp("corrupted") /\ pc' = Decided("read") /\ UNCHANGED flowMode
  /\ UNCHANGED <<failing, batched, history>>

\* Mutant of EndReadsItem: the last item is run again.
EndReadsItemAgain ==
  /\ pc = "end" /\ batched
  /\ pc' = Decided("run")
  /\ IF HasItem THEN ReadPayload
     ELSE feof' = TRUE /\ input' = <<>> /\ UNCHANGED <<eof, payload>>
  /\ UNCHANGED <<failing, batched, flowMode, history>>

EndReadsItem ==
  /\ pc = "end" /\ batched
  /\ IF HasItem THEN ReadPayload /\ pc' = Decided("run")
     ELSE /\ feof' = TRUE /\ input' = <<>> /\ pc' = Decided("read")
          /\ UNCHANGED <<eof, payload>>
  /\ UNCHANGED <<failing, batched, flowMode, history>>

-----------------------------------------------------------------------------

\* In batch mode all of stdin is there; its last item may be cut short.
Corpus ==
  {s \in UNION {[1 .. n -> [op : {"TASK"}, whole : BOOLEAN]] : n \in 0 .. MaxTokens} :
     \A k \in 1 .. Len(s) - 1 : s[k].whole}

Init ==
  /\ pc = "size" /\ failing = FALSE /\ batched \in Modes /\ flowMode = ~batched
  /\ input \in IF batched THEN Corpus ELSE {<<>>}
  /\ eof = batched /\ feof = FALSE
  /\ received = 0 /\ contents = {}
  /\ executed = <<>> /\ unpatched = {}

TracerStep ==
  \/ ReadSize
  \/ RunReadsTask \/ RunReadsItem \/ RunStops
  \/ ExecutionBegin \/ Trace
  \/ EndReadsTask \/ EndStops \/ EndReadsItem

Next == TracerStep \/ WriterStep

Spec == Init /\ [][Next]_state

\* The tracer's only thread is scheduled, and the traced program terminates.
FairSpec == Spec /\ WF_state(TracerStep)

-----------------------------------------------------------------------------
(* Properties.                                                              *)

\* Every variable has its type.
TypeOK ==
  /\ pc \in {"size", "read", "begin", "run", "end", "done", "exited"}
  /\ {failing, batched, flowMode, eof, feof} \subseteq BOOLEAN
  /\ input \in Seq(Token)
  /\ received \in Nat /\ contents \subseteq 1 .. received
  /\ executed \in Seq(SUBSET (1 .. received)) /\ unpatched \subseteq 1 .. received

\* Unless a flow's stream is cut, each execution runs on one task's whole payload,
\* and no task is executed twice, whether Run or ExecutionEnd took it and however
\* corrupted opcodes have ended executions in between.
ExecutesEachOnce ==
  batched \/ ~eof => \A k \in 1 .. Len(executed) :
    /\ \E t \in 1 .. received : executed[k] = {t}
    /\ \A j \in 1 .. k - 1 : executed[j] # executed[k]

\* No task is passed over, however the stream is cut: each one read is executed
\* before the next is read, unless its patch file was not found.
NoTaskSkipped ==
  \A t \in 1 .. received - 1 :
    t \in unpatched \/ \E k \in 1 .. Len(executed) : t \in executed[k]

\* There are never more executions than tasks in the stream.
ExecutesReceived == Len(executed) <= received

\* Once the writer has closed the session, or when there is only a corpus to run,
\* the tracer stops.
Stops == (batched \/ Sent("CLOSE")) ~> pc \in {"done", "exited"}
=============================================================================
