------------------------- MODULE SimpleTracerProofs -------------------------
(***************************************************************************)
(* A session of the simple tracer of any length: the executions are one    *)
(* for each task in its order, and none is lost on the way from Run's reads *)
(* to ExecutionEnd's.                                                      *)
(***************************************************************************)
EXTENDS SimpleTracer, TLAPS

\* A task read by Run or by ExecutionEnd is waiting to be executed.
Pending == pc \in {"begin", "run"}

Whole == batched \/ ~eof

\* Until it is closed nothing that was sent over a flow is cut.
SentWhole == ~batched /\ ~eof => \A k \in 1 .. Len(input) : input[k].whole

SingleTasks ==
  \A k \in 1 .. Len(executed) : \E t \in 1 .. received : executed[k] = {t}

NoneTwice ==
  \A k \in 1 .. Len(executed) : \A j \in 1 .. k - 1 : executed[j] # executed[k]

\* The pending task is the last one that was read, alone in the buffer, and it
\* was not executed before.
PendingIsFresh ==
  Pending => /\ received \in Nat \ {0} /\ contents = {received}
             /\ \A k \in 1 .. Len(executed) : received \notin executed[k]

EachOnce == Whole => SingleTasks /\ NoneTwice /\ PendingIsFresh

\* A task was executed or dropped for want of the patch file.
Handled(t) == t \in unpatched \/ \E k \in 1 .. Len(executed) : t \in executed[k]

\* Every task read is handled but the last one, whose bytes are in the buffer
\* until it is executed, or which the exit of a failed execution overtakes.
HandledOrPending ==
  \A t \in 1 .. received :
    \/ Handled(t)
    \/ t = received /\ (pc = "exited" \/ (Pending /\ t \in contents))

IInv == TypeOK /\ SentWhole /\ EachOnce /\ HandledOrPending

-----------------------------------------------------------------------------
(* Reading stdin.                                                           *)

\* A sequence of sets of the tasks read so far is one of the tasks read later.
LEMMA HistoryGrows ==
  ASSUME NEW n \in Nat, NEW s \in Seq(SUBSET (1 .. n))
  PROVE  s \in Seq(SUBSET (1 .. n + 1))
<1>1. /\ Len(s) \in Nat /\ DOMAIN s = 1 .. Len(s)
      /\ \A k \in 1 .. Len(s) : s[k] \in SUBSET (1 .. n)
  OBVIOUS
<1>2. SUBSET (1 .. n) \subseteq SUBSET (1 .. n + 1)
  OBVIOUS
<1>3. \A k \in 1 .. Len(s) : s[k] \in SUBSET (1 .. n + 1)
  BY <1>1, <1>2
<1>4. s = [k \in 1 .. Len(s) |-> s[k]]
  OBVIOUS
<1>5. [k \in 1 .. Len(s) |-> s[k]] \in Seq(SUBSET (1 .. n + 1))
  BY <1>1, <1>3
<1>6. QED BY <1>4, <1>5

\* What reading a payload establishes, whoever reads it: Run for its first
\* execution or ExecutionEnd for the next one.
LEMMA PayloadRead ==
  ASSUME IInv, pc \in {"read", "end"}, pc' \in {"begin", "run", "exited"},
         input # <<>>, batched => Head(input).whole,
         ReadPayload, UNCHANGED <<failing, batched, flowMode, history>>
  PROVE  IInv'
<1> USE DEF IInv, ReadPayload, history
<1>1. /\ received' = received + 1 /\ received \in Nat
      /\ executed' = executed /\ unpatched' = unpatched
      /\ eof' = eof /\ batched' = batched /\ input' = Tail(input)
  BY DEF TypeOK
<1>2. input \in Seq(Token) /\ Len(input) > 0 /\ Head(input) \in Token
      /\ Head(input) = input[1]
  BY DEF TypeOK
<1>3. TypeOK'
  <2>1. feof' \in BOOLEAN
    BY <1>2 DEF TypeOK, Token
  <2>2. input' \in Seq(Token)
    BY <1>2
  <2>3. contents' \subseteq 1 .. received'
    BY <1>1 DEF TypeOK
  <2>4. executed' \in Seq(SUBSET (1 .. received')) /\ unpatched' \subseteq 1 .. received'
    BY <1>1, HistoryGrows DEF TypeOK
  <2>5. QED BY <1>1, <2>1, <2>2, <2>3, <2>4 DEF TypeOK
<1>4. SentWhole'
  BY <1>1, <1>2 DEF SentWhole
<1>5. EachOnce'
  <2> SUFFICES ASSUME Whole PROVE SingleTasks' /\ NoneTwice' /\ PendingIsFresh'
    BY <1>1 DEF EachOnce, Whole
  <2>1. Head(input).whole
    BY <1>2 DEF SentWhole, Whole
  <2>2. SingleTasks /\ NoneTwice
    BY DEF EachOnce
  <2>3. SingleTasks'
    BY <1>1, <2>2 DEF SingleTasks
  <2>4. NoneTwice'
    BY <1>1, <2>2 DEF NoneTwice
  <2>5. contents' = {received'} /\ received' \in Nat \ {0}
    BY <1>1, <2>1
  <2>6. \A k \in 1 .. Len(executed) : received' \notin executed[k]
    BY <1>1, <2>2 DEF SingleTasks
  <2>7. QED BY <1>1, <2>3, <2>4, <2>5, <2>6 DEF PendingIsFresh
<1>6. HandledOrPending'
  <2>1. \A t \in 1 .. received : Handled(t)
    BY DEF HandledOrPending, Pending
  <2>2. \A t : Handled(t) => Handled(t)'
    BY <1>1 DEF Handled
  <2>3. received' \in contents'
    OBVIOUS
  <2>4. QED BY <1>1, <2>1, <2>2, <2>3 DEF HandledOrPending, Pending
<1>7. QED BY <1>3, <1>4, <1>5, <1>6

\* Reading anything else leaves what was received and executed alone.
LEMMA NothingRead ==
  ASSUME IInv, UNCHANGED <<batched, payload, history>>,
         TypeOK', SentWhole', Whole' => Whole,
         Pending' => Pending \/ ~Whole',
         pc = "exited" => pc' = "exited",
         Pending => Pending' \/ pc' = "exited"
  PROVE  IInv'
<1> USE DEF IInv, payload, history
<1>1. EachOnce'
  BY DEF EachOnce, SingleTasks, NoneTwice, PendingIsFresh
<1>2. HandledOrPending'
  BY DEF HandledOrPending, Handled, Pending
<1>3. QED BY <1>1, <1>2

-----------------------------------------------------------------------------
(* The steps.                                                               *)

LEMMA InitIInv == Init => IInv
<1> SUFFICES ASSUME Init PROVE IInv
  OBVIOUS
<1> USE SimpleAssumption DEF Init
<1>1. input \in Seq(Token)
  <2>1. CASE batched
    <3>1. PICK n \in 0 .. MaxTokens :
             input \in [1 .. n -> [op : {"TASK"}, whole : BOOLEAN]]
      BY <2>1 DEF Corpus
    <3>2. [op : {"TASK"}, whole : BOOLEAN] \subseteq Token
      BY DEF Token, FlowOpCode
    <3>3. n \in Nat
      OBVIOUS
    <3>4. QED BY <3>1, <3>2, <3>3
  <2>2. CASE ~batched
    BY <2>2
  <2>3. QED BY <2>1, <2>2
<1>2. TypeOK
  <2>1. /\ batched \in BOOLEAN /\ flowMode \in BOOLEAN /\ eof \in BOOLEAN
        /\ failing \in BOOLEAN /\ feof \in BOOLEAN
    BY Zenon
  <2>2. executed \in Seq(SUBSET (1 .. received))
    OBVIOUS
  <2>3. QED BY <1>1, <2>1, <2>2 DEF TypeOK
<1>3. SentWhole /\ EachOnce /\ HandledOrPending
  BY DEF SentWhole, EachOnce, SingleTasks, NoneTwice, PendingIsFresh,
         HandledOrPending, Pending
<1>4. QED BY <1>2, <1>3 DEF IInv

LEMMA WriteStep == ASSUME NEW token \in Token PROVE IInv /\ Write(token) => IInv'
<1> SUFFICES ASSUME IInv, Write(token) PROVE IInv'
  OBVIOUS
<1> USE DEF IInv, Write, control, payload, history
<1>1. token.whole \in BOOLEAN /\ input \in Seq(Token)
  BY DEF Token, TypeOK
<1>2. TypeOK'
  BY <1>1 DEF TypeOK
<1>3. SentWhole'
  <2>1. /\ \A k \in 1 .. Len(input) : input'[k] = input[k]
        /\ input'[Len(input) + 1] = token /\ Len(input') = Len(input) + 1
        /\ Len(input) \in Nat
    BY <1>1
  <2>2. ~eof' => token.whole
    BY <1>1, Zenon
  <2>3. \A k \in 1 .. Len(input) : input[k].whole
    BY DEF SentWhole
  <2>4. \A k \in 1 .. Len(input') : k \in 1 .. Len(input) \/ k = Len(input) + 1
    BY <2>1
  <2>5. QED BY <2>1, <2>2, <2>3, <2>4, Zenon DEF SentWhole
<1>4. QED
  BY <1>2, <1>3, NothingRead DEF Whole, Pending

LEMMA HangupStep == IInv /\ Hangup => IInv'
<1> SUFFICES ASSUME IInv, Hangup PROVE IInv'
  OBVIOUS
<1> USE DEF IInv, Hangup, control, payload, history
<1>1. TypeOK' /\ SentWhole'
  BY DEF TypeOK, SentWhole
<1>2. QED
  BY <1>1, NothingRead DEF Whole, Pending, TypeOK

LEMMA ReadSizeStep == IInv /\ ReadSize => IInv'
<1> SUFFICES ASSUME IInv, ReadSize PROVE IInv'
  OBVIOUS
<1> USE DEF IInv, ReadSize
<1>1. TypeOK' /\ SentWhole'
  BY DEF TypeOK, SentWhole, payload, history
<1>2. QED
  BY <1>1, NothingRead DEF Whole, Pending

\* At the end of a flow there is always one more task, the one in the buffer.
LEMMA MissingTaskStep ==
  ASSUME IInv, pc \in {"read", "end"}, ~batched, pc' \in {"begin", "run", "exited"},
         MissingTask, UNCHANGED <<failing, batched, flowMode, history>>
  PROVE  IInv'
<1> USE DEF IInv, MissingTask, AtEnd
<1>1. TypeOK' /\ SentWhole'
  BY DEF TypeOK, SentWhole, payload, history
<1>2. QED
  BY <1>1, NothingRead DEF Whole, Pending

LEMMA RunReadsTaskStep == IInv /\ RunReadsTask => IInv'
<1> SUFFICES ASSUME IInv, RunReadsTask PROVE IInv'
  OBVIOUS
<1> USE DEF RunReadsTask
<1>1. CASE NextIs("TASK") /\ ReadPayload
  BY <1>1, PayloadRead DEF NextIs
<1>2. CASE MissingTask
  BY <1>2, MissingTaskStep
<1>3. QED BY <1>1, <1>2 DEF TakeTask

LEMMA EndReadsTaskStep == IInv /\ EndReadsTask => IInv'
<1> SUFFICES ASSUME IInv, EndReadsTask PROVE IInv'
  OBVIOUS
<1> USE DEF EndReadsTask, Decided
<1>1. CASE NextIs("TASK") /\ ReadPayload
  BY <1>1, PayloadRead DEF NextIs
<1>2. CASE MissingTask
  BY <1>2, MissingTaskStep
<1>3. QED BY <1>1, <1>2 DEF TakeTask

\* Taking an opcode other than a task's shortens the input and no more.
LEMMA OpTaken ==
  ASSUME IInv, NEW op, TakeOp(op), pc \in {"read", "end"},
         pc' \in {"read", "done", "exited"}, flowMode' \in BOOLEAN,
         UNCHANGED <<failing, batched, history>>
  PROVE  IInv'
<1> USE DEF IInv, TakeOp, NextIs
<1>1. input \in Seq(Token) /\ Len(input) > 0 /\ input' = Tail(input)
  BY DEF TypeOK
<1>2. TypeOK'
  BY <1>1 DEF TypeOK, payload, history
<1>3. SentWhole'
  BY <1>1 DEF SentWhole
<1>4. QED
  BY <1>2, <1>3, NothingRead DEF Whole, Pending

LEMMA RunStopsStep == IInv /\ RunStops => IInv'
<1> SUFFICES ASSUME IInv, RunStops PROVE IInv'
  OBVIOUS
<1> USE DEF RunStops
<1>1. CASE UNCHANGED <<stdin, payload>>
  <2>1. TypeOK' /\ SentWhole'
    BY <1>1 DEF IInv, TypeOK, SentWhole, stdin, payload, history
  <2>2. QED
    BY <1>1, <2>1, NothingRead DEF Whole, Pending, stdin
<1>2. CASE TakeOp("CLOSE") \/ TakeOp("corrupted")
  BY <1>2, OpTaken DEF IInv, TypeOK
<1>3. QED BY <1>1, <1>2

LEMMA EndStopsStep == IInv /\ EndStops => IInv'
<1> SUFFICES ASSUME IInv, EndStops PROVE IInv'
  OBVIOUS
<1>1. QED BY OpTaken DEF EndStops, Decided, IInv, TypeOK

\* The end of a corpus.
LEMMA NoItem ==
  ASSUME IInv, pc \in {"read", "end"}, pc' \in {"read", "exited"}, batched,
         feof' = TRUE, input' = <<>>,
         UNCHANGED <<eof, payload, failing, batched, flowMode, history>>
  PROVE  IInv'
<1>1. TypeOK' /\ SentWhole'
  BY DEF IInv, TypeOK, SentWhole, payload, history
<1>2. QED
  BY <1>1, NothingRead DEF Whole, Pending

LEMMA RunReadsItemStep == IInv /\ RunReadsItem => IInv'
<1> SUFFICES ASSUME IInv, RunReadsItem PROVE IInv'
  OBVIOUS
<1> USE DEF RunReadsItem
<1>1. CASE HasItem
  BY <1>1, PayloadRead DEF HasItem
<1>2. CASE ~HasItem
  BY <1>2, NoItem
<1>3. QED BY <1>1, <1>2

LEMMA EndReadsItemStep == IInv /\ EndReadsItem => IInv'
<1> SUFFICES ASSUME IInv, EndReadsItem PROVE IInv'
  OBVIOUS
<1> USE DEF EndReadsItem, Decided
<1>1. CASE HasItem
  BY <1>1, PayloadRead DEF HasItem
<1>2. CASE ~HasItem
  BY <1>2, NoItem
<1>3. QED BY <1>1, <1>2

LEMMA ExecutionBeginStep == IInv /\ ExecutionBegin => IInv'
<1> SUFFICES ASSUME IInv, ExecutionBegin PROVE IInv'
  OBVIOUS
<1> USE DEF IInv, ExecutionBegin, stdin, payload
<1>1. TypeOK'
  BY DEF TypeOK
<1>2. SentWhole'
  BY DEF SentWhole
<1>3. EachOnce'
  BY DEF EachOnce, Whole, SingleTasks, NoneTwice, PendingIsFresh, Pending
<1>4. HandledOrPending'
  BY DEF HandledOrPending, Handled, Pending
<1>5. QED BY <1>1, <1>2, <1>3, <1>4

LEMMA TraceStep == IInv /\ Trace => IInv'
<1> SUFFICES ASSUME IInv, Trace PROVE IInv'
  OBVIOUS
<1> USE DEF IInv, Trace, stdin, payload
<1>1. /\ executed \in Seq(SUBSET (1 .. received))
      /\ contents \in SUBSET (1 .. received) /\ received \in Nat
      /\ executed' = Append(executed, contents)
  BY DEF TypeOK
<1>2. /\ Len(executed') = Len(executed) + 1 /\ Len(executed) \in Nat
      /\ \A k \in 1 .. Len(executed) : executed'[k] = executed[k]
      /\ executed'[Len(executed) + 1] = contents
  BY <1>1
<1>3. TypeOK'
  <2>1. failing' \in BOOLEAN
    BY SimpleAssumption, Zenon
  <2>2. executed' \in Seq(SUBSET (1 .. received'))
    BY <1>1
  <2>3. QED BY <2>1, <2>2 DEF TypeOK
<1>4. SentWhole'
  BY DEF SentWhole
<1>5. EachOnce'
  <2> SUFFICES ASSUME Whole PROVE SingleTasks' /\ NoneTwice' /\ PendingIsFresh'
    BY DEF EachOnce, Whole
  <2>1. /\ SingleTasks /\ NoneTwice /\ contents = {received} /\ received # 0
        /\ \A k \in 1 .. Len(executed) : received \notin executed[k]
    BY DEF EachOnce, PendingIsFresh, Pending
  <2>2. SingleTasks'
    BY <1>1, <1>2, <2>1 DEF SingleTasks
  <2>3. NoneTwice'
    <3> SUFFICES ASSUME NEW k \in 1 .. Len(executed'), NEW j \in 1 .. k - 1
                 PROVE  executed'[j] # executed'[k]
      BY DEF NoneTwice
    <3>1. j \in 1 .. Len(executed) /\ executed'[j] = executed[j]
      BY <1>2
    <3>2. CASE k \in 1 .. Len(executed)
      BY <1>2, <2>1, <3>1, <3>2 DEF NoneTwice
    <3>3. CASE k = Len(executed) + 1
      BY <1>2, <2>1, <3>1, <3>3
    <3>4. QED BY <1>2, <3>2, <3>3
  <2>4. PendingIsFresh'
    BY DEF PendingIsFresh, Pending
  <2>5. QED BY <2>2, <2>3, <2>4
<1>6. HandledOrPending'
  <2>1. \A t : Handled(t) \/ t \in contents => Handled(t)'
    BY <1>2 DEF Handled
  <2>2. QED BY <2>1 DEF HandledOrPending, Pending
<1>7. QED BY <1>3, <1>4, <1>5, <1>6

LEMMA NextIInv == IInv /\ [Next]_state => IInv'
<1> SUFFICES ASSUME IInv, [Next]_state PROVE IInv'
  OBVIOUS
<1>1. CASE ReadSize         BY <1>1, ReadSizeStep
<1>2. CASE RunReadsTask     BY <1>2, RunReadsTaskStep
<1>3. CASE RunReadsItem     BY <1>3, RunReadsItemStep
<1>4. CASE RunStops         BY <1>4, RunStopsStep
<1>5. CASE ExecutionBegin   BY <1>5, ExecutionBeginStep
<1>6. CASE Trace            BY <1>6, TraceStep
<1>7. CASE EndReadsTask     BY <1>7, EndReadsTaskStep
<1>8. CASE EndStops         BY <1>8, EndStopsStep
<1>9. CASE EndReadsItem     BY <1>9, EndReadsItemStep
<1>10. CASE WriterStep
  BY <1>10, HangupStep, WriteStep DEF WriterStep
<1>11. CASE UNCHANGED state
  <2> USE <1>11 DEF state, control, stdin, payload, history
  <2>1. TypeOK' /\ SentWhole'
    BY DEF IInv, TypeOK, SentWhole
  <2>2. QED BY <2>1, NothingRead DEF Whole, Pending
<1>12. QED
  BY <1>1, <1>2, <1>3, <1>4, <1>5, <1>6, <1>7, <1>8, <1>9, <1>10, <1>11
     DEF Next, TracerStep

\* IInv is an inductive invariant of the session.
LEMMA SessionInvariance == Spec => []IInv
<1>1. QED BY InitIInv, NextIInv, PTL DEF Spec

-----------------------------------------------------------------------------
(* The theorems.                                                            *)

\* Type correctness.
THEOREM SessionTyped == Spec => []TypeOK
<1>1. IInv => TypeOK BY DEF IInv
<1>2. QED BY <1>1, SessionInvariance, PTL

\* However many tasks are sent, and whichever of Run and ExecutionEnd reads them,
\* each execution runs on one whole task, another one each time.
THEOREM OneTaskEach == Spec => []ExecutesEachOnce
<1>1. IInv => ExecutesEachOnce
  BY DEF IInv, ExecutesEachOnce, EachOnce, Whole, SingleTasks, NoneTwice
<1>2. QED BY <1>1, SessionInvariance, PTL

\* A task is executed or dropped for want of its patch file before the next one is
\* read, however the stream is cut.
THEOREM NoneSkipped == Spec => []NoTaskSkipped
<1>1. IInv => NoTaskSkipped
  BY DEF IInv, TypeOK, NoTaskSkipped, HandledOrPending, Handled
<1>2. QED BY <1>1, SessionInvariance, PTL
=============================================================================
