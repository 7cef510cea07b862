----------------------- MODULE AnnotatedTracerProofs -----------------------
(***************************************************************************)
(* Sessions of the annotated tracer, for every traced program, every       *)
(* number of tasks and every way they arrive: what the answers hold, in    *)
(* which order they come, and that a flow session keeps its promise to the *)
(* server.  Each property has an inductive invariant of its own on top of  *)
(* type correctness, for each needs another of the modes.                  *)
(***************************************************************************)
EXTENDS AnnotatedTracer, FiniteSetTheorems, TLAPS

Run == [task : Nat, size : Nat, jumps : Seq(TestEntry)]

-----------------------------------------------------------------------------
(* Selecting the entries of a kind from a log that grows at its end.        *)

Places(kind, log) == {n \in 1 .. Len(log) : log[n].kind = kind}

\* Where a log that is one entry longer has its entries of a kind.
LEMMA PlacesOfAppend ==
  ASSUME NEW S, NEW log \in Seq(S), NEW e, NEW kind
  PROVE  /\ Places(kind, log) \in SUBSET (1 .. Len(log))
         /\ IsFiniteSet(Places(kind, log))
         /\ Places(kind, Append(log, e))
              = IF e.kind = kind THEN Places(kind, log) \cup {Len(log) + 1}
                ELSE Places(kind, log)
<1> DEFINE longer == Append(log, e)
<1>1. /\ Len(log) \in Nat /\ Len(longer) = Len(log) + 1
      /\ \A n \in 1 .. Len(log) : longer[n] = log[n]
      /\ longer[Len(log) + 1] = e
  OBVIOUS
<1> HIDE DEF longer
<1>2. Places(kind, longer)
        = IF e.kind = kind THEN Places(kind, log) \cup {Len(log) + 1}
          ELSE Places(kind, log)
  BY <1>1 DEF Places
<1>3. IsFiniteSet(1 .. Len(log))
  BY <1>1, FS_Interval
<1>4. Places(kind, log) \in SUBSET (1 .. Len(log))
  BY DEF Places
<1>5. IsFiniteSet(Places(kind, log))
  BY <1>3, <1>4, FS_Subset
<1>6. QED BY <1>2, <1>4, <1>5 DEF longer

\* An entry of another kind does not change what is selected.
LEMMA SelectsOther ==
  ASSUME NEW S, NEW log \in Seq(S), NEW e, NEW kind, NEW part,
         e.kind # kind, Selects(part, kind, log)
  PROVE  Selects(part, kind, Append(log, e))
<1> DEFINE ns == Places(kind, log)
<1>1. Places(kind, Append(log, e)) = ns /\ ns \in SUBSET (1 .. Len(log))
  BY PlacesOfAppend
<1>2. \A n \in ns : Append(log, e)[n] = log[n]
  BY <1>1
<1>3. QED BY <1>1, <1>2 DEF Selects, Places

\* An entry of the kind is the next one that is selected.
LEMMA SelectsSame ==
  ASSUME NEW S, NEW log \in Seq(S), NEW e, NEW T, NEW part \in Seq(T),
         Selects(part, e.kind, log)
  PROVE  Selects(Append(part, e), e.kind, Append(log, e))
<1> DEFINE ns == Places(e.kind, log)
           next == Len(log) + 1
           more == Places(e.kind, Append(log, e))
           longer == Append(part, e)
<1>1. /\ ns \in SUBSET (1 .. Len(log)) /\ IsFiniteSet(ns)
      /\ more = ns \cup {next}
  BY PlacesOfAppend
<1>2. /\ Len(part) = Cardinality(ns)
      /\ \A n \in ns : part[Cardinality({m \in ns : m <= n})] = log[n]
  BY DEF Selects, Places
<1>3. Len(log) \in Nat /\ next \notin ns
  BY <1>1
<1>4. Cardinality(more) = Cardinality(ns) + 1
  BY <1>1, <1>3, FS_AddElement
<1>5. /\ Len(longer) = Cardinality(more)
      /\ longer[Cardinality(more)] = e
      /\ \A k \in 1 .. Len(part) : longer[k] = part[k]
  BY <1>2, <1>4
<1>6. \A n \in ns : Append(log, e)[n] = log[n]
  BY <1>1
<1>7. Append(log, e)[next] = e
  BY <1>3
<1>8. \A n \in ns : Cardinality({m \in ns : m <= n}) \in 1 .. Len(part)
  <2> SUFFICES ASSUME NEW n \in ns
               PROVE  Cardinality({m \in ns : m <= n}) \in 1 .. Len(part)
    OBVIOUS
  <2> DEFINE upTo == {m \in ns : m <= n}
  <2>1. upTo \in SUBSET ns /\ n \in upTo
    BY <1>1
  <2>2. IsFiniteSet(upTo) /\ Cardinality(upTo) <= Cardinality(ns)
    BY <1>1, <2>1, FS_Subset
  <2>3. Cardinality(upTo) \in Nat /\ Cardinality(upTo) # 0
    BY <2>1, <2>2, FS_CardinalityType, FS_EmptySet
  <2>4. QED BY <1>2, <2>2, <2>3
<1>9. ASSUME NEW n \in more
      PROVE  longer[Cardinality({m \in more : m <= n})] = Append(log, e)[n]
  <2>1. CASE n = next
    <3>1. {m \in more : m <= n} = more
      BY <1>1, <1>3, <2>1
    <3>2. QED BY <1>5, <1>7, <2>1, <3>1
  <2>2. CASE n \in ns
    <3>1. {m \in more : m <= n} = {m \in ns : m <= n}
      BY <1>1, <1>3, <2>2
    <3>2. QED BY <1>2, <1>5, <1>6, <1>8, <2>2, <3>1
  <2>3. QED BY <1>1, <2>1, <2>2
<1>10. QED BY <1>5, <1>9 DEF Selects, Places

\* Nothing is selected from an empty log.
LEMMA SelectsNothing == ASSUME NEW kind PROVE Selects(<<>>, kind, <<>>)
<1>1. Places(kind, <<>>) = {}
  BY DEF Places
<1>2. QED BY <1>1, FS_EmptySet DEF Selects, Places

\* What the tracer writes in one step is at most two entries at a time.
LEMMA ShortConcat ==
  ASSUME NEW S, NEW log \in Seq(S), NEW a \in S, NEW b \in S
  PROVE  /\ log \o <<>> = log
         /\ log \o <<a>> = Append(log, a)
         /\ log \o <<a, b>> = Append(Append(log, a), b)
<1>1. log \o <<>> = log
  OBVIOUS
<1>2. log \o <<a>> = Append(log, a)
  OBVIOUS
<1>3. log \o <<a, b>> = Append(Append(log, a), b)
  OBVIOUS
<1>4. QED BY <1>1, <1>2, <1>3

-----------------------------------------------------------------------------
(* Type correctness.                                                        *)

\* The entries the tracer writes.
LEMMA EntriesTyped ==
  /\ Begin \in LogEntry /\ End \in LogEntry
  /\ \A t \in Nat : Name(t) \in LogEntry
  /\ \A b \in Block : \A taken \in BOOLEAN : Jump(b, taken) \in TestEntry
  /\ TestEntry \subseteq LogEntry
  /\ Logged \in Seq(LogEntry)
<1>1. /\ [kind |-> "registers"] \in LogEntry /\ [kind |-> "block"] \in LogEntry
      /\ Begin \in LogEntry /\ End \in LogEntry
  BY DEF LogEntry, Begin, End
<1>2. Logged \in Seq(LogEntry)
  BY <1>1 DEF Logged
<1>3. QED BY <1>1, <1>2 DEF LogEntry, TestEntry, Name, Jump

\* Where the program goes after a block.
LEMMA BranchTyped ==
  ASSUME NEW b \in Block
  PROVE  /\ \A i \in DOMAIN Branch[b] : Branch[b][i] \in Block
         /\ Tested[b] # {} => /\ DOMAIN Branch[b] = 1 .. 2
                              /\ Branch[b][1] \in Block /\ Branch[b][2] \in Block
                              /\ Branch[b][1] # Branch[b][2]
<1>1. Branch[b] \in {<<>>} \cup {<<c>> : c \in Block} \cup (Block \X Block)
  BY ProgramAssumption
<1>2. CASE Branch[b] = <<>>
  BY <1>2, ProgramAssumption
<1>3. CASE Branch[b] \in {<<c>> : c \in Block}
  BY <1>3, ProgramAssumption
<1>4. CASE Branch[b] \in Block \X Block
  BY <1>4, ProgramAssumption
<1>5. QED BY <1>1, <1>2, <1>3, <1>4

\* The program is somewhere while it runs.
Located == pc = "run" => target \in Block

Typed == TypeOK /\ Located

LEMMA InitTypeOK == Init => TypeOK
<1> SUFFICES ASSUME Init PROVE TypeOK
  OBVIOUS
<1> USE DEF Init
<1>1. /\ batched \in BOOLEAN /\ flowMode \in BOOLEAN /\ eof \in BOOLEAN
      /\ failing \in BOOLEAN /\ ctxInit \in BOOLEAN /\ logEsp \in BOOLEAN
  BY ModeAssumption, Zenon
<1>2. input \in Seq(Item)
  <2>1. CASE batched
    <3>1. PICK n \in 0 .. MaxTasks : input \in [1 .. n -> Task]
      BY <2>1 DEF Stdin
    <3>2. n \in Nat
      BY ModeAssumption
    <3>3. QED BY <3>1, <3>2 DEF Item
  <2>2. CASE ~batched
    BY <2>2
  <2>3. QED BY <2>1, <2>2
<1>3. /\ buffer \in Seq(LogEntry) /\ answers \in Seq(Seq(LogEntry))
      /\ jumps \in Seq(TestEntry) /\ runs \in Seq(Run)
  OBVIOUS
<1>4. QED BY <1>1, <1>2, <1>3 DEF TypeOK, Run

LEMMA TaskTyped ==
  ASSUME NEW t \in Task
  PROVE  /\ t.size \in Nat /\ t.arrived \in Nat /\ t.arrived <= t.size
         /\ t.size \in Size
<1>1. t \in [size : Size, arrived : 0 .. MaxSize] /\ t.arrived <= t.size
  BY DEF Task
<1>2. t.size \in Size /\ t.arrived \in 0 .. MaxSize
  BY <1>1
<1>3. Size \subseteq 0 .. MaxSize /\ MaxSize \in Nat
  BY ModeAssumption
<1>4. t.size \in 0 .. MaxSize
  BY <1>2, <1>3
<1>5. QED BY <1>1, <1>2, <1>3, <1>4

\* The task at the head of the input.
LEMMA HeadTyped ==
  ASSUME TypeOK, input # <<>>
  PROVE  /\ Len(input) \in Nat \ {0} /\ Head(input) = input[1]
         /\ Head(input) \in Item /\ Tail(input) \in Seq(Item)
         /\ Len(Tail(input)) = Len(input) - 1
         /\ \A k \in 1 .. Len(input) - 1 : Tail(input)[k] = input[k + 1]
         /\ Head(input) # Close =>
              /\ Head(input).size \in Nat /\ Head(input).arrived \in Nat
              /\ Head(input).arrived <= Head(input).size
              /\ Head(input).size \in Size
<1>1. /\ Len(input) \in Nat \ {0} /\ Head(input) = input[1]
      /\ Head(input) \in Item /\ Tail(input) \in Seq(Item)
      /\ Len(Tail(input)) = Len(input) - 1
      /\ \A k \in 1 .. Len(input) - 1 : Tail(input)[k] = input[k + 1]
  BY DEF TypeOK
<1>2. ASSUME Head(input) # Close
      PROVE  Head(input) \in Task
  BY <1>1, <1>2 DEF Item
<1>3. QED BY <1>1, <1>2, TaskTyped

LEMMA NextTypeOK == Typed /\ [Next]_state => TypeOK'
<1> SUFFICES ASSUME TypeOK, Located, [Next]_state PROVE TypeOK'
  BY DEF Typed
<1> USE DEF mode, task, context, output, history, tracer
<1>1. CASE \E item \in Item : Send(item)
  <2>1. PICK item \in Item : Send(item)
    BY <1>1
  <2>2. input' \in Seq(Item) /\ eof' \in BOOLEAN
    BY <2>1 DEF Send, TypeOK
  <2>3. UNCHANGED <<tracer, history>>
    BY <2>1 DEF Send
  <2>4. QED BY <2>2, <2>3 DEF TypeOK
<1>2. CASE Hangup
  BY <1>2 DEF Hangup, TypeOK
<1>3. CASE RunReadsTask
  <2>0. /\ Tail(input) \in Seq(Item) /\ Head(input).arrived \in Nat /\ loaded + 1 \in Nat
    BY <1>3, HeadTyped DEF RunReadsTask, TakeTask, TypeOK
  <2>1. /\ input' \in Seq(Item) /\ loaded' \in Nat /\ vars' \in Nat
        /\ pc' \in {"begin", "exited"}
    BY <1>3, <2>0 DEF RunReadsTask, TakeTask
  <2>2. QED BY <1>3, <2>1 DEF RunReadsTask, TypeOK
<1>4. CASE RunStops
  <2>1. input' \in Seq(Item) /\ pc' \in {"done", "exited"}
    BY <1>4, HeadTyped DEF RunStops, TakeClose, TypeOK
  <2>2. QED BY <1>4, <2>1 DEF RunStops, TypeOK
<1>5. CASE RunReadsItem
  <2>1. Head(input) # Close
    BY <1>5 DEF RunReadsItem, HasItem, Close, TERMINATION
  <2>2. QED BY <1>5, <2>1, HeadTyped DEF RunReadsItem, HasItem, TypeOK
<1>6. CASE RunFindsEnd
  <2>1. input' \in Seq(Item) /\ pc' = "done"
    BY <1>6 DEF RunFindsEnd
  <2>2. QED BY <1>6, <2>1 DEF RunFindsEnd, TypeOK
<1>7. CASE ExecutionBegin
  <2> USE DEF ExecutionBegin
  <2>1. CASE Patched
    <3>1. buffer' \in Seq(LogEntry)
      <4>1. <<Begin>> \in Seq(LogEntry) /\ <<Begin, Name(fileName)>> \in Seq(LogEntry)
        BY EntriesTyped DEF TypeOK
      <4>2. /\ Append(buffer, Begin) \in Seq(LogEntry)
            /\ buffer \o <<Begin, Name(fileName)>> \in Seq(LogEntry)
        BY <4>1, EntriesTyped DEF TypeOK
      <4>3. buffer' \in {Append(buffer, Begin), buffer \o <<Begin, Name(fileName)>>}
        BY <2>1 DEF Patched
      <4>4. QED BY <4>2, <4>3
    <3>2. /\ pc' = "run" /\ target' \in Block /\ ctxInit' \in BOOLEAN
          /\ registered' \in Nat /\ logEsp' \in BOOLEAN
      BY <2>1, ProgramAssumption DEF Patched, Registered, TypeOK
    <3>3. QED BY <1>7, <3>1, <3>2 DEF TypeOK
  <2>2. CASE NotPatched
    <3>1. buffer' \in Seq(LogEntry)
      BY <2>2, EntriesTyped DEF NotPatched, TypeOK
    <3>2. QED BY <1>7, <2>2, <3>1 DEF NotPatched, TypeOK
  <2>3. QED BY <1>7, <2>1, <2>2
<1>8. CASE RunBlock
  <2> USE DEF RunBlock
  <2>1. target \in Block
    BY <1>8 DEF Located
  <2>2. Flushed(target) \in Seq(LogEntry)
    <3>1. ASSUME Pending
          PROVE  Jump(test.block, target = test.blockOptionTaken) \in LogEntry
      <4>1. test.block \in Block
        BY <3>1 DEF Pending, TypeOK
      <4>2. (target = test.blockOptionTaken) \in BOOLEAN
        OBVIOUS
      <4>3. QED BY <4>1, <4>2, EntriesTyped
    <3>2. QED BY <3>1 DEF Flushed
  <2>3. buffer' \in Seq(LogEntry)
    BY <1>8, <2>2, EntriesTyped DEF TypeOK
  <2>4. test' \in {NoTest} \cup [block : Block, blockOptionTaken : Block]
    BY <1>8, <2>1, BranchTyped DEF NewTest
  <2>5. CASE Branch[target] = <<>>
    BY <1>8, <2>3, <2>4, <2>5 DEF Return, TypeOK
  <2>6. CASE Branch[target] # <<>>
    <3>1. PICK i \in DOMAIN Branch[target] :
            /\ pc' = "run" /\ target' = Branch[target][i]
            /\ jumps' = IF Followed(target)
                          THEN Append(jumps, Jump(target, i = 1)) ELSE jumps
      BY <1>8, <2>6
    <3>2. Jump(target, i = 1) \in TestEntry
      BY <2>1, EntriesTyped
    <3>3. jumps' \in Seq(TestEntry)
      BY <3>1, <3>2 DEF TypeOK
    <3>4. target' \in Block
      BY <2>1, <3>1, BranchTyped
    <3>5. QED BY <1>8, <2>3, <2>4, <3>1, <3>3, <3>4 DEF TypeOK
  <2>7. QED BY <2>5, <2>6
<1>9. CASE TranslationError
  BY <1>9 DEF TranslationError, TypeOK
<1>10. ASSUME RunOver
       PROVE  jumps' \in Seq(TestEntry) /\ runs' \in Seq(Run)
  BY <1>10 DEF RunOver, TypeOK, Run
<1>11. CASE SendAnswer
  <2>1. buffer' \in Seq(LogEntry) /\ answers' \in Seq(Seq(LogEntry))
    BY <1>11, EntriesTyped DEF SendAnswer, TypeOK
  <2>2. QED BY <1>10, <1>11, <2>1 DEF SendAnswer, TypeOK, Run
<1>12. CASE EndReadsTask
  <2>1. buffer' \in Seq(LogEntry)
    BY <1>12, EntriesTyped DEF EndReadsTask, TypeOK
  <2>2. input' \in Seq(Item) /\ loaded' \in Nat /\ vars' \in Nat
    BY <1>12, HeadTyped DEF EndReadsTask, TakeTask, TypeOK
  <2>3. pc' \in {"run", "exited"}
    BY <1>12 DEF EndReadsTask, TakeTask, Decided
  <2>4. QED
    BY <1>12, <2>1, <2>2, <2>3, ProgramAssumption DEF EndReadsTask, TypeOK
<1>13. CASE EndStops
  <2>1. /\ input' \in Seq(Item) /\ flowMode' \in BOOLEAN
        /\ pc' \in {"read", "exited"}
    BY <1>13, HeadTyped DEF EndStops, TakeClose, Decided, TypeOK
  <2>2. QED BY <1>13, <2>1 DEF EndStops, TypeOK
<1>14. CASE EndReadsItem
  <2>1. buffer' \in Seq(LogEntry)
    BY <1>14, EntriesTyped DEF EndReadsItem, NextName, TypeOK
  <2>2. input' \in Seq(Item) /\ loaded' \in Nat /\ pc' \in {"run", "exited"}
    BY <1>14, HeadTyped DEF EndReadsItem, HasItem, Decided, TypeOK
  <2>3. QED
    BY <1>10, <1>14, <2>1, <2>2, ProgramAssumption DEF EndReadsItem, TypeOK, Run
<1>15. CASE EndFindsEnd
  <2>1. input' \in Seq(Item) /\ pc' \in {"read", "exited"}
    BY <1>15 DEF EndFindsEnd, Decided
  <2>2. QED BY <1>10, <1>15, <2>1 DEF EndFindsEnd, TypeOK, Run
<1>16. CASE UNCHANGED state
  BY <1>16 DEF state, TypeOK
<1>17. QED
  BY <1>1, <1>2, <1>3, <1>4, <1>5, <1>6, <1>7, <1>8, <1>9, <1>11, <1>12, <1>13,
     <1>14, <1>15, <1>16 DEF Next, TracerStep, ServerStep

LEMMA NextLocated == Typed /\ [Next]_state => Located'
<1> SUFFICES ASSUME TypeOK, Located, [Next]_state PROVE Located'
  BY DEF Typed
<1> USE ProgramAssumption DEF Located, mode, task, context, output, history, tracer
<1>1. CASE RunBlock
  <2>1. target \in Block
    BY <1>1 DEF RunBlock
  <2>2. CASE Branch[target] = <<>>
    BY <1>1, <2>2 DEF RunBlock, Return
  <2>3. CASE Branch[target] # <<>>
    BY <1>1, <2>1, <2>3, BranchTyped DEF RunBlock
  <2>4. QED BY <2>2, <2>3
<1>2. CASE ExecutionBegin
  BY <1>2 DEF ExecutionBegin, Patched, NotPatched
<1>3. CASE RunReadsTask \/ RunStops \/ RunReadsItem \/ RunFindsEnd
  BY <1>3 DEF RunReadsTask, TakeTask, RunStops, RunReadsItem, RunFindsEnd
<1>4. CASE TranslationError \/ SendAnswer \/ EndReadsTask \/ EndStops
  BY <1>4 DEF TranslationError, SendAnswer, EndReadsTask, TakeTask, EndStops, Decided
<1>5. CASE EndReadsItem \/ EndFindsEnd
  BY <1>5 DEF EndReadsItem, EndFindsEnd, Decided
<1>6. CASE ServerStep
  BY <1>6 DEF ServerStep, Send, Hangup
<1>7. CASE UNCHANGED state
  BY <1>7 DEF state
<1>8. QED
  BY <1>1, <1>2, <1>3, <1>4, <1>5, <1>6, <1>7 DEF Next, TracerStep

LEMMA TypedInvariance == Spec => []Typed
<1>1. Init => Typed
  BY InitTypeOK DEF Init, Typed, Located
<1>2. Typed /\ [Next]_state => Typed'
  BY NextTypeOK, NextLocated DEF Typed
<1>3. QED BY <1>1, <1>2, PTL DEF Spec

\* Type correctness of the sessions.
THEOREM TracerTyped == Spec => []TypeOK
<1>1. Typed => TypeOK
  BY DEF Typed
<1>2. QED BY <1>1, TypedInvariance, PTL

-----------------------------------------------------------------------------
(* The order of the answers, and the promise to the server.                 *)

\* What a step may do to the count of the tasks and to the finished runs.
Loads(next) ==
  /\ loaded' = loaded + 1 /\ runs' = runs
  /\ pc' \in {next, "exited"}
Finishes(next) ==
  /\ pc = "end" /\ pc' \in next
  /\ runs' = Append(runs, [task |-> loaded, size |-> vars, jumps |-> jumps])
Moves(from, to) ==
  pc \in from /\ pc' \in to /\ loaded' = loaded /\ runs' = runs

LEMMA Steps ==
  ASSUME [Next]_state
  PROVE  /\ batched' = batched
         /\ \/ pc = "read" /\ Loads("begin")
            \/ pc = "next" /\ Loads("run")
            \/ ~batched /\ Finishes({"next"}) /\ loaded' = loaded
            \/ batched /\ Finishes({"run", "exited"}) /\ loaded' = loaded + 1
            \/ batched /\ Finishes({"read", "exited"}) /\ loaded' = loaded
            \/ Moves({"begin"}, {"run"})
            \/ FALSE \in PatchFound /\ Moves({"begin"}, {"read"})
            \/ Moves({"run"}, {"run", "end"})
            \/ Moves({"read", "next"}, {"done", "exited"})
            \/ Moves({"next"}, {"read"})
            \/ Moves({pc}, {pc})
<1> USE DEF mode, task, context, output, history, tracer, Loads, Finishes, Moves
<1>1. CASE RunReadsTask \/ RunStops \/ RunReadsItem \/ RunFindsEnd
  BY <1>1 DEF RunReadsTask, TakeTask, RunStops, RunReadsItem, RunFindsEnd
<1>2. CASE ExecutionBegin
  BY <1>2 DEF ExecutionBegin, Patched, NotPatched
<1>3. CASE RunBlock \/ TranslationError
  BY <1>3 DEF RunBlock, Return, TranslationError
<1>4. CASE SendAnswer
  BY <1>4 DEF SendAnswer, RunOver
<1>5. CASE EndReadsTask \/ EndStops
  BY <1>5 DEF EndReadsTask, TakeTask, EndStops, Decided
<1>6. CASE EndReadsItem \/ EndFindsEnd
  BY <1>6 DEF EndReadsItem, EndFindsEnd, Decided, RunOver
<1>7. CASE ServerStep \/ UNCHANGED state
  BY <1>7 DEF ServerStep, Send, Hangup, state
<1>8. QED
  BY <1>1, <1>2, <1>3, <1>4, <1>5, <1>6, <1>7 DEF Next, TracerStep

\* The tasks of the finished runs come before the one that is running.
Ordered ==
  /\ AnswersInOrder
  /\ \A k \in 1 .. Len(runs) : runs[k].task <= loaded
  /\ pc \in {"begin", "run", "end"} => \A k \in 1 .. Len(runs) : runs[k].task < loaded

LEMMA NextOrdered == Typed /\ Ordered /\ [Next]_state => Ordered'
<1> SUFFICES ASSUME TypeOK, Ordered, [Next]_state PROVE Ordered'
  BY DEF Typed
<1> USE DEF Ordered, AnswersInOrder
<1>1. loaded \in Nat /\ Len(runs) \in Nat /\ runs \in Seq(Run)
      /\ \A k \in 1 .. Len(runs) : runs[k].task \in Nat
  <2>1. loaded \in Nat /\ runs \in Seq(Run)
    BY DEF TypeOK, Run
  <2>2. \A r \in Run : r.task \in Nat
    BY DEF Run
  <2>3. QED BY <2>1, <2>2
<1>2. ASSUME pc = "end", loaded' \in {loaded, loaded + 1},
             runs' = Append(runs, [task |-> loaded, size |-> vars, jumps |-> jumps]),
             loaded' = loaded => pc' \notin {"begin", "run", "end"}
      PROVE  Ordered'
  <2>1. /\ Len(runs') = Len(runs) + 1 /\ runs'[Len(runs) + 1].task = loaded
        /\ \A k \in 1 .. Len(runs) : runs'[k] = runs[k]
    BY <1>1, <1>2
  <2>2. \A k \in 1 .. Len(runs') : k \in 1 .. Len(runs) \/ k = Len(runs) + 1
    BY <1>1, <2>1
  <2>3. \A k \in 1 .. Len(runs') : runs'[k].task <= loaded
    BY <1>1, <2>1, <2>2
  <2>4. AnswersInOrder'
    <3> SUFFICES ASSUME NEW k \in 1 .. Len(runs'), NEW j \in 1 .. k - 1
                 PROVE  runs'[j].task < runs'[k].task
      OBVIOUS
    <3>1. j \in 1 .. Len(runs) /\ runs'[j] = runs[j]
      BY <1>1, <2>1
    <3>2. CASE k \in 1 .. Len(runs)
      BY <2>1, <3>1, <3>2
    <3>3. CASE k = Len(runs) + 1
      BY <1>2, <2>1, <3>1, <3>3
    <3>4. QED BY <2>2, <3>2, <3>3
  <2>5. QED BY <1>1, <1>2, <2>3, <2>4
<1>3. CASE \E next : Finishes(next)
  <2>1. pc = "end" /\ runs' = Append(runs, [task |-> loaded, size |-> vars, jumps |-> jumps])
    BY <1>3 DEF Finishes
  <2>2. /\ loaded' \in {loaded, loaded + 1}
        /\ loaded' = loaded => pc' \in {"next", "read", "exited"}
    BY <1>1, <2>1, Steps DEF Finishes, Loads, Moves
  <2>3. QED BY <1>2, <2>1, <2>2
<1>4. CASE ~\E next : Finishes(next)
  <2>1. \/ (pc = "read" /\ Loads("begin")) \/ (pc = "next" /\ Loads("run"))
        \/ \E from, to : Moves(from, to)
    BY <1>4, Steps
  <2>2. CASE Loads("begin") \/ Loads("run")
    BY <1>1, <2>2 DEF Loads
  <2>3. CASE ~(Loads("begin") \/ Loads("run"))
    <3>1. /\ loaded' = loaded /\ runs' = runs
          /\ pc' \in {"begin", "run", "end"} => pc \in {"begin", "run", "end"}
      BY <1>4, <2>3, Steps DEF Moves
    <3>2. QED BY <3>1
  <2>4. QED BY <2>2, <2>3
<1>5. QED BY <1>3, <1>4

\* No task is answered twice or before an earlier one, in flow and in batch mode,
\* and whether or not executions end before they start for want of a patch file.
THEOREM AnswersOrdered == Spec => []AnswersInOrder
<1>1. Init => Ordered
  BY DEF Init, Ordered, AnswersInOrder
<1>2. Spec => []Ordered
  BY <1>1, NextOrdered, TypedInvariance, PTL DEF Spec
<1>3. Ordered => AnswersInOrder
  BY DEF Ordered
<1>4. QED BY <1>2, <1>3, PTL

\* Every task taken is answered but the one being executed.
Counted ==
  /\ pc \in {"read", "next"} => Len(runs) = loaded
  /\ pc \in {"begin", "run", "end"} => Len(runs) + 1 = loaded

LEMMA NextCounted ==
  ASSUME FALSE \notin PatchFound
  PROVE  Typed /\ Counted /\ [Next]_state => Counted'
<1> SUFFICES ASSUME TypeOK, Counted, [Next]_state PROVE Counted'
  BY DEF Typed
<1>1. loaded \in Nat /\ runs \in Seq(Run) /\ Len(runs) \in Nat
  BY DEF TypeOK, Run
<1>2. ASSUME NEW next, Finishes(next)
      PROVE  Len(runs') = Len(runs) + 1
  BY <1>1, <1>2 DEF Finishes
<1>3. QED
  BY <1>1, <1>2, Steps DEF Counted, Loads, Finishes, Moves

\* A flow session whose patch file is there keeps what TaskService promises its
\* server, step by step: a task is taken only when all before it are answered,
\* and the answer that comes next is that task's.
THEOREM ServesSafely ==
  ASSUME TRUE \notin Modes, FALSE \notin PatchFound
  PROVE  Spec => Service!Safety
<1> DEFINE IInv == Typed /\ Counted /\ ~batched
<1>1. Init => Counted /\ ~batched
  BY ModeAssumption DEF Init, Counted
<1>2. Spec => []IInv
  <2>1. IInv /\ [Next]_state => Counted' /\ (~batched)'
    BY NextCounted, Steps
  <2>2. QED BY <1>1, <2>1, TypedInvariance, PTL DEF Spec
<1>3. Init => Service!Init
  BY DEF Init, Service!Init
<1>4. IInv /\ [Next]_state => [Service!Next]_(Service!service)
  <2> SUFFICES ASSUME TypeOK, Counted, ~batched, [Next]_state
               PROVE  [Service!Next]_(Service!service)
    BY DEF Typed
  <2> DEFINE up == pc \notin {"done", "exited"}
             answered == [k \in 1 .. Len(runs) |-> runs[k].task]
  <2> USE DEF Service!service, Service!Next, Service!Idle
  <2>1. /\ loaded \in Nat /\ runs \in Seq(Run) /\ Len(runs) \in Nat
        /\ Len(answered) = Len(runs)
    BY DEF TypeOK, Run
  <2>2. CASE (pc = "read" /\ Loads("begin")) \/ (pc = "next" /\ Loads("run"))
    BY <2>1, <2>2 DEF Service!Take, Loads, Counted
  <2>3. CASE Finishes({"next"}) /\ loaded' = loaded
    <3>1. /\ Len(runs') = Len(runs) + 1 /\ runs'[Len(runs) + 1].task = loaded
          /\ \A k \in 1 .. Len(runs) : runs'[k] = runs[k]
      BY <2>1, <2>3 DEF Finishes
    <3>2. answered' = Append(answered, loaded)
      BY <2>1, <3>1
    <3>3. up /\ up' /\ Len(answered) # loaded
      <4>1. pc = "end" /\ pc' = "next"
        BY <2>3 DEF Finishes
      <4>2. Len(runs) + 1 = loaded
        BY <4>1 DEF Counted
      <4>3. up /\ up'
        BY <4>1
      <4> HIDE DEF answered
      <4>4. Len(answered) # loaded
        BY <2>1, <4>2
      <4>5. QED BY <4>3, <4>4
    <3>4. QED BY <2>3, <3>2, <3>3 DEF Service!Answer
  <2>4. CASE Moves({"read", "next"}, {"done", "exited"})
    BY <2>4 DEF Service!Stop, Moves
  <2>5. CASE \/ Moves({"begin"}, {"run"}) \/ Moves({"run"}, {"run", "end"})
             \/ Moves({"next"}, {"read"}) \/ Moves({pc}, {pc})
    BY <2>5 DEF Moves
  <2>6. QED BY <2>2, <2>3, <2>4, <2>5, Steps
<1>5. QED BY <1>2, <1>3, <1>4, PTL DEF Spec, Service!Safety

-----------------------------------------------------------------------------
(* One task in each answer.                                                 *)

\* The output of an execution that has not ended.
Opened(log) ==
  log # <<>> /\ log[1] = Begin /\ \A j \in 2 .. Len(log) : log[j] \notin {Begin, End}

LEMMA OpenedAppend ==
  ASSUME NEW S, NEW log \in Seq(S), NEW e, e \notin {Begin, End}, Opened(log)
  PROVE  Opened(Append(log, e))
  BY DEF Opened

\* Nothing a basic block writes opens or closes an answer.
LEMMA BlockKeepsOpened ==
  ASSUME TypeOK, Opened(buffer), NEW b \in Block
  PROVE  Opened(buffer \o Flushed(b) \o Logged)
<1> DEFINE registersEntry == [kind |-> "registers"]
           blockEntry == [kind |-> "block"]
           jump == Jump(test.block, b = test.blockOptionTaken)
           flushed == buffer \o Flushed(b)
<1>1. /\ registersEntry \notin {Begin, End} /\ blockEntry \notin {Begin, End}
      /\ jump \notin {Begin, End}
  BY DEF Begin, End, Jump
<1>2. buffer \in Seq(LogEntry)
  BY DEF TypeOK
<1>3. registersEntry \in LogEntry /\ blockEntry \in LogEntry
  BY DEF LogEntry
<1>4. ASSUME Pending
      PROVE  jump \in LogEntry
  <2>1. test.block \in Block /\ (b = test.blockOptionTaken) \in BOOLEAN
    BY <1>4 DEF Pending, TypeOK
  <2>2. QED BY <2>1, EntriesTyped
<1> HIDE DEF registersEntry, blockEntry, jump
<1>5. Flushed(b) = IF Pending THEN <<jump>> ELSE <<>>
  BY DEF Flushed, jump
<1>6. flushed \in Seq(LogEntry) /\ Opened(flushed)
  <2>1. CASE Pending
    <3>1. flushed = Append(buffer, jump)
      BY <1>2, <1>4, <1>5, <2>1, ShortConcat
    <3>2. QED BY <1>1, <1>2, <1>4, <2>1, <3>1, OpenedAppend
  <2>2. CASE ~Pending
    BY <1>2, <1>5, <2>2
  <2>3. QED BY <2>1, <2>2
<1> HIDE DEF flushed
<1>7. Logged \in {<<>>, <<blockEntry>>, <<registersEntry, blockEntry>>}
  BY DEF Logged, registersEntry, blockEntry
<1>8. flushed \o Logged \in {flushed, Append(flushed, blockEntry),
                             Append(Append(flushed, registersEntry), blockEntry)}
  <2>1. /\ flushed \o <<>> = flushed
        /\ flushed \o <<blockEntry>> = Append(flushed, blockEntry)
        /\ flushed \o <<registersEntry, blockEntry>>
             = Append(Append(flushed, registersEntry), blockEntry)
    BY <1>3, <1>6, ShortConcat
  <2>2. QED BY <1>7, <2>1
<1>9. Opened(Append(flushed, blockEntry))
  BY <1>1, <1>6, OpenedAppend
<1>10. /\ Opened(Append(flushed, registersEntry))
       /\ Append(flushed, registersEntry) \in Seq(LogEntry)
  BY <1>1, <1>3, <1>6, OpenedAppend
<1>11. Opened(Append(Append(flushed, registersEntry), blockEntry))
  BY <1>1, <1>10, OpenedAppend
<1>12. Opened(flushed \o Logged)
  BY <1>6, <1>8, <1>9, <1>11
<1>13. QED BY <1>12 DEF flushed

Framed ==
  /\ AnswersFramed
  /\ ~batched => /\ pc \in {"run", "end"} => Opened(buffer)
                 /\ pc \in {"read", "begin", "next"} => buffer = <<>>

LEMMA NextFramed ==
  ASSUME FALSE \notin PatchFound
  PROVE  Typed /\ Framed /\ [Next]_state => Framed'
<1> SUFFICES ASSUME TypeOK, Located, Framed, [Next]_state PROVE Framed'
  BY DEF Typed
<1> USE DEF Framed, AnswersFramed, mode, task, context, output, history, tracer
<1>1. buffer \in Seq(LogEntry) /\ answers \in Seq(Seq(LogEntry))
  BY DEF TypeOK
<1>2. Opened(<<Begin>>) /\ Opened(<<Begin, Name(fileName)>>)
  <2>1. Name(fileName) \notin {Begin, End}
    BY DEF Name, Begin, End
  <2>2. QED BY <2>1 DEF Opened
<1>3. CASE RunReadsTask \/ RunStops \/ RunReadsItem \/ RunFindsEnd
  BY <1>3 DEF RunReadsTask, TakeTask, RunStops, RunReadsItem, RunFindsEnd
<1>4. CASE ExecutionBegin
  <2>1. Patched
    BY <1>4 DEF ExecutionBegin
  <2>2. ~batched => buffer' \in {<<Begin>>, <<Begin, Name(fileName)>>}
    BY <1>4, <2>1 DEF ExecutionBegin, Patched
  <2>3. QED BY <1>2, <1>4, <2>1, <2>2 DEF ExecutionBegin, Patched
<1>5. CASE RunBlock
  <2>1. ~batched => Opened(buffer')
    BY <1>5, BlockKeepsOpened DEF RunBlock, Located
  <2>2. pc' \in {"run", "end"}
    BY <1>5 DEF RunBlock, Return
  <2>3. QED BY <1>5, <2>1, <2>2 DEF RunBlock
<1>6. CASE TranslationError
  BY <1>6 DEF TranslationError
<1>7. CASE SendAnswer
  <2> DEFINE answer == Append(buffer, End)
  <2>1. Opened(buffer) /\ answers' = Append(answers, answer)
    BY <1>7 DEF SendAnswer
  <2>2. /\ Head(answer) = Begin /\ Last(answer) = End
        /\ \A j \in 2 .. Len(answer) - 1 : answer[j] \notin {Begin, End}
    BY <1>1, <2>1 DEF Opened, Last
  <2>3. answer \in Seq(LogEntry)
    BY <1>1, EntriesTyped
  <2> HIDE DEF answer
  <2>4. AnswersFramed'
    <3>1. /\ Len(answers') = Len(answers) + 1 /\ answers'[Len(answers) + 1] = answer
          /\ \A k \in 1 .. Len(answers) : answers'[k] = answers[k]
      BY <1>1, <2>1, <2>3
    <3>2. \A k \in 1 .. Len(answers') : k \in 1 .. Len(answers) \/ k = Len(answers) + 1
      BY <1>1, <3>1
    <3>3. QED BY <2>2, <3>1, <3>2
  <2>5. QED BY <1>7, <2>4 DEF SendAnswer
<1>8. CASE EndReadsTask
  <2>1. ~batched => buffer' = <<Begin>>
    BY <1>8 DEF EndReadsTask
  <2>2. pc' \in {"run", "exited"} /\ answers' = answers /\ batched' = batched
    BY <1>8 DEF EndReadsTask, TakeTask, Decided
  <2>3. QED BY <1>2, <2>1, <2>2
<1>9. CASE EndStops
  BY <1>9 DEF EndStops, Decided
<1>10. CASE EndReadsItem \/ EndFindsEnd
  BY <1>10 DEF EndReadsItem, EndFindsEnd
<1>11. CASE ServerStep \/ UNCHANGED state
  BY <1>11 DEF ServerStep, Send, Hangup, state
<1>12. QED
  BY <1>3, <1>4, <1>5, <1>6, <1>7, <1>8, <1>9, <1>10, <1>11 DEF Next, TracerStep

\* As long as the patch file is found, each answer is the output of one task from
\* its beginning to its end, whichever of Run and ExecutionEnd read the task.
THEOREM AnswersAreFramed ==
  ASSUME FALSE \notin PatchFound
  PROVE  Spec => []AnswersFramed
<1>1. Init => Framed
  BY DEF Init, Framed, AnswersFramed
<1>2. Spec => []Framed
  BY <1>1, NextFramed, TypedInvariance, PTL DEF Spec
<1>3. Framed => AnswersFramed
  BY DEF Framed
<1>4. QED BY <1>2, <1>3, PTL

-----------------------------------------------------------------------------
(* The symbolic variables of the payload.                                   *)

\* The variables are those of the first run's payload, from when that run begins.
Registering ==
  /\ ctxInit <=> runs # <<>> \/ pc \in {"run", "end"}
  /\ ctxInit => registered = FirstSize
  /\ pc = "next" => runs # <<>>

LEMMA FirstSizeKept ==
  ASSUME runs \in Seq(Run), runs # <<>>, NEW r \in Run
  PROVE  /\ Append(runs, r) # <<>>
         /\ Append(runs, r)[1] = runs[1]
  OBVIOUS

LEMMA NextRegistering == Typed /\ Registering /\ [Next]_state => Registering'
<1> SUFFICES ASSUME TypeOK, Registering, [Next]_state PROVE Registering'
  BY DEF Typed
<1> USE DEF Registering, FirstSize, mode, task, context, output, history, tracer
<1>1. CASE RunReadsTask
  BY <1>1 DEF RunReadsTask, TakeTask
<1>2. CASE RunStops \/ RunReadsItem \/ RunFindsEnd
  BY <1>2 DEF RunStops, RunReadsItem, RunFindsEnd
<1>3. CASE ExecutionBegin
  <2>1. UNCHANGED <<runs, vars>> /\ pc = "begin" /\ FirstSize' = FirstSize
    BY <1>3 DEF ExecutionBegin
  <2>2. CASE NotPatched
    BY <2>1, <2>2 DEF NotPatched
  <2>3. CASE Patched
    <3>1. ctxInit' /\ pc' = "run"
      BY <2>3 DEF Patched
    <3>2. registered' = IF ctxInit THEN registered ELSE vars
      BY <2>3 DEF Patched, Registered
    <3>3. CASE ctxInit
      BY <2>1, <3>1, <3>2, <3>3
    <3>4. CASE ~ctxInit
      BY <2>1, <3>1, <3>2, <3>4
    <3>5. QED BY <3>3, <3>4
  <2>4. QED BY <1>3, <2>2, <2>3 DEF ExecutionBegin
<1>4. CASE RunBlock \/ TranslationError
  BY <1>4 DEF RunBlock, Return, TranslationError
<1>5. ASSUME RunOver, pc = "end", UNCHANGED <<ctxInit, registered, vars>>,
             pc' \in {"next", "run", "read", "exited"}
      PROVE  Registering'
  <2> DEFINE run == [task |-> loaded, size |-> vars, jumps |-> jumps]
  <2>1. run \in Run /\ run.size = vars /\ runs \in Seq(Run)
    BY DEF TypeOK, Run
  <2>2. runs' = Append(runs, run)
    BY <1>5 DEF RunOver
  <2> HIDE DEF run
  <2>3. runs' # <<>>
    BY <2>1, <2>2
  <2>4. CASE runs = <<>>
    BY <1>5, <2>1, <2>2, <2>3, <2>4
  <2>5. CASE runs # <<>>
    BY <1>5, <2>1, <2>2, <2>3, <2>5, FirstSizeKept
  <2>6. QED BY <2>4, <2>5
<1>6. CASE SendAnswer
  BY <1>5, <1>6 DEF SendAnswer
<1>7. CASE EndReadsTask \/ EndStops
  BY <1>7 DEF EndReadsTask, TakeTask, EndStops, Decided
<1>8. CASE EndReadsItem \/ EndFindsEnd
  BY <1>5, <1>8 DEF EndReadsItem, EndFindsEnd, Decided
<1>9. CASE ServerStep \/ UNCHANGED state
  BY <1>9 DEF ServerStep, Send, Hangup, state
<1>10. QED
  BY <1>1, <1>2, <1>3, <1>4, <1>6, <1>7, <1>8, <1>9 DEF Next, TracerStep

LEMMA RegisteringInvariance == Spec => []Registering
<1>1. Init => Registering
  BY DEF Init, Registering
<1>2. QED BY <1>1, NextRegistering, TypedInvariance, PTL DEF Spec

\* Whatever the sizes of the payloads, in flow and in batch mode, and however many
\* tasks are dropped first for want of the patch file, the symbolic variables of
\* every execution are the bytes of the first one's payload, cut short or not.
THEOREM PayloadIsSymbolic == Spec => []PayloadSymbolic
<1>1. Registering => PayloadSymbolic
  BY DEF Registering, PayloadSymbolic
<1>2. QED BY <1>1, RegisteringInvariance, PTL

-----------------------------------------------------------------------------
(* The tests of each run.                                                   *)

Exact(k) == Selects(runs[k].jumps, "test", answers[k])

\* The test of the last symbolic jump, and of no other, is still to be written.
TestsWritten ==
  IF Pending
    THEN /\ jumps # <<>> /\ Selects(Front(jumps), "test", buffer)
         /\ jumps[Len(jumps)] = Jump(test.block, target = test.blockOptionTaken)
    ELSE Selects(jumps, "test", buffer)

Faithful ==
  /\ Len(answers) = IF batched THEN 0 ELSE Len(runs)
  /\ AnswersFaithful
  /\ failing => pc \in {"end", "next", "exited"}
  /\ (\A k \in 1 .. Len(answers) : Exact(k)) \/ (failing /\ pc \in {"next", "exited"})
  /\ ~batched =>
       /\ pc \in {"run", "end"} => TestsWritten
       /\ pc \in {"read", "begin", "next"} =>
            jumps = <<>> /\ Selects(<<>>, "test", buffer)
       /\ Pending => pc = "run" \/ failing

\* A jump just taken awaits its test.
LEMMA JumpTaken ==
  ASSUME TrackingMode = "z3", TypeOK, NEW b \in Block, Followed(b),
         registered = FirstSize, NEW i \in DOMAIN Branch[b], NEW log, Selects(jumps, "test", log),
         test' = NewTest(b), target' = Branch[b][i], buffer' = log,
         jumps' = Append(jumps, Jump(b, i = 1))
  PROVE  TestsWritten' /\ Pending'
<1>1. /\ Tested[b] # {} /\ i \in 1 .. 2
      /\ Branch[b][1] # Branch[b][2]
  BY BranchTyped DEF Followed
<1>2. /\ test' = [block |-> b, blockOptionTaken |-> Branch[b][1]]
      /\ test' # NoTest
  BY <1>1, ProgramAssumption DEF NewTest, NoTest, Followed
<1>3. (i = 1) = (target' = test'.blockOptionTaken)
  BY <1>1, <1>2
<1>4. Jump(b, i = 1) = Jump(test'.block, target' = test'.blockOptionTaken)
  <2>1. test'.block = b
    BY <1>2
  <2>2. \A x, y : x = y => Jump(b, x) = Jump(b, y)
    OBVIOUS
  <2>3. Jump(b, i = 1) = Jump(b, target' = test'.blockOptionTaken)
    BY <1>3, <2>2, Zenon
  <2>4. QED BY <2>1, <2>3
<1>5. jumps \in Seq(TestEntry)
  BY DEF TypeOK
<1>6. /\ jumps' # <<>> /\ jumps'[Len(jumps')] = Jump(b, i = 1)
      /\ Front(jumps') = jumps
  BY <1>5 DEF Front
<1>7. Pending'
  BY <1>2 DEF Pending
<1>8. QED BY <1>2, <1>4, <1>6, <1>7 DEF TestsWritten

\* The first block after a symbolic jump writes the jump's test.
LEMMA TestFlushed ==
  ASSUME TypeOK, TestsWritten, pc = "run"
  PROVE  /\ buffer \o Flushed(target) \in Seq(LogEntry)
         /\ Selects(jumps, "test", buffer \o Flushed(target))
<1> DEFINE jump == Jump(test.block, target = test.blockOptionTaken)
<1>1. buffer \in Seq(LogEntry) /\ jumps \in Seq(TestEntry)
  BY DEF TypeOK
<1>2. CASE Pending
  <2>1. /\ Front(jumps) \in Seq(TestEntry) /\ jump \in TestEntry
        /\ Append(Front(jumps), jump) = jumps
    BY <1>1, <1>2 DEF TestsWritten, Front
  <2>2. jump \in LogEntry /\ jump.kind = "test"
    BY <2>1, EntriesTyped DEF Jump
  <2>3. buffer \o Flushed(target) = Append(buffer, jump)
    BY <1>1, <1>2, <2>2, ShortConcat DEF Flushed
  <2>4. Selects(Front(jumps), jump.kind, buffer)
    BY <1>2, <2>2 DEF TestsWritten
  <2> HIDE DEF jump
  <2>5. Selects(Append(Front(jumps), jump), jump.kind, Append(buffer, jump))
    BY <1>1, <2>1, <2>4, SelectsSame
  <2>6. QED BY <1>1, <2>1, <2>2, <2>3, <2>5
<1>3. CASE ~Pending
  BY <1>1, <1>3 DEF TestsWritten, Flushed
<1>4. QED BY <1>2, <1>3

LEMMA RunBlockFaithful ==
  ASSUME TrackingMode = "z3", Typed, Registering, Faithful, RunBlock
  PROVE  Faithful'
<1> USE DEF Typed, RunBlock, mode, task
<1> DEFINE log == buffer \o Flushed(target)
<1>0. registered = FirstSize
  BY DEF Registering
<1>1. /\ target \in Block /\ pc = "run" /\ ~failing
      /\ UNCHANGED <<batched, answers, runs, failing>>
  BY DEF Located, Faithful
<1>2. buffer' = log \o <<>>
  BY DEF Logged
<1>3. ASSUME ~batched
      PROVE  log \in Seq(LogEntry) /\ Selects(jumps, "test", log)
  BY <1>1, <1>3, TestFlushed DEF Faithful
<1> HIDE DEF log
<1>4. ASSUME ~batched
      PROVE  buffer' = log
  BY <1>2, <1>3, <1>4
<1>5. /\ AnswersFaithful /\ \A k \in 1 .. Len(answers) : Exact(k)
      /\ Len(answers) = IF batched THEN 0 ELSE Len(runs)
  BY <1>1 DEF Faithful
<1>6. AnswersFaithful' /\ \A k \in 1 .. Len(answers') : Exact(k)'
  BY <1>1, <1>5 DEF AnswersFaithful, Exact
<1>7. CASE Branch[target] = <<>>
  <2>1. Tested[target] = {}
    BY <1>1, <1>7, BranchTyped
  <2>2. pc' = "end" /\ jumps' = jumps /\ ~Pending'
    BY <1>7, <2>1 DEF Return, NewTest, Pending
  <2>3. ~batched => TestsWritten'
    BY <1>3, <1>4, <2>2 DEF TestsWritten
  <2>4. QED BY <1>1, <1>5, <1>6, <2>2, <2>3 DEF Faithful
<1>8. CASE Branch[target] # <<>> /\ ~Followed(target)
  <2>1. pc' = "run" /\ jumps' = jumps /\ ~Pending'
    BY <1>0, <1>8 DEF NewTest, Pending, Followed
  <2>2. ~batched => TestsWritten'
    BY <1>3, <1>4, <2>1 DEF TestsWritten
  <2>3. QED BY <1>1, <1>5, <1>6, <2>1, <2>2 DEF Faithful
<1>9. CASE Branch[target] # <<>> /\ Followed(target)
  <2>1. PICK i \in DOMAIN Branch[target] :
          /\ pc' = "run" /\ target' = Branch[target][i]
          /\ jumps' = Append(jumps, Jump(target, i = 1))
    BY <1>9
  <2>2. test' = NewTest(target)
    OBVIOUS
  <2>3. ~batched => TestsWritten' /\ Pending'
    BY <1>0, <1>1, <1>3, <1>4, <1>9, <2>1, <2>2, JumpTaken
  <2>4. QED BY <1>1, <1>5, <1>6, <2>1, <2>3 DEF Faithful
<1>10. QED BY <1>7, <1>8, <1>9

LEMMA SendAnswerFaithful ==
  ASSUME Typed, Faithful, SendAnswer
  PROVE  Faithful'
<1> USE DEF SendAnswer, RunOver, mode, context
<1> DEFINE answer == Append(buffer, End)
           run == [task |-> loaded, size |-> vars, jumps |-> jumps]
<1>1. /\ buffer \in Seq(LogEntry) /\ answers \in Seq(Seq(LogEntry))
      /\ answer \in Seq(LogEntry) /\ run \in Run
      /\ runs \in Seq(Run) /\ answers' = Append(answers, answer)
      /\ runs' = Append(runs, run)
  BY EntriesTyped DEF Typed, TypeOK, Run
<1>2. /\ pc = "end" /\ pc' = "next" /\ ~batched /\ ~batched'
      /\ failing' = failing /\ test' = test
      /\ jumps' = <<>> /\ buffer' = <<>> /\ run.jumps = jumps
  OBVIOUS
<1>3. /\ TestsWritten /\ Len(answers) = Len(runs)
      /\ \A k \in 1 .. Len(answers) : Exact(k)
      /\ Pending => failing
  BY <1>2 DEF Faithful
<1>4. \A part : Selects(part, "test", buffer) => Selects(part, "test", answer)
  BY <1>1, SelectsOther DEF End
<1> HIDE DEF answer, run
<1>5. /\ Len(answers') = Len(answers) + 1 /\ answers'[Len(answers) + 1] = answer
      /\ \A k \in 1 .. Len(answers) : answers'[k] = answers[k]
      /\ Len(runs') = Len(runs) + 1 /\ runs'[Len(answers) + 1] = run
      /\ \A k \in 1 .. Len(answers) : runs'[k] = runs[k]
  BY <1>1, <1>3
<1>6. \A k \in 1 .. Len(answers') :
        k \in 1 .. Len(answers) \/ (k = Len(answers) + 1 /\ k = Len(answers'))
  BY <1>1, <1>5
<1>7. \A k \in 1 .. Len(answers) : Exact(k)'
  BY <1>3, <1>5 DEF Exact
<1>8. CASE Pending
  <2>1. failing /\ jumps # <<>> /\ Selects(Front(jumps), "test", answer)
    BY <1>3, <1>4, <1>8 DEF TestsWritten
  <2>2. AnswersFaithful'
    <3> SUFFICES ASSUME NEW k \in 1 .. Len(answers'), ~(Exact(k)')
                 PROVE  /\ failing' /\ k = Len(answers') /\ runs'[k].jumps # <<>>
                        /\ Selects(Front(runs'[k].jumps), "test", answers'[k])
      BY Zenon DEF AnswersFaithful, Exact
    <3>1. k = Len(answers) + 1 /\ k = Len(answers')
      BY <1>6, <1>7
    <3>2. answers'[k] = answer /\ runs'[k].jumps = jumps
      BY <1>2, <1>5, <3>1
    <3>3. failing' /\ k = Len(answers')
      BY <1>2, <2>1, <3>1
    <3>4. /\ runs'[k].jumps # <<>>
          /\ Selects(Front(runs'[k].jumps), "test", answers'[k])
      BY <2>1, <3>2
    <3>5. QED BY <3>3, <3>4
  <2>3. QED
    BY <1>2, <1>3, <1>5, <2>1, <2>2, SelectsNothing DEF Faithful, Pending
<1>9. CASE ~Pending
  <2>1. Selects(jumps, "test", answer)
    BY <1>3, <1>4, <1>9 DEF TestsWritten
  <2>2. ASSUME NEW k, k = Len(answers) + 1
        PROVE  Exact(k)'
    <3>1. answers'[k] = answer /\ runs'[k].jumps = jumps
      BY <1>2, <1>5, <2>2
    <3>2. QED BY <2>1, <3>1 DEF Exact
  <2>3. \A k \in 1 .. Len(answers') : Exact(k)'
    BY <1>6, <1>7, <2>2
  <2>4. AnswersFaithful'
    BY <2>3 DEF AnswersFaithful, Exact
  <2>5. QED
    BY <1>2, <1>3, <1>5, <1>9, <2>3, <2>4, SelectsNothing DEF Faithful, Pending
<1>10. QED BY <1>8, <1>9

\* What the answers hold is not changed by a step that sends none.
LEMMA NothingSent ==
  ASSUME Faithful, UNCHANGED <<answers, batched, failing, test>>,
         batched \/ runs' = runs,
         failing => pc' \in {"end", "next", "exited"} /\ (pc \in {"next", "exited"}
                                                        => pc' \in {"next", "exited"}),
         ~batched =>
           /\ pc' \in {"run", "end"} => TestsWritten'
           /\ pc' \in {"read", "begin", "next"} =>
                jumps' = <<>> /\ Selects(<<>>, "test", buffer')
           /\ Pending => pc' = "run" \/ failing
  PROVE  Faithful'
<1>1. Pending' = Pending
  BY DEF Pending
<1>2. CASE batched
  BY <1>1, <1>2 DEF Faithful, AnswersFaithful, Exact
<1>3. CASE ~batched
  BY <1>1, <1>3 DEF Faithful, AnswersFaithful, Exact
<1>4. QED BY <1>2, <1>3

LEMMA NextFaithful ==
  ASSUME TrackingMode = "z3"
  PROVE  Typed /\ Registering /\ Faithful /\ [Next]_state => Faithful'
<1> SUFFICES ASSUME Typed, Registering, Faithful, [Next]_state PROVE Faithful'
  OBVIOUS
<1> USE DEF mode, task, context, output, history, tracer
<1>1. buffer \in Seq(LogEntry) /\ Begin.kind # "test"
  BY DEF Typed, TypeOK, Begin
<1>2. ASSUME Selects(<<>>, "test", buffer)
      PROVE  Selects(<<>>, "test", Append(buffer, Begin))
  BY <1>1, <1>2, SelectsOther
<1>3. CASE RunReadsTask \/ RunStops \/ RunReadsItem \/ RunFindsEnd
  <2>1. /\ UNCHANGED <<answers, batched, failing, test, runs, jumps, buffer>>
        /\ pc = "read" /\ pc' \in {"begin", "done", "exited"}
    BY <1>3 DEF RunReadsTask, TakeTask, RunStops, RunReadsItem, RunFindsEnd
  <2>2. ~failing
    BY <2>1 DEF Faithful
  <2>3. QED BY <2>1, <2>2, NothingSent DEF Faithful
<1>4. CASE ExecutionBegin
  <2>1. /\ UNCHANGED <<answers, batched, failing, test, runs, jumps>>
        /\ pc = "begin" /\ pc' \in {"run", "read"} /\ buffer' = Append(buffer, Begin)
    BY <1>4 DEF ExecutionBegin, Patched, NotPatched
  <2>2. ~failing
    BY <2>1 DEF Faithful
  <2>3. ~batched => /\ jumps' = <<>> /\ Selects(<<>>, "test", buffer') /\ ~Pending
    BY <1>2, <2>1, <2>2 DEF Faithful
  <2>4. ~batched => TestsWritten'
    BY <2>1, <2>3 DEF TestsWritten, Pending
  <2>5. QED BY <2>1, <2>2, <2>3, <2>4, NothingSent
<1>5. CASE RunBlock
  BY <1>5, RunBlockFaithful
<1>6. CASE TranslationError
  <2>1. /\ UNCHANGED <<answers, batched, test, runs, jumps, buffer, target>>
        /\ pc = "run" /\ pc' = "end" /\ failing'
    BY <1>6 DEF TranslationError
  <2>2. TestsWritten => TestsWritten'
    BY <2>1 DEF TestsWritten, Pending
  <2>3. QED BY <2>1, <2>2 DEF Faithful, AnswersFaithful, Exact
<1>7. CASE SendAnswer
  BY <1>7, SendAnswerFaithful
<1>8. CASE EndReadsTask
  <2>1. /\ UNCHANGED <<answers, batched, failing, test, runs, jumps>>
        /\ pc = "next" /\ buffer' = Append(buffer, Begin)
        /\ pc' = "exited" \/ (pc' = "run" /\ ~failing)
    BY <1>8 DEF EndReadsTask, TakeTask, Decided
  <2>2. ~batched => /\ jumps' = <<>> /\ Selects(<<>>, "test", buffer')
                    /\ Pending => failing
    BY <1>2, <2>1 DEF Faithful
  <2>3. ASSUME ~batched, pc' = "run" PROVE TestsWritten'
    <3>1. ~Pending'
      BY <2>1, <2>2, <2>3 DEF Pending
    <3>2. QED BY <2>2, <2>3, <3>1 DEF TestsWritten
  <2>4. failing => pc' = "exited"
    BY <2>1
  <2>5. QED BY <2>1, <2>2, <2>3, <2>4, NothingSent
<1>9. CASE EndStops
  <2>1. /\ UNCHANGED <<answers, batched, failing, test, runs, jumps, buffer>>
        /\ pc = "next"
        /\ pc' = "exited" \/ (pc' = "read" /\ ~failing)
    BY <1>9 DEF EndStops, Decided
  <2>2. ~batched => /\ jumps' = <<>> /\ Selects(<<>>, "test", buffer')
                    /\ Pending => failing
    BY <2>1 DEF Faithful
  <2>3. failing => pc' = "exited"
    BY <2>1
  <2>4. QED BY <2>1, <2>2, <2>3, NothingSent
<1>10. CASE EndReadsItem \/ EndFindsEnd
  <2>1. /\ UNCHANGED <<answers, batched, failing, test>> /\ batched
        /\ pc = "end"
        /\ pc' = "exited" \/ (pc' \in {"run", "read"} /\ ~failing)
    BY <1>10 DEF EndReadsItem, EndFindsEnd, Decided
  <2>2. QED BY <2>1, NothingSent
<1>11. CASE ServerStep \/ UNCHANGED state
  <2>1. /\ UNCHANGED <<answers, batched, failing, test, runs, jumps, buffer>>
        /\ UNCHANGED <<pc, target>>
    BY <1>11 DEF ServerStep, Send, Hangup, state
  <2>2. TestsWritten => TestsWritten'
    BY <2>1 DEF TestsWritten, Pending
  <2>3. QED BY <2>1, <2>2, NothingSent DEF Faithful
<1>12. QED
  BY <1>3, <1>4, <1>5, <1>6, <1>7, <1>8, <1>9, <1>10, <1>11 DEF Next, TracerStep

\* When it tracks symbolically, for every program and every sequence of tasks, the
\* answer to a task holds the tests of its own run's jumps on the bytes followed,
\* all of them and in order, each with the branch taken, but for the last of a
\* failed run.
THEOREM AnswersAreFaithful ==
  ASSUME TrackingMode = "z3"
  PROVE  Spec => []AnswersFaithful
<1>1. Init => Faithful
  BY ModeAssumption, SelectsNothing DEF Init, Faithful, AnswersFaithful, Pending
<1>2. Spec => []Faithful
  BY <1>1, NextFaithful, TypedInvariance, RegisteringInvariance, PTL DEF Spec
<1>3. Faithful => AnswersFaithful
  BY DEF Faithful
<1>4. QED BY <1>2, <1>3, PTL

-----------------------------------------------------------------------------
(* The names in the log of batch mode.                                      *)

\* The name Run read is the one ExecutionBegin writes; no answer is awaited.
NamesWritten ==
  batched =>
    /\ pc # "next"
    /\ pc = "begin" => fileName = loaded
    /\ pc # "exited" => Selects(Named, "name", buffer)

\* Nothing a basic block writes is a name.
LEMMA BlockKeepsNames ==
  ASSUME TypeOK, NEW b \in Block, NEW part, Selects(part, "name", buffer)
  PROVE  Selects(part, "name", buffer \o Flushed(b) \o Logged)
<1> DEFINE registersEntry == [kind |-> "registers"]
           blockEntry == [kind |-> "block"]
           jump == Jump(test.block, b = test.blockOptionTaken)
           flushed == buffer \o Flushed(b)
<1>1. /\ registersEntry.kind # "name" /\ blockEntry.kind # "name"
      /\ jump.kind # "name"
  BY DEF Jump
<1>2. buffer \in Seq(LogEntry)
  BY DEF TypeOK
<1>3. registersEntry \in LogEntry /\ blockEntry \in LogEntry
  BY DEF LogEntry
<1>4. ASSUME Pending
      PROVE  jump \in LogEntry
  <2>1. test.block \in Block /\ (b = test.blockOptionTaken) \in BOOLEAN
    BY <1>4 DEF Pending, TypeOK
  <2>2. QED BY <2>1, EntriesTyped
<1> HIDE DEF registersEntry, blockEntry, jump
<1>5. Flushed(b) = IF Pending THEN <<jump>> ELSE <<>>
  BY DEF Flushed, jump
<1>6. flushed \in Seq(LogEntry) /\ Selects(part, "name", flushed)
  <2>1. CASE Pending
    <3>1. flushed = Append(buffer, jump)
      BY <1>2, <1>4, <1>5, <2>1, ShortConcat
    <3>2. QED BY <1>1, <1>2, <1>4, <2>1, <3>1, SelectsOther
  <2>2. CASE ~Pending
    BY <1>2, <1>5, <2>2
  <2>3. QED BY <2>1, <2>2
<1> HIDE DEF flushed
<1>7. Logged \in {<<>>, <<blockEntry>>, <<registersEntry, blockEntry>>}
  BY DEF Logged, registersEntry, blockEntry
<1>8. flushed \o Logged \in {flushed, Append(flushed, blockEntry),
                             Append(Append(flushed, registersEntry), blockEntry)}
  <2>1. /\ flushed \o <<>> = flushed
        /\ flushed \o <<blockEntry>> = Append(flushed, blockEntry)
        /\ flushed \o <<registersEntry, blockEntry>>
             = Append(Append(flushed, registersEntry), blockEntry)
    BY <1>3, <1>6, ShortConcat
  <2>2. QED BY <1>7, <2>1
<1>9. Selects(part, "name", Append(flushed, blockEntry))
  BY <1>1, <1>6, SelectsOther
<1>10. /\ Selects(part, "name", Append(flushed, registersEntry))
       /\ Append(flushed, registersEntry) \in Seq(LogEntry)
  BY <1>1, <1>3, <1>6, SelectsOther
<1>11. Selects(part, "name", Append(Append(flushed, registersEntry), blockEntry))
  BY <1>1, <1>10, SelectsOther
<1>12. Selects(part, "name", flushed \o Logged)
  BY <1>6, <1>8, <1>9, <1>11
<1>13. QED BY <1>12 DEF flushed

NamesOf(finished) == [k \in 1 .. Len(finished) |-> Name(finished[k].task)]

LEMMA NamesOfProperties ==
  ASSUME NEW finished \in Seq(Run)
  PROVE  /\ NamesOf(finished) \in Seq(LogEntry)
         /\ \A run \in Run :
              NamesOf(Append(finished, run)) = Append(NamesOf(finished), Name(run.task))
<1>1. /\ Len(finished) \in Nat
      /\ \A k \in 1 .. Len(finished) : finished[k] \in Run
  OBVIOUS
<1>2. \A run \in Run : Name(run.task) \in LogEntry
  BY EntriesTyped DEF Run
<1>3. NamesOf(finished) \in Seq(LogEntry)
  BY <1>1, <1>2 DEF NamesOf
<1>4. ASSUME NEW run \in Run
      PROVE  NamesOf(Append(finished, run)) = Append(NamesOf(finished), Name(run.task))
  <2> DEFINE longer == Append(finished, run)
  <2>1. /\ Len(longer) = Len(finished) + 1 /\ longer[Len(finished) + 1] = run
        /\ \A k \in 1 .. Len(finished) : longer[k] = finished[k]
    BY <1>1
  <2> HIDE DEF longer
  <2>2. NamesOf(longer) = Append(NamesOf(finished), Name(run.task))
    BY <1>1, <2>1 DEF NamesOf
  <2>3. QED BY <2>2 DEF longer
<1>5. QED BY <1>3, <1>4

\* The names written so far are those of the finished runs and of the one that is
\* being executed.
LEMMA NamedProperties ==
  ASSUME NEW finished \in Seq(Run), NEW t \in Nat
  PROVE  /\ NamesOf(finished) \o <<>> = NamesOf(finished)
         /\ NamesOf(finished) \o <<Name(t)>> = Append(NamesOf(finished), Name(t))
<1>1. Name(t) \in LogEntry
  BY EntriesTyped
<1>2. QED BY <1>1, NamesOfProperties, ShortConcat

LEMMA NextNamesWritten ==
  ASSUME TrackingMode = "taint"
  PROVE  Typed /\ NamesWritten /\ [Next]_state => NamesWritten'
<1> SUFFICES ASSUME Typed, Typed', batched, batched', NamesWritten, [Next]_state
             PROVE  NamesWritten'
  BY NextTypeOK, NextLocated, Steps DEF Typed, NamesWritten
<1> USE DEF mode, task, context, output, history, tracer
<1> DEFINE FinishedNames == NamesOf(runs)
<1>1. /\ pc # "next"
      /\ pc = "begin" => fileName = loaded
      /\ pc # "exited" => Selects(Named, "name", buffer)
  BY DEF NamesWritten
<1>2. /\ buffer \in Seq(LogEntry) /\ FinishedNames \in Seq(LogEntry)
      /\ Named = IF pc \in {"run", "end"} THEN Append(FinishedNames, Name(loaded))
                 ELSE FinishedNames
      /\ Named' = IF pc' \in {"run", "end"} THEN Append(FinishedNames', Name(loaded'))
                  ELSE FinishedNames'
      /\ RunOver => FinishedNames' = Append(FinishedNames, Name(loaded))
      /\ runs' = runs => FinishedNames' = FinishedNames
      /\ Begin.kind # "name" /\ \A t : Name(t).kind = "name"
  <2>1. /\ runs \in Seq(Run) /\ loaded \in Nat /\ buffer \in Seq(LogEntry)
        /\ jumps \in Seq(TestEntry) /\ vars \in Nat
    BY DEF Typed, TypeOK, Run
  <2>2. runs' \in Seq(Run) /\ loaded' \in Nat
    BY DEF Typed, TypeOK, Run
  <2>3. FinishedNames \in Seq(LogEntry)
    BY <2>1, NamesOfProperties
  <2>4. Named = IF pc \in {"run", "end"} THEN Append(FinishedNames, Name(loaded))
                ELSE FinishedNames
    BY <2>1, NamedProperties DEF Named, NamesOf
  <2>5. Named' = IF pc' \in {"run", "end"} THEN Append(FinishedNames', Name(loaded'))
                 ELSE FinishedNames'
    BY <2>2, NamedProperties DEF Named, NamesOf
  <2>6. RunOver => FinishedNames' = Append(FinishedNames, Name(loaded))
    <3> DEFINE run == [task |-> loaded, size |-> vars, jumps |-> jumps]
    <3>1. run \in Run /\ run.task = loaded
      BY <2>1 DEF Run
    <3> HIDE DEF run
    <3>2. NamesOf(Append(runs, run)) = Append(NamesOf(runs), Name(loaded))
      BY <2>1, <3>1, NamesOfProperties
    <3>3. QED BY <3>2 DEF RunOver, run
  <2>7. Begin.kind # "name" /\ \A t : Name(t).kind = "name"
    BY DEF Begin, Name
  <2>8. QED BY <2>1, <2>3, <2>4, <2>5, <2>6, <2>7
<1> HIDE DEF FinishedNames
<1>3. ASSUME NEW t, NEW log \in Seq(LogEntry), NEW part \in Seq(LogEntry),
             Selects(part, "name", log)
      PROVE  Selects(Append(part, Name(t)), "name", Append(log, Name(t)))
  <2>1. Selects(part, Name(t).kind, log)
    BY <1>2, <1>3
  <2>2. Selects(Append(part, Name(t)), Name(t).kind, Append(log, Name(t)))
    BY <2>1, SelectsSame
  <2>3. QED BY <1>2, <2>2
<1>4. CASE RunReadsItem
  BY <1>1, <1>2, <1>4 DEF RunReadsItem, NamesWritten
<1>5. CASE RunFindsEnd
  BY <1>1, <1>2, <1>5 DEF RunFindsEnd, NamesWritten
<1>6. CASE ExecutionBegin
  <2>1. /\ pc = "begin" /\ UNCHANGED <<runs, loaded, batched>>
        /\ FinishedNames' = FinishedNames
        /\ Selects(FinishedNames, "name", Append(buffer, Begin))
        /\ Append(buffer, Begin) \in Seq(LogEntry)
    BY <1>1, <1>2, <1>6, SelectsOther, EntriesTyped DEF ExecutionBegin
  <2>2. CASE Patched
    <3>1. pc' = "run" /\ buffer' = buffer \o <<Begin, Name(loaded)>>
      BY <1>1, <2>1, <2>2 DEF Patched
    <3>2. Name(loaded) \in LogEntry
      BY EntriesTyped DEF Typed, TypeOK
    <3>3. buffer' = Append(Append(buffer, Begin), Name(loaded))
      BY <1>2, <3>1, <3>2, EntriesTyped, ShortConcat
    <3>4. Selects(Append(FinishedNames, Name(loaded)), "name", buffer')
      BY <1>2, <1>3, <2>1, <3>3
    <3>5. QED BY <1>2, <2>1, <3>1, <3>4 DEF NamesWritten
  <2>3. CASE NotPatched
    BY <1>2, <2>1, <2>3 DEF NotPatched, NamesWritten
  <2>4. QED BY <1>6, <2>2, <2>3 DEF ExecutionBegin
<1>7. CASE RunBlock
  <2>1. /\ pc = "run" /\ pc' \in {"run", "end"} /\ UNCHANGED <<runs, loaded>>
        /\ target \in Block /\ buffer' = buffer \o Flushed(target) \o Logged
    BY <1>7 DEF RunBlock, Return, Typed, Located
  <2>2. Named' = Named
    BY <1>2, <2>1
  <2>3. Selects(Named, "name", buffer')
    BY <1>1, <2>1, BlockKeepsNames DEF Typed
  <2>4. QED BY <2>1, <2>2, <2>3 DEF NamesWritten
<1>8. CASE TranslationError
  BY <1>1, <1>2, <1>8 DEF TranslationError, NamesWritten
<1>9. CASE EndReadsItem
  <2>1. /\ pc = "end" /\ pc' \in {"run", "exited"} /\ loaded' = loaded + 1 /\ RunOver
        /\ buffer' = Append(buffer, Name(loaded + 1))
    BY <1>9 DEF EndReadsItem, Decided, NextName
  <2>2. /\ FinishedNames' = Named /\ Named \in Seq(LogEntry)
    <3>1. Name(loaded) \in LogEntry
      BY EntriesTyped DEF Typed, TypeOK
    <3>2. Named = Append(FinishedNames, Name(loaded))
      BY <1>2, <2>1
    <3>3. QED BY <1>2, <2>1, <3>1, <3>2
  <2>3. Selects(Append(Named, Name(loaded + 1)), "name", buffer')
    BY <1>1, <1>2, <1>3, <2>1, <2>2
  <2>4. QED BY <1>2, <2>1, <2>2, <2>3 DEF NamesWritten
<1>10. CASE EndFindsEnd
  <2>1. pc = "end" /\ pc' \in {"read", "exited"} /\ RunOver /\ buffer' = buffer
    BY <1>10 DEF EndFindsEnd, Decided
  <2>2. FinishedNames' = Named
    BY <1>2, <2>1
  <2>3. QED BY <1>1, <1>2, <2>1, <2>2 DEF NamesWritten
<1>11. CASE ServerStep \/ UNCHANGED state
  <2>1. UNCHANGED <<pc, runs, loaded, fileName, buffer>>
    BY <1>11 DEF ServerStep, Send, Hangup, state
  <2>2. QED BY <1>1, <1>2, <2>1 DEF NamesWritten
<1>12. CASE RunReadsTask \/ RunStops \/ SendAnswer \/ EndReadsTask \/ EndStops
  BY <1>1, <1>12 DEF RunReadsTask, RunStops, SendAnswer, EndReadsTask, EndStops
<1>13. QED
  BY <1>4, <1>5, <1>6, <1>7, <1>8, <1>9, <1>10, <1>11, <1>12 DEF Next, TracerStep

\* In batch mode with taint tracking the log names the executed items, one name
\* each and in order, although Run and ExecutionEnd each write some of the names.
THEOREM ItemsAreNamed ==
  ASSUME TrackingMode = "taint"
  PROVE  Spec => []NamesFollowItems
<1>1. Init => NamesWritten
  <2> SUFFICES ASSUME Init PROVE Selects(Named, "name", buffer) /\ pc = "read"
    BY DEF NamesWritten
  <2>1. Named = <<>>
    BY DEF Init, Named
  <2>2. QED BY <2>1, SelectsNothing DEF Init
<1>2. Spec => []NamesWritten
  BY <1>1, NextNamesWritten, TypedInvariance, PTL DEF Spec
<1>3. NamesWritten => NamesFollowItems
  BY DEF NamesWritten, NamesFollowItems
<1>4. QED BY <1>2, <1>3, PTL
=============================================================================
