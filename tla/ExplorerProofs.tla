---------------------------- MODULE ExplorerProofs ----------------------------
(***************************************************************************)
(* Proofs about Explorer: for every program and every set of inputs, the   *)
(* solver and the locks follow the path that the program is on, and for    *)
(* every program that tests what it has read, the search runs no path to   *)
(* its end twice.                                                          *)
(*                                                                         *)
(* The first invariant says how far each of them has got, between which    *)
(* the program, the solver and the two logs are a step apart: the solver   *)
(* has a frame for each block that was run, and the last frame is only     *)
(* settled by the next call of ExecutionControl; going back, the program   *)
(* leaves a block first and the logs are undone after it.                  *)
(*                                                                         *)
(* The second says where the search is: on a route, which from the moment  *)
(* its input was found no explored path shares; the conditions of the      *)
(* route are in the log, and behind the step it has reached in tvds, and   *)
(* a condition that was not inverted yet has only seen one side explored.  *)
(* It lasts as long as every value of a found input fits into a byte: one  *)
(* that is cut may leave the route it was found for.                       *)
(***************************************************************************)
EXTENDS Explorer, FiniteSetTheorems, SequenceTheorems, TLAPS

Condition == [vars : SUBSET Variable, holds : SUBSET Input]
Lock      == [item : Variable, step : Nat]

\* The blocks that were run and the next one; those whose reads are locked.
Route  == Append(path, pc)
GoingBack == call = "control" /\ lastDirection = "BACKTRACK"
Trail  == IF GoingBack THEN Route ELSE path

Typed ==
  /\ path \in Seq(Block) /\ pc \in Block \cup {NoBlock}
  /\ input \in Input /\ newPass \in Input /\ read \in Seq(Input) /\ Len(read) = Len(path) + 1
  /\ reports \in BOOLEAN /\ lastCondition \in Condition /\ solver \in Seq(ToSet(solver))
  /\ step \in Int

\* What the controller does next.
Flow ==
  /\ call \in {"begin", "run", "control", "end", "undo", "done", "crashed"}
  /\ lastDirection \in {"ADVANCE", "BACKTRACK"}
  /\ call = "begin" /\ executionState = "EXPLORING" =>
       /\ path = <<>> /\ pc \in Block /\ solver = <<NoFormula>> /\ locks = <<>> /\ locked = {}
       /\ step = 0 /\ lastDirection = "ADVANCE"
  /\ call = "run" => lastDirection = "ADVANCE" /\ pc \in Block
  /\ call = "end" => lastDirection = "ADVANCE" /\ path # <<>>
  /\ call = "control" => pc \in Block /\ path # <<>>
  /\ call = "undo" => lastDirection = "BACKTRACK" /\ path # <<>>
  /\ call = "undo" \/ GoingBack => executionState \in {"BACKTRACKING", "PATCHING"}

\* Between ExecutionBegin and the end of the search.
Running == call \in {"run", "control", "end", "undo"}

\* The inputs that take the k-th step of the path p.
TakesStep(p, k) == {x \in Input : SuccessorOf(p[k], x) = p[k + 1]}

\* The frames that were opened, and those among them that are settled.
Opened  == IF call = "run" \/ GoingBack THEN Len(path) + 1 ELSE Len(path)
Settled == IF GoingBack THEN Len(path) ELSE Opened - 1

FramesRight ==
  Running =>
    /\ Len(solver) = Opened
    /\ reports => \A k \in 1 .. Settled : solver[k].holds = TakesStep(Route, k)
    /\ reports /\ lastDirection = "ADVANCE" /\ call # "end" => solver[Opened].holds = Input

\* The condition that the executor has handed over and nobody has asked for.
ConditionRight ==
  reports =>
    IF call = "control" /\ lastDirection = "ADVANCE"
    THEN TakesStep(Route, Len(path)) = IF Pending THEN lastCondition.holds ELSE Input
    ELSE ~Pending

ReadsTo(p, n) == UNION {Reads[p[i]] : i \in 1 .. n}
FirstReads(p, v, k) == k \in 1 .. Len(p) /\ v \in Reads[p[k]] /\ v \notin ReadsTo(p, k - 1)

Splits(log, s, m) ==
  /\ \A i \in 1 .. m : log[i].step < s
  /\ \A i \in m + 1 .. Len(log) : log[i].step >= s

\* The variables set are those path p has read, and the log has each of them once,
\* with the step that read it first, in the order of these steps.
LogRight(p, log, set) ==
  /\ log \in Seq(Lock)
  /\ set = ReadsTo(p, Len(p))
  /\ \A i \in 1 .. Len(log) : FirstReads(p, log[i].item, log[i].step + 1)
  /\ \A v \in set : \E i \in 1 .. Len(log) : log[i].item = v
  /\ \A i, j \in 1 .. Len(log) : log[i].item = log[j].item => i = j
  /\ \A s \in 0 .. Len(p) : \E m \in 0 .. Len(log) : Splits(log, s, m)

LocksRight ==
  Running =>
    /\ step = IF call = "run" \/ GoingBack THEN Len(path) ELSE Len(path) - 1
    /\ LogRight(Trail, locks, locked)

\* What a block has read, it would read again.
ReadRight ==
  Running => \A k \in 1 .. Len(path) + 1 : \A v \in ReadsTo(path, k - 1) : read[k][v] = input[v]

IInv == Typed /\ Flow /\ FramesRight /\ ConditionRight /\ LocksRight /\ ReadRight

-----------------------------------------------------------------------------
(* Sequences of blocks, and what they read.                                 *)

LEMMA Appended ==
  ASSUME NEW S, NEW p \in Seq(S), NEW b
  PROVE  /\ Len(Append(p, b)) = Len(p) + 1
         /\ \A k \in 1 .. Len(p) : Append(p, b)[k] = p[k]
         /\ Append(p, b)[Len(p) + 1] = b
         /\ b \in S => Append(p, b) \in Seq(S)
  OBVIOUS

LEMMA Shortened ==
  ASSUME NEW S, NEW p \in Seq(S), p # <<>>
  PROVE  /\ Len(p) \in Nat \ {0} /\ Front(p) \in Seq(S) /\ Len(Front(p)) = Len(p) - 1
         /\ \A k \in 1 .. Len(p) - 1 : Front(p)[k] = p[k]
         /\ Last(p) = p[Len(p)] /\ Last(p) \in S
         /\ Append(Front(p), Last(p)) = p
<1>1. Len(p) \in Nat \ {0}
  OBVIOUS
<1>2. /\ Front(p) \in Seq(S) /\ Len(Front(p)) = Len(p) - 1
      /\ \A k \in 1 .. Len(p) - 1 : Front(p)[k] = p[k]
      /\ Last(p) = p[Len(p)] /\ Last(p) \in S
  <2>1. \A i \in 1 .. Len(p) - 1 : p[i] \in S
    BY <1>1
  <2> DEFINE n == Len(p) - 1
  <2>2. n \in Nat /\ Front(p) = SubSeq(p, 1, n)
    BY <1>1 DEF Front
  <2> HIDE DEF n
  <2>3. /\ Front(p) \in Seq(S) /\ Len(Front(p)) = IF 1 <= n THEN n - 1 + 1 ELSE 0
        /\ \A i \in 1 .. n - 1 + 1 : Front(p)[i] = p[1 + i - 1]
    BY <2>1, <2>2, SubSeqProperties DEF n
  <2>4. Last(p) = p[Len(p)] /\ Last(p) \in S
    BY <1>1 DEF Last
  <2>5. Len(Front(p)) = n /\ \A k \in 1 .. n : Front(p)[k] = p[k]
    <3>1. n - 1 + 1 = n /\ \A k \in 1 .. n : 1 + k - 1 = k
      BY <2>2
    <3> QED BY <2>2, <2>3, <3>1
  <2> QED BY <2>3, <2>4, <2>5 DEF n
<1>3. Append(Front(p), Last(p)) = p
  <2> DEFINE q == Append(Front(p), Last(p))
  <2>1. q \in Seq(S) /\ Len(q) = Len(p) /\ \A k \in 1 .. Len(p) : q[k] = p[k]
    <3>1. q \in Seq(S) /\ Len(q) = Len(p)
      BY <1>1, <1>2
    <3>2. ASSUME NEW k \in 1 .. Len(p) PROVE q[k] = p[k]
      <4>1. CASE k = Len(p)
        BY <4>1, <1>1, <1>2, Appended
      <4>2. CASE k # Len(p)
        <5>1. k \in 1 .. Len(Front(p))
          BY <4>2, <1>1, <1>2
        <5> QED BY <5>1, <1>2, Appended
      <4> QED BY <4>1, <4>2
    <3> QED BY <3>1, <3>2
  <2>2. p \in Seq(S)
    OBVIOUS
  <2> HIDE DEF q
  <2>3. q = p
    BY <2>1, <2>2, SeqEqual
  <2> QED BY <2>3 DEF q
<1> QED BY <1>1, <1>2, <1>3

LEMMA InReadsTo ==
  ASSUME NEW p, NEW n, NEW v
  PROVE  v \in ReadsTo(p, n) <=> \E i \in 1 .. n : v \in Reads[p[i]]
  BY DEF ReadsTo

LEMMA ReadsOfPath ==
  ASSUME NEW p \in Seq(Block), NEW b \in Block
  PROVE  /\ \A n \in 0 .. Len(p) : ReadsTo(Append(p, b), n) = ReadsTo(p, n)
         /\ ReadsTo(Append(p, b), Len(p) + 1) = ReadsTo(p, Len(p)) \cup Reads[b]
         /\ \A n \in 0 .. Len(p) : ReadsTo(p, n) \subseteq ReadsTo(p, Len(p))
         /\ ReadsTo(p, Len(p)) \subseteq Variable
<1> DEFINE q == Append(p, b)
<1>1. /\ Len(p) \in Nat /\ Len(q) = Len(p) + 1 /\ q[Len(p) + 1] = b
      /\ \A k \in 1 .. Len(p) : q[k] = p[k] /\ p[k] \in Block
  BY Appended
<1> HIDE DEF q
<1>2. ASSUME NEW n \in 0 .. Len(p) PROVE ReadsTo(q, n) = ReadsTo(p, n)
  <2>1. \A i \in 1 .. n : q[i] = p[i]
    BY <1>1
  <2>2. ASSUME NEW v PROVE v \in ReadsTo(q, n) <=> v \in ReadsTo(p, n)
    BY <2>1, InReadsTo
  <2> QED BY <2>2
<1>3. ReadsTo(q, Len(p) + 1) = ReadsTo(p, Len(p)) \cup Reads[b]
  <2>1. ASSUME NEW v
        PROVE  (\E i \in 1 .. Len(p) + 1 : v \in Reads[q[i]])
                 <=> (\E i \in 1 .. Len(p) : v \in Reads[p[i]]) \/ v \in Reads[b]
    BY <1>1
  <2> QED BY <2>1, InReadsTo
<1>4. ASSUME NEW n \in 0 .. Len(p) PROVE ReadsTo(p, n) \subseteq ReadsTo(p, Len(p))
  <2>1. \A i \in 1 .. n : i \in 1 .. Len(p)
    BY <1>1
  <2> QED BY <2>1, InReadsTo
<1>5. ReadsTo(p, Len(p)) \subseteq Variable
  <2>1. \A i \in 1 .. Len(p) : Reads[p[i]] \subseteq Variable
    <3>1. Reads \in [Block -> SUBSET Variable]
      BY ExplorerAssumption
    <3> QED BY <3>1, <1>1
  <2> QED BY <2>1, InReadsTo
<1> QED BY <1>2, <1>3, <1>4, <1>5 DEF q

\* FirstReads, by steps, which count the blocks from 0.
LEMMA FirstOf ==
  ASSUME NEW p, NEW v, NEW s \in Nat
  PROVE  FirstReads(p, v, s + 1)
           <=> s + 1 \in 1 .. Len(p) /\ v \in Reads[p[s + 1]] /\ v \notin ReadsTo(p, s)
<1>1. s + 1 - 1 = s
  OBVIOUS
<1>2. FirstReads(p, v, s + 1)
        <=> s + 1 \in 1 .. Len(p) /\ v \in Reads[p[s + 1]] /\ v \notin ReadsTo(p, s + 1 - 1)
  BY DEF FirstReads
<1> QED BY <1>1, <1>2, Zenon

-----------------------------------------------------------------------------
(* The solver's frames.                                                     *)

LEMMA OwnElements ==
  ASSUME NEW S, NEW s \in Seq(S)
  PROVE  s \in Seq(ToSet(s))
<1>1. s \in [1 .. Len(s) -> S] /\ Len(s) \in Nat /\ DOMAIN s = 1 .. Len(s)
  OBVIOUS
<1>2. \A i \in 1 .. Len(s) : s[i] \in ToSet(s)
  BY <1>1 DEF ToSet
<1>3. s \in [1 .. Len(s) -> ToSet(s)]
  BY <1>1, <1>2
<1> QED BY <1>1, <1>3

\* StepForward and StepBackward touch no other frame.
LEMMA Stepping ==
  ASSUME NEW s, s \in Seq(ToSet(s))
  PROVE  /\ StepForward(s) \in Seq(ToSet(StepForward(s)))
         /\ Len(StepForward(s)) = Len(s) + 1
         /\ \A k \in 1 .. Len(s) : StepForward(s)[k] = s[k]
         /\ StepForward(s)[Len(s) + 1].holds = Input
         /\ s # <<>> => /\ StepBackward(s) \in Seq(ToSet(StepBackward(s)))
                        /\ Len(StepBackward(s)) = Len(s) - 1
                        /\ \A k \in 1 .. Len(s) - 1 : StepBackward(s)[k] = s[k]
<1> DEFINE S == ToSet(s) \cup {NoFormula}
<1>1. s \in Seq(S)
  OBVIOUS
<1> HIDE DEF S
<1>2. Append(s, NoFormula) \in Seq(S)
  BY <1>1 DEF S
<1>3. StepForward(s) \in Seq(ToSet(StepForward(s)))
  BY <1>2, OwnElements DEF StepForward
<1>4. /\ Len(StepForward(s)) = Len(s) + 1
      /\ \A k \in 1 .. Len(s) : StepForward(s)[k] = s[k]
      /\ StepForward(s)[Len(s) + 1] = NoFormula
  BY <1>1, Appended DEF StepForward
<1>5. NoFormula.holds = Input
  BY DEF NoFormula
<1>6. ASSUME s # <<>>
      PROVE  /\ StepBackward(s) \in Seq(ToSet(StepBackward(s)))
             /\ Len(StepBackward(s)) = Len(s) - 1
             /\ \A k \in 1 .. Len(s) - 1 : StepBackward(s)[k] = s[k]
  <2>1. Front(s) \in Seq(S)
    BY <1>1, <1>6, Shortened
  <2>2. Front(s) \in Seq(ToSet(Front(s)))
    BY <2>1, OwnElements
  <2> QED BY <1>1, <1>6, <2>2, Shortened DEF StepBackward
<1> QED BY <1>3, <1>4, <1>5, <1>6

\* An assertion narrows the last frame.
LEMMA Asserting ==
  ASSUME NEW s, s \in Seq(ToSet(s)), s # <<>>, NEW c
  PROVE  /\ Asserted(s, c) \in Seq(ToSet(Asserted(s, c)))
         /\ Len(Asserted(s, c)) = Len(s)
         /\ \A k \in 1 .. Len(s) - 1 : Asserted(s, c)[k] = s[k]
         /\ Asserted(s, c)[Len(s)].holds = s[Len(s)].holds \cap c.holds
<1> DEFINE n == Len(s)
           f == [vars |-> s[n].vars \cup c.vars, holds |-> s[n].holds \cap c.holds]
           r == [s EXCEPT ![n] = f]
           S == ToSet(s) \cup {f}
<1>1. Asserted(s, c) = r
  BY DEF Asserted
<1>2. n \in Nat \ {0} /\ s \in [1 .. n -> ToSet(s)]
  OBVIOUS
<1>3. f.holds = s[n].holds \cap c.holds
  OBVIOUS
<1> HIDE DEF f, n
<1>4. r \in [1 .. n -> S] /\ r[n] = f /\ \A k \in 1 .. n - 1 : r[k] = s[k]
  BY <1>2
<1> HIDE DEF r, S
<1>5. r \in Seq(S) /\ Len(r) = n
  BY <1>2, <1>4
<1>6. r \in Seq(ToSet(r))
  BY <1>5, OwnElements
<1> QED BY <1>1, <1>3, <1>4, <1>5, <1>6 DEF n

-----------------------------------------------------------------------------
(* The log of locks.                                                        *)

\* Popping while the last entry is to be undone leaves the entries of earlier steps.
LEMMA LeftSplits ==
  ASSUME NEW log \in Seq(Lock), step \in Nat,
         NEW m \in 0 .. Len(log), Splits(log, step, m)
  PROVE  Left(log) \in 0 .. Len(log) /\ Splits(log, step, Left(log))
<1> DEFINE P(n) == /\ n = 0 \/ ~IsUndone(log[n])
                   /\ \A i \in n + 1 .. Len(log) : IsUndone(log[i])
<1>1. Len(log) \in Nat /\ \A i \in 1 .. Len(log) : log[i].step \in Nat
  <2>1. \A i \in 1 .. Len(log) : log[i] \in Lock
    OBVIOUS
  <2> QED BY <2>1 DEF Lock
<1>2. \A i \in 1 .. Len(log) : IsUndone(log[i]) <=> log[i].step >= step
  BY <1>1 DEF IsUndone
<1>3. P(m)
  <2>1. m = 0 \/ m \in 1 .. m
    OBVIOUS
  <2> QED BY <1>1, <1>2, <2>1 DEF Splits
<1>4. Left(log) = CHOOSE n \in 0 .. Len(log) : P(n)
  BY DEF Left
<1> DEFINE n == Left(log)
<1>5. n \in 0 .. Len(log) /\ P(n)
  <2> HIDE DEF P
  <2> QED BY <1>3, <1>4
<1> HIDE DEF n
<1>6. n <= m
  <2> SUFFICES ASSUME n > m PROVE FALSE
    BY <1>5
  <2>1. n \in m + 1 .. Len(log) /\ n \in 1 .. Len(log)
    BY <1>1, <1>5
  <2>2. log[n].step >= step
    BY <2>1 DEF Splits
  <2> QED BY <1>2, <1>5, <2>1, <2>2
<1>7. Splits(log, step, n)
  <2>1. \A i \in 1 .. n : i \in 1 .. m
    BY <1>5, <1>6
  <2>2. \A i \in n + 1 .. Len(log) : i \in 1 .. Len(log)
    BY <1>5
  <2> QED BY <1>2, <1>5, <2>1, <2>2 DEF Splits
<1> QED BY <1>5, <1>7 DEF n

\* Kept and Undone, given where the log is split.
LEMMA KeptAndUndone ==
  ASSUME NEW log \in Seq(Lock), Left(log) \in 0 .. Len(log)
  PROVE  /\ Kept(log) \in Seq(Lock) /\ Len(Kept(log)) = Left(log)
         /\ \A i \in 1 .. Left(log) : Kept(log)[i] = log[i]
         /\ \A v : v \in ToSet(Undone(log))
                    <=> \E i \in Left(log) + 1 .. Len(log) : log[i].item = v
<1> DEFINE n == Left(log)
<1>1. Len(log) \in Nat /\ \A i \in 1 .. n : log[i] \in Lock
  OBVIOUS
<1>2. /\ Kept(log) \in Seq(Lock) /\ Len(Kept(log)) = IF 1 <= n THEN n - 1 + 1 ELSE 0
      /\ \A i \in 1 .. n - 1 + 1 : Kept(log)[i] = log[1 + i - 1]
  <2> HIDE DEF n
  <2>1. Kept(log) = SubSeq(log, 1, n)
    BY DEF Kept, n
  <2>2. n \in Int
    BY DEF n
  <2> QED BY <1>1, <2>1, <2>2, SubSeqProperties
<1>3. ASSUME NEW v
      PROVE  v \in ToSet(Undone(log)) <=> \E i \in n + 1 .. Len(log) : log[i].item = v
  <2> DEFINE u == [i \in 1 .. Len(log) - n |-> log[Len(log) + 1 - i].item]
  <2>1. Undone(log) = u /\ DOMAIN u = 1 .. Len(log) - n
    BY DEF Undone
  <2>2. v \in ToSet(u) <=> \E i \in 1 .. Len(log) - n : log[Len(log) + 1 - i].item = v
    BY DEF ToSet
  <2>3. ASSUME NEW i \in 1 .. Len(log) - n
        PROVE  Len(log) + 1 - i \in n + 1 .. Len(log)
    BY <1>1
  <2>4. ASSUME NEW i \in n + 1 .. Len(log)
        PROVE  /\ Len(log) + 1 - i \in 1 .. Len(log) - n
               /\ Len(log) + 1 - (Len(log) + 1 - i) = i
    BY <1>1
  <2> HIDE DEF n, u
  <2> QED BY <2>1, <2>2, <2>3, <2>4
<1>4. Len(Kept(log)) = n /\ \A i \in 1 .. n : Kept(log)[i] = log[i]
  <2> HIDE DEF n
  <2>1. n \in Nat
    BY DEF n
  <2>2. n - 1 + 1 = n /\ \A i \in 1 .. n : 1 + i - 1 = i
    BY <2>1
  <2> QED BY <1>2, <2>1, <2>2
<1> QED BY <1>2, <1>3, <1>4

\* GoesBack: what the last block read first is unlocked, and nothing else.
LEMMA Unlocking ==
  ASSUME NEW p \in Seq(Block), NEW b \in Block, NEW log, NEW set,
         LogRight(Append(p, b), log, set), step = Len(p)
  PROVE  LogRight(p, Kept(log), set \ ToSet(Undone(log)))
<1> DEFINE q == Append(p, b)
           n == Left(log)
           k == Kept(log)
<1>1. /\ Len(p) \in Nat /\ Len(q) = Len(p) + 1
      /\ \A i \in 1 .. Len(p) : q[i] = p[i]
  BY Appended
<1>2. /\ \A i \in 0 .. Len(p) : ReadsTo(q, i) = ReadsTo(p, i)
      /\ ReadsTo(p, Len(p)) \subseteq ReadsTo(q, Len(q))
      /\ \A i \in 0 .. Len(p) : ReadsTo(p, i) \subseteq ReadsTo(p, Len(p))
  BY <1>1, ReadsOfPath
<1> HIDE DEF q
<1>3. /\ log \in Seq(Lock) /\ Len(log) \in Nat /\ set = ReadsTo(q, Len(q))
      /\ \A i \in 1 .. Len(log) : log[i].step \in Nat
  <2>1. log \in Seq(Lock) /\ set = ReadsTo(q, Len(q))
    BY DEF LogRight, q
  <2>2. Len(log) \in Nat /\ \A i \in 1 .. Len(log) : log[i] \in Lock
    BY <2>1
  <2> QED BY <2>1, <2>2 DEF Lock
<1>4. /\ \A i \in 1 .. Len(log) : FirstReads(q, log[i].item, log[i].step + 1)
      /\ \A v \in set : \E i \in 1 .. Len(log) : log[i].item = v
      /\ \A i, j \in 1 .. Len(log) : log[i].item = log[j].item => i = j
      /\ \A s \in 0 .. Len(q) : \E m \in 0 .. Len(log) : Splits(log, s, m)
  BY DEF LogRight, q
<1>5. n \in 0 .. Len(log) /\ Splits(log, Len(p), n)
  <2>1. step \in 0 .. Len(q)
    BY <1>1
  <2>2. PICK m \in 0 .. Len(log) : Splits(log, step, m)
    BY <1>4, <2>1
  <2> QED BY <1>1, <1>3, <2>2, LeftSplits
<1>6. /\ k \in Seq(Lock) /\ Len(k) = n /\ \A i \in 1 .. n : k[i] = log[i]
      /\ \A v : v \in ToSet(Undone(log)) <=> \E i \in n + 1 .. Len(log) : log[i].item = v
  BY <1>3, <1>5, KeptAndUndone
<1> HIDE DEF n, k
<1>7. /\ \A i \in 1 .. n : i \in 1 .. Len(log) /\ log[i].step < Len(p)
      /\ \A i \in n + 1 .. Len(log) : i \in 1 .. Len(log) /\ log[i].step >= Len(p)
  BY <1>3, <1>5 DEF Splits
<1>8. ASSUME NEW i \in 1 .. n
      PROVE  FirstReads(p, k[i].item, k[i].step + 1)
  <2>1. FirstReads(q, log[i].item, log[i].step + 1) /\ log[i].step + 1 \in 1 .. Len(p)
    BY <1>1, <1>3, <1>4, <1>7
  <2> QED BY <1>2, <1>1, <1>6, <2>1 DEF FirstReads
<1>9. ASSUME NEW i \in n + 1 .. Len(log)
      PROVE  log[i].item \notin ReadsTo(p, Len(p))
  <2>1. i \in 1 .. Len(log) /\ log[i].step >= Len(p) /\ log[i].step \in Nat
    BY <1>3, <1>7
  <2>2. FirstReads(q, log[i].item, log[i].step + 1)
    BY <1>4, <2>1
  <2>3. log[i].step = Len(p)
    BY <1>1, <2>1, <2>2 DEF FirstReads
  <2>4. log[i].item \notin ReadsTo(q, Len(p))
    BY <2>1, <2>2, <2>3, FirstOf
  <2>5. ReadsTo(q, Len(p)) = ReadsTo(p, Len(p))
    BY <1>1, <1>2
  <2> QED BY <2>4, <2>5
<1>10. ASSUME NEW v
       PROVE  v \in set \ ToSet(Undone(log)) <=> v \in ReadsTo(p, Len(p))
  <2>1. ASSUME v \in ReadsTo(p, Len(p))
        PROVE  v \in set \ ToSet(Undone(log))
    BY <2>1, <1>2, <1>3, <1>6, <1>9
  <2>2. ASSUME v \in set, v \notin ToSet(Undone(log))
        PROVE  v \in ReadsTo(p, Len(p))
    <3>1. PICK i \in 1 .. Len(log) : log[i].item = v
      BY <1>4, <2>2
    <3>2. i \in 1 .. n
      BY <1>3, <1>5, <1>6, <2>2, <3>1
    <3>3. FirstReads(p, v, k[i].step + 1)
      BY <1>6, <1>8, <3>1, <3>2
    <3> QED BY <3>3, InReadsTo DEF FirstReads
  <2> QED BY <2>1, <2>2
<1>11. \A v \in set \ ToSet(Undone(log)) : \E i \in 1 .. n : k[i].item = v
  <2> SUFFICES ASSUME NEW v \in set, v \notin ToSet(Undone(log))
               PROVE  \E i \in 1 .. n : k[i].item = v
    OBVIOUS
  <2>1. PICK i \in 1 .. Len(log) : log[i].item = v
    BY <1>4
  <2>2. i \in 1 .. n
    BY <1>3, <1>5, <1>6, <2>1
  <2> QED BY <1>6, <2>1, <2>2
<1>12. \A i, j \in 1 .. n : k[i].item = k[j].item => i = j
  BY <1>4, <1>6, <1>7
<1>13. ASSUME NEW s \in 0 .. Len(p)
       PROVE  \E m \in 0 .. n : Splits(k, s, m)
  <2>1. s \in 0 .. Len(q)
    BY <1>1
  <2>2. PICK m \in 0 .. Len(log) : Splits(log, s, m)
    BY <1>4, <2>1
  <2>3. CASE m <= n
    <3>1. m \in 0 .. n /\ \A i \in 1 .. m : i \in 1 .. n
      BY <1>3, <1>5, <2>3
    <3>2. \A i \in m + 1 .. n : i \in m + 1 .. Len(log) /\ i \in 1 .. n
      BY <1>3, <1>5, <2>3
    <3>3. Splits(k, s, m)
      BY <1>6, <2>2, <3>1, <3>2 DEF Splits
    <3> QED BY <3>1, <3>3
  <2>4. CASE m > n
    <3>1. \A i \in 1 .. n : i \in 1 .. m
      BY <1>5, <2>4
    <3>2. Splits(k, s, n)
      BY <1>5, <1>6, <2>2, <3>1 DEF Splits
    <3> QED BY <1>5, <3>2
  <2> QED BY <1>5, <2>3, <2>4
<1> QED BY <1>6, <1>8, <1>10, <1>11, <1>12, <1>13 DEF LogRight, k

\* The library's sequence of a finite set has each of its elements once.
LEMMA Listing ==
  ASSUME NEW S, IsFiniteSet(S)
  PROVE  /\ Cardinality(S) \in Nat
         /\ SetToSeq(S) \in [1 .. Cardinality(S) -> S]
         /\ \A i, j \in 1 .. Cardinality(S) : SetToSeq(S)[i] = SetToSeq(S)[j] => i = j
         /\ \A x \in S : \E i \in 1 .. Cardinality(S) : SetToSeq(S)[i] = x
<1> DEFINE c == Cardinality(S)
           D == 1 .. c
           f == SetToSeq(S)
<1>1. c \in Nat /\ ExistsBijection(D, S)
  BY FS_CardinalityType
<1>2. f = CHOOSE g \in [D -> S] : IsInjective(g)
  BY DEF SetToSeq
<1>3. PICK g \in [D -> S] : IsInjective(g)
  BY <1>1 DEF ExistsBijection, Bijection, Injection
<1> HIDE DEF f, D, c
<1>4. f \in [D -> S] /\ IsInjective(f)
  BY <1>2, <1>3
<1>5. f \in Injection(D, S)
  BY <1>4 DEF Injection
<1>6. Cardinality(D) = c
  <2>1. c \in Int /\ D = 1 .. c
    BY <1>1 DEF D
  <2>2. Cardinality(D) = IF 1 > c THEN 0 ELSE c - 1 + 1
    BY <2>1, FS_Interval
  <2> QED BY <1>1, <2>2
<1>7. f \in Surjection(D, S)
  BY <1>5, <1>6, FS_Injection DEF c
<1>8. \A i, j \in D : f[i] = f[j] => i = j
  BY <1>4 DEF IsInjective
<1>9. \A x \in S : \E i \in D : f[i] = x
  BY <1>7 DEF Surjection
<1> QED BY <1>1, <1>4, <1>8, <1>9 DEF f, D, c

\* A log that holds no variable twice is not longer than there are variables.
LEMMA LogFits ==
  ASSUME IsFiniteSet(Variable), NEW log \in Seq(Lock),
         \A i, j \in 1 .. Len(log) : log[i].item = log[j].item => i = j
  PROVE  Len(log) <= Cardinality(Variable)
<1> DEFINE n == Len(log)
           f == [i \in 1 .. n |-> log[i].item]
<1>1. n \in Nat /\ \A i \in 1 .. n : log[i].item \in Variable
  <2>1. n \in Nat /\ \A i \in 1 .. n : log[i] \in Lock
    OBVIOUS
  <2> QED BY <2>1 DEF Lock
<1>2. f \in [1 .. n -> Variable] /\ IsInjective(f)
  BY <1>1 DEF IsInjective
<1>3. f \in Injection(1 .. n, Variable)
  BY <1>2 DEF Injection
<1> HIDE DEF f, n
<1>4. Cardinality(1 .. n) <= Cardinality(Variable)
  BY <1>3, FS_Injection
<1>5. Cardinality(1 .. n) = IF 1 > n THEN 0 ELSE n - 1 + 1
  BY <1>1, FS_Interval
<1>6. Cardinality(1 .. n) = n
  BY <1>1, <1>5
<1> QED BY <1>4, <1>6 DEF n

\* TrackCallback: what the block is the first to read is locked, and the log, which
\* has room for every variable, has it.
LEMMA Locking ==
  ASSUME IsFiniteSet(Variable), Cardinality(Variable) <= LogSize,
         NEW p \in Seq(Block), NEW b \in Block, LogRight(p, locks, locked), step = Len(p)
  PROVE  LogRight(Append(p, b), Logged(locks, SetToSeq(Reads[b] \ locked), LogSize),
                  locked \cup (Reads[b] \ locked))
<1> DEFINE q   == Append(p, b)
           new == Reads[b] \ locked
           c   == Cardinality(new)
           ns  == SetToSeq(new)
           e   == [i \in 1 .. Len(ns) |-> [item |-> ns[i], step |-> step]]
           all == locks \o e
           n   == Len(locks)
<1>1. /\ Len(p) \in Nat /\ Len(q) = Len(p) + 1 /\ q[Len(p) + 1] = b
      /\ \A i \in 1 .. Len(p) : q[i] = p[i]
  BY Appended
<1>2. /\ \A i \in 0 .. Len(p) : ReadsTo(q, i) = ReadsTo(p, i)
      /\ ReadsTo(q, Len(q)) = ReadsTo(p, Len(p)) \cup Reads[b]
  BY <1>1, ReadsOfPath
<1>3. /\ locks \in Seq(Lock) /\ n \in Nat /\ locked = ReadsTo(p, Len(p))
      /\ \A i \in 1 .. n : FirstReads(p, locks[i].item, locks[i].step + 1)
      /\ \A v \in locked : \E i \in 1 .. n : locks[i].item = v
      /\ \A i, j \in 1 .. n : locks[i].item = locks[j].item => i = j
      /\ \A s \in 0 .. Len(p) : \E m \in 0 .. n : Splits(locks, s, m)
  BY DEF LogRight
<1>4. new \subseteq Variable /\ IsFiniteSet(new)
  <2>1. Reads[b] \in SUBSET Variable
    BY ExplorerAssumption
  <2> QED BY <2>1, FS_Subset
<1>5. /\ c \in Nat /\ ns \in [1 .. c -> new]
      /\ \A i, j \in 1 .. c : ns[i] = ns[j] => i = j
      /\ \A v \in new : \E i \in 1 .. c : ns[i] = v
  <2> HIDE DEF new
  <2> QED BY <1>4, Listing
<1> HIDE DEF ns, c
<1>6. Len(ns) = c
  BY <1>5
<1>7. /\ e \in Seq(Lock) /\ Len(e) = c
      /\ \A i \in 1 .. c : e[i].item = ns[i] /\ e[i].step = Len(p)
  <2>1. \A i \in 1 .. c : [item |-> ns[i], step |-> step] \in Lock
    BY <1>1, <1>4, <1>5 DEF Lock
  <2> QED BY <1>5, <1>6, <2>1
<1> HIDE DEF e, q, n, new
<1>8. /\ all \in Seq(Lock) /\ Len(all) = n + c
      /\ \A i \in 1 .. n + c : all[i] = IF i <= n THEN locks[i] ELSE e[i - n]
  <2>1. /\ all \in Seq(Lock) /\ Len(all) = Len(locks) + Len(e)
        /\ \A i \in 1 .. Len(locks) + Len(e) :
             all[i] = IF i <= Len(locks) THEN locks[i] ELSE e[i - Len(locks)]
    <3>1. locks \in Seq(Lock) /\ e \in Seq(Lock)
      BY <1>3, <1>7
    <3> QED BY <3>1, ConcatProperties, Zenon DEF all
  <2> QED BY <1>7, <2>1 DEF n
<1> HIDE DEF all
<1>9. ASSUME NEW i \in 1 .. n
      PROVE  i \in 1 .. n + c /\ all[i] = locks[i]
  BY <1>3, <1>5, <1>8
<1>10. ASSUME NEW i \in n + 1 .. n + c
       PROVE  /\ i \in 1 .. n + c /\ i - n \in 1 .. c
              /\ all[i].item = ns[i - n] /\ all[i].step = Len(p) /\ all[i].item \in new
  <2>1. i \in 1 .. n + c /\ i - n \in 1 .. c /\ ~(i <= n)
    BY <1>3, <1>5
  <2>2. all[i] = e[i - n]
    BY <1>8, <2>1
  <2> QED BY <1>5, <1>7, <2>1, <2>2
<1>11. \A i \in 1 .. n + c : i \in 1 .. n \/ i \in n + 1 .. n + c
  BY <1>3, <1>5
<1>12. ASSUME NEW i \in 1 .. n
       PROVE  all[i].item \in locked /\ all[i].step \in 0 .. Len(p) - 1
  <2>1. FirstReads(p, locks[i].item, locks[i].step + 1) /\ locks[i] \in Lock
    BY <1>3 DEF n
  <2>2. locks[i].item \in ReadsTo(p, Len(p))
    BY <2>1, InReadsTo DEF FirstReads
  <2>3. locks[i].step \in 0 .. Len(p) - 1
    BY <1>1, <2>1 DEF FirstReads, Lock
  <2> QED BY <1>3, <1>9, <2>2, <2>3
<1>13. ASSUME NEW i \in 1 .. n + c
       PROVE  FirstReads(q, all[i].item, all[i].step + 1)
  <2>1. CASE i \in 1 .. n
    <3>1. FirstReads(p, all[i].item, all[i].step + 1)
      BY <1>3, <1>9, <2>1
    <3>2. all[i].step + 1 \in 1 .. Len(p) /\ all[i].step + 1 - 1 \in 0 .. Len(p)
      BY <1>1, <1>12, <2>1
    <3> QED BY <1>1, <1>2, <3>1, <3>2 DEF FirstReads
  <2>2. CASE i \in n + 1 .. n + c
    <3>1. all[i].item \in Reads[b] \ locked /\ all[i].step = Len(p)
      BY <1>10, <2>2 DEF new
    <3>2. all[i].step + 1 = Len(p) + 1 /\ Len(p) + 1 - 1 = Len(p) /\ Len(p) + 1 \in 1 .. Len(q)
      BY <1>1, <3>1
    <3>3. ReadsTo(q, Len(p)) = locked
      BY <1>1, <1>2, <1>3
    <3> QED BY <1>1, <3>1, <3>2, <3>3 DEF FirstReads
  <2> QED BY <1>11, <2>1, <2>2
<1>14. \A v \in locked \cup new : \E i \in 1 .. n + c : all[i].item = v
  <2>1. ASSUME NEW v \in locked PROVE \E i \in 1 .. n + c : all[i].item = v
    BY <1>3, <1>9
  <2>2. ASSUME NEW v \in new PROVE \E i \in 1 .. n + c : all[i].item = v
    <3>1. PICK i \in 1 .. c : ns[i] = v
      BY <1>5
    <3>2. PICK j \in n + 1 .. n + c : j - n = i
      <4>1. i + n \in n + 1 .. n + c /\ (i + n) - n = i
        BY <1>3, <1>5
      <4> QED BY <4>1
    <3> QED BY <1>10, <3>1, <3>2
  <2> QED BY <2>1, <2>2
<1>15. ASSUME NEW i \in 1 .. n + c, NEW j \in 1 .. n + c, all[i].item = all[j].item
       PROVE  i = j
  <2>1. CASE i \in 1 .. n /\ j \in 1 .. n
    BY <1>3, <1>9, <1>15, <2>1
  <2>2. CASE i \in n + 1 .. n + c /\ j \in n + 1 .. n + c
    <3>1. i - n = j - n
      BY <1>5, <1>10, <1>15, <2>2
    <3> QED BY <1>3, <3>1
  <2>3. \A k \in n + 1 .. n + c : all[k].item \notin locked
    BY <1>10 DEF new
  <2> QED BY <1>11, <1>12, <1>15, <2>1, <2>2, <2>3
<1>16. ASSUME NEW s \in 0 .. Len(q)
       PROVE  \E m \in 0 .. n + c : Splits(all, s, m)
  <2>1. CASE s = Len(q)
    <3>1. \A i \in 1 .. n + c : all[i].step < s
      BY <1>1, <1>10, <1>11, <1>12, <2>1
    <3>2. Splits(all, s, n + c)
      BY <1>3, <1>5, <1>8, <3>1 DEF Splits
    <3> QED BY <1>3, <1>5, <3>2
  <2>2. CASE s # Len(q)
    <3>1. s \in 0 .. Len(p)
      BY <1>1, <2>2
    <3>2. PICK m \in 0 .. n : Splits(locks, s, m)
      BY <1>3, <3>1
    <3>3. \A i \in 1 .. m : i \in 1 .. n
      BY <1>3, <3>2
    <3>4. \A i \in 1 .. m : all[i].step < s
      BY <1>9, <3>2, <3>3 DEF Splits
    <3>5. ASSUME NEW i \in m + 1 .. n + c PROVE all[i].step >= s
      <4>1. CASE i \in m + 1 .. n
        BY <1>3, <1>9, <3>2, <4>1 DEF Splits, n
      <4>2. CASE i \in n + 1 .. n + c
        BY <1>1, <1>10, <3>1, <4>2
      <4> QED BY <1>3, <1>5, <3>2, <4>1, <4>2
    <3>6. Splits(all, s, m) /\ m \in 0 .. n + c
      BY <1>3, <1>5, <1>8, <3>2, <3>4, <3>5 DEF Splits
    <3> QED BY <3>6
  <2> QED BY <2>1, <2>2
<1>17. Len(all) <= LogSize
  <2>1. Len(all) <= Cardinality(Variable)
    BY <1>8, <1>15, LogFits
  <2>2. Cardinality(Variable) \in Nat /\ LogSize \in Nat /\ Len(all) \in Nat
    BY <1>8, FS_CardinalityType, ExplorerAssumption
  <2> QED BY <2>1, <2>2
<1>18. Logged(locks, ns, LogSize) = all
  <2>1. Logged(locks, ns, LogSize)
          = SubSeq(all, 1, IF Len(all) < LogSize THEN Len(all) ELSE LogSize)
    BY DEF Logged, all, e
  <2>2. (IF Len(all) < LogSize THEN Len(all) ELSE LogSize) = Len(all)
    BY <1>8, <1>17, ExplorerAssumption
  <2>3. SubSeq(all, 1, Len(all)) = all
    BY <1>8
  <2> QED BY <2>1, <2>2, <2>3
<1>19. locked \cup new = ReadsTo(q, Len(q))
  BY <1>2, <1>3 DEF new
<1>20. LogRight(q, all, locked \cup new)
  BY <1>8, <1>13, <1>14, <1>15, <1>16, <1>19 DEF LogRight
<1> QED BY <1>18, <1>20 DEF q, new, ns

-----------------------------------------------------------------------------
(* The steps of a path, and the conditions they stand for.                  *)

LEMMA StepsOfPath ==
  ASSUME NEW S, NEW p \in Seq(S), NEW c
  PROVE  /\ \A k \in 1 .. Len(p) - 1 : TakesStep(Append(p, c), k) = TakesStep(p, k)
         /\ p # <<>> => TakesStep(Append(p, c), Len(p))
                          = {x \in Input : SuccessorOf(p[Len(p)], x) = c}
<1> DEFINE q == Append(p, c)
<1>1. Len(p) \in Nat /\ (p # <<>> => Len(p) \in 1 .. Len(p))
  OBVIOUS
<1>2. q[Len(p) + 1] = c /\ \A k \in 1 .. Len(p) : q[k] = p[k]
  BY Appended
<1> HIDE DEF q
<1>3. ASSUME NEW k \in 1 .. Len(p) - 1 PROVE TakesStep(q, k) = TakesStep(p, k)
  <2>1. q[k] = p[k] /\ q[k + 1] = p[k + 1]
    BY <1>1, <1>2
  <2> QED BY <2>1 DEF TakesStep
<1>4. p # <<>> => TakesStep(q, Len(p)) = {x \in Input : SuccessorOf(p[Len(p)], x) = c}
  BY <1>1, <1>2 DEF TakesStep
<1> QED BY <1>3, <1>4 DEF q

\* The condition that a branch hands over holds for the inputs that take it, and one
\* of them is there.
LEMMA Outcome ==
  ASSUME NEW b \in Block, NEW x \in Input, NEW c, c = SuccessorOf(b, x),
         NEW T, T = {y \in Input : SuccessorOf(b, y) = c}
  PROVE  /\ c \in Block \cup {NoBlock} /\ x \in T /\ T \subseteq Input
         /\ Branches(b) => T = Taken(b, x).holds /\ c # NoBlock
         /\ ~Branches(b) => T = Input
         /\ Taken(b, x) \in Condition
<1>1. Successors[b] \in (Block \cup {NoBlock}) \X (Block \cup {NoBlock})
  BY ExplorerAssumption
<1>2. Successors[b][1] \in Block \cup {NoBlock} /\ Successors[b][2] \in Block \cup {NoBlock}
  BY <1>1
<1>3. \A y : SuccessorOf(b, y) = IF Holds(b, y) THEN Successors[b][1] ELSE Successors[b][2]
  BY DEF SuccessorOf
<1>4. Test[b] \in [vars : SUBSET Variable, holds : SUBSET Input]
  BY ExplorerAssumption
<1>5. c \in Block \cup {NoBlock} /\ x \in T /\ T \subseteq Input
  BY <1>2, <1>3
<1>6. ASSUME ~Branches(b) PROVE T = Input
  BY <1>3, <1>6 DEF Branches
<1>7. /\ Taken(b, x) \in Condition
      /\ Taken(b, x).holds = IF Holds(b, x) THEN Test[b].holds ELSE Input \ Test[b].holds
  BY <1>4 DEF Taken, Not, Condition
<1>8. ASSUME Branches(b) PROVE T = Taken(b, x).holds /\ c # NoBlock
  <2>1. \A y \in Input : y \in T <=> (Holds(b, y) <=> Holds(b, x))
    BY <1>3, <1>8 DEF Branches
  <2>2. \A y \in Input : y \in T <=> y \in Taken(b, x).holds
    BY <1>7, <2>1 DEF Holds
  <2>3. T = Taken(b, x).holds
    BY <1>4, <1>5, <1>7, <2>2
  <2>4. c # NoBlock
    BY <1>3, <1>8, BranchAssumption DEF Branches
  <2> QED BY <2>3, <2>4
<1> QED BY <1>5, <1>6, <1>7, <1>8

-----------------------------------------------------------------------------
(* The invariant.                                                           *)

USE DEF GoingBack, Trail, Opened, Settled

LEMMA Initially == Init => IInv
<1> SUFFICES ASSUME Init PROVE IInv
  OBVIOUS
<1>1. pc \in Block /\ input \in Input /\ [v \in Variable |-> 0] \in Input
  BY ExplorerAssumption DEF Init, Input
<1>2. reports \in BOOLEAN /\ None \in Condition
  BY ExplorerAssumption DEF Init, None, Condition
<1>3. <<NoFormula>> \in Seq(ToSet(<<NoFormula>>))
  <2>1. <<NoFormula>> \in Seq({NoFormula})
    OBVIOUS
  <2> QED BY <2>1, OwnElements
<1>4. /\ <<[v \in Variable |-> 0]>> \in Seq(Input)
      /\ Len(<<[v \in Variable |-> 0]>>) = Len(<<>>) + 1
  BY <1>1
<1>5. Typed
  BY <1>1, <1>2, <1>3, <1>4 DEF Init, Typed
<1>6. Flow /\ FramesRight /\ LocksRight /\ ReadRight
  BY <1>1 DEF Init, Flow, FramesRight, LocksRight, ReadRight, Running
<1>7. ConditionRight
  BY DEF Init, ConditionRight, Pending, IsUndefined, None
<1> QED BY <1>5, <1>6, <1>7 DEF IInv

LEMMA BeginKeeps == IInv /\ ExecutionBegin => IInv'
<1> SUFFICES ASSUME IInv, ExecutionBegin PROVE IInv'
  OBVIOUS
<1>1. Typed'
  BY DEF IInv, Typed, ExecutionBegin, program, executor, search
<1>2. CASE call' = "done"
  BY <1>1, <1>2 DEF IInv, Flow, FramesRight, ConditionRight, LocksRight, ReadRight, Running,
     ExecutionBegin, program, executor, search, lock, Pending
<1>3. CASE call' = "run"
  <2>1. /\ path = <<>> /\ pc \in Block /\ solver = <<NoFormula>> /\ locks = <<>> /\ locked = {}
        /\ step = 0 /\ lastDirection = "ADVANCE" /\ call = "begin"
    BY <1>3 DEF IInv, Flow, ExecutionBegin
  <2>2. /\ path' = <<>> /\ pc' \in Block /\ solver' = <<NoFormula>> /\ locks' = <<>>
        /\ locked' = {} /\ step' = 0 /\ lastDirection' = "ADVANCE"
    BY <1>3, <2>1 DEF ExecutionBegin, program, executor, search, lock
  <2>3. Flow'
    BY <1>3, <2>2 DEF Flow
  <2>4. FramesRight'
    BY <1>3, <2>2 DEF FramesRight, NoFormula
  <2>5. ConditionRight'
    BY <1>3, <2>1 DEF IInv, ConditionRight, ExecutionBegin, executor, Pending, program, search
  <2>6. LogRight(<<>>, <<>>, {})
    <3>1. ReadsTo(<<>>, 0) = {}
      BY DEF ReadsTo
    <3>2. Splits(<<>>, 0, 0)
      BY DEF Splits
    <3> QED BY <3>1, <3>2 DEF LogRight
  <2>7. LocksRight'
    BY <1>3, <2>2, <2>6 DEF LocksRight
  <2>8. ReadRight'
    BY <1>3, <2>2 DEF ReadRight, ReadsTo
  <2> QED BY <1>1, <2>3, <2>4, <2>5, <2>7, <2>8 DEF IInv
<1> QED BY <1>2, <1>3 DEF ExecutionBegin

LEMMA RunKeeps ==
  ASSUME IsFiniteSet(Variable), Cardinality(Variable) <= LogSize, IInv, RunBlock
  PROVE  IInv'
<1> DEFINE n    == Len(path)
           held == [v \in Variable |-> IF v \in Reads[pc] THEN input[v] ELSE Last(read)[v]]
<1>1. /\ call = "run" /\ lastDirection = "ADVANCE" /\ pc \in Block
      /\ path \in Seq(Block) /\ n \in Nat /\ input \in Input
      /\ read \in Seq(Input) /\ Len(read) = n + 1 /\ read[n + 1] \in Input
      /\ Last(read) = read[n + 1]
  <2>1. /\ call = "run" /\ lastDirection = "ADVANCE" /\ pc \in Block
        /\ path \in Seq(Block) /\ n \in Nat /\ input \in Input
        /\ read \in Seq(Input) /\ Len(read) = n + 1
    BY DEF IInv, Typed, Flow, RunBlock
  <2> QED BY <2>1 DEF Last
<1>2. held \in Input
  BY <1>1 DEF Input
<1>3. /\ locked' = locked \cup (Reads[pc] \ locked)
      /\ locks' = Logged(locks, SetToSeq(Reads[pc] \ locked), LogSize)
      /\ read' = Append(read, held) /\ path' = Append(path, pc) /\ pc' = SuccessorOf(pc, held)
      /\ lastCondition' = IF reports /\ Branches(pc) THEN Taken(pc, held) ELSE lastCondition
      /\ call' = IF pc' = NoBlock THEN "end" ELSE "control"
      /\ UNCHANGED <<input, reports, solver, executionState, lastDirection, newPass, step>>
  BY <1>1 DEF RunBlock, search
<1> HIDE DEF held
<1> DEFINE T == {y \in Input : SuccessorOf(pc, y) = pc'}
<1>4. /\ pc' \in Block \cup {NoBlock} /\ held \in T /\ T \subseteq Input
      /\ Branches(pc) => T = Taken(pc, held).holds /\ pc' # NoBlock
      /\ ~Branches(pc) => T = Input
      /\ Taken(pc, held) \in Condition
  <2>1. T = {y \in Input : SuccessorOf(pc, y) = pc'} /\ pc' = SuccessorOf(pc, held)
    BY <1>3
  <2> HIDE DEF T
  <2> QED BY <1>1, <1>2, <2>1, Outcome
<1> HIDE DEF T
<1>5. /\ path' \in Seq(Block) /\ Len(path') = n + 1 /\ path' # <<>> /\ path'[n + 1] = pc
      /\ \A k \in 1 .. n : path'[k] = path[k]
  <2>1. path' \in Seq(Block) /\ Len(path') = n + 1
    BY <1>1, <1>3, Appended
  <2> QED BY <1>1, <1>3, <2>1, Appended
<1>6. read' \in Seq(Input) /\ Len(read') = Len(path') + 1
  BY <1>1, <1>2, <1>3, <1>5, Appended
<1>7. Typed'
  <2>1. Typed
    BY DEF IInv
  <2>2. solver' \in Seq(ToSet(solver'))
    BY <1>3, <2>1 DEF Typed
  <2> QED BY <1>3, <1>4, <1>5, <1>6, <2>1, <2>2 DEF Typed
<1>8. Flow'
  BY <1>1, <1>3, <1>4, <1>5 DEF Flow
<1>9. /\ Route \in Seq(Block) /\ Len(Route) = n + 1 /\ Route' = Append(path', pc') /\ path' = Route
  BY <1>1, <1>3, <1>5 DEF Route
<1>10. /\ \A k \in 1 .. n : TakesStep(Route', k) = TakesStep(Route, k)
       /\ TakesStep(Route', n + 1) = T
  <2>1. n + 1 - 1 = n
    BY <1>1
  <2> QED BY <1>5, <1>9, <2>1, StepsOfPath DEF T
<1>11. FramesRight'
  <2>1. /\ Len(solver) = n + 1
        /\ reports => /\ \A k \in 1 .. n : solver[k].holds = TakesStep(Route, k)
                      /\ solver[n + 1].holds = Input
    BY <1>1 DEF IInv, FramesRight, Running
  <2>2. Opened' = n + 1 /\ Settled' = n
    BY <1>1, <1>3, <1>5
  <2> QED BY <1>3, <1>10, <2>1, <2>2 DEF FramesRight
<1>12. ConditionRight'
  <2>1. reports => ~Pending
    BY <1>1 DEF IInv, ConditionRight
  <2>2. Pending' <=> lastCondition'.holds \notin {{}, Input}
    BY DEF Pending, IsUndefined
  <2>3. CASE pc' = NoBlock
    BY <1>3, <1>4, <2>1, <2>3 DEF ConditionRight, Pending
  <2>4. CASE pc' # NoBlock
    <3>1. reports => T = IF Pending' THEN lastCondition'.holds ELSE Input
      BY <1>3, <1>4, <2>1, <2>2 DEF Pending
    <3> QED BY <1>1, <1>3, <1>5, <1>10, <2>4, <3>1 DEF ConditionRight
  <2> QED BY <2>3, <2>4
<1>13. LocksRight'
  <2>1. step = n /\ LogRight(path, locks, locked)
    BY <1>1 DEF IInv, LocksRight, Running
  <2>2. LogRight(path', locks', locked')
    BY <1>1, <1>3, <2>1, Locking
  <2> QED BY <1>1, <1>3, <1>5, <2>1, <2>2 DEF LocksRight
<1>14. ReadRight'
  <2> SUFFICES ASSUME NEW k \in 1 .. n + 2, NEW v \in ReadsTo(path', k - 1)
               PROVE  read'[k][v] = input[v]
    BY <1>1, <1>3, <1>5 DEF ReadRight
  <2>1. \A j \in 1 .. n + 1 : \A w \in ReadsTo(path, j - 1) : read[j][w] = input[w]
    BY <1>1 DEF IInv, ReadRight, Running
  <2>2. CASE k \in 1 .. n + 1
    <3>1. k - 1 \in 0 .. n /\ ReadsTo(path', k - 1) = ReadsTo(path, k - 1)
      BY <1>1, <1>3, <2>2, ReadsOfPath
    <3>2. read'[k] = read[k]
      BY <1>1, <1>3, <2>2, Appended
    <3> QED BY <2>1, <2>2, <3>1, <3>2
  <2>3. CASE k = n + 2
    <3>1. k - 1 = n + 1 /\ n + 1 - 1 = n /\ n + 1 \in 1 .. n + 1 /\ n + 1 + 1 = n + 2
      BY <1>1, <2>3
    <3>2. read'[k] = held
      BY <1>1, <1>3, <2>3, <3>1, Appended
    <3>3. ReadsTo(path', k - 1) = ReadsTo(path, n) \cup Reads[pc] /\ ReadsTo(path, n) \subseteq Variable
      BY <1>1, <1>3, <3>1, ReadsOfPath
    <3>4. Reads[pc] \subseteq Variable
      <4>1. Reads \in [Block -> SUBSET Variable]
        BY ExplorerAssumption
      <4> QED BY <1>1, <4>1
    <3>5. \A w \in ReadsTo(path, n) : read[n + 1][w] = input[w]
      BY <2>1, <3>1
    <3> QED BY <1>1, <3>2, <3>3, <3>4, <3>5 DEF held
  <2> QED BY <1>1, <2>2, <2>3
<1> QED BY <1>7, <1>8, <1>11, <1>12, <1>13, <1>14 DEF IInv

LEMMA CrashKeeps == IInv /\ Crash => IInv'
<1> SUFFICES ASSUME IInv, Crash PROVE IInv'
  OBVIOUS
<1>1. call' = "crashed" /\ UNCHANGED <<program, reports, executor, search, step, cec, lock>>
  BY DEF Crash
<1>2. Typed' /\ Flow'
  BY <1>1 DEF IInv, Typed, Flow, program, executor, search, lock
<1>3. ~Running' /\ FramesRight' /\ LocksRight' /\ ReadRight'
  BY <1>1 DEF FramesRight, LocksRight, ReadRight, Running
<1>4. ConditionRight'
  <2>1. reports => ~Pending
    BY DEF IInv, ConditionRight, Crash
  <2> QED BY <1>1, <2>1 DEF ConditionRight, Pending, executor
<1> QED BY <1>2, <1>3, <1>4 DEF IInv

LEMMA EndKeeps == IInv /\ ExecutionEnd => IInv'
<1> SUFFICES ASSUME IInv, ExecutionEnd PROVE IInv'
  OBVIOUS
<1>1. /\ call = "end" /\ call' = "undo" /\ lastDirection' = "BACKTRACK"
      /\ executionState' = "BACKTRACKING" /\ path # <<>> /\ lastDirection = "ADVANCE"
      /\ UNCHANGED <<pc, path, input, read, reports, lastCondition, solver, newPass, step,
                     locks, locked>>
  BY DEF IInv, Flow, ExecutionEnd, program, executor, lock
<1>2. Typed' /\ Flow'
  BY <1>1 DEF IInv, Typed, Flow
<1>3. Route' = Route
  BY <1>1 DEF Route
<1>4. FramesRight'
  BY <1>1, <1>3 DEF IInv, FramesRight, Running
<1>5. ConditionRight' /\ LocksRight' /\ ReadRight'
  BY <1>1, <1>3 DEF IInv, ConditionRight, LocksRight, ReadRight, Running, Pending
<1> QED BY <1>2, <1>4, <1>5 DEF IInv

LEMMA UndoKeeps == IInv /\ Undo => IInv'
<1> SUFFICES ASSUME IInv, Undo PROVE IInv'
  OBVIOUS
<1> DEFINE n == Len(path)
<1>1. /\ call = "undo" /\ lastDirection = "BACKTRACK" /\ path # <<>> /\ path \in Seq(Block)
      /\ executionState \in {"BACKTRACKING", "PATCHING"} /\ solver \in Seq(ToSet(solver))
      /\ read \in Seq(Input) /\ Len(read) = n + 1 /\ n \in Nat
  BY DEF IInv, Typed, Flow, Undo
<1>2. /\ pc' = Last(path) /\ path' = Front(path) /\ read' = Front(read)
      /\ call' = IF path' = <<>> THEN "begin" ELSE "control"
      /\ UNCHANGED <<input, reports, lastCondition, solver, executionState, lastDirection, newPass,
                     step, locks, locked>>
  BY DEF Undo, executor, search, lock
<1>3. /\ n \in Nat \ {0} /\ path' \in Seq(Block) /\ Len(path') = n - 1 /\ pc' \in Block
      /\ \A k \in 1 .. n - 1 : path'[k] = path[k]
      /\ Route' = path
  BY <1>1, <1>2, Shortened DEF Route
<1>4. /\ read' \in Seq(Input) /\ Len(read') = n
      /\ \A k \in 1 .. n : read'[k] = read[k]
  <2>1. read # <<>> /\ n + 1 - 1 = n
    BY <1>1
  <2>2. /\ Front(read) \in Seq(Input) /\ Len(Front(read)) = Len(read) - 1
        /\ \A k \in 1 .. Len(read) - 1 : Front(read)[k] = read[k]
    BY <1>1, <2>1, Shortened, Zenon
  <2>3. Len(read) - 1 = n
    BY <1>1, <2>1
  <2> QED BY <1>2, <2>2, <2>3
<1>5. Typed'
  BY <1>2, <1>3, <1>4 DEF IInv, Typed
<1>6. Flow'
  BY <1>1, <1>2, <1>3 DEF Flow
<1>7. Len(solver) = n /\ (reports => \A k \in 1 .. n - 1 : solver[k].holds = TakesStep(path, k))
  <2>1. Len(solver) = n /\ (reports => \A k \in 1 .. n - 1 : solver[k].holds = TakesStep(Route, k))
    BY <1>1 DEF IInv, FramesRight, Running
  <2> QED BY <1>1, <2>1, StepsOfPath DEF Route
<1>8. FramesRight'
  BY <1>1, <1>2, <1>3, <1>7 DEF FramesRight, Running
<1>9. ConditionRight'
  BY <1>1, <1>2 DEF IInv, ConditionRight, Pending
<1>10. LocksRight'
  BY <1>1, <1>2, <1>3 DEF IInv, LocksRight, Running
<1>11. ReadRight'
  <2> SUFFICES ASSUME NEW k \in 1 .. n, NEW v \in ReadsTo(path', k - 1)
               PROVE  read'[k][v] = input[v]
    BY <1>2, <1>3 DEF ReadRight
  <2>1. v \in ReadsTo(path, k - 1)
    <3>1. \A i \in 1 .. k - 1 : path'[i] = path[i]
      BY <1>3
    <3> QED BY <3>1, InReadsTo
  <2> QED BY <1>1, <1>3, <1>4, <2>1 DEF IInv, ReadRight, Running
<1> QED BY <1>5, <1>6, <1>8, <1>9, <1>10, <1>11 DEF IInv

\* What Explore and Restore share: the frame of the step is settled.
LEMMA Advancing ==
  ASSUME IInv, call = "control", lastDirection = "ADVANCE",
         call' = "run", lastDirection' = "ADVANCE", step' = step + 1,
         \/ ~Pending /\ solver' = StepForward(solver) /\ lastCondition' = lastCondition
         \/ Pending /\ solver' = StepForward(Asserted(solver, lastCondition)) /\ lastCondition' = None,
         UNCHANGED <<pc, path, input, read, reports, newPass, locks, locked>>
  PROVE  IInv'
<1> DEFINE n == Len(path)
<1>1. /\ n \in Nat \ {0} /\ path # <<>> /\ pc \in Block /\ path \in Seq(Block)
      /\ solver \in Seq(ToSet(solver)) /\ Len(solver) = n
      /\ Route' = Route
      /\ reports => /\ \A k \in 1 .. n - 1 : solver[k].holds = TakesStep(Route, k)
                    /\ solver[n].holds = Input
                    /\ TakesStep(Route, n) = IF Pending THEN lastCondition.holds ELSE Input
  <2>1. n \in Nat \ {0} /\ path # <<>> /\ pc \in Block /\ path \in Seq(Block)
    BY DEF IInv, Typed, Flow
  <2>2. solver \in Seq(ToSet(solver)) /\ Route' = Route
    BY DEF IInv, Typed, Route
  <2> QED BY <2>1, <2>2 DEF IInv, FramesRight, ConditionRight, Running
<1>2. /\ solver' \in Seq(ToSet(solver')) /\ Len(solver') = n + 1
      /\ \A k \in 1 .. n - 1 : solver'[k] = solver[k]
      /\ solver'[n + 1].holds = Input
      /\ solver'[n].holds = IF Pending THEN solver[n].holds \cap lastCondition.holds
                            ELSE solver[n].holds
  <2>1. n \in 1 .. n /\ \A k \in 1 .. n - 1 : k \in 1 .. n
    BY <1>1
  <2>2. CASE ~Pending
    <3>1. solver' = StepForward(solver)
      BY <2>2
    <3>2. /\ StepForward(solver) \in Seq(ToSet(StepForward(solver)))
          /\ Len(StepForward(solver)) = Len(solver) + 1
          /\ \A k \in 1 .. Len(solver) : StepForward(solver)[k] = solver[k]
          /\ StepForward(solver)[Len(solver) + 1].holds = Input
      BY <1>1, Stepping, Zenon
    <3> QED BY <1>1, <2>1, <2>2, <3>1, <3>2
  <2>3. CASE Pending
    <3> DEFINE s == Asserted(solver, lastCondition)
    <3>1. solver' = StepForward(s) /\ solver # <<>>
      BY <1>1, <2>3
    <3>2. /\ s \in Seq(ToSet(s)) /\ Len(s) = n
          /\ \A k \in 1 .. n - 1 : s[k] = solver[k]
          /\ s[n].holds = solver[n].holds \cap lastCondition.holds
      BY <1>1, <3>1, Asserting
    <3> HIDE DEF s
    <3>3. /\ StepForward(s) \in Seq(ToSet(StepForward(s))) /\ Len(StepForward(s)) = n + 1
          /\ \A k \in 1 .. n : StepForward(s)[k] = s[k]
          /\ StepForward(s)[n + 1].holds = Input
      BY <3>2, Stepping
    <3> QED BY <2>1, <2>3, <3>1, <3>2, <3>3
  <2> QED BY <2>2, <2>3
<1>3. Typed'
  <2>1. None \in Condition
    BY DEF None, Condition
  <2> QED BY <1>2, <2>1 DEF IInv, Typed
<1>4. Flow'
  BY <1>1 DEF Flow
<1>5. FramesRight'
  <2>1. reports => \A k \in 1 .. n : solver'[k].holds = TakesStep(Route, k)
    <3> SUFFICES ASSUME reports, NEW k \in 1 .. n PROVE solver'[k].holds = TakesStep(Route, k)
      OBVIOUS
    <3>1. CASE k = n
      <4>1. lastCondition.holds \subseteq Input
        BY DEF IInv, Typed, Condition
      <4> QED BY <1>1, <1>2, <3>1, <4>1
    <3>2. CASE k # n
      <4>1. k \in 1 .. n - 1
        BY <1>1, <3>2
      <4> QED BY <1>1, <1>2, <4>1
    <3> QED BY <3>1, <3>2
  <2>2. n + 1 - 1 = n
    BY <1>1
  <2> QED BY <1>1, <1>2, <2>1, <2>2 DEF FramesRight
<1>6. ConditionRight'
  BY DEF ConditionRight, Pending, IsUndefined, None
<1>7. LocksRight' /\ ReadRight'
  BY <1>1 DEF IInv, LocksRight, ReadRight, Running
<1> QED BY <1>3, <1>4, <1>5, <1>6, <1>7 DEF IInv

LEMMA ExploreKeeps == IInv /\ Explore => IInv'
  BY Advancing DEF Explore, Advances, program, lock

LEMMA RestoreKeeps == IInv /\ Restore => IInv'
  BY Advancing DEF Restore, Advances, program, lock

\* What Backtrack and Patch share: the last frame is dropped, and the locks are those
\* of the path that is left.
LEMMA Retreating ==
  ASSUME IInv, NEW state, GoesBack(state)
  PROVE  /\ call = "control" /\ lastDirection = "BACKTRACK" /\ executionState = state
         /\ path \in Seq(Block) /\ Len(path) \in Nat \ {0} /\ pc \in Block /\ path # <<>>
         /\ solver \in Seq(ToSet(solver)) /\ Len(solver) = Len(path) + 1
         /\ StepBackward(solver) \in Seq(ToSet(StepBackward(solver)))
         /\ Len(StepBackward(solver)) = Len(path)
         /\ reports => \A k \in 1 .. Len(path) : StepBackward(solver)[k].holds = TakesStep(Route, k)
         /\ LogRight(path, locks', locked') /\ step = Len(path)
         /\ UNCHANGED <<reports, lastCondition>>
<1> DEFINE n == Len(path)
<1>1. /\ call = "control" /\ lastDirection = "BACKTRACK" /\ executionState = state
      /\ locks' = Kept(locks) /\ locked' = locked \ ToSet(Undone(locks))
      /\ UNCHANGED <<reports, lastCondition>>
  BY DEF GoesBack
<1>2. /\ path \in Seq(Block) /\ n \in Nat \ {0} /\ pc \in Block /\ path # <<>>
      /\ solver \in Seq(ToSet(solver))
  BY <1>1 DEF IInv, Typed, Flow
<1>3. /\ Len(solver) = n + 1
      /\ reports => \A k \in 1 .. n : solver[k].holds = TakesStep(Route, k)
  BY <1>1 DEF IInv, FramesRight, Running
<1>4. /\ StepBackward(solver) \in Seq(ToSet(StepBackward(solver)))
      /\ Len(StepBackward(solver)) = n
      /\ \A k \in 1 .. n : StepBackward(solver)[k] = solver[k]
  <2>1. solver # <<>> /\ Len(solver) - 1 = n
    BY <1>2, <1>3
  <2>2. /\ StepBackward(solver) \in Seq(ToSet(StepBackward(solver)))
        /\ Len(StepBackward(solver)) = Len(solver) - 1
        /\ \A k \in 1 .. Len(solver) - 1 : StepBackward(solver)[k] = solver[k]
    BY <1>2, <2>1, Stepping, Zenon
  <2> QED BY <2>1, <2>2
<1>5. step = n /\ LogRight(Append(path, pc), locks, locked)
  BY <1>1 DEF IInv, LocksRight, Running, Route
<1>6. LogRight(path, locks', locked')
  BY <1>1, <1>2, <1>5, Unlocking
<1> QED BY <1>1, <1>2, <1>3, <1>4, <1>5, <1>6

\* Where the program is undone further, the frame of the step may still change.
LEMMA UndoingFurther ==
  ASSUME IInv, NEW state, GoesBack(state), step' = step - 1,
         call' = "undo", lastDirection' = lastDirection,
         executionState' \in {"BACKTRACKING", "PATCHING"},
         input' \in Input, newPass' \in Input,
         \A v \in locked' : input'[v] = input[v],
         solver' \in Seq(ToSet(solver')), Len(solver') = Len(path),
         \A k \in 1 .. Len(path) - 1 : solver'[k] = StepBackward(solver)[k],
         UNCHANGED <<pc, path, read>>
  PROVE  IInv'
<1> DEFINE n == Len(path)
<1>1. /\ call = "control" /\ lastDirection = "BACKTRACK"
      /\ path \in Seq(Block) /\ n \in Nat \ {0} /\ pc \in Block /\ path # <<>>
      /\ reports => \A k \in 1 .. n : StepBackward(solver)[k].holds = TakesStep(Route, k)
      /\ LogRight(path, locks', locked') /\ step = n
      /\ UNCHANGED <<reports, lastCondition>>
  BY Retreating
<1>2. Typed' /\ Flow'
  BY <1>1 DEF IInv, Typed, Flow
<1>3. FramesRight'
  <2>1. Route' = Route
    BY DEF Route
  <2> QED BY <1>1, <2>1 DEF FramesRight
<1>4. ConditionRight'
  BY <1>1 DEF IInv, ConditionRight, Pending
<1>5. LocksRight'
  BY <1>1 DEF LocksRight
<1>6. ReadRight'
  <2> SUFFICES ASSUME NEW k \in 1 .. n + 1, NEW v \in ReadsTo(path, k - 1)
               PROVE  read[k][v] = input'[v]
    BY DEF ReadRight
  <2>1. v \in locked'
    <3>1. k - 1 \in 0 .. n /\ locked' = ReadsTo(path, n)
      BY <1>1 DEF LogRight
    <3> QED BY <1>1, <3>1, ReadsOfPath
  <2>2. read[k][v] = input[v]
    BY <1>1 DEF IInv, ReadRight, Running
  <2> QED BY <2>1, <2>2
<1> QED BY <1>2, <1>3, <1>4, <1>5, <1>6 DEF IInv

LEMMA BacktrackKeeps == IInv /\ Backtrack => IInv'
<1> SUFFICES ASSUME IInv, Backtrack PROVE IInv'
  OBVIOUS
<1> DEFINE n     == Len(path)
           back  == StepBackward(solver)
           tried == Asserted(back, Not(pool[Popped].ast))
<1>1. /\ GoesBack("BACKTRACKING") /\ step' = step - 1 /\ call' = "undo"
      /\ solver' \in {back, tried}
      /\ \/ /\ \E x \in Models(tried) : newPass' = Cut(tried, x)
            /\ executionState' = "PATCHING"
         \/ UNCHANGED <<newPass, executionState>>
      /\ UNCHANGED <<pc, path, input, read, lastDirection>>
  BY DEF Backtrack, program
<1>2. /\ n \in Nat \ {0} /\ executionState = "BACKTRACKING"
      /\ back \in Seq(ToSet(back)) /\ Len(back) = n
  BY <1>1, Retreating
<1>3. newPass' \in Input /\ executionState' \in {"BACKTRACKING", "PATCHING"}
  <2>1. ASSUME NEW s, NEW x \in Models(s) PROVE Cut(s, x) \in Input
    <3>1. \A v \in Variable : x[v] % ByteSize \in Word
      BY ExplorerAssumption DEF Models, Input
    <3>2. 0 \in Word
      BY ExplorerAssumption
    <3> QED BY <3>1, <3>2 DEF Cut, Input
  <2>2. newPass \in Input
    BY DEF IInv, Typed
  <2> HIDE DEF tried
  <2> QED BY <1>1, <1>2, <2>1, <2>2
<1> HIDE DEF back
<1>4. /\ solver' \in Seq(ToSet(solver')) /\ Len(solver') = n
      /\ \A k \in 1 .. n - 1 : solver'[k] = back[k]
  <2>1. back # <<>>
    BY <1>2
  <2>2. /\ tried \in Seq(ToSet(tried)) /\ Len(tried) = n
        /\ \A k \in 1 .. n - 1 : tried[k] = back[k]
    BY <1>2, <2>1, Asserting
  <2> HIDE DEF tried
  <2> QED BY <1>1, <1>2, <2>2
<1>5. input' \in Input /\ \A v \in locked' : input'[v] = input[v]
  BY <1>1 DEF IInv, Typed
<1> QED BY <1>1, <1>3, <1>4, <1>5, UndoingFurther DEF back

LEMMA PatchKeeps == IInv /\ Patch => IInv'
<1> SUFFICES ASSUME IInv, Patch PROVE IInv'
  OBVIOUS
<1> DEFINE n    == Len(path)
           back == StepBackward(solver)
<1>1. /\ GoesBack("PATCHING")
      /\ input' = [v \in Variable |-> IF MayPatch(v) THEN newPass[v] ELSE input[v]]
      /\ UNCHANGED <<pc, path, read, newPass>>
  BY DEF Patch
<1>2. /\ call = "control" /\ lastDirection = "BACKTRACK" /\ executionState = "PATCHING"
      /\ path \in Seq(Block) /\ n \in Nat \ {0} /\ pc \in Block /\ path # <<>>
      /\ back \in Seq(ToSet(back)) /\ Len(back) = n
      /\ reports => \A k \in 1 .. n : back[k].holds = TakesStep(Route, k)
      /\ LogRight(path, locks', locked') /\ step = n
      /\ UNCHANGED <<reports, lastCondition>>
  BY <1>1, Retreating
<1>3. locked' \subseteq Variable
  BY <1>2, ReadsOfPath DEF LogRight
<1>4. input' \in Input /\ newPass' \in Input /\ \A v \in locked' : input'[v] = input[v]
  <2>1. input \in Input /\ newPass \in Input
    BY DEF IInv, Typed
  <2> QED BY <1>1, <1>3, <2>1 DEF MayPatch, Input
<1>5. CASE /\ solver' = back /\ call' = "undo" /\ step' = step - 1
           /\ UNCHANGED <<executionState, lastDirection>>
  BY <1>1, <1>2, <1>4, <1>5, UndoingFurther
<1>6. CASE lastDirection' = "ADVANCE" /\ call' = "run" /\ solver' = StepForward(back) /\ step' = step
  <2>1. /\ solver' \in Seq(ToSet(solver')) /\ Len(solver') = n + 1
        /\ \A k \in 1 .. n : solver'[k] = back[k]
        /\ solver'[n + 1].holds = Input
    BY <1>2, <1>6, Stepping
  <2>2. Typed'
    BY <1>1, <1>2, <1>4, <1>6, <2>1 DEF IInv, Typed
  <2>3. Flow'
    BY <1>1, <1>2, <1>6 DEF Flow
  <2>4. FramesRight'
    <3>1. Route' = Route /\ n + 1 - 1 = n
      BY <1>1, <1>2 DEF Route
    <3> QED BY <1>1, <1>2, <1>6, <2>1, <3>1 DEF FramesRight
  <2>5. ConditionRight'
    BY <1>2, <1>6 DEF IInv, ConditionRight, Pending
  <2>6. LocksRight'
    BY <1>1, <1>2, <1>6 DEF LocksRight
  <2>7. ReadRight'
    <3> SUFFICES ASSUME NEW k \in 1 .. n + 1, NEW v \in ReadsTo(path, k - 1)
                 PROVE  read[k][v] = input'[v]
      BY <1>1 DEF ReadRight
    <3>1. v \in locked'
      <4>1. k - 1 \in 0 .. n /\ locked' = ReadsTo(path, n)
        BY <1>2 DEF LogRight
      <4> QED BY <1>2, <4>1, ReadsOfPath
    <3>2. read[k][v] = input[v]
      BY <1>2 DEF IInv, ReadRight, Running
    <3> QED BY <1>4, <3>1, <3>2
  <2> QED BY <2>2, <2>3, <2>4, <2>5, <2>6, <2>7 DEF IInv
<1> QED BY <1>5, <1>6 DEF Patch, Advances

LEMMA Inductive ==
  ASSUME IsFiniteSet(Variable), Cardinality(Variable) <= LogSize
  PROVE  IInv /\ [Next]_vars => IInv'
<1> SUFFICES ASSUME IInv, [Next]_vars PROVE IInv'
  OBVIOUS
<1>1. CASE UNCHANGED vars
  BY <1>1 DEF IInv, Typed, Flow, FramesRight, ConditionRight, LocksRight, ReadRight, Running, Route,
     Pending, vars, program, executor, search, cec, lock
<1>2. CASE Next
  BY <1>2, BeginKeeps, RunKeeps, CrashKeeps, UndoKeeps, EndKeeps, ExploreKeeps, RestoreKeeps, BacktrackKeeps,
     PatchKeeps DEF Next
<1> QED BY <1>1, <1>2

\* At the program's steps the invariant says what PathState promises.
LEMMA Enough == IInv => PathState
<1> SUFFICES ASSUME IInv, call = "run" PROVE PathState
  BY DEF PathState
<1> DEFINE n == Len(path)
<1>1. /\ path \in Seq(Block) /\ n \in Nat /\ pc \in Block /\ Len(read) = n + 1
      /\ solver \in Seq(ToSet(solver)) /\ DOMAIN solver = 1 .. n + 1 /\ Len(Route) = n + 1
  <2>1. /\ path \in Seq(Block) /\ n \in Nat /\ pc \in Block /\ Len(read) = n + 1
        /\ solver \in Seq(ToSet(solver)) /\ Len(solver) = n + 1
    BY DEF IInv, Typed, Flow, FramesRight, Running
  <2>2. Len(Route) = n + 1
    BY <2>1 DEF Route
  <2> QED BY <2>1, <2>2
<1>2. ASSUME reports
      PROVE  Models(solver) = {x \in Input : Follows(Route, x)}
  <2>1. /\ \A k \in 1 .. n : solver[k].holds = TakesStep(Route, k)
        /\ solver[n + 1].holds = Input
    <3>1. n + 1 - 1 = n /\ lastDirection = "ADVANCE"
      BY <1>1 DEF IInv, Flow
    <3> QED BY <1>2, <3>1 DEF IInv, FramesRight, Running
  <2>2. ASSUME NEW x \in Input
        PROVE  (\A k \in DOMAIN solver : x \in solver[k].holds) <=> Follows(Route, x)
    <3>1. (\A k \in DOMAIN solver : x \in solver[k].holds)
            <=> \A k \in 1 .. n : x \in solver[k].holds
      BY <1>1, <2>1
    <3>2. \A k \in 1 .. n : x \in solver[k].holds <=> Route[k + 1] = SuccessorOf(Route[k], x)
      BY <2>1 DEF TakesStep
    <3>3. Follows(Route, x) <=> \A k \in 1 .. n : Route[k + 1] = SuccessorOf(Route[k], x)
      <4>1. Len(Route) - 1 = n
        BY <1>1
      <4> QED BY <4>1 DEF Follows
    <3> QED BY <3>1, <3>2, <3>3
  <2> QED BY <2>2 DEF Models
<1>3. locked = ReadsTo(path, n)
  BY DEF IInv, LocksRight, Running, LogRight
<1>4. ReadsTo(path, n) = UNION {Reads[b] : b \in ToSet(path)}
  <2>1. DOMAIN path = 1 .. n
    BY <1>1
  <2>2. ASSUME NEW v PROVE v \in ReadsTo(path, n) <=> v \in UNION {Reads[b] : b \in ToSet(path)}
    BY <2>1, InReadsTo DEF ToSet
  <2> QED BY <2>2
<1>5. \A v \in locked : Last(read)[v] = input[v]
  <2>1. n + 1 - 1 = n /\ n + 1 \in 1 .. n + 1
    BY <1>1
  <2>2. \A v \in ReadsTo(path, n) : read[n + 1][v] = input[v]
    BY <2>1 DEF IInv, ReadRight, Running
  <2> QED BY <1>1, <1>3, <2>2 DEF Last
<1> QED BY <1>2, <1>3, <1>4, <1>5 DEF PathState, Route

\* Wherever the program is run on, the solver holds the conditions of the path it is
\* on and no others, and the variables that are locked are those the path has read,
\* which still have the value it read: for every program, as long as the log of the
\* locks has room for every variable.
THEOREM PathIsKnown ==
  ASSUME IsFiniteSet(Variable), Cardinality(Variable) <= LogSize
  PROVE  Spec => []PathState
<1>1. Init => IInv
  BY Initially
<1>2. IInv /\ [Next]_vars => IInv'
  BY Inductive
<1>3. IInv => PathState
  BY Enough
<1> QED BY <1>1, <1>2, <1>3, PTL DEF Spec

-----------------------------------------------------------------------------
(* Which paths are new.                                                     *)

Cond == 1 .. PoolSize

\* The blocks whose branch the solver is asked about.
Asking == {b \in Block : reports /\ Branches(b) /\ IsUndefined(Test[b])}

\* The steps whose conditions the log of conditions covers.
Met == IF GoingBack THEN Len(path) + 1
       ELSE IF call \in {"control", "end"} THEN Len(path) - 1 ELSE Len(path)

\* A path p that was explored agrees with the route r in its first k blocks.
Full(p) == Append(p, NoBlock)
Shares(p, r, k)   == k <= Len(p) + 1 /\ \A i \in 1 .. k : Full(p)[i] = r[i]
Fresh(E, r, k)    == \A p \in E : ~Shares(p, r, k)
OneSided(E, r, k) == \A p \in E : Shares(p, r, k) => Shares(p, r, k + 1)

\* A condition is about the variables it mentions.
Depends(c) ==
  \A x, y \in Input :
    (\A v \in Variable : v \in c.vars => x[v] = y[v]) => (x \in c.holds <=> y \in c.holds)

Noted == [item : Cond, step : Nat]

\* The log has, in their order, the conditions of the first n steps of r.
Recorded(A, log, r, n) ==
  /\ log \in Seq(Noted)
  /\ \A i, j \in 1 .. Len(log) : i < j => log[i].step < log[j].step
  /\ \A i \in 1 .. Len(log) : log[i].step + 1 \in 1 .. n /\ r[log[i].step + 1] \in A
  /\ \A k \in 1 .. n : r[k] \in A => \E i \in 1 .. Len(log) : log[i].step + 1 = k

\* They say which way r goes, and the other way is open as long as they are not inverted.
Stands(P, E, c, r, k) ==
  P[c].ast.holds = TakesStep(r, k) /\ (~P[c].wasInverted => OneSided(E, r, k))
Meant(P, E, log, r) ==
  \A i \in 1 .. Len(log) : Stands(P, E, log[i].item, r, log[i].step + 1)

\* The conditions that were taken from the log, each with its step: those of r come
\* back in the order in which the program meets them, the others never.
Awaited(A, P, E, ids, r, at, n) ==
  /\ at \in Seq(Nat) /\ Len(at) = Len(ids)
  /\ \A i, j \in 1 .. Len(at) : i < j => at[i] > at[j]
  /\ \A i \in 1 .. Len(at) :
       /\ at[i] > n
       /\ at[i] < Len(r) =>
            r[at[i]] \in A /\ (~P[ids[i]].wasInverted => OneSided(E, r, at[i]))
  /\ \A k \in n + 1 .. Len(r) - 1 : r[k] \in A => \E i \in 1 .. Len(at) : at[i] = k

Items(log)  == [i \in 1 .. Len(log) |-> log[i].item]
Once(a)     == \A i, j \in 1 .. Len(a) : a[i] = a[j] => i = j
Apart(a, b) == \A i \in 1 .. Len(a), j \in 1 .. Len(b) : a[i] # b[j]
Spread(a, b, c) ==
  /\ a \in Seq(Cond) /\ b \in Seq(Cond) /\ c \in Seq(Cond)
  /\ Once(a) /\ Once(b) /\ Once(c)
  /\ Apart(a, b) /\ Apart(a, c) /\ Apart(b, c)

\* No condition is in two places.
IdsRight == Spread(Items(conds), tvds, free) /\ lastCond \in 0 .. PoolSize

IsWalk(p) ==
  /\ p # <<>> /\ p[1] \in Entry
  /\ \A k \in 1 .. Len(p) - 1 : p[k + 1] \in {Successors[p[k]][1], Successors[p[k]][2]}

Phased ==
  /\ IsWalk(Route)
  /\ call = "run" \/ (call = "control" /\ lastDirection = "ADVANCE") =>
       executionState \in {"EXPLORING", "RESTORING"}
  /\ call = "end" => executionState = "EXPLORING" /\ pc = NoBlock
  /\ call = "begin" /\ executionState = "EXPLORING" =>
       conds = <<>> /\ tvds = <<>> /\ explored = {} /\ backSteps = 0
  /\ explored \subseteq Seq(Block)

\* The conditions that the executor, the solver and the pool hold.
Understood ==
  /\ Depends(lastCondition)
  /\ \A k \in 1 .. Len(solver) : Depends(solver[k])
  /\ pool \in [Cond -> [wasInverted : BOOLEAN, ast : Condition]]
  /\ \A c \in Cond : Depends(pool[c].ast)
  /\ ~reports => lastCondition = None
  /\ call = "control" /\ lastDirection = "ADVANCE" => (Pending <=> path[Len(path)] \in Asking)

\* The way r that an input was found for: it is followed up to its last block, which
\* no explored path shares.
Replays(r, at) ==
  /\ r \in Seq(Block) /\ backSteps \in Nat /\ Len(r) = Met + backSteps + 2
  /\ \A k \in 1 .. Len(r) - 1 : r[k + 1] = SuccessorOf(r[k], newPass)
  /\ Fresh(explored, r, Len(r))
  /\ Awaited(Asking, pool, explored, tvds, r, at, Met)
  /\ executionState = "RESTORING" => input = newPass

Follow(r) == Len(r) >= Len(path) + 1 /\ \A i \in 1 .. Len(path) + 1 : r[i] = Route[i]

Searches(r, at) ==
  /\ Len(r) > Met /\ Follow(r)
  /\ Recorded(Asking, conds, r, Met) /\ Meant(pool, explored, conds, r)
  /\ executionState = "EXPLORING" =>
       /\ Len(r) = Len(path) + 1 /\ tvds = <<>> /\ backSteps = 0
       /\ Fresh(explored, r, IF call = "run" THEN Len(path) + 1 ELSE Len(path))
  /\ executionState = "BACKTRACKING" =>
       /\ Len(r) = Met + 1 /\ backSteps = 0
       /\ tvds # <<>> /\ lastCond # NoCond => pool[lastCond].wasInverted
  /\ executionState \in {"PATCHING", "RESTORING"} => Replays(r, at)

SearchRight ==
  Running => \E r \in Seq(Block \cup {NoBlock}), at \in Seq(Nat) : Searches(r, at)

JInv == Phased /\ Understood /\ IdsRight /\ SearchRight

-----------------------------------------------------------------------------
(* Conditions move between the log, tvds and freeConditions.                *)

LEMMA Turned ==
  ASSUME NEW a, NEW b, NEW c, Spread(a, b, c)
  PROVE  Spread(b, a, c) /\ Spread(c, b, a) /\ Spread(a, c, b)
  BY DEF Spread, Apart

\* The last one of a goes to the end of b, or is lost.
LEMMA Moved ==
  ASSUME NEW a, NEW b, NEW c, Spread(a, b, c), a # <<>>
  PROVE  Spread(Front(a), Append(b, Last(a)), c) /\ Spread(Front(a), b, c)
<1> DEFINE n == Len(a)
           m == Len(b)
           f == Front(a)
           g == Append(b, Last(a))
<1>1. /\ a \in Seq(Cond) /\ b \in Seq(Cond) /\ c \in Seq(Cond)
      /\ Once(a) /\ Once(b) /\ Once(c) /\ Apart(a, b) /\ Apart(a, c) /\ Apart(b, c)
  BY DEF Spread
<1>2. /\ n \in Nat \ {0} /\ f \in Seq(Cond) /\ Len(f) = n - 1
      /\ \A k \in 1 .. n - 1 : f[k] = a[k]
      /\ Last(a) = a[n] /\ Last(a) \in Cond
  BY <1>1, Shortened
<1>3. /\ m \in Nat /\ g \in Seq(Cond) /\ Len(g) = m + 1
      /\ \A k \in 1 .. m : g[k] = b[k]
      /\ g[m + 1] = a[n]
  BY <1>1, <1>2, Appended
<1> HIDE DEF f, g, n, m
<1>4. \A k \in 1 .. n - 1 : k \in 1 .. n /\ k # n
  BY <1>2
<1>5. \A k \in 1 .. m + 1 : k \in 1 .. m \/ k = m + 1
  BY <1>3
<1>6. n \in 1 .. n
  BY <1>2
<1>7. Once(f)
  BY <1>1, <1>2, <1>4 DEF Once, n
<1>8. \A k \in 1 .. m : b[k] # a[n]
  BY <1>1, <1>6 DEF Apart, n, m
<1>9. Once(g)
  BY <1>1, <1>3, <1>5, <1>8 DEF Once, m
<1>10. Apart(f, g)
  <2>1. \A i \in 1 .. n - 1 : a[i] # a[n]
    BY <1>1, <1>4, <1>6 DEF Once, n
  <2>2. \A i \in 1 .. n - 1, j \in 1 .. m : a[i] # b[j]
    BY <1>1, <1>4 DEF Apart, n, m
  <2> QED BY <1>2, <1>3, <1>5, <2>1, <2>2 DEF Apart
<1>11. Apart(f, c) /\ Apart(f, b)
  BY <1>1, <1>2, <1>4 DEF Apart, n
<1>12. Apart(g, c)
  <2>1. \A j \in 1 .. Len(c) : a[n] # c[j]
    BY <1>1, <1>6 DEF Apart, n
  <2> QED BY <1>1, <1>3, <1>5, <2>1 DEF Apart, m
<1> QED BY <1>1, <1>2, <1>3, <1>7, <1>9, <1>10, <1>11, <1>12 DEF Spread, f, g

\* All of b go to the end of c.
LEMMA Emptied ==
  ASSUME NEW a, NEW b, NEW c, Spread(a, b, c)
  PROVE  Spread(a, <<>>, c \o b)
<1> DEFINE n == Len(c)
           m == Len(b)
           d == c \o b
<1>1. /\ a \in Seq(Cond) /\ b \in Seq(Cond) /\ c \in Seq(Cond)
      /\ Once(a) /\ Once(b) /\ Once(c) /\ Apart(a, b) /\ Apart(a, c) /\ Apart(b, c)
  BY DEF Spread
<1>2. /\ d \in Seq(Cond) /\ Len(d) = n + m
      /\ \A i \in 1 .. n + m : d[i] = IF i <= n THEN c[i] ELSE b[i - n]
  BY <1>1, ConcatProperties, Zenon
<1>3. n \in Nat /\ m \in Nat
  BY <1>1
<1> HIDE DEF d, n, m
<1>4. \A i \in 1 .. n + m : \/ i \in 1 .. n /\ d[i] = c[i]
                            \/ i - n \in 1 .. m /\ d[i] = b[i - n]
  BY <1>2, <1>3
<1>5. ASSUME NEW i \in 1 .. n + m, NEW j \in 1 .. n + m, d[i] = d[j] PROVE i = j
  <2>1. CASE i \in 1 .. n /\ d[i] = c[i] /\ j \in 1 .. n /\ d[j] = c[j]
    BY <1>1, <1>5, <2>1 DEF Once, n
  <2>2. CASE i - n \in 1 .. m /\ d[i] = b[i - n] /\ j - n \in 1 .. m /\ d[j] = b[j - n]
    <3>1. i - n = j - n
      BY <1>1, <1>5, <2>2 DEF Once, m
    <3> QED BY <1>3, <3>1
  <2>3. \A k \in 1 .. m, l \in 1 .. n : b[k] # c[l]
    BY <1>1 DEF Apart, n, m
  <2> QED BY <1>4, <1>5, <2>1, <2>2, <2>3
<1>6. Apart(a, d)
  <2> SUFFICES ASSUME NEW i \in 1 .. Len(a), NEW j \in 1 .. n + m PROVE a[i] # d[j]
    BY <1>2 DEF Apart
  <2>1. CASE j \in 1 .. n /\ d[j] = c[j]
    BY <1>1, <2>1 DEF Apart, n
  <2>2. CASE j - n \in 1 .. m /\ d[j] = b[j - n]
    BY <1>1, <2>2 DEF Apart, m
  <2> QED BY <1>4, <2>1, <2>2
<1>7. Once(d)
  BY <1>2, <1>5 DEF Once
<1>8. <<>> \in Seq(Cond) /\ Once(<<>>) /\ Apart(a, <<>>) /\ Apart(<<>>, d)
  BY DEF Once, Apart
<1> QED BY <1>1, <1>2, <1>6, <1>7, <1>8 DEF Spread, d

\* There are no more conditions than the pool has.
LEMMA PoolFits ==
  ASSUME NEW a \in Seq(Cond), Once(a)
  PROVE  Len(a) <= PoolSize
<1> DEFINE n == Len(a)
<1>1. n \in Nat /\ a \in [1 .. n -> Cond] /\ PoolSize \in Nat
  BY ExplorerAssumption
<1>2. a \in Injection(1 .. n, Cond)
  BY <1>1 DEF Injection, IsInjective, Once
<1> HIDE DEF n
<1>3. IsFiniteSet(Cond) /\ Cardinality(Cond) = IF 1 > PoolSize THEN 0 ELSE PoolSize - 1 + 1
  BY <1>1, FS_Interval DEF Cond
<1>4. Cardinality(1 .. n) <= Cardinality(Cond)
  BY <1>2, <1>3, FS_Injection
<1>5. Cardinality(1 .. n) = IF 1 > n THEN 0 ELSE n - 1 + 1
  BY <1>1, FS_Interval
<1> QED BY <1>1, <1>3, <1>4, <1>5 DEF n

LEMMA ItemsOf ==
  ASSUME NEW log \in Seq(Noted)
  PROVE  /\ Items(log) \in Seq(Cond) /\ Len(Items(log)) = Len(log)
         /\ \A i \in 1 .. Len(log) : Items(log)[i] = log[i].item /\ log[i].item \in Cond
         /\ log # <<>> => /\ Items(log) # <<>>
                          /\ Items(Front(log)) = Front(Items(log))
                          /\ Last(Items(log)) = Last(log).item
<1> DEFINE n == Len(log)
<1>1. n \in Nat /\ \A i \in 1 .. n : log[i].item \in Cond
  <2>1. n \in Nat /\ \A i \in 1 .. n : log[i] \in Noted
    OBVIOUS
  <2> QED BY <2>1 DEF Noted
<1>2. /\ Items(log) \in Seq(Cond) /\ Len(Items(log)) = n
      /\ \A i \in 1 .. n : Items(log)[i] = log[i].item
  BY <1>1 DEF Items
<1>3. ASSUME log # <<>>
      PROVE  /\ Items(log) # <<>>
             /\ Items(Front(log)) = Front(Items(log))
             /\ Last(Items(log)) = Last(log).item
  <2> DEFINE f == Front(log)
             g == Front(Items(log))
  <2>1. /\ n \in Nat \ {0} /\ f \in Seq(Noted) /\ Len(f) = n - 1
        /\ \A k \in 1 .. n - 1 : f[k] = log[k]
        /\ Last(log) = log[n]
    BY <1>3, Shortened
  <2>2. Items(log) # <<>>
    BY <1>2, <2>1
  <2>3. /\ g \in Seq(Cond) /\ Len(g) = n - 1
        /\ \A k \in 1 .. n - 1 : g[k] = log[k].item
        /\ Last(Items(log)) = log[n].item
    <3>1. /\ g \in Seq(Cond) /\ Len(g) = Len(Items(log)) - 1
          /\ \A k \in 1 .. Len(Items(log)) - 1 : g[k] = Items(log)[k]
          /\ Last(Items(log)) = Items(log)[Len(Items(log))]
      BY <1>2, <2>2, Shortened, Zenon
    <3>2. n \in 1 .. n /\ \A k \in 1 .. n - 1 : k \in 1 .. n
      BY <2>1
    <3> QED BY <1>2, <3>1, <3>2
  <2> HIDE DEF f, g, n
  <2>4. Items(f) = [i \in 1 .. n - 1 |-> f[i].item]
    BY <2>1 DEF Items
  <2>5. g = [i \in 1 .. n - 1 |-> g[i]]
    BY <2>1, <2>3
  <2>6. Items(f) = g
    BY <2>1, <2>3, <2>4, <2>5
  <2> QED BY <2>1, <2>2, <2>3, <2>6 DEF f, g
<1> QED BY <1>1, <1>2, <1>3

LEMMA ItemsAppended ==
  ASSUME NEW log \in Seq(Noted), NEW e \in Noted
  PROVE  Items(Append(log, e)) = Append(Items(log), e.item)
<1> DEFINE n == Len(log)
           l == Append(log, e)
           a == Append(Items(log), e.item)
<1>1. n \in Nat /\ Items(log) \in Seq(Cond) /\ Len(Items(log)) = n /\ e.item \in Cond
      /\ \A i \in 1 .. n : Items(log)[i] = log[i].item
  <2>1. Items(log) \in Seq(Cond) /\ Len(Items(log)) = n
        /\ \A i \in 1 .. n : Items(log)[i] = log[i].item
    BY ItemsOf
  <2> QED BY <2>1 DEF Noted
<1>2. /\ l \in Seq(Noted) /\ Len(l) = n + 1 /\ l[n + 1] = e
      /\ \A i \in 1 .. n : l[i] = log[i]
  BY Appended
<1>3. /\ a \in Seq(Cond) /\ Len(a) = n + 1 /\ a[n + 1] = e.item
      /\ \A i \in 1 .. n : a[i] = log[i].item
  BY <1>1, Appended
<1> HIDE DEF l, a, n
<1>4. /\ Items(l) \in Seq(Cond) /\ Len(Items(l)) = n + 1
      /\ \A i \in 1 .. n + 1 : Items(l)[i] = l[i].item
  BY <1>2, ItemsOf
<1>5. \A i \in 1 .. n + 1 : Items(l)[i] = a[i]
  <2>1. \A i \in 1 .. n + 1 : i \in 1 .. n \/ i = n + 1
    BY <1>1
  <2> QED BY <1>2, <1>3, <1>4, <2>1
<1>6. Items(l) = a
  <2> DEFINE b == Items(l)
  <2>1. b \in Seq(Cond) /\ Len(b) = Len(a) /\ \A i \in 1 .. Len(b) : b[i] = a[i]
    BY <1>3, <1>4, <1>5
  <2> HIDE DEF b
  <2>2. b = a
    BY <1>3, <2>1, SeqEqual
  <2> QED BY <2>2 DEF b
<1> QED BY <1>6 DEF l, a

-----------------------------------------------------------------------------
(* The log of conditions and the route.                                     *)

LEMMA StepsOfLog ==
  ASSUME NEW log \in Seq(Noted)
  PROVE  Len(log) \in Nat /\ \A i \in 1 .. Len(log) : log[i].step \in Nat /\ log[i] \in Noted
<1>1. Len(log) \in Nat /\ \A i \in 1 .. Len(log) : log[i] \in Noted
  OBVIOUS
<1> QED BY <1>1 DEF Noted

\* What one route shares with another.
LEMMA Shared ==
  ASSUME NEW E, NEW r, NEW q, NEW n \in Nat, \A i \in 1 .. n : q[i] = r[i]
  PROVE  /\ \A k \in 0 .. n : Fresh(E, r, k) <=> Fresh(E, q, k)
         /\ \A k \in 0 .. n - 1 : OneSided(E, r, k) <=> OneSided(E, q, k)
         /\ \A k \in 1 .. n - 1 : TakesStep(r, k) = TakesStep(q, k)
<1>1. ASSUME NEW k \in 0 .. n, NEW p PROVE Shares(p, r, k) <=> Shares(p, q, k)
  <2>1. \A i \in 1 .. k : i \in 1 .. n
    OBVIOUS
  <2> QED BY <2>1 DEF Shares
<1>2. ASSUME NEW k \in 0 .. n - 1 PROVE k \in 0 .. n /\ k + 1 \in 0 .. n
  OBVIOUS
<1>3. ASSUME NEW k \in 1 .. n - 1 PROVE TakesStep(r, k) = TakesStep(q, k)
  <2>1. k \in 1 .. n /\ k + 1 \in 1 .. n
    OBVIOUS
  <2> QED BY <2>1 DEF TakesStep
<1> QED BY <1>1, <1>2, <1>3 DEF Fresh, OneSided

\* What is fresh is fresh further on.
LEMMA FreshFurther ==
  ASSUME NEW E, E \subseteq Seq(Block), NEW r, NEW n \in Nat, NEW m \in Nat, n <= m, Fresh(E, r, n)
  PROVE  Fresh(E, r, m)
<1>1. ASSUME NEW p \in E, Shares(p, r, m) PROVE Shares(p, r, n)
  <2>1. \A i \in 1 .. n : i \in 1 .. m
    OBVIOUS
  <2>2. Len(p) \in Nat
    OBVIOUS
  <2> QED BY <1>1, <2>1, <2>2 DEF Shares
<1> QED BY <1>1 DEF Fresh

\* If all that was explored went one way, the other is fresh.
LEMMA OtherSide ==
  ASSUME NEW E, NEW r, NEW q, NEW n \in Nat, OneSided(E, r, n), \A i \in 1 .. n : q[i] = r[i],
         q[n + 1] # r[n + 1]
  PROVE  Fresh(E, q, n + 1)
<1> SUFFICES ASSUME NEW p \in E, Shares(p, q, n + 1) PROVE FALSE
  BY DEF Fresh
<1>1. n + 1 <= Len(p) + 1 /\ \A i \in 1 .. n + 1 : Full(p)[i] = q[i]
  BY DEF Shares
<1>2. Shares(p, r, n + 1) => Full(p)[n + 1] = r[n + 1]
  BY DEF Shares
<1>3. \A i \in 1 .. n : i \in 1 .. n + 1
  OBVIOUS
<1>4. (n <= Len(p) + 1) => Shares(p, r, n)
  BY <1>1, <1>3 DEF Shares
<1>5. n + 1 \in 1 .. n + 1
  OBVIOUS
<1>6. ~(n <= Len(p) + 1)
  BY <1>1, <1>2, <1>4, <1>5 DEF OneSided
<1> QED BY <1>1, <1>6

\* The path that has been run shares all of the route it went.
LEMMA ExploredToo ==
  ASSUME NEW E, E \subseteq Seq(Block), NEW p \in Seq(Block), NEW r, NEW n \in 0 .. Len(p),
         \A i \in 1 .. Len(p) + 1 : r[i] = Full(p)[i], OneSided(E, r, n)
  PROVE  OneSided(E \cup {p}, r, n)
<1>1. Shares(p, r, n + 1)
  <2>1. Len(p) \in Nat
    OBVIOUS
  <2>2. n + 1 <= Len(p) + 1 /\ \A i \in 1 .. n + 1 : i \in 1 .. Len(p) + 1
    BY <2>1
  <2> QED BY <2>2 DEF Shares
<1> QED BY <1>1 DEF OneSided

LEMMA RecordedAlong ==
  ASSUME NEW A, NEW log, NEW r, NEW q, NEW n \in Nat, Recorded(A, log, r, n),
         \A i \in 1 .. n : q[i] = r[i]
  PROVE  Recorded(A, log, q, n)
  BY DEF Recorded

\* A step that asks nothing needs no condition.
LEMMA RecordedSkip ==
  ASSUME NEW A, NEW log, NEW r, NEW n \in Nat, Recorded(A, log, r, n), r[n + 1] \notin A
  PROVE  Recorded(A, log, r, n + 1)
<1>1. \A k \in 1 .. n + 1 : k \in 1 .. n \/ k = n + 1
  OBVIOUS
<1>2. \A k \in 1 .. n : k \in 1 .. n + 1
  OBVIOUS
<1> QED BY <1>1, <1>2 DEF Recorded

LEMMA RecordedMore ==
  ASSUME NEW A, NEW log, NEW r, NEW n \in Nat, Recorded(A, log, r, n), r[n + 1] \in A,
         NEW e \in Noted, e.step = n
  PROVE  Recorded(A, Append(log, e), r, n + 1)
<1> DEFINE m == Len(log)
           l == Append(log, e)
<1>1. /\ log \in Seq(Noted)
      /\ \A i, j \in 1 .. m : i < j => log[i].step < log[j].step
      /\ \A i \in 1 .. m : log[i].step + 1 \in 1 .. n /\ r[log[i].step + 1] \in A
      /\ \A k \in 1 .. n : r[k] \in A => \E i \in 1 .. m : log[i].step + 1 = k
  BY DEF Recorded
<1>2. m \in Nat /\ \A i \in 1 .. m : log[i].step \in Nat
  BY <1>1, StepsOfLog
<1>3. /\ l \in Seq(Noted) /\ Len(l) = m + 1 /\ l[m + 1] = e
      /\ \A i \in 1 .. m : l[i] = log[i]
  BY <1>1, Appended
<1> HIDE DEF l, m
<1>4. \A i \in 1 .. m + 1 : i \in 1 .. m \/ i = m + 1
  BY <1>2
<1>5. \A i \in 1 .. m : log[i].step < n
  BY <1>1, <1>2
<1>6. ASSUME NEW i \in 1 .. m + 1, NEW j \in 1 .. m + 1, i < j PROVE l[i].step < l[j].step
  <2>1. i \in 1 .. m
    BY <1>2, <1>6
  <2>2. CASE j \in 1 .. m
    BY <1>1, <1>3, <1>6, <2>1, <2>2
  <2>3. CASE j = m + 1
    BY <1>3, <1>5, <2>1, <2>3
  <2> QED BY <1>4, <2>2, <2>3
<1>7. ASSUME NEW i \in 1 .. m + 1 PROVE l[i].step + 1 \in 1 .. n + 1 /\ r[l[i].step + 1] \in A
  <2>1. CASE i \in 1 .. m
    <3>1. log[i].step + 1 \in 1 .. n /\ r[log[i].step + 1] \in A
      BY <1>1, <2>1
    <3> QED BY <1>3, <2>1, <3>1
  <2>2. CASE i = m + 1
    BY <1>3, <2>2
  <2> QED BY <1>4, <2>1, <2>2
<1>8. ASSUME NEW k \in 1 .. n + 1, r[k] \in A PROVE \E i \in 1 .. m + 1 : l[i].step + 1 = k
  <2>1. CASE k \in 1 .. n
    <3>1. PICK i \in 1 .. m : log[i].step + 1 = k
      BY <1>1, <1>8, <2>1
    <3>2. i \in 1 .. m + 1 /\ l[i] = log[i]
      BY <1>2, <1>3
    <3> QED BY <3>1, <3>2
  <2>2. CASE k = n + 1
    <3>1. m + 1 \in 1 .. m + 1
      BY <1>2
    <3> QED BY <1>3, <2>2, <3>1
  <2> QED BY <2>1, <2>2
<1>9. Recorded(A, l, r, n + 1)
  BY <1>3, <1>6, <1>7, <1>8 DEF Recorded
<1> QED BY <1>9 DEF l

\* A step back: the last condition goes if it is this step's, and if it has one.
LEMMA RecordedFewer ==
  ASSUME NEW A, NEW log, NEW r, NEW n \in Nat, Recorded(A, log, r, n + 1)
  PROVE  /\ r[n + 1] \in A =>
              /\ log # <<>> /\ Last(log).step = n
              /\ Recorded(A, Front(log), r, n)
              /\ \A i \in 1 .. Len(log) - 1 : log[i].step < n
         /\ r[n + 1] \notin A =>
              /\ Recorded(A, log, r, n)
              /\ \A i \in 1 .. Len(log) : log[i].step < n
<1> DEFINE m == Len(log)
           f == Front(log)
<1>1. /\ log \in Seq(Noted)
      /\ \A i, j \in 1 .. m : i < j => log[i].step < log[j].step
      /\ \A i \in 1 .. m : log[i].step + 1 \in 1 .. n + 1 /\ r[log[i].step + 1] \in A
      /\ \A k \in 1 .. n + 1 : r[k] \in A => \E i \in 1 .. m : log[i].step + 1 = k
  BY DEF Recorded
<1>2. m \in Nat /\ \A i \in 1 .. m : log[i].step \in Nat
  BY <1>1, StepsOfLog
<1>3. \A k \in 1 .. n : k \in 1 .. n + 1 /\ k # n + 1
  OBVIOUS
<1>4. ASSUME r[n + 1] \notin A
      PROVE  Recorded(A, log, r, n) /\ \A i \in 1 .. m : log[i].step < n
  <2>1. ASSUME NEW i \in 1 .. m PROVE log[i].step < n /\ log[i].step + 1 \in 1 .. n
    <3>1. log[i].step + 1 # n + 1
      BY <1>1, <1>4
    <3>2. log[i].step + 1 \in 1 .. n + 1 /\ log[i].step \in Nat
      BY <1>1, <1>2
    <3> QED BY <3>1, <3>2
  <2> QED BY <1>1, <1>3, <2>1 DEF Recorded
<1>5. ASSUME r[n + 1] \in A
      PROVE  /\ log # <<>> /\ Last(log).step = n
             /\ Recorded(A, f, r, n)
             /\ \A i \in 1 .. m - 1 : log[i].step < n
  <2>1. PICK j \in 1 .. m : log[j].step + 1 = n + 1
    <3>1. n + 1 \in 1 .. n + 1
      OBVIOUS
    <3> QED BY <1>1, <1>5, <3>1
  <2>2. j = m
    <3> SUFFICES ASSUME j < m PROVE FALSE
      BY <1>2
    <3>1. m \in 1 .. m /\ log[j].step < log[m].step
      BY <1>1, <1>2
    <3>2. log[m].step + 1 \in 1 .. n + 1 /\ log[m].step \in Nat /\ log[j].step \in Nat
      BY <1>1, <1>2, <3>1
    <3> QED BY <2>1, <3>1, <3>2
  <2>3. log # <<>> /\ m \in Nat \ {0} /\ log[m].step = n
    BY <1>2, <2>1, <2>2
  <2>4. /\ f \in Seq(Noted) /\ Len(f) = m - 1
        /\ \A k \in 1 .. m - 1 : f[k] = log[k]
        /\ Last(log) = log[m]
    BY <1>1, <2>3, Shortened
  <2> HIDE DEF f, m
  <2>5. \A i \in 1 .. m - 1 : i \in 1 .. m /\ i < m /\ m \in 1 .. m
    BY <2>3
  <2>6. ASSUME NEW i \in 1 .. m - 1
        PROVE  /\ log[i].step < n /\ log[i].step + 1 \in 1 .. n
               /\ r[log[i].step + 1] \in A
    <3>1. log[i].step < log[m].step /\ log[i].step \in Nat /\ r[log[i].step + 1] \in A
      BY <1>1, <1>2, <2>5
    <3> QED BY <2>3, <3>1
  <2>7. ASSUME NEW k \in 1 .. n, r[k] \in A PROVE \E i \in 1 .. m - 1 : f[i].step + 1 = k
    <3>1. PICK i \in 1 .. m : log[i].step + 1 = k
      BY <1>1, <1>3, <2>7
    <3>2. i # m
      BY <2>3, <3>1
    <3>3. i \in 1 .. m - 1
      BY <2>3, <3>2
    <3> QED BY <2>4, <3>1, <3>3
  <2>8. \A i, k \in 1 .. m - 1 : i < k => f[i].step < f[k].step
    BY <1>1, <2>4, <2>5
  <2>9. \A i \in 1 .. m - 1 : f[i].step + 1 \in 1 .. n /\ r[f[i].step + 1] \in A
    BY <2>4, <2>6
  <2>10. Recorded(A, f, r, n)
    BY <2>4, <2>7, <2>8, <2>9 DEF Recorded
  <2> QED BY <2>3, <2>4, <2>6, <2>10
<1> QED BY <1>4, <1>5 DEF f, m

LEMMA MeantAlong ==
  ASSUME NEW A, NEW P, NEW E, NEW log, NEW r, NEW q, NEW n \in Nat,
         Recorded(A, log, r, n), Meant(P, E, log, r), \A i \in 1 .. n + 1 : q[i] = r[i]
  PROVE  Meant(P, E, log, q)
<1> SUFFICES ASSUME NEW i \in 1 .. Len(log) PROVE Stands(P, E, log[i].item, q, log[i].step + 1)
  BY DEF Meant
<1> DEFINE k == log[i].step + 1
           c == log[i].item
<1>1. k \in 1 .. n
  BY DEF Recorded
<1> HIDE DEF k, c
<1>2. k \in 0 .. n + 1 - 1 /\ k \in 1 .. n + 1 - 1 /\ n + 1 \in Nat
  BY <1>1
<1>3. (OneSided(E, r, k) <=> OneSided(E, q, k)) /\ TakesStep(r, k) = TakesStep(q, k)
  <2>1. /\ \A j \in 0 .. n + 1 - 1 : OneSided(E, r, j) <=> OneSided(E, q, j)
        /\ \A j \in 1 .. n + 1 - 1 : TakesStep(r, j) = TakesStep(q, j)
    <3> DEFINE m == n + 1
    <3>1. m \in Nat /\ \A j \in 1 .. m : q[j] = r[j]
      BY <1>2
    <3> HIDE DEF m
    <3>2. /\ \A j \in 0 .. m - 1 : OneSided(E, r, j) <=> OneSided(E, q, j)
          /\ \A j \in 1 .. m - 1 : TakesStep(r, j) = TakesStep(q, j)
      BY <3>1, Shared, Zenon
    <3> QED BY <3>2 DEF m
  <2> QED BY <1>2, <2>1
<1>4. Stands(P, E, c, r, k)
  BY DEF Meant, k, c
<1>5. Stands(P, E, c, q, k)
  BY <1>3, <1>4 DEF Stands
<1> QED BY <1>5 DEF k, c

\* Other conditions may change.
LEMMA MeantStill ==
  ASSUME NEW P, NEW Q, NEW E, NEW log, NEW r, Meant(P, E, log, r),
         \A i \in 1 .. Len(log) : Q[log[i].item] = P[log[i].item]
  PROVE  Meant(Q, E, log, r)
<1> SUFFICES ASSUME NEW i \in 1 .. Len(log) PROVE Stands(Q, E, log[i].item, r, log[i].step + 1)
  BY DEF Meant
<1>1. Stands(P, E, log[i].item, r, log[i].step + 1) /\ Q[log[i].item] = P[log[i].item]
  BY DEF Meant
<1> QED BY <1>1 DEF Stands

LEMMA MeantMore ==
  ASSUME NEW P, NEW E, NEW log \in Seq(Noted), NEW r, Meant(P, E, log, r),
         NEW e \in Noted, Stands(P, E, e.item, r, e.step + 1)
  PROVE  Meant(P, E, Append(log, e), r)
<1> DEFINE l == Append(log, e)
           m == Len(log)
<1>1. m \in Nat /\ Len(l) = m + 1 /\ l[m + 1] = e /\ \A i \in 1 .. m : l[i] = log[i]
  BY Appended
<1> HIDE DEF l
<1>2. ASSUME NEW i \in 1 .. m + 1 PROVE Stands(P, E, l[i].item, r, l[i].step + 1)
  <2>1. CASE i \in 1 .. m
    <3>1. l[i] = log[i] /\ Stands(P, E, log[i].item, r, log[i].step + 1)
      BY <1>1, <2>1 DEF Meant
    <3> QED BY <3>1
  <2>2. CASE i = m + 1
    BY <1>1, <2>2
  <2> QED BY <1>1, <2>1, <2>2
<1> QED BY <1>1, <1>2 DEF Meant, l

LEMMA MeantFewer ==
  ASSUME NEW P, NEW E, NEW log \in Seq(Noted), NEW r, Meant(P, E, log, r), log # <<>>
  PROVE  /\ Meant(P, E, Front(log), r)
         /\ Stands(P, E, Last(log).item, r, Last(log).step + 1)
<1> DEFINE f == Front(log)
           m == Len(log)
<1>1. /\ m \in Nat \ {0} /\ Len(f) = m - 1 /\ Last(log) = log[m]
      /\ \A k \in 1 .. m - 1 : f[k] = log[k]
  BY Shortened
<1> HIDE DEF f
<1>2. m \in 1 .. m /\ \A i \in 1 .. m - 1 : i \in 1 .. m
  BY <1>1
<1>3. ASSUME NEW i \in 1 .. m - 1 PROVE Stands(P, E, f[i].item, r, f[i].step + 1)
  <2>1. f[i] = log[i] /\ Stands(P, E, log[i].item, r, log[i].step + 1)
    BY <1>1, <1>2 DEF Meant
  <2> QED BY <2>1
<1>4. Stands(P, E, log[m].item, r, log[m].step + 1)
  BY <1>2 DEF Meant
<1> QED BY <1>1, <1>3, <1>4 DEF Meant, f

\* What is noted in the log, which never is full, is its last entry.
LEMMA Noting ==
  ASSUME NEW log \in Seq(Noted), NEW c \in Cond, step \in Nat, Len(log) < PoolSize
  PROVE  Logged(log, <<c>>, PoolSize) = Append(log, [item |-> c, step |-> step])
<1> DEFINE e   == [item |-> c, step |-> step]
           n   == Len(log)
           new == [i \in 1 .. Len(<<c>>) |-> [item |-> <<c>>[i], step |-> step]]
           l   == Append(log, e)
<1>1. e \in Noted /\ n \in Nat /\ PoolSize \in Nat
  BY ExplorerAssumption DEF Noted
<1>2. new = <<e>>
  <2>1. Len(<<c>>) = 1 /\ <<c>>[1] = c
    OBVIOUS
  <2>2. new = [i \in 1 .. 1 |-> e]
    BY <2>1
  <2> HIDE DEF e
  <2>3. [i \in 1 .. 1 |-> e] = <<e>>
    OBVIOUS
  <2> QED BY <2>2, <2>3
<1> HIDE DEF e, new
<1>3. l \in Seq(Noted) /\ Len(l) = n + 1
  BY <1>1, Appended
<1>4. log \o <<e>> = l
  OBVIOUS
<1> HIDE DEF l, n
<1>5. (IF n + 1 < PoolSize THEN n + 1 ELSE PoolSize) = n + 1
  BY <1>1 DEF n
<1>6. SubSeq(l, 1, Len(l)) = l
  BY <1>3
<1>7. Logged(log, <<c>>, PoolSize)
        = SubSeq(l, 1, IF Len(l) < PoolSize THEN Len(l) ELSE PoolSize)
  BY <1>2, <1>4 DEF Logged, new
<1>8. Logged(log, <<c>>, PoolSize) = l
  BY <1>3, <1>5, <1>6, <1>7
<1> QED BY <1>8 DEF l, e

\* Backward, where the entries before this step stay: the last one goes, or none.
LEMMA Undoing ==
  ASSUME NEW log \in Seq(Noted), step \in Nat
  PROVE  /\ (\A i \in 1 .. Len(log) : log[i].step < step) =>
              Kept(log) = log /\ Undone(log) = <<>>
         /\ (/\ log # <<>> /\ Last(log).step = step
             /\ \A i \in 1 .. Len(log) - 1 : log[i].step < step) =>
              Kept(log) = Front(log) /\ Undone(log) = <<Last(log).item>>
<1> DEFINE n == Len(log)
           P(m) == /\ m = 0 \/ ~IsUndone(log[m])
                   /\ \A i \in m + 1 .. n : IsUndone(log[i])
           u(m) == [i \in 1 .. n - m |-> log[n + 1 - i].item]
<1>1. n \in Nat /\ \A i \in 1 .. n : log[i].step \in Nat /\ log[i] \in Noted
  BY StepsOfLog
<1>2. \A i \in 1 .. n : IsUndone(log[i]) <=> log[i].step >= step
  BY <1>1 DEF IsUndone
<1>3. Left(log) = CHOOSE m \in 0 .. n : P(m)
  BY DEF Left
<1>4. Kept(log) = SubSeq(log, 1, Left(log)) /\ Undone(log) = u(Left(log))
  BY DEF Kept, Undone
<1>5. ASSUME \A i \in 1 .. n : log[i].step < step
      PROVE  Kept(log) = log /\ Undone(log) = <<>>
  <2>1. \A i \in 1 .. n : ~IsUndone(log[i])
    BY <1>1, <1>2, <1>5
  <2>2. P(n) /\ n \in 0 .. n
    <3>1. n = 0 \/ n \in 1 .. n
      BY <1>1
    <3>2. \A i \in n + 1 .. n : FALSE
      BY <1>1
    <3> QED BY <1>1, <2>1, <3>1, <3>2
  <2>3. ASSUME NEW m \in 0 .. n, P(m) PROVE m = n
    <3>1. m + 1 \in m + 1 .. n => m + 1 \in 1 .. n /\ IsUndone(log[m + 1])
      BY <2>3
    <3> QED BY <1>1, <2>1, <3>1
  <2> HIDE DEF P
  <2>4. Left(log) = n
    BY <1>3, <2>2, <2>3
  <2>5. SubSeq(log, 1, n) = log
    OBVIOUS
  <2>6. u(n) = <<>>
    <3> DEFINE D == 1 .. n - n
    <3>1. D = {}
      BY <1>1
    <3> HIDE DEF D
    <3>2. [i \in D |-> log[n + 1 - i].item] = <<>>
      BY <3>1
    <3> QED BY <3>2 DEF D
  <2> QED BY <1>4, <2>4, <2>5, <2>6
<1>6. ASSUME log # <<>>, Last(log).step = step, \A i \in 1 .. n - 1 : log[i].step < step
      PROVE  Kept(log) = Front(log) /\ Undone(log) = <<Last(log).item>>
  <2>1. n \in Nat \ {0} /\ n \in 1 .. n /\ Last(log) = log[n]
    BY <1>1, <1>6 DEF Last
  <2>2. \A i \in 1 .. n - 1 : i \in 1 .. n /\ ~IsUndone(log[i])
    BY <1>1, <1>2, <1>6
  <2>3. IsUndone(log[n])
    BY <1>1, <1>2, <1>6, <2>1
  <2>4. P(n - 1) /\ n - 1 \in 0 .. n
    <3>1. n - 1 = 0 \/ n - 1 \in 1 .. n - 1
      <4>1. n \in Nat \ {0}
        BY <2>1
      <4> HIDE DEF n
      <4> QED BY <4>1
    <3>2. \A i \in n - 1 + 1 .. n : i = n
      <4>1. n \in Nat \ {0}
        BY <2>1
      <4> HIDE DEF n
      <4> QED BY <4>1
    <3> QED BY <2>1, <2>2, <2>3, <3>1, <3>2
  <2>5. ASSUME NEW m \in 0 .. n, P(m) PROVE m = n - 1
    <3>1. m # n
      BY <2>1, <2>3, <2>5
    <3>2. m + 1 \in m + 1 .. n => IsUndone(log[m + 1])
      BY <2>5
    <3>3. ~(m + 1 \in 1 .. n - 1)
      BY <2>2, <2>1, <3>2
    <3> QED BY <2>1, <3>1, <3>3
  <2> HIDE DEF P
  <2>6. Left(log) = n - 1
    BY <1>3, <2>4, <2>5
  <2>7. SubSeq(log, 1, n - 1) = Front(log)
    BY DEF Front
  <2>8. u(n - 1) = <<Last(log).item>>
    <3>1. n - (n - 1) = 1 /\ n + 1 - 1 = n
      BY <2>1
    <3>2. u(n - 1) = [i \in 1 .. 1 |-> log[n + 1 - i].item]
      BY <3>1
    <3> DEFINE x == log[n].item
    <3>3. [i \in 1 .. 1 |-> log[n + 1 - i].item] = [i \in 1 .. 1 |-> x]
      BY <3>1
    <3>4. [i \in 1 .. 1 |-> x] = <<x>>
      <4> HIDE DEF x
      <4> QED OBVIOUS
    <3> QED BY <2>1, <3>2, <3>3, <3>4
  <2> QED BY <1>4, <2>6, <2>7, <2>8
<1> QED BY <1>5, <1>6

-----------------------------------------------------------------------------
(* The conditions taken from the log.                                       *)

LEMMA AwaitedTyped ==
  ASSUME NEW A, NEW P, NEW E, NEW ids, NEW r, NEW at, NEW n, Awaited(A, P, E, ids, r, at, n)
  PROVE  Len(at) \in Nat /\ Len(at) = Len(ids) /\ \A i \in 1 .. Len(at) : at[i] \in Nat
<1>1. at \in Seq(Nat) /\ Len(at) = Len(ids)
  BY DEF Awaited
<1> QED BY <1>1

\* A condition taken from the log on the way back.
LEMMA AwaitedMore ==
  ASSUME NEW A, NEW P, NEW E, NEW ids \in Seq(Cond), NEW r, Len(r) \in Nat, NEW at, NEW n \in Nat,
         Awaited(A, P, E, ids, r, at, n + 1), r[n + 1] \in A,
         NEW c, ~P[c].wasInverted => OneSided(E, r, n + 1)
  PROVE  Awaited(A, P, E, Append(ids, c), r, Append(at, n + 1), n)
<1> DEFINE m   == Len(at)
           at2 == Append(at, n + 1)
           ids2 == Append(ids, c)
<1>1. /\ at \in Seq(Nat) /\ m = Len(ids)
      /\ \A i, j \in 1 .. m : i < j => at[i] > at[j]
      /\ \A i \in 1 .. m :
           /\ at[i] > n + 1
           /\ at[i] < Len(r) =>
                r[at[i]] \in A /\ (~P[ids[i]].wasInverted => OneSided(E, r, at[i]))
      /\ \A k \in n + 1 + 1 .. Len(r) - 1 : r[k] \in A => \E i \in 1 .. m : at[i] = k
  BY DEF Awaited
<1>2. m \in Nat /\ \A i \in 1 .. m : at[i] \in Nat
  BY <1>1
<1>3. /\ at2 \in Seq(Nat) /\ Len(at2) = m + 1 /\ at2[m + 1] = n + 1
      /\ \A i \in 1 .. m : at2[i] = at[i]
  <2>1. n + 1 \in Nat
    OBVIOUS
  <2> QED BY <1>1, <2>1, Appended
<1>4. /\ Len(ids2) = m + 1 /\ ids2[m + 1] = c
      /\ \A i \in 1 .. m : ids2[i] = ids[i]
  BY <1>1, Appended
<1> HIDE DEF m, at2, ids2
<1>5. \A i \in 1 .. m + 1 : i \in 1 .. m \/ i = m + 1
  BY <1>2
<1>6. ASSUME NEW i \in 1 .. m + 1, NEW j \in 1 .. m + 1, i < j PROVE at2[i] > at2[j]
  <2>1. i \in 1 .. m
    BY <1>2, <1>6
  <2>2. CASE j \in 1 .. m
    BY <1>1, <1>3, <1>6, <2>1, <2>2
  <2>3. CASE j = m + 1
    BY <1>1, <1>3, <2>1, <2>3
  <2> QED BY <1>5, <2>2, <2>3
<1>7. ASSUME NEW i \in 1 .. m + 1
      PROVE  /\ at2[i] > n
             /\ at2[i] < Len(r) =>
                  r[at2[i]] \in A /\ (~P[ids2[i]].wasInverted => OneSided(E, r, at2[i]))
  <2>1. CASE i \in 1 .. m
    <3>1. at2[i] = at[i] /\ ids2[i] = ids[i] /\ at[i] \in Nat /\ at[i] > n + 1
      BY <1>1, <1>2, <1>3, <1>4, <2>1
    <3> QED BY <1>1, <2>1, <3>1
  <2>2. CASE i = m + 1
    BY <1>3, <1>4, <2>2
  <2> QED BY <1>5, <2>1, <2>2
<1>8. ASSUME NEW k \in n + 1 .. Len(r) - 1, r[k] \in A PROVE \E i \in 1 .. m + 1 : at2[i] = k
  <2>1. CASE k = n + 1
    <3>1. m + 1 \in 1 .. m + 1
      BY <1>2
    <3> QED BY <1>3, <2>1, <3>1
  <2>2. CASE k # n + 1
    <3>1. k \in n + 1 + 1 .. Len(r) - 1
      BY <2>2
    <3>2. PICK i \in 1 .. m : at[i] = k
      BY <1>1, <1>8, <3>1
    <3>3. i \in 1 .. m + 1
      BY <1>2
    <3> QED BY <1>3, <3>2, <3>3
  <2> QED BY <2>1, <2>2
<1>9. Awaited(A, P, E, ids2, r, at2, n)
  BY <1>3, <1>4, <1>6, <1>7, <1>8 DEF Awaited
<1> QED BY <1>9 DEF at2, ids2

\* A step that asks nothing, back or forward again.
LEMMA AwaitedPast ==
  ASSUME NEW A, NEW P, NEW E, NEW ids, NEW r, Len(r) \in Nat, NEW at, NEW n \in Nat,
         n + 1 < Len(r), r[n + 1] \notin A
  PROVE  Awaited(A, P, E, ids, r, at, n + 1) <=> Awaited(A, P, E, ids, r, at, n)
<1>1. ASSUME Awaited(A, P, E, ids, r, at, n + 1) PROVE Awaited(A, P, E, ids, r, at, n)
  <2>1. \A i \in 1 .. Len(at) : at[i] > n + 1 => at[i] > n
    BY <1>1, AwaitedTyped
  <2>2. \A k \in n + 1 .. Len(r) - 1 : k = n + 1 \/ k \in n + 1 + 1 .. Len(r) - 1
    OBVIOUS
  <2> QED BY <1>1, <2>1, <2>2 DEF Awaited
<1>2. ASSUME Awaited(A, P, E, ids, r, at, n) PROVE Awaited(A, P, E, ids, r, at, n + 1)
  <2>1. ASSUME NEW i \in 1 .. Len(at) PROVE at[i] > n + 1
    <3>1. at[i] \in Nat
      BY <1>2, AwaitedTyped
    <3>2. at[i] > n /\ (at[i] < Len(r) => r[at[i]] \in A)
      BY <1>2 DEF Awaited
    <3>3. at[i] # n + 1
      BY <3>2
    <3> QED BY <3>1, <3>2, <3>3
  <2>2. \A k \in n + 1 + 1 .. Len(r) - 1 : k \in n + 1 .. Len(r) - 1
    OBVIOUS
  <2> QED BY <1>2, <2>1, <2>2 DEF Awaited
<1> QED BY <1>1, <1>2

\* A step that asks: the condition that was taken last is its own.
LEMMA AwaitedNext ==
  ASSUME NEW A, NEW P, NEW E, NEW ids \in Seq(Cond), NEW r, Len(r) \in Nat, NEW at, NEW n \in Nat,
         Awaited(A, P, E, ids, r, at, n), n + 1 < Len(r), r[n + 1] \in A
  PROVE  /\ ids # <<>>
         /\ ~P[Last(ids)].wasInverted => OneSided(E, r, n + 1)
         /\ Awaited(A, P, E, Front(ids), r, Front(at), n + 1)
<1> DEFINE m    == Len(at)
           at2  == Front(at)
           ids2 == Front(ids)
<1>1. /\ at \in Seq(Nat) /\ m = Len(ids)
      /\ \A i, j \in 1 .. m : i < j => at[i] > at[j]
      /\ \A i \in 1 .. m :
           /\ at[i] > n
           /\ at[i] < Len(r) =>
                r[at[i]] \in A /\ (~P[ids[i]].wasInverted => OneSided(E, r, at[i]))
      /\ \A k \in n + 1 .. Len(r) - 1 : r[k] \in A => \E i \in 1 .. m : at[i] = k
  BY DEF Awaited
<1>2. m \in Nat /\ \A i \in 1 .. m : at[i] \in Nat
  BY <1>1
<1>3. PICK j \in 1 .. m : at[j] = n + 1
  <2>1. n + 1 \in n + 1 .. Len(r) - 1
    OBVIOUS
  <2> QED BY <1>1, <2>1
<1>4. j = m
  <2> SUFFICES ASSUME j < m PROVE FALSE
    BY <1>2
  <2>1. m \in 1 .. m /\ at[j] > at[m] /\ at[m] > n
    BY <1>1, <1>2
  <2> QED BY <1>2, <1>3, <2>1
<1>5. at # <<>> /\ ids # <<>> /\ m \in Nat \ {0} /\ at[m] = n + 1
  BY <1>1, <1>2, <1>3, <1>4
<1>6. /\ at2 \in Seq(Nat) /\ Len(at2) = m - 1
      /\ \A i \in 1 .. m - 1 : at2[i] = at[i]
  BY <1>1, <1>5, Shortened
<1>7. /\ Len(ids2) = m - 1 /\ Last(ids) = ids[m]
      /\ \A i \in 1 .. m - 1 : ids2[i] = ids[i]
  BY <1>1, <1>5, Shortened
<1> HIDE DEF m, at2, ids2
<1>8. m \in 1 .. m /\ \A i \in 1 .. m - 1 : i \in 1 .. m /\ i < m
  BY <1>5
<1>9. ~P[Last(ids)].wasInverted => OneSided(E, r, n + 1)
  BY <1>1, <1>5, <1>7, <1>8
<1>10. ASSUME NEW i \in 1 .. m - 1
       PROVE  /\ at2[i] > n + 1
              /\ at2[i] < Len(r) =>
                   r[at2[i]] \in A /\ (~P[ids2[i]].wasInverted => OneSided(E, r, at2[i]))
  <2>1. at[i] > at[m] /\ at2[i] = at[i] /\ ids2[i] = ids[i]
    BY <1>1, <1>6, <1>7, <1>8
  <2> QED BY <1>1, <1>5, <1>8, <2>1
<1>11. ASSUME NEW k \in n + 1 + 1 .. Len(r) - 1, r[k] \in A
       PROVE  \E i \in 1 .. m - 1 : at2[i] = k
  <2>1. k \in n + 1 .. Len(r) - 1 /\ k # n + 1
    OBVIOUS
  <2>2. PICK i \in 1 .. m : at[i] = k
    BY <1>1, <1>11, <2>1
  <2>3. i \in 1 .. m - 1
    BY <1>5, <2>1, <2>2
  <2> QED BY <1>6, <2>2, <2>3
<1>12. \A i, k \in 1 .. m - 1 : i < k => at2[i] > at2[k]
  BY <1>1, <1>6, <1>8
<1>13. Awaited(A, P, E, ids2, r, at2, n + 1)
  BY <1>6, <1>7, <1>10, <1>11, <1>12 DEF Awaited
<1> QED BY <1>5, <1>9, <1>13 DEF at2, ids2

\* The condition just inverted is the route's last; those below it do not belong to it.
LEMMA AwaitedFirst ==
  ASSUME NEW A, NEW P, NEW E, NEW ids \in Seq(Cond), ids # <<>>, NEW r, NEW n \in Nat,
         Len(r) = n + 2, r[n + 1] \in A, P[Last(ids)].wasInverted = TRUE
  PROVE  \E at \in Seq(Nat) : Awaited(A, P, E, ids, r, at, n)
<1> DEFINE m  == Len(ids)
           at == [i \in 1 .. m |-> n + 1 + m - i]
<1>1. m \in Nat \ {0} /\ Last(ids) = ids[m]
  BY Shortened
<1> HIDE DEF m
<1>2. \A i \in 1 .. m : n + 1 + m - i \in Nat /\ n + 1 + m - i > n
  BY <1>1
<1>3. /\ at \in Seq(Nat) /\ Len(at) = m
      /\ \A i \in 1 .. m : at[i] = n + 1 + m - i
  BY <1>1, <1>2
<1> HIDE DEF at
<1>4. \A i, j \in 1 .. m : i < j => at[i] > at[j]
  BY <1>1, <1>3
<1>5. ASSUME NEW i \in 1 .. m, at[i] < Len(r)
      PROVE  r[at[i]] \in A /\ (~P[ids[i]].wasInverted => OneSided(E, r, at[i]))
  <2>1. i = m
    BY <1>1, <1>3, <1>5
  <2>2. at[i] = n + 1
    BY <1>1, <1>3, <2>1
  <2> QED BY <1>1, <2>1, <2>2
<1>6. \A k \in n + 1 .. Len(r) - 1 : \E i \in 1 .. m : at[i] = k
  <2>1. \A k \in n + 1 .. Len(r) - 1 : k = n + 1
    OBVIOUS
  <2>2. m \in 1 .. m /\ at[m] = n + 1
    BY <1>1, <1>3
  <2> QED BY <2>1, <2>2
<1>7. Awaited(A, P, E, ids, r, at, n)
  BY <1>2, <1>3, <1>4, <1>5, <1>6 DEF Awaited, m
<1> QED BY <1>3, <1>7

LEMMA AwaitedStill ==
  ASSUME NEW A, NEW P, NEW Q, NEW E, NEW ids, NEW r, NEW at, NEW n,
         Awaited(A, P, E, ids, r, at, n),
         \A i \in 1 .. Len(ids) : Q[ids[i]].wasInverted = P[ids[i]].wasInverted
  PROVE  Awaited(A, Q, E, ids, r, at, n)
  BY DEF Awaited

-----------------------------------------------------------------------------
(* Conditions and the variables they mention.                               *)

\* A condition of the program is about the variables it mentions.
TestsDepend == \A b \in Block : Depends(Test[b])

\* The program tests what it has read: on no way from an entry does a block's
\* condition mention a variable that neither the block nor one before it reads.
TestsWhatItRead ==
  \A p \in Seq(Block) : IsWalk(p) /\ Branches(p[Len(p)]) =>
    Test[p[Len(p)]].vars \subseteq ReadsTo(p, Len(p))

LEMMA DependsAll ==
  /\ \A c : c.holds = Input \/ c.holds = {} => Depends(c)
  /\ Depends(None)
<1>1. ASSUME NEW c, c.holds = Input \/ c.holds = {} PROVE Depends(c)
  BY <1>1 DEF Depends
<1>2. None.holds = {}
  BY DEF None
<1> QED BY <1>1, <1>2

LEMMA DependsNot ==
  ASSUME NEW c \in Condition, Depends(c)
  PROVE  Not(c) \in Condition /\ Depends(Not(c)) /\ Not(c).holds = Input \ c.holds
<1>1. Not(c) \in Condition /\ Not(c).vars = c.vars /\ Not(c).holds = Input \ c.holds
  BY DEF Not, Condition
<1> QED BY <1>1 DEF Depends

LEMMA DependsBoth ==
  ASSUME NEW c, NEW d, NEW e, Depends(c), Depends(d),
         e.vars = c.vars \cup d.vars, e.holds = c.holds \cap d.holds
  PROVE  Depends(e)
<1> SUFFICES ASSUME NEW x \in Input, NEW y \in Input,
                    \A v \in Variable : v \in e.vars => x[v] = y[v]
             PROVE  x \in e.holds <=> y \in e.holds
  BY DEF Depends
<1>1. \A v \in Variable : v \in c.vars \/ v \in d.vars => x[v] = y[v]
  OBVIOUS
<1>2. (x \in c.holds <=> y \in c.holds) /\ (x \in d.holds <=> y \in d.holds)
  BY <1>1 DEF Depends
<1> QED BY <1>2

\* The solver's steps and assertions keep its frames about what they mention.
LEMMA FramesDepend ==
  ASSUME NEW s, s \in Seq(ToSet(s)), \A k \in 1 .. Len(s) : Depends(s[k])
  PROVE  /\ \A k \in 1 .. Len(StepForward(s)) : Depends(StepForward(s)[k])
         /\ s # <<>> => \A k \in 1 .. Len(StepBackward(s)) : Depends(StepBackward(s)[k])
<1>1. Len(s) \in Nat
  OBVIOUS
<1>2. /\ Len(StepForward(s)) = Len(s) + 1
      /\ \A k \in 1 .. Len(s) : StepForward(s)[k] = s[k]
      /\ StepForward(s)[Len(s) + 1].holds = Input
      /\ s # <<>> => /\ Len(StepBackward(s)) = Len(s) - 1
                     /\ \A k \in 1 .. Len(s) - 1 : StepBackward(s)[k] = s[k]
  BY Stepping
<1>3. Depends(StepForward(s)[Len(s) + 1])
  BY <1>2, DependsAll
<1>4. ASSUME NEW k \in 1 .. Len(StepForward(s)) PROVE Depends(StepForward(s)[k])
  <2>1. k \in 1 .. Len(s) \/ k = Len(s) + 1
    BY <1>1, <1>2
  <2> QED BY <1>2, <1>3, <2>1
<1>5. ASSUME s # <<>>, NEW k \in 1 .. Len(StepBackward(s)) PROVE Depends(StepBackward(s)[k])
  <2>1. k \in 1 .. Len(s) - 1 /\ k \in 1 .. Len(s)
    BY <1>1, <1>2, <1>5
  <2> QED BY <1>2, <1>5, <2>1
<1> QED BY <1>4, <1>5

LEMMA AssertedDepends ==
  ASSUME NEW s, s \in Seq(ToSet(s)), s # <<>>, \A k \in 1 .. Len(s) : Depends(s[k]),
         NEW c, Depends(c)
  PROVE  \A k \in 1 .. Len(Asserted(s, c)) : Depends(Asserted(s, c)[k])
<1> DEFINE n == Len(s)
           f == [vars |-> s[n].vars \cup c.vars, holds |-> s[n].holds \cap c.holds]
           r == [s EXCEPT ![n] = f]
<1>1. Asserted(s, c) = r
  BY DEF Asserted
<1>2. n \in Nat \ {0} /\ DOMAIN s = 1 .. n
  OBVIOUS
<1>3. /\ Len(Asserted(s, c)) = n
      /\ \A k \in 1 .. n - 1 : Asserted(s, c)[k] = s[k]
  BY Asserting
<1>4. n \in 1 .. n /\ \A k \in 1 .. n : k \in 1 .. n - 1 \/ k = n
  <2> HIDE DEF n
  <2> QED BY <1>2
<1>5. Depends(f)
  <2>1. f.vars = s[n].vars \cup c.vars /\ f.holds = s[n].holds \cap c.holds
    OBVIOUS
  <2>2. Depends(s[n])
    BY <1>4
  <2> HIDE DEF f
  <2> QED BY <2>1, <2>2, DependsBoth
<1>6. r[n] = f
  <2> HIDE DEF f, n
  <2> QED BY <1>2, <1>4
<1> HIDE DEF r, f, n
<1> QED BY <1>1, <1>3, <1>4, <1>5, <1>6 DEF n

\* What is left of a model whose values fit is a model.
Fitting(s) == {Cut(s, x) : x \in {m \in Models(s) : Fits(s, m)}}

LEMMA Rounded ==
  ASSUME NEW s, s \in Seq(ToSet(s)), \A k \in 1 .. Len(s) : Depends(s[k]),
         NEW y \in Fitting(s)
  PROVE  y \in Input /\ \A k \in 1 .. Len(s) : y \in s[k].holds
<1> PICK x \in Models(s) : Fits(s, x) /\ y = Cut(s, x)
  BY DEF Fitting
<1>1. y = [v \in Variable |-> IF v \in Mentioned(s) THEN x[v] % ByteSize ELSE 0]
  BY DEF Cut
<1>2. x \in Input /\ \A k \in DOMAIN s : x \in s[k].holds
  BY DEF Models
<1>3. DOMAIN s = 1 .. Len(s)
  OBVIOUS
<1>4. ASSUME NEW w \in Word, w < ByteSize PROVE w % ByteSize = w
  <2>1. w \in Nat /\ ByteSize \in Nat \ {0} /\ w < ByteSize
    BY <1>4, ExplorerAssumption
  <2> QED BY <2>1
<1>5. ASSUME NEW v \in Variable
      PROVE  x[v] \in Word /\ y[v] = IF v \in Mentioned(s) THEN x[v] ELSE 0
  <2>1. x[v] \in Word
    BY <1>2 DEF Input
  <2>2. v \in Mentioned(s) => x[v] < ByteSize
    BY DEF Fits
  <2> QED BY <1>1, <1>4, <2>1, <2>2
<1>6. y \in Input
  <2>1. 0 \in Word
    BY ExplorerAssumption
  <2>2. \A v \in Variable : y[v] \in Word
    BY <1>5, <2>1
  <2>3. y = [v \in Variable |-> y[v]]
    BY <1>1
  <2> QED BY <2>2, <2>3 DEF Input
<1>7. ASSUME NEW k \in 1 .. Len(s) PROVE y \in s[k].holds
  <2>1. x \in s[k].holds /\ Depends(s[k])
    BY <1>2, <1>3
  <2>2. \A v \in s[k].vars : v \in Mentioned(s)
    BY <1>3 DEF Mentioned
  <2>3. \A v \in Variable : v \in s[k].vars => x[v] = y[v]
    BY <1>5, <2>2
  <2> QED BY <1>2, <1>6, <2>1, <2>3 DEF Depends
<1> QED BY <1>6, <1>7

-----------------------------------------------------------------------------
(* The search's invariant.                                                  *)

LEMMA WalkOn ==
  ASSUME NEW p \in Seq(Block), NEW c
  PROVE  /\ IsWalk(p) /\ c \in {Successors[p[Len(p)]][1], Successors[p[Len(p)]][2]} =>
              IsWalk(Append(p, c))
         /\ IsWalk(Append(p, c)) /\ p # <<>> =>
              IsWalk(p) /\ c \in {Successors[p[Len(p)]][1], Successors[p[Len(p)]][2]}
<1> DEFINE n == Len(p)
           q == Append(p, c)
<1>1. /\ n \in Nat /\ Len(q) = n + 1 /\ q[n + 1] = c
      /\ \A k \in 1 .. n : q[k] = p[k]
  BY Appended
<1>2. p # <<>> => n \in Nat \ {0}
  OBVIOUS
<1>3. q # <<>>
  BY <1>1
<1> HIDE DEF q
<1>4. ASSUME IsWalk(p), c \in {Successors[p[n]][1], Successors[p[n]][2]} PROVE IsWalk(q)
  <2>1. /\ n \in Nat \ {0} /\ p[1] \in Entry
        /\ \A k \in 1 .. n - 1 : p[k + 1] \in {Successors[p[k]][1], Successors[p[k]][2]}
    BY <1>2, <1>4 DEF IsWalk
  <2> HIDE DEF n
  <2>2. q[1] = p[1] /\ q[n] = p[n]
    BY <1>1, <2>1
  <2>3. ASSUME NEW k \in 1 .. n PROVE q[k + 1] \in {Successors[q[k]][1], Successors[q[k]][2]}
    <3>1. CASE k = n
      BY <1>1, <1>4, <2>2, <3>1
    <3>2. CASE k # n
      <4>1. k \in 1 .. n - 1 /\ k \in 1 .. n /\ k + 1 \in 1 .. n
        BY <2>1, <3>2
      <4>2. q[k] = p[k] /\ q[k + 1] = p[k + 1]
        BY <1>1, <4>1
      <4> QED BY <2>1, <4>1, <4>2
    <3> QED BY <3>1, <3>2
  <2>4. Len(q) - 1 = n
    BY <1>1
  <2> QED BY <1>3, <2>1, <2>2, <2>3, <2>4 DEF IsWalk
<1>5. ASSUME IsWalk(q), p # <<>>
      PROVE  IsWalk(p) /\ c \in {Successors[p[n]][1], Successors[p[n]][2]}
  <2>1. n \in Nat \ {0} /\ Len(q) - 1 = n
    BY <1>1, <1>2, <1>5
  <2>2. /\ q[1] \in Entry
        /\ \A k \in 1 .. n : q[k + 1] \in {Successors[q[k]][1], Successors[q[k]][2]}
    BY <1>5, <2>1 DEF IsWalk
  <2> HIDE DEF n
  <2>3. p[1] \in Entry /\ q[n] = p[n] /\ n \in 1 .. n
    BY <1>1, <2>1, <2>2
  <2>4. ASSUME NEW k \in 1 .. n - 1
        PROVE  p[k + 1] \in {Successors[p[k]][1], Successors[p[k]][2]}
    <3>1. k \in 1 .. n /\ k + 1 \in 1 .. n
      BY <2>1
    <3>2. q[k] = p[k] /\ q[k + 1] = p[k + 1]
      BY <1>1, <3>1
    <3> QED BY <2>2, <3>1, <3>2
  <2>5. IsWalk(p)
    BY <1>5, <2>3, <2>4 DEF IsWalk, n
  <2>6. q[n + 1] \in {Successors[q[n]][1], Successors[q[n]][2]}
    BY <2>2, <2>3
  <2> QED BY <1>1, <2>3, <2>5, <2>6
<1> QED BY <1>4, <1>5 DEF q

LEMMA RouteIs ==
  ASSUME IInv
  PROVE  /\ path \in Seq(Block) /\ Len(path) \in Nat /\ pc \in Block \cup {NoBlock}
         /\ Route \in Seq(Block \cup {NoBlock}) /\ Len(Route) = Len(path) + 1
         /\ \A i \in 1 .. Len(path) : Route[i] = path[i]
         /\ Route[Len(path) + 1] = pc
         /\ pc \in Block => Route \in Seq(Block)
<1>1. path \in Seq(Block) /\ Len(path) \in Nat /\ pc \in Block \cup {NoBlock}
  BY DEF IInv, Typed
<1>2. path \in Seq(Block \cup {NoBlock})
  BY <1>1
<1> QED BY <1>1, <1>2, Appended DEF Route

\* A block of which both branches lead to the same place asks nothing; nor does one
\* at the end of the program.
LEMMA AskingIs ==
  /\ \A b \in Asking : b \in Block /\ reports /\ Branches(b) /\ IsUndefined(Test[b])
  /\ \A b \in Block : NoBlock \in {Successors[b][1], Successors[b][2]} => b \notin Asking
<1>1. \A b \in Asking : b \in Block /\ reports /\ Branches(b) /\ IsUndefined(Test[b])
  BY DEF Asking
<1> QED BY <1>1, BranchAssumption DEF Branches

LEMMA SearchInitially == Init => JInv
<1> SUFFICES ASSUME Init PROVE JInv
  OBVIOUS
<1>1. pc \in Entry /\ path = <<>> /\ call = "begin"
  BY DEF Init
<1>2. Route = <<pc>>
  BY <1>1 DEF Route
<1>3. IsWalk(Route)
  BY <1>1, <1>2 DEF IsWalk
<1>4. Phased
  BY <1>3 DEF Init, Phased
<1>5. Understood
  <2>1. None \in Condition /\ Depends(None)
    BY DependsAll DEF None, Condition
  <2>2. pool = [c \in Cond |-> [wasInverted |-> FALSE, ast |-> None]]
    BY DEF Init, Cond
  <2>3. pool \in [Cond -> [wasInverted : BOOLEAN, ast : Condition]]
    BY <2>1, <2>2
  <2>4. \A c \in Cond : Depends(pool[c].ast)
    BY <2>1, <2>2
  <2>5. \A k \in 1 .. Len(solver) : Depends(solver[k])
    <3>1. solver = <<NoFormula>>
      BY DEF Init
    <3>2. NoFormula.holds = Input
      BY DEF NoFormula
    <3>3. Depends(NoFormula)
      BY <3>2, DependsAll
    <3>4. Len(solver) = 1 /\ solver[1] = NoFormula
      BY <3>1
    <3> QED BY <3>3, <3>4
  <2> QED BY <1>1, <2>1, <2>3, <2>4, <2>5 DEF Init, Understood
<1>6. IdsRight
  <2>1. PoolSize \in Nat
    BY ExplorerAssumption
  <2>2. free = [i \in 1 .. PoolSize |-> i] /\ tvds = <<>> /\ conds = <<>> /\ lastCond = NoCond
    BY DEF Init
  <2>3. free \in Seq(Cond) /\ Once(free)
    BY <2>1, <2>2 DEF Cond, Once
  <2>4. Items(conds) = <<>>
    BY <2>2 DEF Items
  <2>5. Spread(<<>>, <<>>, free)
    BY <2>3 DEF Spread, Once, Apart
  <2> QED BY <2>1, <2>2, <2>4, <2>5 DEF IdsRight, NoCond
<1>7. SearchRight
  BY <1>1 DEF SearchRight, Running
<1> QED BY <1>4, <1>5, <1>6, <1>7 DEF JInv

LEMMA BeginSearches == IInv /\ JInv /\ ExecutionBegin => JInv'
<1> SUFFICES ASSUME IInv, JInv, ExecutionBegin PROVE JInv'
  OBVIOUS
<1>1. /\ call = "begin" /\ call' \in {"run", "done"}
      /\ call' = "run" => executionState = "EXPLORING"
      /\ UNCHANGED <<pc, path, input, read, reports, lastCondition, solver, executionState, backSteps,
                     lastDirection, newPass, conds, pool, free, tvds, lastCond, explored>>
  BY DEF ExecutionBegin, program, executor, search, cec
<1>2. Route' = Route /\ Asking' = Asking
  BY <1>1 DEF Route, Asking
<1>3. Phased' /\ Understood' /\ IdsRight'
  BY <1>1, <1>2 DEF JInv, Phased, Understood, IdsRight, Pending
<1>4. CASE call' = "done"
  BY <1>3, <1>4 DEF JInv, SearchRight, Running
<1>5. CASE call' = "run"
  <2>1. /\ executionState = "EXPLORING" /\ path = <<>> /\ conds = <<>> /\ tvds = <<>>
        /\ explored = {} /\ backSteps = 0 /\ lastDirection = "ADVANCE"
    BY <1>1, <1>5 DEF IInv, Flow, JInv, Phased
  <2>2. Route \in Seq(Block \cup {NoBlock}) /\ Len(Route) = 1
    BY <2>1, RouteIs
  <2>3. Met' = 0 /\ path' = <<>> /\ conds' = <<>> /\ explored' = {} /\ tvds' = <<>>
    BY <1>1, <1>5, <2>1 DEF Met
  <2>4. Recorded(Asking, <<>>, Route, 0)
    BY DEF Recorded
  <2>5. Meant(pool', {}, <<>>, Route) /\ Fresh({}, Route, 1)
    BY DEF Meant, Fresh
  <2>6. Searches(Route, <<>>)'
    BY <1>1, <1>2, <1>5, <2>1, <2>2, <2>3, <2>4, <2>5 DEF Searches, Follow
  <2>7. <<>> \in Seq(Nat)
    OBVIOUS
  <2> QED BY <1>2, <1>3, <2>2, <2>6, <2>7 DEF JInv, SearchRight
<1> QED BY <1>1, <1>4, <1>5

LEMMA CrashSearches ==
  ASSUME IInv, JInv, Crash
  PROVE  JInv'
<1>1. /\ call = "run" /\ call' = "crashed"
      /\ UNCHANGED <<program, reports, executor, search, step, cec, explored>>
  BY DEF Crash
<1>2. Route' = Route /\ Asking' = Asking /\ (Pending' <=> Pending)
  BY <1>1 DEF Route, Asking, Pending, program, executor
<1>3. Phased' /\ Understood' /\ IdsRight'
  BY <1>1, <1>2 DEF JInv, Phased, Understood, IdsRight, program, executor, search, cec
<1>4. SearchRight'
  BY <1>1 DEF SearchRight, Running
<1> QED BY <1>3, <1>4 DEF JInv

\* Undoing a block leaves the search where it is.
LEMMA UndoSearches ==
  ASSUME IInv, JInv, Undo
  PROVE  JInv'
<1> DEFINE n == Len(path)
<1>1. /\ call = "undo" /\ lastDirection = "BACKTRACK" /\ path # <<>>
      /\ executionState \in {"BACKTRACKING", "PATCHING"}
  BY DEF IInv, Flow, Undo
<1>2. /\ pc' = Last(path) /\ path' = Front(path)
      /\ call' \in {"begin", "control"}
      /\ UNCHANGED <<input, reports, lastCondition, solver, executionState, backSteps,
                     lastDirection, newPass, conds, pool, free, tvds, lastCond, explored>>
  BY DEF Undo, executor, search, cec
<1>3. /\ path \in Seq(Block) /\ n \in Nat \ {0} /\ Route' = path /\ Len(path') = n - 1
  BY <1>1, <1>2, RouteIs, Shortened DEF Route
<1>4. Asking' = Asking
  BY <1>2 DEF Asking
<1>5. Phased'
  <2>1. IsWalk(path)
    <3>1. IsWalk(Append(path, pc))
      BY DEF JInv, Phased, Route
    <3> QED BY <1>1, <1>3, <3>1, WalkOn
  <2>2. explored \subseteq Seq(Block)
    BY DEF JInv, Phased
  <2> QED BY <1>1, <1>2, <1>3, <2>1, <2>2 DEF Phased
<1>6. Understood' /\ IdsRight'
  BY <1>1, <1>2, <1>4 DEF JInv, Understood, IdsRight
<1>7. ASSUME call' = "control"
      PROVE  \E r \in Seq(Block \cup {NoBlock}), at \in Seq(Nat) : Searches(r, at)'
  <2>1. PICK r \in Seq(Block \cup {NoBlock}), at \in Seq(Nat) : Searches(r, at)
    BY <1>1 DEF JInv, SearchRight, Running
  <2>2. Met = n /\ Met' = n
    BY <1>1, <1>2, <1>3, <1>7 DEF Met
  <2>3. Follow(r)'
    <3>1. Len(r) >= n + 1 /\ \A i \in 1 .. n + 1 : r[i] = Route[i]
      BY <2>1 DEF Searches, Follow
    <3>2. \A i \in 1 .. n : i \in 1 .. n + 1 /\ Route[i] = path[i]
      BY <1>3, RouteIs
    <3>3. Len(path') + 1 = n
      BY <1>3
    <3>4. Len(r) >= n
      BY <1>3, <3>1
    <3> QED BY <1>3, <3>1, <3>2, <3>3, <3>4 DEF Follow
  <2>4. Recorded(Asking', conds', r, Met') /\ Meant(pool', explored', conds', r) /\ Len(r) > Met'
    BY <1>2, <1>4, <2>1, <2>2 DEF Searches
  <2>5. executionState = "BACKTRACKING" =>
          /\ Len(r) = Met + 1 /\ backSteps = 0
          /\ tvds # <<>> /\ lastCond # NoCond => pool[lastCond].wasInverted
    BY <2>1 DEF Searches
  <2>6. executionState = "PATCHING" => Replays(r, at)
    BY <2>1 DEF Searches
  <2>7. executionState = "PATCHING" => Replays(r, at)'
    BY <1>2, <1>4, <2>2, <2>6 DEF Replays
  <2>8. Searches(r, at)'
    BY <1>1, <1>2, <2>2, <2>3, <2>4, <2>5, <2>7 DEF Searches
  <2> QED BY <2>8
<1>8. SearchRight'
  <2>1. CASE call' = "control"
    BY <1>7, <2>1 DEF SearchRight
  <2>2. CASE call' = "begin"
    BY <2>2 DEF SearchRight, Running
  <2> QED BY <1>2, <2>1, <2>2
<1> QED BY <1>5, <1>6, <1>8 DEF JInv

\* The path that was run is explored: it went the way that the conditions stand for.
LEMMA EndSearches ==
  ASSUME IInv, JInv, ExecutionEnd
  PROVE  JInv'
<1> DEFINE n == Len(path)
<1>1. /\ call = "end" /\ executionState = "EXPLORING" /\ pc = NoBlock
      /\ lastDirection = "ADVANCE" /\ path # <<>>
  BY DEF IInv, Flow, JInv, Phased, ExecutionEnd
<1>2. /\ lastDirection' = "BACKTRACK" /\ executionState' = "BACKTRACKING" /\ call' = "undo"
      /\ explored' = explored \cup {path}
      /\ UNCHANGED <<pc, path, input, reports, lastCondition, solver, backSteps,
                     newPass, conds, pool, free, tvds, lastCond>>
  BY DEF ExecutionEnd, program, executor, cec
<1>3. /\ path \in Seq(Block) /\ n \in Nat \ {0}
      /\ Route = Full(path) /\ Route' = Route /\ Asking' = Asking
  BY <1>1, <1>2, RouteIs, Shortened DEF Route, Full, Asking
<1>4. Phased' /\ Understood' /\ IdsRight'
  BY <1>1, <1>2, <1>3 DEF JInv, Phased, Understood, IdsRight
<1>5. path[n] \notin Asking
  <2>1. IsWalk(Append(path, pc))
    BY DEF JInv, Phased, Route
  <2>2. pc \in {Successors[path[n]][1], Successors[path[n]][2]}
    BY <1>1, <1>3, <2>1, WalkOn
  <2>3. path[n] \in Block
    BY <1>3
  <2> QED BY <1>1, <2>2, <2>3, AskingIs
<1>6. PICK r \in Seq(Block \cup {NoBlock}), at \in Seq(Nat) : Searches(r, at)
  BY <1>1 DEF JInv, SearchRight, Running
<1>7. Met = n - 1 /\ Met' = n
  BY <1>1, <1>2, <1>3 DEF Met
<1>8. /\ Recorded(Asking, conds, r, n - 1) /\ Meant(pool, explored, conds, r)
      /\ Len(r) = n + 1 /\ tvds = <<>> /\ backSteps = 0
      /\ \A i \in 1 .. n + 1 : r[i] = Route[i]
  BY <1>1, <1>6, <1>7 DEF Searches, Follow
<1>9. Recorded(Asking, conds, r, n)
  <2> DEFINE m == n - 1
  <2>1. m \in Nat /\ m + 1 = n
    BY <1>3
  <2>2. r[n] \notin Asking
    <3>1. n \in 1 .. n /\ n \in 1 .. n + 1
      BY <1>3
    <3>2. Route[n] = path[n]
      BY <3>1, RouteIs
    <3> QED BY <1>5, <1>8, <3>1, <3>2
  <2>3. Recorded(Asking, conds, r, m)
    BY <1>8
  <2> HIDE DEF m
  <2>4. Recorded(Asking, conds, r, m + 1)
    BY <2>1, <2>2, <2>3, RecordedSkip
  <2> QED BY <2>1, <2>4
<1>10. Meant(pool, explored \cup {path}, conds, r)
  <2> SUFFICES ASSUME NEW i \in 1 .. Len(conds)
               PROVE  Stands(pool, explored \cup {path}, conds[i].item, r, conds[i].step + 1)
    BY DEF Meant
  <2> DEFINE k == conds[i].step + 1
             c == conds[i].item
  <2>1. k \in 1 .. n
    BY <1>9 DEF Recorded
  <2>2. Stands(pool, explored, c, r, k)
    BY <1>8 DEF Meant
  <2> HIDE DEF k, c
  <2>3. explored \subseteq Seq(Block)
    BY DEF JInv, Phased
  <2>4. k \in 0 .. Len(path) /\ \A j \in 1 .. Len(path) + 1 : r[j] = Full(path)[j]
    BY <1>3, <1>8, <2>1
  <2>5. OneSided(explored, r, k) => OneSided(explored \cup {path}, r, k)
    BY <1>3, <2>3, <2>4, ExploredToo
  <2>6. Stands(pool, explored \cup {path}, c, r, k)
    BY <2>2, <2>5 DEF Stands
  <2> QED BY <2>6 DEF k, c
<1>11. Searches(r, at)'
  <2>1. Follow(r)'
    BY <1>2, <1>3, <1>8 DEF Follow
  <2>2. Len(r) = Met' + 1 /\ Len(r) > Met'
    BY <1>3, <1>7, <1>8
  <2>3. Recorded(Asking', conds', r, Met') /\ Meant(pool', explored', conds', r)
    BY <1>2, <1>3, <1>7, <1>9, <1>10
  <2> QED BY <1>2, <1>8, <2>1, <2>2, <2>3 DEF Searches
<1> QED BY <1>4, <1>11 DEF JInv, SearchRight

\* Run again, the program goes the way the input was found for: what it tests it has
\* read, now or before, with the values of that input.
LEMMA RunSearches ==
  ASSUME TestsDepend, TestsWhatItRead, IInv, IInv', JInv, RunBlock
  PROVE  JInv'
<1> DEFINE n    == Len(path)
           held == [v \in Variable |-> IF v \in Reads[pc] THEN input[v] ELSE Last(read)[v]]
<1>1. /\ call = "run" /\ lastDirection = "ADVANCE" /\ pc \in Block
      /\ path \in Seq(Block) /\ n \in Nat /\ input \in Input
      /\ Route \in Seq(Block) /\ Len(Route) = n + 1 /\ Route[n + 1] = pc
      /\ executionState \in {"EXPLORING", "RESTORING"}
  <2>1. call = "run" /\ lastDirection = "ADVANCE" /\ pc \in Block /\ input \in Input
    BY DEF IInv, Typed, Flow, RunBlock
  <2> QED BY <2>1, RouteIs DEF JInv, Phased
<1>2. /\ read' = Append(read, held) /\ path' = Append(path, pc) /\ pc' = SuccessorOf(pc, held)
      /\ lastCondition' = IF reports /\ Branches(pc) THEN Taken(pc, held) ELSE lastCondition
      /\ call' = IF pc' = NoBlock THEN "end" ELSE "control"
      /\ UNCHANGED <<input, reports, solver, executionState, backSteps, lastDirection, newPass,
                     conds, pool, free, tvds, lastCond, explored>>
  BY <1>1 DEF RunBlock, search, cec
<1>3. /\ path' = Route /\ Route' = Append(Route, pc') /\ Asking' = Asking
      /\ Len(path') = n + 1 /\ Met = n /\ Met' = n
  <2>1. path' = Route /\ Route' = Append(Route, pc') /\ Asking' = Asking
    BY <1>2 DEF Route, Asking
  <2> QED BY <1>1, <1>2, <2>1 DEF Met
<1>4. /\ Len(Route') = n + 2 /\ Route'[n + 2] = pc'
      /\ \A i \in 1 .. n + 1 : Route'[i] = Route[i]
      /\ pc' \in Block \cup {NoBlock}
      /\ Route' \in Seq(Block \cup {NoBlock})
  <2>1. n + 1 + 1 = n + 2
    BY <1>1
  <2>2. pc' \in Block \cup {NoBlock} /\ Route \in Seq(Block \cup {NoBlock})
    BY <1>1 DEF IInv, Typed
  <2> QED BY <1>1, <1>3, <2>1, <2>2, Appended
<1>5. held \in Input
  <2>1. /\ read \in Seq(Input) /\ Len(read) = n + 1 /\ read[n + 1] \in Input
        /\ Last(read) = read[n + 1]
    <3>1. read \in Seq(Input) /\ Len(read) = n + 1
      BY DEF IInv, Typed
    <3> QED BY <1>1, <3>1 DEF Last
  <2> QED BY <1>1, <2>1 DEF Input
<1>6. \A v \in ReadsTo(Route, n + 1) : held[v] = input[v]
  <2>1. read'[n + 2] = held
    <3>1. read \in Seq(Input) /\ Len(read) = n + 1 /\ n + 1 + 1 = n + 2
      BY <1>1 DEF IInv, Typed
    <3> QED BY <1>2, <3>1, Appended
  <2>2. Running'
    BY <1>2 DEF Running
  <2>3. \A k \in 1 .. Len(path') + 1 : \A v \in ReadsTo(path', k - 1) : read'[k][v] = input'[v]
    BY <2>2 DEF IInv, ReadRight
  <2>4. n + 2 \in 1 .. Len(path') + 1 /\ n + 2 - 1 = n + 1
    BY <1>1, <1>3
  <2>5. \A v \in ReadsTo(path', n + 2 - 1) : read'[n + 2][v] = input'[v]
    BY <2>3, <2>4
  <2> QED BY <1>2, <1>3, <2>1, <2>4, <2>5
<1> HIDE DEF held
<1>7. IsWalk(Route)
  BY DEF JInv, Phased
<1>8. /\ pc' \in {Successors[pc][1], Successors[pc][2]}
      /\ pc' = SuccessorOf(pc, input)
  <2>1. \A x : SuccessorOf(pc, x) = IF Holds(pc, x) THEN Successors[pc][1] ELSE Successors[pc][2]
    BY DEF SuccessorOf
  <2>2. CASE ~Branches(pc)
    BY <1>2, <2>1, <2>2 DEF Branches
  <2>3. CASE Branches(pc)
    <3>1. Test[pc].vars \subseteq ReadsTo(Route, n + 1)
      BY <1>1, <1>7, <2>3 DEF TestsWhatItRead
    <3>2. held \in Test[pc].holds <=> input \in Test[pc].holds
      <4>1. \A v \in Variable : v \in Test[pc].vars => held[v] = input[v]
        BY <1>6, <3>1
      <4> QED BY <1>1, <1>5, <4>1 DEF TestsDepend, Depends
    <3> QED BY <1>2, <2>1, <3>2 DEF Holds
  <2> QED BY <2>2, <2>3
<1>9. Understood'
  <2>1. Understood /\ lastCondition \in Condition
    BY DEF JInv, IInv, Typed
  <2>2. Test[pc] \in Condition /\ Depends(Test[pc])
    BY <1>1, ExplorerAssumption DEF Condition, TestsDepend
  <2>3. /\ Depends(Taken(pc, held))
        /\ Taken(pc, held).holds \notin {{}, Input} <=> Test[pc].holds \notin {{}, Input}
    <3>1. CASE Holds(pc, held)
      BY <2>2, <3>1 DEF Taken
    <3>2. CASE ~Holds(pc, held)
      <4>1. Depends(Not(Test[pc])) /\ Not(Test[pc]).holds = Input \ Test[pc].holds
        BY <2>2, DependsNot
      <4>2. Test[pc].holds \subseteq Input
        BY <2>2 DEF Condition
      <4> QED BY <3>2, <4>1, <4>2 DEF Taken
    <3> QED BY <3>1, <3>2
  <2>4. Depends(lastCondition')
    BY <1>2, <2>1, <2>3 DEF Understood
  <2>5. ~reports => lastCondition' = None
    BY <1>2, <2>1 DEF Understood
  <2>6. path'[Len(path')] = pc
    BY <1>1, <1>3
  <2>7. lastCondition'.holds \notin {{}, Input} <=> pc \in Asking
    <3>1. CASE reports /\ Branches(pc)
      BY <1>1, <1>2, <2>3, <3>1 DEF Asking, IsUndefined
    <3>2. CASE reports /\ ~Branches(pc)
      <4>1. ~Pending
        BY <1>1, <3>2 DEF IInv, ConditionRight
      <4> QED BY <1>2, <3>2, <4>1, AskingIs DEF Pending, IsUndefined
    <3>3. CASE ~reports
      BY <2>5, <3>3, AskingIs DEF None
    <3> QED BY <3>1, <3>2, <3>3
  <2>8. Pending' <=> lastCondition'.holds \notin {{}, Input}
    BY DEF Pending, IsUndefined
  <2> QED BY <1>2, <1>3, <2>1, <2>4, <2>5, <2>6, <2>7, <2>8 DEF Understood
<1>10. IdsRight'
  BY <1>2 DEF JInv, IdsRight
<1>11. PICK r \in Seq(Block \cup {NoBlock}), at \in Seq(Nat) : Searches(r, at)
  BY <1>1 DEF JInv, SearchRight, Running
<1>12. /\ Recorded(Asking, conds, r, n) /\ Meant(pool, explored, conds, r)
       /\ Len(r) >= n + 1 /\ \A i \in 1 .. n + 1 : r[i] = Route[i]
  BY <1>3, <1>11 DEF Searches, Follow
<1>13. CASE executionState = "EXPLORING"
  <2>1. /\ tvds = <<>> /\ backSteps = 0 /\ Fresh(explored, r, n + 1)
    BY <1>1, <1>11, <1>13 DEF Searches
  <2> PICK q : q = Route'
    OBVIOUS
  <2>2. \A i \in 1 .. n + 1 : q[i] = r[i]
    BY <1>4, <1>12
  <2>3. Len(q) = n + 2 /\ q \in Seq(Block \cup {NoBlock})
    BY <1>4
  <2>4. Recorded(Asking, conds, q, n) /\ Meant(pool, explored, conds, q)
    <3>1. n \in Nat /\ \A i \in 1 .. n : q[i] = r[i]
      BY <1>1, <2>2
    <3>2. Recorded(Asking, conds, q, n)
      BY <1>12, <3>1, RecordedAlong, Zenon
    <3>3. Meant(pool, explored, conds, q)
      BY <1>12, <2>2, <3>1, MeantAlong, Zenon
    <3> QED BY <3>2, <3>3
  <2>5. Fresh(explored, q, n + 1)
    <3> DEFINE m == n + 1
    <3>1. m \in Nat /\ m \in 0 .. m /\ (\A i \in 1 .. m : q[i] = r[i]) /\ Fresh(explored, r, m)
      BY <1>1, <2>1, <2>2
    <3> HIDE DEF m
    <3>2. Fresh(explored, q, m)
      BY <3>1, Shared
    <3> QED BY <3>2 DEF m
  <2>6. Follow(q)'
    <3>1. Len(path') + 1 = n + 2
      BY <1>1, <1>3
    <3>2. q = Route' /\ Len(q) >= n + 2
      BY <1>1, <2>3
    <3> QED BY <3>1, <3>2 DEF Follow
  <2>7. Searches(q, at)'
    <3>1. Len(q) > Met' /\ Len(q) = Len(path') + 1
      BY <1>1, <1>3, <2>3
    <3>2. Recorded(Asking', conds', q, Met') /\ Meant(pool', explored', conds', q)
      BY <1>2, <1>3, <2>4
    <3>3. call' # "run" /\ executionState' = "EXPLORING" /\ tvds' = <<>> /\ backSteps' = 0
      BY <1>2, <1>13, <2>1
    <3>4. Fresh(explored', q, Len(path'))
      BY <1>2, <1>3, <2>5
    <3> QED BY <2>6, <3>1, <3>2, <3>3, <3>4 DEF Searches
  <2>8. SearchRight'
    BY <2>3, <2>7 DEF SearchRight
  <2>9. Phased'
    <3>1. IsWalk(Route')
      BY <1>1, <1>3, <1>7, <1>8, WalkOn
    <3> QED BY <1>2, <1>13, <3>1 DEF JInv, Phased
  <2> QED BY <1>9, <1>10, <2>8, <2>9 DEF JInv
<1>14. CASE executionState = "RESTORING"
  <2>1. Replays(r, at)
    BY <1>11, <1>14 DEF Searches
  <2>2. /\ r \in Seq(Block) /\ backSteps \in Nat /\ Len(r) = n + backSteps + 2
        /\ \A k \in 1 .. Len(r) - 1 : r[k + 1] = SuccessorOf(r[k], newPass)
        /\ input = newPass
    BY <1>3, <1>14, <2>1 DEF Replays
  <2>3. r[n + 2] = pc' /\ pc' \in Block
    <3>1. n + 1 \in 1 .. Len(r) - 1 /\ n + 1 \in 1 .. n + 1 /\ n + 1 + 1 = n + 2 /\ n + 2 \in 1 .. Len(r)
      BY <1>1, <2>2
    <3>2. r[n + 1 + 1] = SuccessorOf(r[n + 1], newPass)
      BY <2>2, <3>1, Zenon
    <3>3. r[n + 1] = pc
      BY <1>1, <1>12, <3>1
    <3>4. r[n + 2] \in Block
      BY <2>2, <3>1
    <3> QED BY <1>8, <2>2, <3>1, <3>2, <3>3, <3>4
  <2>4. pc' # NoBlock /\ call' = "control"
    BY <1>2, <2>3, ExplorerAssumption
  <2>5. Phased'
    <3>1. IsWalk(Route')
      BY <1>1, <1>3, <1>7, <1>8, WalkOn
    <3> QED BY <1>2, <1>14, <2>4, <3>1 DEF JInv, Phased
  <2>6. Follow(r)'
    <3>1. Len(path') + 1 = n + 2 /\ Len(r) >= n + 2
      BY <1>1, <1>3, <2>2
    <3>2. \A i \in 1 .. n + 2 : i \in 1 .. n + 1 \/ i = n + 2
      BY <1>1
    <3>3. \A i \in 1 .. n + 2 : r[i] = Route'[i]
      BY <1>4, <1>12, <2>3, <3>2
    <3> QED BY <3>1, <3>3 DEF Follow
  <2>7. Replays(r, at)'
    BY <1>2, <1>3, <2>1 DEF Replays
  <2>8. Searches(r, at)'
    <3>1. Len(r) > Met'
      BY <1>1, <1>3, <2>2
    <3>2. Recorded(Asking', conds', r, Met') /\ Meant(pool', explored', conds', r)
      BY <1>2, <1>3, <1>12
    <3> QED BY <1>2, <1>14, <2>6, <2>7, <3>1, <3>2 DEF Searches
  <2>9. SearchRight'
    BY <2>8 DEF SearchRight
  <2> QED BY <1>9, <1>10, <2>5, <2>9 DEF JInv
<1> QED BY <1>1, <1>13, <1>14

\* Forward: where the program is, whether its last block asks, and what the solver gets.
LEMMA StepTaken ==
  ASSUME IInv, JInv, call = "control", lastDirection = "ADVANCE", UNCHANGED reports,
         \/ ~Pending /\ solver' = StepForward(solver) /\ lastCondition' = lastCondition
         \/ Pending /\ solver' = StepForward(Asserted(solver, lastCondition)) /\ lastCondition' = None
  PROVE  /\ path \in Seq(Block) /\ Len(path) \in Nat \ {0}
         /\ step = Len(path) - 1 /\ Met = Len(path) - 1
         /\ Pending <=> path[Len(path)] \in Asking
         /\ Pending => lastCondition.holds = TakesStep(Route, Len(path))
         /\ lastCondition \in Condition /\ Depends(lastCondition)
         /\ Depends(lastCondition') /\ (~reports' => lastCondition' = None)
         /\ \A k \in 1 .. Len(solver') : Depends(solver'[k])
<1>1. path \in Seq(Block) /\ Len(path) \in Nat \ {0}
  BY DEF IInv, Typed, Flow
<1>2. step = Len(path) - 1 /\ Met = Len(path) - 1
  BY DEF IInv, LocksRight, Running, Met
<1>3. /\ Pending <=> path[Len(path)] \in Asking
      /\ ~reports => lastCondition = None
      /\ Depends(lastCondition)
      /\ \A k \in 1 .. Len(solver) : Depends(solver[k])
  BY DEF JInv, Understood
<1>4. ASSUME Pending PROVE lastCondition.holds = TakesStep(Route, Len(path))
  <2>1. reports
    BY <1>3, <1>4 DEF Pending, IsUndefined, None
  <2> QED BY <1>4, <2>1 DEF IInv, ConditionRight
<1>5. lastCondition \in Condition /\ solver \in Seq(ToSet(solver)) /\ Len(solver) = Len(path)
  BY DEF IInv, Typed, FramesRight, Running
<1>6. Depends(lastCondition') /\ (~reports' => lastCondition' = None)
  BY <1>3, DependsAll
<1>7. \A k \in 1 .. Len(solver') : Depends(solver'[k])
  <2>1. CASE solver' = StepForward(solver)
    BY <1>3, <1>5, <2>1, FramesDepend
  <2>2. CASE solver' = StepForward(Asserted(solver, lastCondition))
    <3>1. solver # <<>>
      BY <1>1, <1>5
    <3> DEFINE s == Asserted(solver, lastCondition)
    <3>2. s \in Seq(ToSet(s)) /\ \A k \in 1 .. Len(s) : Depends(s[k])
      BY <1>3, <1>5, <3>1, Asserting, AssertedDepends
    <3> HIDE DEF s
    <3>3. \A k \in 1 .. Len(StepForward(s)) : Depends(StepForward(s)[k])
      BY <3>2, FramesDepend
    <3> QED BY <2>2, <3>3 DEF s
  <2> QED BY <2>1, <2>2
<1> QED BY <1>1, <1>2, <1>3, <1>4, <1>5, <1>6, <1>7

\* The condition of a step that asks goes into the log, from the pool or from tvds.
LEMMA StepNoted ==
  ASSUME IInv, JInv, step = Len(path) - 1, Len(path) \in Nat \ {0},
         NEW r, NEW c \in Cond, NEW P,
         Recorded(Asking, conds, r, Len(path) - 1), Meant(pool, explored, conds, r),
         r[Len(path)] \in Asking, Spread(Append(Items(conds), c), <<>>, <<>>),
         \A k \in Cond : k # c => P[k] = pool[k],
         Stands(P, explored, c, r, Len(path))
  PROVE  /\ Recorded(Asking, Logged(conds, <<c>>, PoolSize), r, Len(path))
         /\ Meant(P, explored, Logged(conds, <<c>>, PoolSize), r)
         /\ Items(Logged(conds, <<c>>, PoolSize)) = Append(Items(conds), c)
<1> DEFINE m == Len(path) - 1
           e == [item |-> c, step |-> m]
           a == Items(conds)
<1>1. m \in Nat /\ m + 1 = Len(path) /\ e \in Noted /\ conds \in Seq(Noted)
  <2>1. conds \in Seq(Noted)
    BY DEF Recorded
  <2>2. m \in Nat /\ m + 1 = Len(path)
    OBVIOUS
  <2> QED BY <2>1, <2>2 DEF Noted
<1>2. /\ a \in Seq(Cond) /\ Len(a) = Len(conds) /\ Len(a) \in Nat
      /\ \A i \in 1 .. Len(conds) : a[i] = conds[i].item /\ conds[i].item \in Cond
  BY <1>1, ItemsOf
<1>3. /\ Len(Append(a, c)) = Len(a) + 1 /\ Append(a, c)[Len(a) + 1] = c
      /\ \A i \in 1 .. Len(a) : Append(a, c)[i] = a[i]
  BY <1>2, Appended
<1>4. Append(a, c) \in Seq(Cond) /\ Once(Append(a, c))
  BY DEF Spread
<1>5. Len(conds) < PoolSize
  <2>1. Len(Append(a, c)) <= PoolSize
    BY <1>4, PoolFits
  <2>2. PoolSize \in Nat
    BY ExplorerAssumption
  <2> QED BY <1>2, <1>3, <2>1, <2>2
<1>6. ASSUME NEW i \in 1 .. Len(conds) PROVE conds[i].item # c
  <2> DEFINE k == Len(a)
             b == Append(a, c)
  <2>1. k \in Nat /\ Len(b) = k + 1 /\ Once(b) /\ i \in 1 .. k /\ b[i] = a[i] /\ b[k + 1] = c
    BY <1>2, <1>3, <1>4, <1>6
  <2> HIDE DEF k, b
  <2>2. i \in 1 .. k + 1 /\ k + 1 \in 1 .. k + 1 /\ i # k + 1
    BY <2>1
  <2>3. b[i] # b[k + 1]
    BY <2>1, <2>2 DEF Once
  <2> QED BY <1>2, <2>1, <2>3
<1>7. Logged(conds, <<c>>, PoolSize) = Append(conds, e)
  <2>1. step \in Nat /\ step = m
    BY <1>1
  <2> QED BY <1>1, <1>5, <2>1, Noting
<1>8. Meant(P, explored, conds, r)
  BY <1>2, <1>6, MeantStill
<1> HIDE DEF m
<1>9. r[m + 1] \in Asking /\ Recorded(Asking, conds, r, m) /\ Stands(P, explored, c, r, m + 1)
  BY <1>1 DEF m
<1>10. e.item = c /\ e.step = m
  OBVIOUS
<1> HIDE DEF e
<1>11. Recorded(Asking, Append(conds, e), r, m + 1)
  BY <1>1, <1>9, <1>10, RecordedMore
<1>12. Meant(P, explored, Append(conds, e), r)
  BY <1>1, <1>8, <1>9, <1>10, MeantMore
<1>13. Items(Append(conds, e)) = Append(a, c)
  BY <1>1, <1>10, ItemsAppended
<1> QED BY <1>1, <1>7, <1>11, <1>12, <1>13

\* A new step: its condition is taken from the pool.
LEMMA ExploreSearches ==
  ASSUME IInv, JInv, Explore
  PROVE  JInv'
<1> DEFINE n == Len(path)
           c == Last(free)
<1>1. /\ call = "control" /\ lastDirection = "ADVANCE" /\ executionState = "EXPLORING"
      /\ call' = "run" /\ lastDirection' = "ADVANCE"
      /\ UNCHANGED <<pc, path, input, reports, executionState, backSteps, newPass, tvds,
                     lastCond, explored>>
  BY DEF Explore, Advances, program
<1>2. \/ /\ ~Pending /\ solver' = StepForward(solver) /\ lastCondition' = lastCondition
         /\ UNCHANGED <<conds, pool, free>>
      \/ /\ Pending /\ solver' = StepForward(Asserted(solver, lastCondition))
         /\ lastCondition' = None /\ free # <<>> /\ free' = Front(free)
         /\ conds' = Logged(conds, <<c>>, PoolSize)
         /\ pool' = [pool EXCEPT ![c] = [wasInverted |-> FALSE, ast |-> lastCondition]]
  BY DEF Explore, Advances, Tracks
<1>3. /\ path \in Seq(Block) /\ n \in Nat \ {0}
      /\ step = n - 1 /\ Met = n - 1
      /\ Pending <=> path[n] \in Asking
      /\ Pending => lastCondition.holds = TakesStep(Route, n)
      /\ lastCondition \in Condition /\ Depends(lastCondition)
      /\ Depends(lastCondition') /\ (~reports' => lastCondition' = None)
      /\ \A k \in 1 .. Len(solver') : Depends(solver'[k])
  BY <1>1, <1>2, StepTaken
<1>4. Route' = Route /\ Asking' = Asking /\ Met' = n
  BY <1>1 DEF Route, Asking, Met
<1>5. Phased'
  BY <1>1, <1>4 DEF JInv, Phased
<1>6. PICK r \in Seq(Block \cup {NoBlock}), at \in Seq(Nat) : Searches(r, at)
  BY <1>1 DEF JInv, SearchRight, Running
<1>7. /\ Recorded(Asking, conds, r, n - 1) /\ Meant(pool, explored, conds, r)
      /\ Len(r) = n + 1 /\ tvds = <<>> /\ backSteps = 0 /\ Fresh(explored, r, n)
      /\ \A i \in 1 .. n + 1 : r[i] = Route[i]
  BY <1>1, <1>3, <1>6 DEF Searches, Follow
<1>8. n \in 1 .. n + 1 /\ n + 1 \in 1 .. n + 1 /\ r[n] = path[n] /\ TakesStep(r, n) = TakesStep(Route, n)
  <2>1. n \in 1 .. n + 1 /\ n + 1 \in 1 .. n + 1 /\ n \in 1 .. n
    BY <1>3
  <2>2. r[n] = Route[n] /\ r[n + 1] = Route[n + 1] /\ Route[n] = path[n]
    BY <1>7, <2>1, RouteIs
  <2> QED BY <2>1, <2>2 DEF TakesStep
<1>9. Fresh(explored, r, n + 1)
  <2>1. explored \subseteq Seq(Block) /\ n \in Nat /\ n + 1 \in Nat /\ n <= n + 1
    BY <1>3 DEF JInv, Phased
  <2> QED BY <1>7, <2>1, FreshFurther
<1>10. Spread(Items(conds), tvds, free) /\ lastCond \in 0 .. PoolSize
  BY DEF JInv, IdsRight
<1>11. /\ pool \in [Cond -> [wasInverted : BOOLEAN, ast : Condition]]
       /\ \A k \in Cond : Depends(pool[k].ast)
  BY DEF JInv, Understood
<1>12. /\ Recorded(Asking, conds', r, n) /\ Meant(pool', explored, conds', r)
       /\ IdsRight'
       /\ pool' \in [Cond -> [wasInverted : BOOLEAN, ast : Condition]]
       /\ \A k \in Cond : Depends(pool'[k].ast)
  <2>1. CASE ~Pending
    <3>1. UNCHANGED <<conds, pool, free>>
      BY <1>2, <2>1
    <3>2. r[n] \notin Asking
      BY <1>3, <1>8, <2>1
    <3>3. Recorded(Asking, conds, r, n)
      <4> DEFINE m == n - 1
      <4>1. m \in Nat /\ m + 1 = n /\ Recorded(Asking, conds, r, m)
        BY <1>3, <1>7
      <4> HIDE DEF m
      <4>2. Recorded(Asking, conds, r, m + 1)
        BY <3>2, <4>1, RecordedSkip
      <4> QED BY <4>1, <4>2
    <3> QED BY <1>1, <1>7, <1>10, <1>11, <3>1, <3>3 DEF IdsRight
  <2>2. CASE Pending
    <3>1. /\ free # <<>> /\ free' = Front(free) /\ conds' = Logged(conds, <<c>>, PoolSize)
          /\ pool' = [pool EXCEPT ![c] = [wasInverted |-> FALSE, ast |-> lastCondition]]
      BY <1>2, <2>2
    <3>2. Spread(free, Items(conds), tvds)
      BY <1>10, Turned
    <3>3. Spread(Front(free), Append(Items(conds), c), tvds)
      BY <3>1, <3>2, Moved
    <3>4. Spread(Append(Items(conds), c), tvds, Front(free))
      BY <3>3, Turned
    <3>5. Spread(Append(Items(conds), c), <<>>, <<>>)
      BY <3>4 DEF Spread, Once, Apart
    <3>6. c \in Cond
      BY <3>1, <3>2, Shortened DEF Spread
    <3> HIDE DEF c
    <3>7. /\ pool'[c] = [wasInverted |-> FALSE, ast |-> lastCondition]
          /\ \A k \in Cond : k # c => pool'[k] = pool[k]
          /\ pool' \in [Cond -> [wasInverted : BOOLEAN, ast : Condition]]
      BY <1>3, <1>11, <3>1, <3>6
    <3>8. ASSUME NEW k \in Cond PROVE Depends(pool'[k].ast)
      <4>1. k = c => pool'[k].ast = lastCondition
        BY <3>7
      <4>2. k # c => pool'[k] = pool[k]
        BY <3>7
      <4> QED BY <1>3, <1>11, <4>1, <4>2
    <3>9. OneSided(explored, r, n)
      BY <1>7 DEF Fresh, OneSided
    <3>10. Stands(pool', explored, c, r, n)
      BY <1>3, <1>8, <2>2, <3>7, <3>9 DEF Stands
    <3>11. r[n] \in Asking
      BY <1>3, <1>8, <2>2
    <3>12. /\ Recorded(Asking, conds', r, n) /\ Meant(pool', explored, conds', r)
           /\ Items(conds') = Append(Items(conds), c)
      BY <1>3, <1>7, <3>1, <3>5, <3>6, <3>7, <3>10, <3>11, StepNoted
    <3>13. IdsRight'
      BY <1>1, <1>10, <3>1, <3>4, <3>12 DEF IdsRight, c
    <3> QED BY <3>7, <3>8, <3>12, <3>13
  <2> QED BY <2>1, <2>2
<1>13. Understood'
  BY <1>1, <1>3, <1>12 DEF Understood
<1>14. Searches(r, at)'
  <2>1. Follow(r)'
    BY <1>1, <1>3, <1>4, <1>7 DEF Follow
  <2>2. Len(r) = Len(path') + 1 /\ Len(r) > Met'
    BY <1>1, <1>3, <1>4, <1>7
  <2> QED BY <1>1, <1>4, <1>7, <1>9, <1>12, <2>1, <2>2 DEF Searches
<1> QED BY <1>5, <1>12, <1>13, <1>14 DEF JInv, SearchRight

\* A step again: its condition is the last one that was taken from the log.
LEMMA RestoreSearches ==
  ASSUME IInv, JInv, Restore
  PROVE  JInv'
<1> DEFINE n    == Len(path)
           c    == Last(tvds)
           left == IF Pending THEN Front(tvds) ELSE tvds
<1>1. /\ call = "control" /\ lastDirection = "ADVANCE" /\ executionState = "RESTORING"
      /\ call' = "run" /\ lastDirection' = "ADVANCE"
      /\ UNCHANGED <<pc, path, input, reports, newPass, lastCond, explored>>
  BY DEF Restore, Advances, program
<1>2. \/ /\ ~Pending /\ solver' = StepForward(solver) /\ lastCondition' = lastCondition
         /\ UNCHANGED <<conds, pool>>
      \/ /\ Pending /\ solver' = StepForward(Asserted(solver, lastCondition))
         /\ lastCondition' = None /\ conds' = Logged(conds, <<c>>, PoolSize)
         /\ pool' = [pool EXCEPT ![c].ast = lastCondition]
  BY DEF Restore, Advances, Tracks
<1>3. \/ /\ backSteps > 0 /\ backSteps' = backSteps - 1 /\ tvds' = left
         /\ UNCHANGED <<executionState, free>>
      \/ /\ backSteps = 0 /\ executionState' = "EXPLORING"
         /\ free' = free \o left /\ tvds' = <<>> /\ UNCHANGED backSteps
  BY DEF Restore
<1>4. /\ path \in Seq(Block) /\ n \in Nat \ {0}
      /\ step = n - 1 /\ Met = n - 1
      /\ Pending <=> path[n] \in Asking
      /\ Pending => lastCondition.holds = TakesStep(Route, n)
      /\ lastCondition \in Condition /\ Depends(lastCondition)
      /\ Depends(lastCondition') /\ (~reports' => lastCondition' = None)
      /\ \A k \in 1 .. Len(solver') : Depends(solver'[k])
  BY <1>1, <1>2, StepTaken
<1>5. Route' = Route /\ Asking' = Asking /\ Met' = n
  BY <1>1 DEF Route, Asking, Met
<1>6. Phased'
  BY <1>1, <1>3, <1>5 DEF JInv, Phased
<1>7. PICK r \in Seq(Block \cup {NoBlock}), at \in Seq(Nat) : Searches(r, at)
  BY <1>1 DEF JInv, SearchRight, Running
<1>8. /\ Recorded(Asking, conds, r, n - 1) /\ Meant(pool, explored, conds, r)
      /\ r \in Seq(Block) /\ backSteps \in Nat /\ Len(r) = n - 1 + backSteps + 2
      /\ \A k \in 1 .. Len(r) - 1 : r[k + 1] = SuccessorOf(r[k], newPass)
      /\ Fresh(explored, r, Len(r)) /\ input = newPass
      /\ Awaited(Asking, pool, explored, tvds, r, at, n - 1)
      /\ \A i \in 1 .. n + 1 : r[i] = Route[i]
  BY <1>1, <1>4, <1>7 DEF Searches, Replays, Follow
<1>9. n \in 1 .. n + 1 /\ n + 1 \in 1 .. n + 1 /\ r[n] = path[n] /\ TakesStep(r, n) = TakesStep(Route, n)
  <2>1. n \in 1 .. n + 1 /\ n + 1 \in 1 .. n + 1 /\ n \in 1 .. n
    BY <1>4
  <2>2. r[n] = Route[n] /\ r[n + 1] = Route[n + 1] /\ Route[n] = path[n]
    BY <1>8, <2>1, RouteIs
  <2> QED BY <2>1, <2>2 DEF TakesStep
<1>10. Spread(Items(conds), tvds, free) /\ lastCond \in 0 .. PoolSize /\ tvds \in Seq(Cond)
  BY DEF JInv, IdsRight, Spread
<1>11. /\ pool \in [Cond -> [wasInverted : BOOLEAN, ast : Condition]]
       /\ \A k \in Cond : Depends(pool[k].ast)
  BY DEF JInv, Understood
<1>12. Len(r) \in Nat /\ Len(r) = n + backSteps + 1 /\ n < Len(r)
  BY <1>4, <1>8
<1>13. PICK m : m = n - 1
  OBVIOUS
<1>14. /\ m \in Nat /\ m + 1 = n /\ m + 1 < Len(r) /\ r[m + 1] = path[n]
       /\ Recorded(Asking, conds, r, m) /\ Awaited(Asking, pool, explored, tvds, r, at, m)
  BY <1>4, <1>8, <1>9, <1>12, <1>13
<1>15. /\ Recorded(Asking, conds', r, n) /\ Meant(pool', explored, conds', r)
       /\ Spread(Items(conds'), left, free)
       /\ pool' \in [Cond -> [wasInverted : BOOLEAN, ast : Condition]]
       /\ \A k \in Cond : Depends(pool'[k].ast)
       /\ \E a \in Seq(Nat) : Awaited(Asking, pool', explored, left, r, a, n)
  <2>1. CASE ~Pending
    <3>1. UNCHANGED <<conds, pool>> /\ left = tvds
      BY <1>2, <2>1
    <3>2. r[m + 1] \notin Asking
      BY <1>4, <1>14, <2>1
    <3>3. Recorded(Asking, conds, r, m + 1)
      BY <1>14, <3>2, RecordedSkip
    <3>4. Awaited(Asking, pool, explored, tvds, r, at, m + 1)
      BY <1>12, <1>14, <3>2, AwaitedPast
    <3> HIDE DEF left
    <3> QED BY <1>8, <1>10, <1>11, <1>14, <3>1, <3>3, <3>4
  <2>2. CASE Pending
    <3>1. /\ conds' = Logged(conds, <<c>>, PoolSize) /\ pool' = [pool EXCEPT ![c].ast = lastCondition]
          /\ left = Front(tvds)
      BY <1>2, <2>2
    <3>2. r[m + 1] \in Asking /\ r[n] \in Asking
      BY <1>4, <1>9, <1>14, <2>2
    <3>3. /\ tvds # <<>>
          /\ ~pool[Last(tvds)].wasInverted => OneSided(explored, r, m + 1)
          /\ Awaited(Asking, pool, explored, Front(tvds), r, Front(at), m + 1)
      BY <1>10, <1>12, <1>14, <3>2, AwaitedNext
    <3>4. Spread(tvds, Items(conds), free)
      BY <1>10, Turned
    <3>5. Spread(Front(tvds), Append(Items(conds), c), free)
      BY <3>3, <3>4, Moved
    <3>6. Spread(Append(Items(conds), c), Front(tvds), free)
      BY <3>5, Turned
    <3>7. Spread(Append(Items(conds), c), <<>>, <<>>)
      BY <3>6 DEF Spread, Once, Apart
    <3>8. c \in Cond /\ Front(tvds) \in Seq(Cond)
      BY <1>10, <3>3, Shortened
    <3>9. ~pool[c].wasInverted => OneSided(explored, r, n)
      BY <1>14, <3>3
    <3>10. Awaited(Asking, pool, explored, Front(tvds), r, Front(at), n)
      BY <1>14, <3>3
    <3>11. Front(at) \in Seq(Nat)
      BY <3>10 DEF Awaited
    <3> HIDE DEF c, left
    <3>12. /\ pool'[c].ast = lastCondition
           /\ \A k \in Cond : k # c => pool'[k] = pool[k]
           /\ \A k \in Cond : pool'[k].wasInverted = pool[k].wasInverted
           /\ pool' \in [Cond -> [wasInverted : BOOLEAN, ast : Condition]]
      BY <1>4, <1>11, <3>1, <3>8
    <3>13. ASSUME NEW k \in Cond PROVE Depends(pool'[k].ast)
      <4>1. k # c => pool'[k] = pool[k]
        BY <3>12
      <4> QED BY <1>4, <1>11, <3>12, <4>1
    <3>14. Stands(pool', explored, c, r, n)
      BY <1>4, <1>9, <2>2, <3>8, <3>9, <3>12 DEF Stands
    <3>15. /\ Recorded(Asking, conds', r, n) /\ Meant(pool', explored, conds', r)
           /\ Items(conds') = Append(Items(conds), c)
      BY <1>4, <1>8, <3>1, <3>2, <3>7, <3>8, <3>12, <3>14, StepNoted
    <3>16. Awaited(Asking, pool', explored, Front(tvds), r, Front(at), n)
      <4>1. \A i \in 1 .. Len(Front(tvds)) : Front(tvds)[i] \in Cond
        BY <3>8
      <4>2. \A i \in 1 .. Len(Front(tvds)) :
              pool'[Front(tvds)[i]].wasInverted = pool[Front(tvds)[i]].wasInverted
        BY <3>12, <4>1
      <4> QED BY <3>10, <4>2, AwaitedStill
    <3> QED BY <3>1, <3>6, <3>11, <3>12, <3>13, <3>15, <3>16
  <2> QED BY <2>1, <2>2
<1>16. Understood'
  BY <1>1, <1>4, <1>15 DEF Understood
<1>17. PICK a \in Seq(Nat) : Awaited(Asking, pool', explored, left, r, a, n)
  BY <1>15
<1> HIDE DEF left
<1>18. IdsRight'
  <2>1. Spread(Items(conds'), <<>>, free \o left)
    BY <1>15, Emptied
  <2> QED BY <1>1, <1>3, <1>10, <1>15, <2>1 DEF IdsRight
<1>19. Searches(r, a)'
  <2>1. Follow(r)'
    BY <1>1, <1>4, <1>5, <1>8, <1>12 DEF Follow
  <2>2. Len(r) > Met'
    BY <1>5, <1>12
  <2>3. CASE backSteps > 0 /\ backSteps' = backSteps - 1 /\ tvds' = left /\ UNCHANGED executionState
    <3>1. backSteps' \in Nat /\ Len(r) = Met' + backSteps' + 2
      BY <1>4, <1>5, <1>8, <1>12, <2>3
    <3>2. Replays(r, a)'
      BY <1>1, <1>5, <1>8, <1>17, <2>3, <3>1 DEF Replays
    <3> QED BY <1>1, <1>5, <1>15, <2>1, <2>2, <2>3, <3>2 DEF Searches
  <2>4. CASE backSteps = 0 /\ executionState' = "EXPLORING" /\ tvds' = <<>> /\ UNCHANGED backSteps
    <3>1. Len(r) = Len(path') + 1
      BY <1>1, <1>4, <1>12, <2>4
    <3> QED BY <1>1, <1>5, <1>8, <1>15, <2>1, <2>2, <2>4, <3>1 DEF Searches
  <2> QED BY <1>3, <2>3, <2>4
<1> QED BY <1>6, <1>8, <1>16, <1>18, <1>19 DEF JInv, SearchRight

\* Backward: the condition of the step that is undone is taken from the log.
LEMMA Unloading ==
  ASSUME IInv, JInv, NEW state, GoesBack(state), NEW r,
         Recorded(Asking, conds, r, Len(path) + 1), Meant(pool, explored, conds, r)
  PROVE  /\ r[Len(path) + 1] \in Asking =>
              /\ LastUnloaded \in Cond /\ LastUnloaded # NoCond
              /\ Unloaded = Append(tvds, LastUnloaded)
              /\ Stands(pool, explored, LastUnloaded, r, Len(path) + 1)
         /\ r[Len(path) + 1] \notin Asking => Unloaded = tvds /\ LastUnloaded = lastCond
         /\ LastUnloaded \in 0 .. PoolSize
         /\ Recorded(Asking, conds', r, Len(path)) /\ Meant(pool, explored, conds', r)
         /\ Spread(Items(conds'), Unloaded, free)
<1> DEFINE n == Len(path)
           c == Last(conds).item
<1>1. n \in Nat /\ step = n /\ conds' = Kept(conds) /\ conds \in Seq(Noted)
  <2>1. n \in Nat /\ step = n
    BY Retreating
  <2>2. conds \in Seq(Noted)
    BY DEF Recorded
  <2> QED BY <2>1, <2>2 DEF GoesBack
<1>2. Spread(Items(conds), tvds, free) /\ lastCond \in 0 .. PoolSize /\ tvds \in Seq(Cond)
  BY DEF JInv, IdsRight, Spread
<1>3. /\ r[n + 1] \in Asking =>
           /\ conds # <<>> /\ Last(conds).step = n
           /\ Recorded(Asking, Front(conds), r, n)
           /\ \A i \in 1 .. Len(conds) - 1 : conds[i].step < n
      /\ r[n + 1] \notin Asking =>
           /\ Recorded(Asking, conds, r, n)
           /\ \A i \in 1 .. Len(conds) : conds[i].step < n
  BY <1>1, RecordedFewer
<1>4. CASE r[n + 1] \notin Asking
  <2>1. Kept(conds) = conds /\ Undone(conds) = <<>>
    BY <1>1, <1>3, <1>4, Undoing
  <2>2. Unloaded = tvds /\ LastUnloaded = lastCond
    BY <1>2, <2>1 DEF Unloaded, LastUnloaded
  <2> QED BY <1>1, <1>2, <1>3, <1>4, <2>1, <2>2
<1>5. CASE r[n + 1] \in Asking
  <2>1. conds # <<>> /\ Kept(conds) = Front(conds) /\ Undone(conds) = <<c>>
    BY <1>1, <1>3, <1>5, Undoing
  <2>2. /\ Items(conds) \in Seq(Cond) /\ Items(conds) # <<>>
        /\ Items(Front(conds)) = Front(Items(conds)) /\ Last(Items(conds)) = c
    BY <1>1, <2>1, ItemsOf
  <2>3. c \in Cond
    BY <2>2, Shortened
  <2>4. Meant(pool, explored, Front(conds), r) /\ Stands(pool, explored, c, r, Last(conds).step + 1)
    BY <1>1, <2>1, MeantFewer
  <2>5. Spread(Front(Items(conds)), Append(tvds, c), free)
    BY <1>2, <2>2, Moved
  <2> HIDE DEF c
  <2>6. LastUnloaded = c
    <3>1. <<c>> # <<>> /\ Last(<<c>>) = c
      BY DEF Last
    <3> QED BY <2>1, <3>1 DEF LastUnloaded
  <2>7. Unloaded = Append(tvds, c)
    <3>1. tvds \o <<c>> = Append(tvds, c)
      BY <1>2, <2>3
    <3> QED BY <2>1, <3>1 DEF Unloaded
  <2>8. c # NoCond /\ c \in 0 .. PoolSize
    BY <2>3, ExplorerAssumption DEF Cond, NoCond
  <2>9. Stands(pool, explored, c, r, n + 1)
    BY <1>3, <1>5, <2>4
  <2> QED BY <1>1, <1>3, <1>5, <2>1, <2>2, <2>3, <2>4, <2>5, <2>6, <2>7, <2>8, <2>9
<1> QED BY <1>4, <1>5

\* What going back leaves of the invariant: the solver drops a frame.
LEMMA StepBack ==
  ASSUME IInv, JInv, NEW state, GoesBack(state), UNCHANGED <<pc, path>>
  PROVE  /\ StepBackward(solver) # <<>>
         /\ \A k \in 1 .. Len(StepBackward(solver)) : Depends(StepBackward(solver)[k])
         /\ IsWalk(Route') /\ Route' = Route /\ Asking' = Asking /\ explored' \subseteq Seq(Block)
         /\ Depends(lastCondition') /\ (~reports' => lastCondition' = None)
         /\ pool \in [Cond -> [wasInverted : BOOLEAN, ast : Condition]]
         /\ \A k \in Cond : Depends(pool[k].ast)
<1>1. /\ Len(path) \in Nat \ {0} /\ solver \in Seq(ToSet(solver)) /\ Len(solver) = Len(path) + 1
      /\ StepBackward(solver) \in Seq(ToSet(StepBackward(solver)))
      /\ Len(StepBackward(solver)) = Len(path)
      /\ UNCHANGED <<reports, lastCondition>>
  BY Retreating
<1>2. /\ Depends(lastCondition) /\ (~reports => lastCondition = None)
      /\ \A k \in 1 .. Len(solver) : Depends(solver[k])
      /\ pool \in [Cond -> [wasInverted : BOOLEAN, ast : Condition]]
      /\ \A k \in Cond : Depends(pool[k].ast)
      /\ IsWalk(Route) /\ explored \subseteq Seq(Block)
  BY DEF JInv, Understood, Phased
<1>3. solver # <<>> /\ StepBackward(solver) # <<>>
  BY <1>1
<1>4. \A k \in 1 .. Len(StepBackward(solver)) : Depends(StepBackward(solver)[k])
  BY <1>1, <1>2, <1>3, FramesDepend
<1>5. Route' = Route /\ Asking' = Asking /\ explored' = explored
  BY <1>1 DEF Route, Asking, GoesBack
<1> QED BY <1>1, <1>2, <1>3, <1>4, <1>5

\* The input found for the inverted condition goes the way the program was on up to
\* its branch, and there the other way, where nothing explored has been.
LEMMA OtherWay ==
  ASSUME IInv, JInv, GoesBack("BACKTRACKING"), UNCHANGED <<pc, path>>,
         NEW r, Len(r) = Len(path) + 2, \A i \in 1 .. Len(path) + 1 : r[i] = Route[i],
         pc \in Asking, NEW c \in Cond, Stands(pool, explored, c, r, Len(path) + 1),
         ~pool[c].wasInverted,
         NEW y \in Fitting(Asserted(StepBackward(solver), Not(pool[c].ast)))
  PROVE  \E q \in Seq(Block) :
           /\ Len(q) = Len(path) + 2 /\ \A i \in 1 .. Len(path) + 1 : q[i] = Route[i]
           /\ \A k \in 1 .. Len(q) - 1 : q[k + 1] = SuccessorOf(q[k], y)
           /\ Fresh(explored, q, Len(q))
<1> DEFINE n     == Len(path)
           back  == StepBackward(solver)
           tried == Asserted(back, Not(pool[c].ast))
           t     == SuccessorOf(pc, y)
           q     == Append(Route, t)
<1>1. /\ path \in Seq(Block) /\ n \in Nat \ {0} /\ pc \in Block
      /\ back \in Seq(ToSet(back)) /\ Len(back) = n /\ back # <<>>
      /\ \A k \in 1 .. n : back[k].holds = TakesStep(Route, k)
      /\ \A k \in 1 .. Len(back) : Depends(back[k])
      /\ pool[c].ast \in Condition /\ Depends(pool[c].ast)
  BY Retreating, StepBack, AskingIs
<1>2. /\ Route \in Seq(Block) /\ Len(Route) = n + 1 /\ Route[n + 1] = pc
      /\ \A i \in 1 .. n : Route[i] = path[i]
  BY <1>1, RouteIs
<1> HIDE DEF n
<1>3. /\ tried \in Seq(ToSet(tried)) /\ Len(tried) = n
      /\ \A k \in 1 .. n - 1 : tried[k] = back[k]
      /\ tried[n].holds = back[n].holds \cap (Input \ pool[c].ast.holds)
      /\ \A k \in 1 .. n : Depends(tried[k])
  <2>1. Not(pool[c].ast).holds = Input \ pool[c].ast.holds /\ Depends(Not(pool[c].ast))
    BY <1>1, DependsNot
  <2> HIDE DEF back
  <2>2. /\ tried \in Seq(ToSet(tried)) /\ Len(tried) = n
        /\ \A k \in 1 .. n - 1 : tried[k] = back[k]
        /\ tried[n].holds = back[n].holds \cap Not(pool[c].ast).holds
    BY <1>1, Asserting
  <2>3. \A k \in 1 .. Len(tried) : Depends(tried[k])
    BY <1>1, <2>1, AssertedDepends
  <2> QED BY <2>1, <2>2, <2>3
<1>4. y \in Input /\ \A k \in 1 .. n : y \in tried[k].holds
  <2> HIDE DEF tried
  <2>1. y \in Fitting(tried)
    BY DEF tried, back
  <2> QED BY <1>3, <2>1, Rounded
<1> HIDE DEF tried, back
<1>5. \A k \in 1 .. n : Route[k + 1] = SuccessorOf(Route[k], y)
  <2> SUFFICES ASSUME NEW k \in 1 .. n PROVE y \in TakesStep(Route, k)
    BY DEF TakesStep
  <2>1. CASE k = n
    BY <1>1, <1>3, <1>4, <2>1
  <2>2. CASE k # n
    <3>1. k \in 1 .. n - 1
      BY <1>1, <2>2
    <3>2. tried[k] = back[k]
      BY <1>3, <3>1
    <3> QED BY <1>1, <1>4, <3>2
  <2> QED BY <2>1, <2>2
<1>6. pool[c].ast.holds = TakesStep(r, n + 1) /\ OneSided(explored, r, n + 1)
  BY DEF Stands, n
<1>7. y \notin TakesStep(r, n + 1)
  <2>1. n \in 1 .. n
    BY <1>1
  <2> QED BY <1>3, <1>4, <1>6, <2>1
<1>8. r[n + 1] = pc /\ n + 1 + 1 = n + 2 /\ Len(r) = n + 2
  <2>1. n + 1 \in 1 .. n + 1
    BY <1>1
  <2> QED BY <1>1, <1>2, <2>1 DEF n
<1>9. t # r[n + 2]
  BY <1>4, <1>7, <1>8 DEF TakesStep
<1>10. t \in Block
  <2>1. t \in Block \cup {NoBlock}
    BY <1>1, <1>4, Outcome, Zenon
  <2>2. t \in {Successors[pc][1], Successors[pc][2]}
    BY DEF SuccessorOf
  <2>3. NoBlock \notin {Successors[pc][1], Successors[pc][2]}
    BY <1>1, AskingIs
  <2> QED BY <2>1, <2>2, <2>3
<1> HIDE DEF t
<1>11. /\ q \in Seq(Block) /\ Len(q) = n + 2 /\ q[n + 2] = t
       /\ \A i \in 1 .. n + 1 : q[i] = Route[i]
  BY <1>1, <1>2, <1>8, <1>10, Appended
<1> HIDE DEF q
<1>12. ASSUME NEW k \in 1 .. n + 1 PROVE q[k + 1] = SuccessorOf(q[k], y)
  <2>1. CASE k = n + 1
    BY <1>1, <1>2, <1>8, <1>11, <2>1 DEF t
  <2>2. CASE k # n + 1
    <3>1. k \in 1 .. n /\ k \in 1 .. n + 1 /\ k + 1 \in 1 .. n + 1
      BY <1>1, <2>2
    <3> QED BY <1>5, <1>11, <3>1
  <2> QED BY <2>1, <2>2
<1>13. Fresh(explored, q, n + 2)
  <2> DEFINE m == n + 1
  <2>1. /\ m \in Nat /\ m + 1 = n + 2 /\ OneSided(explored, r, m)
        /\ \A i \in 1 .. m : q[i] = r[i]
        /\ q[m + 1] # r[m + 1]
    BY <1>1, <1>6, <1>8, <1>9, <1>11 DEF n
  <2> HIDE DEF m
  <2>2. Fresh(explored, q, m + 1)
    BY <2>1, OtherSide
  <2> QED BY <2>1, <2>2
<1>14. Len(q) - 1 = n + 1
  BY <1>1, <1>11
<1> QED BY <1>11, <1>12, <1>13, <1>14 DEF n

\* Going back in search of a branch: where the condition is inverted, the search has a
\* new route.
LEMMA BacktrackSearches ==
  ASSUME IInv, JInv, Backtrack, fitted'
  PROVE  JInv'
<1> DEFINE n     == Len(path)
           back  == StepBackward(solver)
           tried == Asserted(back, Not(pool[Popped].ast))
<1>1. /\ GoesBack("BACKTRACKING") /\ call' = "undo"
      /\ UNCHANGED <<pc, path, input, backSteps, lastDirection>>
      /\ \/ /\ Popped = NoCond
            /\ tvds' = Unloaded /\ lastCond' = LeftByTryPop /\ solver' = back
            /\ UNCHANGED <<pool, newPass, executionState>>
         \/ /\ Popped # NoCond /\ pool[Popped].wasInverted
            /\ tvds' = Front(Unloaded) /\ lastCond' = NoCond /\ solver' = back
            /\ UNCHANGED <<pool, newPass, executionState>>
         \/ /\ Popped # NoCond /\ ~pool[Popped].wasInverted
            /\ pool' = [pool EXCEPT ![Popped] = Inverted(@)]
            /\ tvds' = Append(Front(Unloaded), Popped) /\ lastCond' = Popped
            /\ solver' = tried
            /\ \/ /\ executionState' = "PATCHING"
                  /\ \E x \in Models(tried) : newPass' = Cut(tried, x) /\ Fits(tried, x)
               \/ UNCHANGED <<newPass, executionState>>
  BY DEF Backtrack, program
<1>2. /\ call = "control" /\ lastDirection = "BACKTRACK" /\ executionState = "BACKTRACKING"
      /\ path \in Seq(Block) /\ n \in Nat \ {0} /\ pc \in Block
      /\ back \in Seq(ToSet(back)) /\ Len(back) = n
      /\ UNCHANGED <<reports, free, explored>>
  BY <1>1, Retreating DEF GoesBack
<1>3. /\ back # <<>> /\ \A k \in 1 .. Len(back) : Depends(back[k])
      /\ IsWalk(Route') /\ Route' = Route /\ Asking' = Asking /\ explored' \subseteq Seq(Block)
      /\ Depends(lastCondition') /\ (~reports' => lastCondition' = None)
      /\ pool \in [Cond -> [wasInverted : BOOLEAN, ast : Condition]]
      /\ \A k \in Cond : Depends(pool[k].ast)
  BY <1>1, StepBack
<1>4. Met = n + 1 /\ Met' = n
  BY <1>1, <1>2 DEF Met
<1>5. PICK r \in Seq(Block \cup {NoBlock}), at \in Seq(Nat) : Searches(r, at)
  BY <1>2 DEF JInv, SearchRight, Running
<1>6. /\ Recorded(Asking, conds, r, n + 1) /\ Meant(pool, explored, conds, r)
      /\ Len(r) = n + 1 + 1 /\ backSteps = 0
      /\ tvds # <<>> /\ lastCond # NoCond => pool[lastCond].wasInverted
      /\ \A i \in 1 .. n + 1 : r[i] = Route[i]
  BY <1>2, <1>4, <1>5 DEF Searches, Follow
<1>7. /\ r[n + 1] \in Asking =>
           /\ LastUnloaded \in Cond /\ LastUnloaded # NoCond
           /\ Unloaded = Append(tvds, LastUnloaded)
           /\ Stands(pool, explored, LastUnloaded, r, n + 1)
      /\ r[n + 1] \notin Asking => Unloaded = tvds /\ LastUnloaded = lastCond
      /\ LastUnloaded \in 0 .. PoolSize
      /\ Recorded(Asking, conds', r, n) /\ Meant(pool, explored, conds', r)
      /\ Spread(Items(conds'), Unloaded, free)
  BY <1>1, <1>6, Unloading
<1>8. /\ Route \in Seq(Block) /\ Route \in Seq(Block \cup {NoBlock}) /\ Len(Route) = n + 1
      /\ Route[n + 1] = pc /\ r[n + 1] = pc /\ n + 1 \in 1 .. n + 1
  <2>1. n + 1 \in 1 .. n + 1
    BY <1>2
  <2> QED BY <1>2, <1>6, <2>1, RouteIs
<1>9. tvds \in Seq(Cond) /\ Unloaded \in Seq(Cond)
  BY <1>7 DEF JInv, IdsRight, Spread
<1>10. Phased'
  BY <1>1, <1>3 DEF Phased
<1>11. ASSUME NEW q, \A i \in 1 .. n + 1 : q[i] = Route[i]
       PROVE  Recorded(Asking, conds', q, n) /\ Meant(pool, explored, conds', q)
  <2>1. (\A i \in 1 .. n + 1 : q[i] = r[i]) /\ (\A i \in 1 .. n : q[i] = r[i]) /\ n \in Nat
    <3> HIDE DEF n
    <3>1. n \in Nat /\ \A i \in 1 .. n : i \in 1 .. n + 1
      BY <1>2
    <3>2. \A i \in 1 .. n + 1 : q[i] = r[i]
      BY <1>6, <1>11
    <3> QED BY <3>1, <3>2
  <2>2. Recorded(Asking, conds', q, n)
    BY <1>7, <2>1, RecordedAlong, Zenon
  <2>3. Meant(pool, explored, conds', q)
    BY <1>7, <2>1, MeantAlong, Zenon
  <2> QED BY <2>2, <2>3
<1>12. PICK p : p = Route
  OBVIOUS
<1>13. /\ p \in Seq(Block \cup {NoBlock}) /\ Len(p) = n + 1 /\ Follow(p)'
       /\ Recorded(Asking, conds', p, n) /\ Meant(pool, explored, conds', p)
  <2>1. Len(path') + 1 = n + 1 /\ p = Route' /\ Len(p) = n + 1
    BY <1>1, <1>3, <1>8, <1>12
  <2>2. Follow(p)'
    BY <1>2, <2>1 DEF Follow
  <2> QED BY <1>8, <1>11, <1>12, <2>1, <2>2
<1>14. CASE /\ solver' = back /\ UNCHANGED <<pool, newPass, executionState>>
            /\ \/ Popped = NoCond /\ tvds' = Unloaded /\ lastCond' = LeftByTryPop
               \/ Popped # NoCond /\ tvds' = Front(Unloaded) /\ lastCond' = NoCond
  <2>1. lastCond' \in 0 .. PoolSize /\ NoCond \in 0 .. PoolSize
    BY <1>7, <1>14, ExplorerAssumption DEF LeftByTryPop, NoCond
  <2>2. tvds' # <<>> => lastCond' = NoCond
    BY <1>14 DEF Popped, LeftByTryPop
  <2>3. Spread(Items(conds'), tvds', free)
    <3>1. CASE tvds' = Unloaded
      BY <1>7, <3>1
    <3>2. CASE Popped # NoCond /\ tvds' = Front(Unloaded)
      <4>1. Unloaded # <<>>
        BY <3>2 DEF Popped
      <4>2. Spread(Unloaded, Items(conds'), free)
        BY <1>7, Turned
      <4>3. Spread(Front(Unloaded), Items(conds'), free)
        BY <4>1, <4>2, Moved
      <4> QED BY <3>2, <4>3, Turned
    <3> QED BY <1>14, <3>1, <3>2
  <2>4. Understood'
    BY <1>1, <1>3, <1>14 DEF Understood
  <2>5. IdsRight'
    BY <1>2, <2>1, <2>3 DEF IdsRight
  <2>6. Searches(p, at)'
    <3>1. Len(p) > Met' /\ Len(p) = Met' + 1 /\ backSteps' = 0 /\ executionState' = "BACKTRACKING"
      BY <1>1, <1>2, <1>4, <1>6, <1>13, <1>14
    <3>2. Recorded(Asking', conds', p, Met') /\ Meant(pool', explored', conds', p)
      BY <1>2, <1>3, <1>4, <1>13, <1>14
    <3> QED BY <1>13, <2>2, <3>1, <3>2 DEF Searches
  <2>7. SearchRight'
    BY <1>13, <2>6 DEF SearchRight
  <2> QED BY <1>10, <2>4, <2>5, <2>7 DEF JInv
<1>15. CASE /\ Popped # NoCond /\ ~pool[Popped].wasInverted
            /\ pool' = [pool EXCEPT ![Popped] = Inverted(@)]
            /\ tvds' = Append(Front(Unloaded), Popped) /\ lastCond' = Popped
            /\ solver' = tried
            /\ \/ /\ executionState' = "PATCHING"
                  /\ \E x \in Models(tried) : newPass' = Cut(tried, x) /\ Fits(tried, x)
               \/ UNCHANGED <<newPass, executionState>>
  <2>1. Unloaded # <<>> /\ Popped = LastUnloaded
    BY <1>15 DEF Popped
  <2>2. r[n + 1] \in Asking
    BY <1>6, <1>7, <1>15, <2>1
  <2> PICK c : c = Popped
    OBVIOUS
  <2>3. /\ c \in Cond /\ c # NoCond /\ Unloaded = Append(tvds, c)
        /\ Stands(pool, explored, c, r, n + 1) /\ ~pool[c].wasInverted
        /\ pc \in Asking /\ c = LastUnloaded
    BY <1>7, <1>8, <1>15, <2>1, <2>2
  <2>4. tvds' = Unloaded /\ Last(Unloaded) = c
    <3>1. Front(Append(tvds, c)) = tvds /\ Last(Append(tvds, c)) = c
      <4> DEFINE a == Append(tvds, c)
      <4>1. a \in Seq(Cond) /\ Len(a) = Len(tvds) + 1 /\ a[Len(tvds) + 1] = c /\ Len(tvds) \in Nat
            /\ \A k \in 1 .. Len(tvds) : a[k] = tvds[k]
        BY <1>9, <2>3, Appended
      <4>2. a # <<>>
        BY <2>1, <2>3
      <4> HIDE DEF a
      <4>3. /\ Front(a) \in Seq(Cond) /\ Len(Front(a)) = Len(a) - 1 /\ Last(a) = a[Len(a)]
            /\ \A k \in 1 .. Len(a) - 1 : Front(a)[k] = a[k]
        BY <4>1, <4>2, Shortened
      <4>4. Len(a) - 1 = Len(tvds) /\ Len(Front(a)) = Len(tvds)
        BY <4>1, <4>3
      <4>5. \A k \in 1 .. Len(tvds) : Front(a)[k] = tvds[k]
        BY <4>1, <4>3, <4>4
      <4>6. Front(a) = tvds
        BY <1>9, <4>3, <4>4, <4>5, SeqEqual
      <4> QED BY <4>1, <4>3, <4>6 DEF a
    <3> QED BY <1>15, <2>3, <3>1
  <2>5. /\ pool'[c] = Inverted(pool[c])
        /\ \A k \in Cond : k # c => pool'[k] = pool[k]
    BY <1>3, <1>15, <2>3
  <2>6. /\ Not(pool[c].ast) \in Condition /\ Depends(Not(pool[c].ast))
        /\ pool'[c].wasInverted = TRUE
        /\ pool' \in [Cond -> [wasInverted : BOOLEAN, ast : Condition]]
        /\ \A k \in Cond : Depends(pool'[k].ast)
    <3>1. pool[c].ast \in Condition
      BY <1>3, <2>3
    <3>2. Not(pool[c].ast) \in Condition /\ Depends(Not(pool[c].ast))
      BY <1>3, <2>3, <3>1, DependsNot
    <3>3. /\ pool'[c].wasInverted = TRUE /\ pool'[c].ast = Not(pool[c].ast)
          /\ Inverted(pool[c]) \in [wasInverted : BOOLEAN, ast : Condition]
      BY <2>5, <3>2 DEF Inverted
    <3>4. pool' \in [Cond -> [wasInverted : BOOLEAN, ast : Condition]]
      BY <1>3, <1>15, <2>3, <3>3
    <3>5. ASSUME NEW k \in Cond PROVE Depends(pool'[k].ast)
      BY <1>3, <2>5, <3>2, <3>3
    <3> QED BY <3>2, <3>3, <3>4, <3>5
  <2>7. Understood'
    <3>1. \A k \in 1 .. Len(solver') : Depends(solver'[k])
      BY <1>2, <1>3, <1>15, <2>6, AssertedDepends
    <3> QED BY <1>1, <1>3, <2>6, <3>1 DEF Understood
  <2>8. IdsRight'
    <3>1. lastCond' \in 0 .. PoolSize
      BY <1>7, <1>15, <2>1
    <3> QED BY <1>2, <1>7, <2>4, <3>1 DEF IdsRight
  <2>9. ASSUME NEW q, Meant(pool, explored, conds', q) PROVE Meant(pool', explored, conds', q)
    <3>1. conds' \in Seq(Noted)
      BY <1>7 DEF Recorded
    <3>2. /\ Len(Items(conds')) = Len(conds')
          /\ \A i \in 1 .. Len(conds') : Items(conds')[i] = conds'[i].item /\ conds'[i].item \in Cond
      BY <3>1, ItemsOf
    <3>3. Apart(Items(conds'), Unloaded) /\ Len(Unloaded) \in 1 .. Len(Unloaded)
          /\ Unloaded[Len(Unloaded)] = c
      <4>1. Len(Unloaded) \in Nat \ {0} /\ Last(Unloaded) = Unloaded[Len(Unloaded)]
        BY <1>9, <2>1, Shortened
      <4>2. Len(Unloaded) \in 1 .. Len(Unloaded)
        BY <4>1
      <4> QED BY <1>7, <2>4, <4>1, <4>2 DEF Spread
    <3>4. \A i \in 1 .. Len(conds') : conds'[i].item # c
      BY <3>2, <3>3 DEF Apart
    <3>5. \A i \in 1 .. Len(conds') : pool'[conds'[i].item] = pool[conds'[i].item]
      BY <2>5, <3>2, <3>4
    <3> QED BY <2>9, <3>5, MeantStill
  <2>10. CASE executionState' = "BACKTRACKING"
    <3>1. Len(p) > Met' /\ Len(p) = Met' + 1 /\ backSteps' = 0
      BY <1>1, <1>2, <1>4, <1>6, <1>13
    <3>2. Recorded(Asking', conds', p, Met') /\ Meant(pool', explored', conds', p)
      BY <1>2, <1>3, <1>4, <1>13, <2>9
    <3>3. pool'[lastCond'].wasInverted
      BY <1>15, <2>6
    <3>4. Searches(p, at)'
      BY <1>13, <2>10, <3>1, <3>2, <3>3 DEF Searches
    <3>5. SearchRight'
      BY <1>13, <3>4 DEF SearchRight
    <3> QED BY <1>10, <2>7, <2>8, <3>5 DEF JInv
  <2>11. CASE /\ executionState' = "PATCHING"
              /\ \E x \in Models(tried) : newPass' = Cut(tried, x) /\ Fits(tried, x)
    <3>1. newPass' \in Fitting(Asserted(StepBackward(solver), Not(pool[c].ast)))
      BY <2>11 DEF Fitting
    <3>2. Len(r) = n + 2
      BY <1>2, <1>6
    <3>3. PICK q \in Seq(Block) :
            /\ Len(q) = n + 2 /\ \A i \in 1 .. n + 1 : q[i] = Route[i]
            /\ \A k \in 1 .. Len(q) - 1 : q[k + 1] = SuccessorOf(q[k], newPass')
            /\ Fresh(explored, q, Len(q))
      BY <1>1, <1>6, <2>3, <3>1, <3>2, OtherWay
    <3>4. Recorded(Asking, conds', q, n) /\ Meant(pool', explored, conds', q)
      BY <1>11, <2>9, <3>3
    <3>5. PICK a \in Seq(Nat) : Awaited(Asking, pool', explored, Unloaded, q, a, n)
      <4>1. q[n + 1] \in Asking
        BY <1>8, <2>3, <3>3
      <4> QED BY <1>2, <1>9, <2>1, <2>4, <2>6, <3>3, <4>1, AwaitedFirst
    <3>6. Follow(q)'
      <4>1. Len(path') + 1 = n + 1 /\ Len(q) >= n + 1
        BY <1>1, <1>2, <3>3
      <4> QED BY <1>3, <3>3, <4>1 DEF Follow
    <3>7. Replays(q, a)'
      <4>1. backSteps' \in Nat /\ Len(q) = Met' + backSteps' + 2
        BY <1>1, <1>2, <1>4, <1>6, <3>3
      <4> QED BY <1>2, <1>3, <1>4, <2>4, <2>11, <3>3, <3>5, <4>1 DEF Replays
    <3>8. Searches(q, a)'
      <4>1. Len(q) > Met'
        BY <1>2, <1>4, <3>3
      <4> QED BY <1>2, <1>3, <1>4, <2>11, <3>4, <3>6, <3>7, <4>1 DEF Searches
    <3>9. q \in Seq(Block \cup {NoBlock})
      BY <3>3
    <3>10. SearchRight'
      BY <3>5, <3>8, <3>9 DEF SearchRight
    <3> QED BY <1>10, <2>7, <2>8, <3>10 DEF JInv
  <2> QED BY <1>2, <1>15, <2>10, <2>11
<1> QED BY <1>1, <1>14, <1>15

\* Going back with an input to patch: the conditions are taken along.
LEMMA PatchSearches ==
  ASSUME IInv, JInv, Patch
  PROVE  JInv'
<1> DEFINE n    == Len(path)
           back == StepBackward(solver)
<1>1. /\ GoesBack("PATCHING") /\ tvds' = Unloaded /\ lastCond' = LastUnloaded
      /\ backSteps' = backSteps + 1
      /\ input' = [v \in Variable |-> IF MayPatch(v) THEN newPass[v] ELSE input[v]]
      /\ UNCHANGED <<pc, path, pool, newPass>>
      /\ \/ /\ \A v \in Variable : Differs(v) => MayPatch(v)
            /\ executionState' = "RESTORING" /\ call' = "run"
            /\ solver' = StepForward(back)
         \/ /\ solver' = back /\ call' = "undo" /\ UNCHANGED <<executionState, lastDirection>>
  BY DEF Patch, Advances
<1>2. /\ call = "control" /\ lastDirection = "BACKTRACK" /\ executionState = "PATCHING"
      /\ path \in Seq(Block) /\ n \in Nat \ {0}
      /\ back \in Seq(ToSet(back))
      /\ UNCHANGED <<reports, free, explored>>
  BY <1>1, Retreating DEF GoesBack
<1>3. /\ \A k \in 1 .. Len(back) : Depends(back[k])
      /\ IsWalk(Route') /\ Route' = Route /\ Asking' = Asking /\ explored' \subseteq Seq(Block)
      /\ Depends(lastCondition') /\ (~reports' => lastCondition' = None)
      /\ pool \in [Cond -> [wasInverted : BOOLEAN, ast : Condition]]
      /\ \A k \in Cond : Depends(pool[k].ast)
  BY <1>1, StepBack
<1>4. Met = n + 1 /\ Met' = n
  BY <1>1, <1>2 DEF Met
<1>5. PICK r \in Seq(Block \cup {NoBlock}), at \in Seq(Nat) : Searches(r, at)
  BY <1>2 DEF JInv, SearchRight, Running
<1>6. /\ Recorded(Asking, conds, r, n + 1) /\ Meant(pool, explored, conds, r)
      /\ Follow(r) /\ r \in Seq(Block) /\ backSteps \in Nat /\ Len(r) = n + 1 + backSteps + 2
      /\ \A k \in 1 .. Len(r) - 1 : r[k + 1] = SuccessorOf(r[k], newPass)
      /\ Fresh(explored, r, Len(r))
      /\ Awaited(Asking, pool, explored, tvds, r, at, n + 1)
  BY <1>2, <1>4, <1>5 DEF Searches, Replays
<1>7. /\ r[n + 1] \in Asking =>
           /\ LastUnloaded \in Cond /\ LastUnloaded # NoCond
           /\ Unloaded = Append(tvds, LastUnloaded)
           /\ Stands(pool, explored, LastUnloaded, r, n + 1)
      /\ r[n + 1] \notin Asking => Unloaded = tvds /\ LastUnloaded = lastCond
      /\ LastUnloaded \in 0 .. PoolSize
      /\ Recorded(Asking, conds', r, n) /\ Meant(pool, explored, conds', r)
      /\ Spread(Items(conds'), Unloaded, free)
  BY <1>1, <1>6, Unloading
<1>8. tvds \in Seq(Cond)
  BY DEF JInv, IdsRight, Spread
<1>9. Len(r) \in Nat /\ n \in Nat /\ n + 1 < Len(r) /\ Len(r) = n + (backSteps + 1) + 2
  BY <1>2, <1>6
<1>10. PICK a \in Seq(Nat) : Awaited(Asking, pool, explored, Unloaded, r, a, n)
  <2>1. CASE r[n + 1] \in Asking
    <3>1. ~pool[LastUnloaded].wasInverted => OneSided(explored, r, n + 1)
      BY <1>7, <2>1 DEF Stands
    <3>2. Awaited(Asking, pool, explored, Append(tvds, LastUnloaded), r, Append(at, n + 1), n)
      BY <1>6, <1>8, <1>9, <2>1, <3>1, AwaitedMore
    <3>3. Append(at, n + 1) \in Seq(Nat)
      BY <3>2 DEF Awaited
    <3> QED BY <1>7, <2>1, <3>2, <3>3
  <2>2. CASE r[n + 1] \notin Asking
    <3>1. Awaited(Asking, pool, explored, tvds, r, at, n)
      BY <1>6, <1>9, <2>2, AwaitedPast
    <3> QED BY <1>7, <2>2, <3>1
  <2> QED BY <2>1, <2>2
<1>11. executionState' \in {"PATCHING", "RESTORING"} /\ (executionState' = "RESTORING" => input' = newPass')
  <2>1. CASE \A v \in Variable : Differs(v) => MayPatch(v)
    <3>1. newPass \in [Variable -> Word]
      BY DEF IInv, Typed, Input
    <3>2. \A v \in Variable : input'[v] = newPass[v]
      BY <1>1, <2>1 DEF Differs
    <3>3. input' = [v \in Variable |-> newPass[v]]
      BY <1>1, <3>2
    <3> QED BY <1>1, <1>2, <3>1, <3>3
  <2>2. CASE UNCHANGED executionState
    BY <1>2, <2>2
  <2> QED BY <1>1, <2>1, <2>2
<1>12. Phased'
  BY <1>1, <1>2, <1>3 DEF Phased
<1>13. Understood'
  <2>1. \A k \in 1 .. Len(StepForward(back)) : Depends(StepForward(back)[k])
    BY <1>2, <1>3, FramesDepend
  <2> HIDE DEF back
  <2>2. \A k \in 1 .. Len(solver') : Depends(solver'[k])
    BY <1>1, <1>3, <2>1
  <2> QED BY <1>1, <1>3, <2>2 DEF Understood
<1>14. IdsRight'
  BY <1>1, <1>2, <1>7 DEF IdsRight
<1>15. Searches(r, a)'
  <2>1. Follow(r)'
    BY <1>1, <1>3, <1>6 DEF Follow
  <2>2. Replays(r, a)'
    <3>1. backSteps' \in Nat /\ Len(r) = Met' + backSteps' + 2
      BY <1>1, <1>4, <1>6, <1>9
    <3> QED BY <1>1, <1>2, <1>3, <1>4, <1>6, <1>10, <1>11, <3>1 DEF Replays
  <2>3. Len(r) > Met'
    BY <1>4, <1>9
  <2> QED BY <1>1, <1>2, <1>3, <1>4, <1>7, <1>11, <2>1, <2>2, <2>3 DEF Searches
<1>16. SearchRight'
  BY <1>6, <1>15 DEF SearchRight
<1> QED BY <1>12, <1>13, <1>14, <1>16 DEF JInv

\* A value that was cut stays so.
LEMMA StaysFitted ==
  ASSUME [Next]_vars, fitted'
  PROVE  fitted
<1>1. CASE UNCHANGED fitted
  BY <1>1
<1>2. CASE Backtrack
  <2>1. CASE UNCHANGED fitted
    BY <2>1
  <2>2. CASE \E x \in Input :
               fitted' = (fitted /\ Fits(Asserted(StepBackward(solver), Not(pool[Popped].ast)), x))
    BY <2>2
  <2> QED BY <1>2, <2>1, <2>2 DEF Backtrack, Models
<1> QED BY <1>1, <1>2 DEF Next, ExecutionBegin, RunBlock, Crash, Undo, ExecutionEnd, Explore,
           Restore, Patch, vars

LEMMA SearchInductive ==
  ASSUME IsFiniteSet(Variable), Cardinality(Variable) <= LogSize,
         TestsDepend, TestsWhatItRead
  PROVE  IInv /\ (fitted => JInv) /\ [Next]_vars => IInv' /\ (fitted' => JInv')
<1> SUFFICES ASSUME IInv, fitted => JInv, [Next]_vars, fitted' PROVE IInv' /\ JInv'
  BY Inductive
<1>0. JInv
  BY StaysFitted
<1>1. IInv'
  BY Inductive
<1>2. CASE UNCHANGED vars
  <2>1. /\ UNCHANGED <<pc, path, input, call, reports, lastCondition, solver, executionState>>
        /\ UNCHANGED <<backSteps, lastDirection, newPass, conds, pool, free, tvds, lastCond, explored>>
    BY <1>2 DEF vars, program, executor, search, cec
  <2>2. Route' = Route /\ Asking' = Asking /\ Met' = Met /\ (Pending' <=> Pending)
    BY <2>1 DEF Route, Asking, Met, Pending
  <2>3. Phased' /\ Understood' /\ IdsRight'
    BY <1>0, <2>1, <2>2 DEF JInv, Phased, Understood, IdsRight
  <2>4. SearchRight'
    <3>1. CASE ~Running
      BY <2>1, <3>1 DEF SearchRight, Running
    <3>2. CASE Running
      <4>1. PICK r \in Seq(Block \cup {NoBlock}), at \in Seq(Nat) : Searches(r, at)
        BY <1>0, <3>2 DEF JInv, SearchRight
      <4>2. Follow(r)' <=> Follow(r)
        BY <2>1, <2>2 DEF Follow
      <4>3. Replays(r, at)' <=> Replays(r, at)
        BY <2>1, <2>2 DEF Replays
      <4>4. Searches(r, at)'
        BY <2>1, <2>2, <4>1, <4>2, <4>3 DEF Searches
      <4> QED BY <4>4 DEF SearchRight
    <3> QED BY <3>1, <3>2
  <2> QED BY <1>1, <2>3, <2>4 DEF JInv
<1>3. CASE Next
  BY <1>0, <1>1, <1>3, BeginSearches, RunSearches, CrashSearches, UndoSearches, EndSearches, ExploreSearches,
     RestoreSearches, BacktrackSearches, PatchSearches DEF Next
<1> QED BY <1>1, <1>2, <1>3

\* At its end the path that was run is the route, which nothing explored shares.
LEMMA NewEnough == IInv /\ (fitted => JInv) => OnlyNewPaths
<1> SUFFICES ASSUME IInv, JInv, call = "end" PROVE path \notin explored
  BY DEF OnlyNewPaths
<1> DEFINE n == Len(path)
<1>1. executionState = "EXPLORING" /\ path \in Seq(Block) /\ n \in Nat \ {0}
  BY DEF IInv, Typed, Flow, JInv, Phased
<1>2. PICK r \in Seq(Block \cup {NoBlock}), at \in Seq(Nat) : Searches(r, at)
  BY DEF JInv, SearchRight, Running
<1>3. Fresh(explored, r, n) /\ \A i \in 1 .. n + 1 : r[i] = Route[i]
  BY <1>1, <1>2 DEF Searches, Follow
<1>4. Shares(path, r, n)
  <2>1. path \in Seq(Block \cup {NoBlock})
    BY <1>1
  <2>2. \A i \in 1 .. n : i \in 1 .. n + 1 /\ Route[i] = path[i] /\ Full(path)[i] = path[i]
    BY <1>1, <2>1, RouteIs, Appended DEF Full
  <2> QED BY <1>1, <1>3, <2>2 DEF Shares
<1> QED BY <1>3, <1>4 DEF Fresh

\* As long as every value found by the solver fits into a byte, the search runs no
\* path to its end twice: for every program that tests what it has read and whose
\* conditions are about the variables they mention, as long as the log of the locks
\* has room for every variable.  The pool of conditions may be of any size: when it
\* is empty the code stops.
THEOREM SearchIsNew ==
  ASSUME IsFiniteSet(Variable), Cardinality(Variable) <= LogSize,
         TestsDepend, TestsWhatItRead
  PROVE  Spec => []OnlyNewPaths
<1>1. Init => IInv /\ (fitted => JInv)
  BY Initially, SearchInitially
<1>2. IInv /\ (fitted => JInv) /\ [Next]_vars => IInv' /\ (fitted' => JInv')
  BY SearchInductive
<1>3. IInv /\ (fitted => JInv) => OnlyNewPaths
  BY NewEnough
<1> QED BY <1>1, <1>2, <1>3, PTL DEF Spec
=============================================================================
