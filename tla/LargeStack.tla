----------------------------- MODULE LargeStack -----------------------------
(***************************************************************************)
(* A stack larger than its memory.  The buffer is eight chunks,            *)
(* Y|C C|B B|A A|X: the program pushes downwards through A, B and C, and   *)
(* in Y it is moved back to A.  Two of the regions hold the stack's last   *)
(* words; what is below them is spilled to a file, and loaded when the     *)
(* program pops its way back.  X holds a copy of the half of C that joins  *)
(* what was moved.                                                         *)
(*                                                                         *)
(* The program owns the stack pointer and the words; LargeStack looks at   *)
(* the pointer when Update is called.  This is the use the layout was made *)
(* for; nothing in the repository makes it.  The executor saves its flags  *)
(* with Push and Pop, which take the pointer for the word.                 *)
(*                                                                         *)
(* The file is never cut: VirtualPop asks for a negative length, which is  *)
(* refused, so a load that follows a load reads the same words again.      *)
(* Where the stack stops being the program's, the model ends: at a load    *)
(* after a load, and at Push or Pop.                                       *)
(***************************************************************************)
EXTENDS Integers, Sequences, SequencesExt

CONSTANTS
  ChunkSize,   \* in words
  MaxDepth,    \* bound on the words of the stack
  MaxFile      \* bound on the regions written to the file

ASSUME StackAssumption ==
  ChunkSize \in Nat \ {0} /\ MaxDepth \in Nat /\ MaxFile \in Nat

VARIABLES
  memory,          \* the buffer, the word at stackBase first
  stackTop,        \* the index of the last word pushed
  currentRegion,
  file,            \* the regions written, as sequences of words
  stack,           \* history: what the program pushed and has not popped
  sound            \* history: no load has followed a load, nor Push or Pop been called

\* Words are only copied, so it is enough to tell one of them from the others.
Blank  == 0
Plain  == 1
Marked == 2
Word   == {Plain, Marked}

vars == <<memory, stackTop, currentRegion, file, stack, sound>>

Chunk(n) == n * ChunkSize
RegionSize == Chunk(2)
Buffer == 0 .. Chunk(8) - 1
Cleared == [i \in 1 .. RegionSize |-> Blank]

\* 0 for Y, 1 for C, 2 for B, 3 for A and 4 for X: where the next word is pushed.
RegionOf(top) == ((top - 1) \div ChunkSize + 1) \div 2

Copied(m, first, words) ==
  [i \in Buffer |-> IF i \in first .. first + Len(words) - 1 THEN words[i - first + 1] ELSE m[i]]
Words(m, first, count) == [i \in 1 .. count |-> m[first + i - 1]]

-----------------------------------------------------------------------------
(* The program.                                                             *)

\* It calls Update before its pointer is more than a region away from where it
\* was at the last call, before it reaches an end of the buffer, and before it
\* pushes to X: the words of X are a copy, which Update leaves behind.
MayMoveTo(top) == top \in 1 .. Chunk(8) /\ RegionOf(top) - currentRegion \in -1 .. 1

IsKept(w) ==
  \/ \E i \in Buffer : memory[i] = w
  \/ \E k \in DOMAIN file.regions : w \in ToSet(file.regions[k])

ProgramPushes ==
  /\ sound /\ Len(stack) < MaxDepth /\ MayMoveTo(stackTop - 1)
  /\ RegionOf(stackTop) # 4
  /\ stackTop' = stackTop - 1
  /\ \E w \in Word :
       /\ w = Marked => ~IsKept(Marked)
       /\ memory' = [memory EXCEPT ![stackTop'] = w] /\ stack' = Append(stack, w)
  /\ UNCHANGED <<currentRegion, file, sound>>

ProgramPops ==
  /\ sound /\ stack # <<>> /\ MayMoveTo(stackTop + 1)
  /\ stackTop' = stackTop + 1 /\ stack' = Front(stack)
  /\ UNCHANGED <<memory, currentRegion, file, sound>>

-----------------------------------------------------------------------------
(* Update.                                                                  *)

\* Mutant of MovedTop: the two directions are swapped.
MovedTopSwapped(region) ==
  CASE region = 0 -> stackTop - Chunk(6) [] region = 4 -> stackTop + Chunk(6)
    [] OTHER -> stackTop

MovedTop(region) ==
  CASE region = 0 -> stackTop + Chunk(6) [] region = 4 -> stackTop - Chunk(6)
    [] OTHER -> stackTop

MovedMemory(region) ==
  IF region = 0
    THEN Copied(memory, stackTop + Chunk(6), Words(memory, stackTop, Chunk(2) - stackTop))
    ELSE memory

MovedRegion(region) == CASE region = 0 -> 3 [] region = 4 -> 1 [] OTHER -> region

\* Going down, A to B to C to A, the region after the new one is spilled.
Descends(region) == <<currentRegion, region>> \in {<<3, 2>>, <<2, 1>>, <<1, 3>>}
ClearBuffer(region) == CASE region = 1 -> Chunk(5) [] region = 2 -> Chunk(1) [] region = 3 -> Chunk(3)

\* Mutant of LoadBuffer: the region the pointer is in is loaded.
LoadBufferOwn(region) == CASE region = 1 -> Chunk(1) [] region = 2 -> Chunk(3) [] region = 3 -> Chunk(5)
LoadBuffer(region)    == CASE region = 1 -> Chunk(3) [] region = 2 -> Chunk(5) [] region = 3 -> Chunk(1)

\* The file has been loaded from since it was last written to.
Loaded == file.loaded

VirtualPush(m, first) ==
  /\ Len(file.regions) < MaxFile
  /\ file' = [regions |-> Append(file.regions, Words(m, first, RegionSize)), loaded |-> FALSE]
  /\ memory' = Copied(m, first, Cleared)
  /\ UNCHANGED sound

VirtualPop(m, first) ==
  /\ memory' = Copied(m, first, Last(file.regions))
  /\ file' = [file EXCEPT !.loaded = TRUE]
  /\ sound' = ~Loaded

Update ==
  LET seen == RegionOf(stackTop)
      newRegion == MovedRegion(seen)
  IN /\ sound /\ seen # currentRegion
     /\ stackTop' = MovedTop(seen) /\ currentRegion' = newRegion
     /\ IF Descends(newRegion) THEN VirtualPush(MovedMemory(seen), ClearBuffer(newRegion))
                               ELSE VirtualPop(MovedMemory(seen), LoadBuffer(newRegion))
     /\ UNCHANGED stack

-----------------------------------------------------------------------------
(* What SaveState and LoadState of the flags call.                          *)

\* The word is stored in the pointer, not where it points.
Push(w) ==
  /\ sound /\ stackTop' = w /\ sound' = FALSE
  /\ UNCHANGED <<memory, currentRegion, file, stack>>

\* The pointer is returned, not what it points to.
Pop ==
  /\ sound /\ stackTop' = stackTop + 1 /\ sound' = FALSE
  /\ UNCHANGED <<memory, currentRegion, file, stack>>

-----------------------------------------------------------------------------

Init ==
  /\ memory = [i \in Buffer |-> Blank]
  /\ stackTop = Chunk(7) /\ currentRegion = 3
  /\ file = [regions |-> <<>>, loaded |-> FALSE]
  /\ stack = <<>> /\ sound = TRUE

Next ==
  \/ ProgramPushes \/ ProgramPops \/ Update
  \/ \E w \in Word : Push(w)
  \/ Pop

Spec == Init /\ [][Next]_vars

-----------------------------------------------------------------------------
(* Properties.                                                              *)

\* The variables have their types: until Push or Pop is called the pointer stays in
\* the buffer, or just behind its last word.
TypeOK ==
  /\ memory \in [Buffer -> Word \cup {Blank}]
  /\ stackTop \in Nat /\ (sound => stackTop \in 1 .. Chunk(8))
  /\ currentRegion \in 1 .. 3
  /\ \A r \in ToSet(file.regions) : r \in [1 .. RegionSize -> Word \cup {Blank}]
  /\ stack \in Seq(Word) /\ sound \in BOOLEAN

MayPop == stack # <<>> /\ MayMoveTo(stackTop + 1)

\* The word a pop returns is the last one pushed and not popped: through spills,
\* loads and moves of the pointer between the two ends of the buffer, and wherever
\* Update is called in between, as long as each load follows a spill and the
\* program itself moves the pointer.
PopsWhatWasPushed == sound /\ MayPop => memory[stackTop] = Last(stack)
=============================================================================
