------------------------- MODULE PatchLibraryProofs -------------------------
(***************************************************************************)
(* For every set of modules, offsets and values and files of every length, *)
(* what was read of the patch file has been applied, and nothing else.     *)
(***************************************************************************)
EXTENDS PatchLibrary, TLAPS

Address == Module \X Offset

\* The lines read so far.
ReadLines == SubSeq(file, 1, pos)

Typed ==
  /\ pc \in {"open", "getline", "done"} /\ found \in BOOLEAN
  /\ file \in Seq(Line)
  /\ pos \in 0 .. Len(file)
  /\ memory \in [Address -> Value \cup {"untouched"}]

\* An address that some line asks to write has a last such line.  Max, a CHOOSE,
\* says nothing of a set before that is known.
HasLast(ks) == ks = {} \/ \E k \in ks : \A j \in ks : k >= j

LastLines == \A a \in Address : HasLast(PatchesOf(a, ReadLines))

\* The loop ends at the end of the file or at a line that it rejects.
EndsRightly ==
  /\ pc = "open" => pos = 0
  /\ pc = "done" /\ found => pos = Len(file) \/ ~Loadable

IInv == Typed /\ PrefixApplied /\ LastLines /\ EndsRightly

-----------------------------------------------------------------------------
(* The operators.                                                           *)

\* Max is the last line once there is one.
LEMMA MaxIsLast ==
  ASSUME NEW ks \in SUBSET Nat, NEW k \in ks, \A j \in ks : k >= j
  PROVE  Max(ks) = k
<1> DEFINE IsLast(x) == x \in ks /\ \A j \in ks : x >= j
<1>1. IsLast(k)
  OBVIOUS
<1>2. \A x : IsLast(x) => x = k
  OBVIOUS
<1>3. Max(ks) = CHOOSE x \in ks : \A j \in ks : x >= j
  BY DEF Max
<1>4. QED BY <1>1, <1>2, <1>3

\* Whether a line asks for a write to an address.
Asks(line, a) ==
  line.kind \in {"patch", "force"} /\ <<line.module, line.offset>> = a

\* One more line adds itself to the lines that write an address, or nothing.
LEMMA OneMoreLine ==
  ASSUME NEW lines \in Seq(Line), NEW n \in 0 .. Len(lines) - 1, NEW a
  PROVE  /\ PatchesOf(a, SubSeq(lines, 1, n)) \in SUBSET (1 .. n)
         /\ PatchesOf(a, SubSeq(lines, 1, n + 1))
              = PatchesOf(a, SubSeq(lines, 1, n))
                  \cup IF Asks(lines[n + 1], a) THEN {n + 1} ELSE {}
<1> DEFINE s == SubSeq(lines, 1, n)
           t == SubSeq(lines, 1, n + 1)
           ks == PatchesOf(a, s)
           more == PatchesOf(a, t)
<1>1. /\ Len(s) = n /\ Len(t) = n + 1
      /\ \A k \in 1 .. n : s[k] = lines[k]
      /\ \A k \in 1 .. n + 1 : t[k] = lines[k]
  OBVIOUS
<1> HIDE DEF s, t
<1>2. ks = {k \in 1 .. n : Asks(lines[k], a)}
  BY <1>1 DEF PatchesOf, Asks
<1>3. more = {k \in 1 .. n + 1 : Asks(lines[k], a)}
  BY <1>1 DEF PatchesOf, Asks
<1>4. \A k : k \in 1 .. n + 1 <=> k \in 1 .. n \/ k = n + 1
  OBVIOUS
<1> HIDE DEF ks, more
<1>5. /\ ks \in SUBSET (1 .. n)
      /\ more = ks \cup IF Asks(lines[n + 1], a) THEN {n + 1} ELSE {}
  BY <1>2, <1>3, <1>4
<1>6. QED BY <1>5 DEF s, t, ks, more

\* The effect of one more line on what has been applied.
LEMMA AppliedGrows ==
  ASSUME NEW lines \in Seq(Line), NEW n \in 0 .. Len(lines) - 1,
         \A a \in Address : HasLast(PatchesOf(a, SubSeq(lines, 1, n)))
  PROVE  \A a \in Address :
           /\ HasLast(PatchesOf(a, SubSeq(lines, 1, n + 1)))
           /\ Applied(SubSeq(lines, 1, n + 1))[a]
                = IF Asks(lines[n + 1], a) THEN lines[n + 1].value
                  ELSE Applied(SubSeq(lines, 1, n))[a]
<1> SUFFICES ASSUME NEW a \in Address
             PROVE  /\ HasLast(PatchesOf(a, SubSeq(lines, 1, n + 1)))
                    /\ Applied(SubSeq(lines, 1, n + 1))[a]
                         = IF Asks(lines[n + 1], a) THEN lines[n + 1].value
                           ELSE Applied(SubSeq(lines, 1, n))[a]
  OBVIOUS
<1> DEFINE s == SubSeq(lines, 1, n)
           t == SubSeq(lines, 1, n + 1)
           ks == PatchesOf(a, s)
           more == PatchesOf(a, t)
<1>1. /\ ks \in SUBSET (1 .. n)
      /\ more = ks \cup IF Asks(lines[n + 1], a) THEN {n + 1} ELSE {}
  BY OneMoreLine
<1>2. HasLast(ks)
  OBVIOUS
<1>3. /\ \A k \in 1 .. n : s[k] = lines[k] /\ t[k] = lines[k]
      /\ t[n + 1] = lines[n + 1]
  OBVIOUS
<1>4. /\ Applied(s)[a] = IF ks = {} THEN "untouched" ELSE s[Max(ks)].value
      /\ Applied(t)[a] = IF more = {} THEN "untouched" ELSE t[Max(more)].value
  BY DEF Applied, Address
<1> HIDE DEF s, t, ks, more
<1>5. CASE Asks(lines[n + 1], a)
  <2>1. n + 1 \in more /\ \A j \in more : n + 1 >= j
    BY <1>1, <1>5
  <2>2. Max(more) = n + 1
    BY <1>1, <1>5, <2>1, MaxIsLast
  <2>3. HasLast(more)
    BY <2>1 DEF HasLast
  <2>4. Applied(t)[a] = lines[n + 1].value
    BY <1>3, <1>4, <2>1, <2>2
  <2>5. QED BY <1>5, <2>3, <2>4 DEF s, t, more
<1>6. CASE ~Asks(lines[n + 1], a)
  <2>1. more = ks
    BY <1>1, <1>6
  <2>2. ks = {} \/ Max(ks) \in 1 .. n
    <3>1. CASE ks # {}
      <4>1. PICK k \in ks : \A j \in ks : k >= j
        BY <1>2, <3>1 DEF HasLast
      <4>2. Max(ks) = k
        BY <1>1, <4>1, MaxIsLast
      <4>3. QED BY <1>1, <4>2
    <3>2. QED BY <3>1
  <2>3. Applied(t)[a] = Applied(s)[a]
    BY <1>3, <1>4, <2>1, <2>2
  <2>4. QED BY <1>2, <1>6, <2>1, <2>3 DEF s, t, ks, more
<1>7. QED BY <1>5, <1>6

\* What a step that reads a line has to do to memory.
LEMMA LineRead ==
  ASSUME IInv, pos < Len(file), pos' = pos + 1, file' = file, found' = found,
         pc' = "getline",
         memory' \in [Address -> Value \cup {"untouched"}],
         \A a \in Address :
           memory'[a] = IF Asks(NextLine, a) THEN NextLine.value ELSE memory[a]
  PROVE  IInv'
<1> USE DEF IInv, Typed
<1>1. /\ file \in Seq(Line) /\ pos \in 0 .. Len(file) - 1
      /\ ReadLines' = SubSeq(file, 1, pos + 1)
  BY DEF ReadLines
<1>2. Typed'
  OBVIOUS
<1>3. \A a \in Address :
        /\ HasLast(PatchesOf(a, SubSeq(file, 1, pos + 1)))
        /\ Applied(SubSeq(file, 1, pos + 1))[a]
             = IF Asks(NextLine, a) THEN NextLine.value
               ELSE Applied(SubSeq(file, 1, pos))[a]
  BY <1>1, AppliedGrows DEF LastLines, ReadLines, NextLine
<1>4. LastLines'
  BY <1>1, <1>3 DEF LastLines
<1>5. \A a \in Address : memory'[a] = Applied(SubSeq(file, 1, pos + 1))[a]
  BY <1>3 DEF PrefixApplied
<1>6. PrefixApplied'
  <2>1. Applied(SubSeq(file, 1, pos + 1))
          = [a \in Address |-> Applied(SubSeq(file, 1, pos + 1))[a]]
    BY DEF Applied, Address
  <2>2. memory' = [a \in Address |-> memory'[a]]
    OBVIOUS
  <2>3. memory' = Applied(SubSeq(file, 1, pos + 1))
    BY <1>5, <2>1, <2>2
  <2>4. QED BY <1>1, <2>3 DEF PrefixApplied, ReadLines
<1>7. EndsRightly'
  BY DEF EndsRightly
<1>8. QED BY <1>2, <1>4, <1>6, <1>7

-----------------------------------------------------------------------------
(* The steps.                                                               *)

LEMMA InitIInv == Init => IInv
<1> SUFFICES ASSUME Init PROVE IInv
  OBVIOUS
<1>1. file \in Seq(Line)
  BY PatchAssumption DEF Init, BoundedSeq, SeqOf
<1>2. Typed
  BY <1>1 DEF Init, Typed, Address
<1>3. ReadLines = <<>>
  BY <1>1 DEF Init, ReadLines
<1>4. \A a : PatchesOf(a, ReadLines) = {}
  BY <1>3 DEF PatchesOf
<1>5. LastLines
  BY <1>4 DEF LastLines, HasLast
<1>6. PrefixApplied
  BY <1>4 DEF PrefixApplied, Applied, Init, ReadLines
<1>7. EndsRightly
  BY DEF EndsRightly, Init
<1>8. QED BY <1>2, <1>5, <1>6, <1>7 DEF IInv

LEMMA SkipLineStep == IInv /\ SkipLine => IInv'
<1> SUFFICES ASSUME IInv, SkipLine PROVE IInv'
  OBVIOUS
<1>1. \A a : ~Asks(NextLine, a)
  BY DEF SkipLine, Skipped, Asks
<1>2. QED
  BY <1>1, LineRead DEF SkipLine, Reading, IInv, Typed

LEMMA PatchLineStep == IInv /\ PatchLine => IInv'
<1> SUFFICES ASSUME IInv, PatchLine PROVE IInv'
  OBVIOUS
<1> DEFINE at == <<NextLine.module, NextLine.offset>>
<1>1. NextLine \in Line
  BY DEF PatchLine, Reading, NextLine, IInv, Typed
<1>2. /\ at \in Address /\ NextLine.value \in Value
      /\ \A a : Asks(NextLine, a) <=> a = at
  BY <1>1 DEF PatchLine, ModuleFound, Line, Address, Asks
<1>3. memory' = [memory EXCEPT ![at] = NextLine.value]
  BY DEF PatchLine, Written
<1>4. /\ memory' \in [Address -> Value \cup {"untouched"}]
      /\ \A a \in Address :
           memory'[a] = IF Asks(NextLine, a) THEN NextLine.value ELSE memory[a]
  BY <1>2, <1>3 DEF IInv, Typed
<1>5. QED
  BY <1>4, LineRead DEF PatchLine, Reading, IInv, Typed

\* A line that is rejected is none of a loadable file's.
LEMMA RejectLineStep == IInv /\ RejectLine => IInv'
<1> SUFFICES ASSUME IInv, RejectLine PROVE IInv'
  OBVIOUS
<1>1. pos + 1 \in 1 .. Len(file)
  BY DEF RejectLine, Reading, IInv, Typed
<1>2. ~Loadable
  BY <1>1 DEF Loadable, RejectLine, NextLine, Skipped, HasPlusAndEquals, ModuleFound
<1>3. QED
  BY <1>2 DEF RejectLine, IInv, Typed, PrefixApplied, LastLines, ReadLines,
              EndsRightly, Loadable

LEMMA NextIInv == IInv /\ [Next]_vars => IInv'
<1> SUFFICES ASSUME IInv, [Next]_vars PROVE IInv'
  OBVIOUS
<1> USE DEF IInv, Typed, PrefixApplied, LastLines, ReadLines, EndsRightly,
            Loadable
<1>1. CASE OpenPatchFile    BY <1>1 DEF OpenPatchFile
<1>2. CASE SkipLine         BY <1>2, SkipLineStep
<1>3. CASE PatchLine        BY <1>3, PatchLineStep
<1>4. CASE RejectLine       BY <1>4, RejectLineStep
<1>5. CASE EndOfFile        BY <1>5 DEF EndOfFile
<1>6. CASE UNCHANGED vars   BY <1>6 DEF vars
<1>7. QED BY <1>1, <1>2, <1>3, <1>4, <1>5, <1>6 DEF Next

\* IInv is an inductive invariant of the patch loader.
LEMMA PatchInvariance == Spec => []IInv
<1>1. QED BY InitIInv, NextIInv, PTL DEF Spec

-----------------------------------------------------------------------------
(* The theorems.                                                            *)

\* Memory holds the lines read so far and nothing else, the last line for an
\* address winning, for files of every length.
THEOREM MemoryFollowsFile == Spec => []PrefixApplied
<1>1. IInv => PrefixApplied BY DEF IInv
<1>2. QED BY <1>1, PatchInvariance, PTL

\* A file of plain patches of loaded modules is applied completely.
THEOREM LoadableIsApplied == Spec => []AllApplied
<1>1. IInv => AllApplied
  <2> SUFFICES ASSUME IInv, pc = "done", found, Loadable
               PROVE  memory = Applied(file)
    BY DEF AllApplied
  <2>1. pos = Len(file) /\ file \in Seq(Line)
    BY DEF IInv, Typed, EndsRightly
  <2>2. SubSeq(file, 1, pos) = file
    BY <2>1
  <2>3. QED BY <2>2 DEF IInv, PrefixApplied
<1>2. QED BY <1>1, PatchInvariance, PTL
=============================================================================
