-------------------------- MODULE LargeStackProofs --------------------------
(***************************************************************************)
(* Proofs about LargeStack: for chunks of any size, stacks of any depth    *)
(* and files of any length, a pop returns what was pushed.                 *)
(*                                                                         *)
(* The words of the stack are numbered by where they would be if the       *)
(* buffer went on for ever: the last one at stackTop, and the first one    *)
(* just before Bottom.  Moving the pointer renumbers them.  The invariant  *)
(* says for each region the pointer may be in which of them are in the     *)
(* buffer, in place or, of the half of C and X that join, six chunks away, *)
(* and which of them the file's last region holds.                         *)
(***************************************************************************)
EXTENDS LargeStack, SequenceTheorems, TLAPS

Contents == Word \cup {Blank}
Region   == [1 .. RegionSize -> Contents]

\* What the types need besides TypeOK.
Typed ==
  /\ memory \in [Buffer -> Contents]
  /\ stackTop \in Nat /\ (sound => stackTop \in 1 .. Chunk(8))
  /\ currentRegion \in 1 .. 3
  /\ file \in [regions : Seq(Region), loaded : BOOLEAN]
  /\ stack \in Seq(Word) /\ sound \in BOOLEAN

Bottom == stackTop + Len(stack)

\* w is the word at l, if stack s, whose last word is at top, has one there.
WordOf(s, top, w, l) == l \in top .. top + Len(s) - 1 => w = s[top + Len(s) - l]
IsWord(w, l) == WordOf(stack, stackTop, w, l)

\* The pointer is in the region where Update left it, or in one next to it.
Near == RegionOf(stackTop) - currentRegion \in -1 .. 1

\* The words from the top up to here are where they should be.
InPlace == IF currentRegion = 1 THEN Chunk(5) ELSE Chunk(8)
Reachable == \A l \in stackTop .. InPlace - 1 : IsWord(memory[l], l)

\* In A, region C has the words that come after A's; the first half of them is in X too.
Joins == currentRegion = 3 => \A l \in Chunk(7) .. Chunk(9) - 1 : IsWord(memory[l - Chunk(6)], l)

\* In C, what is in X still belongs to A, unless a load has brought the pointer here.
Copies == currentRegion = 1 /\ ~Loaded => \A l \in Chunk(7) .. Chunk(8) - 1 : IsWord(memory[l], l)

\* The last region of the file is the one to load next.
SpillBase ==
  CASE currentRegion = 1 -> Chunk(5) [] currentRegion = 2 -> Chunk(7)
    [] currentRegion = 3 -> Chunk(9)
Spilled ==
  /\ file.regions = <<>> => currentRegion = 3 /\ Bottom = Chunk(7)
  /\ file.regions # <<>> /\ ~Loaded =>
       \A j \in 1 .. RegionSize : IsWord(Last(file.regions)[j], SpillBase + j - 1)

IInv == Typed /\ (sound => Near /\ Reachable /\ Joins /\ Copies /\ Spilled)

-----------------------------------------------------------------------------
(* Regions.                                                                 *)

LEMMA Quotient ==
  ASSUME NEW c \in Nat \ {0}, NEW x \in Nat, NEW k \in 0 .. 7, k * c <= x, x < k * c + c
  PROVE  x \div c = k
  BY Z3

LEMMA RegionBounds ==
  ASSUME NEW top \in 1 .. Chunk(8)
  PROVE  /\ RegionOf(top) \in 0 .. 4
         /\ RegionOf(top) = 0 <=> top <= Chunk(1)
         /\ RegionOf(top) = 1 <=> Chunk(1) < top /\ top <= Chunk(3)
         /\ RegionOf(top) = 2 <=> Chunk(3) < top /\ top <= Chunk(5)
         /\ RegionOf(top) = 3 <=> Chunk(5) < top /\ top <= Chunk(7)
         /\ RegionOf(top) = 4 <=> Chunk(7) < top
<1> DEFINE c == ChunkSize
           x == top - 1
<1>1. c \in Nat \ {0} /\ \A n \in 1 .. 8 : Chunk(n) = n * c
  BY StackAssumption DEF Chunk
<1>2. x \in Nat /\ x < 8 * c /\ top = x + 1
  BY <1>1
<1>3. RegionOf(top) = ((x \div c) + 1) \div 2
  BY DEF RegionOf
<1> HIDE DEF c, x
<1>4. PICK k \in 0 .. 7 : k * c <= x /\ x < k * c + c
  <2>1. \/ x < c
        \/ c <= x /\ x < 2 * c
        \/ 2 * c <= x /\ x < 3 * c
        \/ 3 * c <= x /\ x < 4 * c
        \/ 4 * c <= x /\ x < 5 * c
        \/ 5 * c <= x /\ x < 6 * c
        \/ 6 * c <= x /\ x < 7 * c
        \/ 7 * c <= x /\ x < 8 * c
    BY <1>1, <1>2
  <2> QED
    BY <1>1, <1>2, <2>1
<1>5. x \div c = k
  BY <1>1, <1>2, <1>4, Quotient
<1>6. /\ RegionOf(top) = (k + 1) \div 2
      /\ top = x + 1
  BY <1>2, <1>3, <1>5
<1>7. CASE k = 0
  BY <1>1, <1>2, <1>4, <1>6, <1>7
<1>8. CASE k = 1 \/ k = 2
  BY <1>1, <1>2, <1>4, <1>6, <1>8
<1>9. CASE k = 3 \/ k = 4
  BY <1>1, <1>2, <1>4, <1>6, <1>9
<1>10. CASE k = 5 \/ k = 6
  BY <1>1, <1>2, <1>4, <1>6, <1>10
<1>11. CASE k = 7
  BY <1>1, <1>2, <1>4, <1>6, <1>11
<1> QED
  BY <1>7, <1>8, <1>9, <1>10, <1>11

-----------------------------------------------------------------------------
(* The buffer and the stack.                                                *)

LEMMA OfFunction ==
  ASSUME NEW S, NEW n \in Nat, NEW f \in [1 .. n -> S]
  PROVE  f \in Seq(S) /\ Len(f) = n
  OBVIOUS

LEMMA CopiedAt ==
  ASSUME NEW m \in [Buffer -> Contents], NEW first \in Nat, NEW n \in Nat,
         NEW words \in [1 .. n -> Contents]
  PROVE  /\ Copied(m, first, words) \in [Buffer -> Contents]
         /\ \A i \in Buffer : Copied(m, first, words)[i] =
              IF first <= i /\ i < first + n THEN words[i - first + 1] ELSE m[i]
<1>1. Len(words) = n
  BY OfFunction
<1>2. \A i \in Buffer : i \in Int /\ (i \in first .. first + n - 1 <=> first <= i /\ i < first + n)
  BY DEF Buffer
<1>3. \A i \in Buffer : first <= i /\ i < first + n => words[i - first + 1] \in Contents
  BY <1>2
<1> QED
  BY <1>1, <1>2, <1>3 DEF Copied

LEMMA WordsAt ==
  ASSUME NEW m \in [Buffer -> Contents], NEW first \in Nat, NEW count \in Nat,
         first + count <= Chunk(8)
  PROVE  /\ Words(m, first, count) \in [1 .. count -> Contents]
         /\ \A j \in 1 .. count : Words(m, first, count)[j] = m[first + j - 1]
<1>1. \A j \in 1 .. count : first + j - 1 \in Buffer
  BY StackAssumption DEF Buffer, Chunk
<1> QED
  BY <1>1 DEF Words

LEMMA FrontOfStack ==
  ASSUME NEW S, NEW s \in Seq(S), s # <<>>
  PROVE  /\ Front(s) \in Seq(S) /\ Len(Front(s)) = Len(s) - 1 /\ Len(s) > 0
         /\ \A k \in 1 .. Len(s) - 1 : Front(s)[k] = s[k]
<1> DEFINE n == Len(s) - 1
           f == SubSeq(s, 1, n)
<1>1. n \in Nat /\ Len(s) > 0 /\ \A i \in 1 .. n : s[i] \in S
  OBVIOUS
<1>2. Front(s) = f
  BY DEF Front
<1> HIDE DEF n
<1>3. f \in Seq(S) /\ Len(f) = IF 1 <= n THEN n - 1 + 1 ELSE 0
  BY <1>1, SubSeqProperties
<1>4. \A k \in 1 .. n - 1 + 1 : f[k] = s[1 + k - 1]
  BY <1>1, SubSeqProperties
<1>5. Len(f) = n
  BY <1>1, <1>3
<1>6. \A k \in 1 .. n : f[k] = s[k]
  BY <1>1, <1>4
<1> QED
  BY <1>1, <1>2, <1>3, <1>5, <1>6 DEF n

LEMMA LastAppended ==
  ASSUME NEW S, NEW s \in Seq(S), NEW e \in S
  PROVE  /\ Append(s, e) \in Seq(S) /\ Append(s, e) # <<>> /\ Last(Append(s, e)) = e
         /\ Len(Append(s, e)) = Len(s) + 1 /\ Append(s, e)[Len(s) + 1] = e
         /\ \A k \in 1 .. Len(s) : Append(s, e)[k] = s[k]
  BY DEF Last

\* The stack that the pointer has been moved on.
LEMMA WordsMoved ==
  ASSUME NEW s \in Seq(Word), NEW top \in Int, NEW d \in Int, NEW v, NEW l \in Int,
         WordOf(s, top, v, l - d)
  PROVE  WordOf(s, top + d, v, l)
<1>1. Len(s) \in Nat
  OBVIOUS
<1>2. l \in top + d .. top + d + Len(s) - 1 => l - d \in top .. top + Len(s) - 1
  BY <1>1
<1>3. top + d + Len(s) - l = top + Len(s) - (l - d)
  BY <1>1
<1> QED
  BY <1>2, <1>3 DEF WordOf

\* The stack when a word has been pushed, or popped.
LEMMA WordPushed ==
  ASSUME NEW s \in Seq(Word), NEW top \in Int, NEW w \in Word, NEW s2, s2 = Append(s, w)
  PROVE  /\ WordOf(s2, top - 1, w, top - 1)
         /\ \A v : \A l \in Int : l # top - 1 /\ WordOf(s, top, v, l) => WordOf(s2, top - 1, v, l)
<1>1. /\ Len(s) \in Nat /\ Len(s2) = Len(s) + 1 /\ s2[Len(s) + 1] = w
      /\ \A k \in 1 .. Len(s) : s2[k] = s[k]
  BY LastAppended
<1>2. top - 1 + Len(s2) - (top - 1) = Len(s) + 1
  BY <1>1
<1>3. ASSUME NEW v, NEW l \in Int, l # top - 1, WordOf(s, top, v, l)
      PROVE  WordOf(s2, top - 1, v, l)
  <2>1. l \in top - 1 .. top - 1 + Len(s2) - 1 =>
          /\ l \in top .. top + Len(s) - 1 /\ top + Len(s) - l \in 1 .. Len(s)
          /\ top - 1 + Len(s2) - l = top + Len(s) - l
    BY <1>1, <1>3
  <2> QED
    BY <1>1, <1>3, <2>1 DEF WordOf
<1> QED
  BY <1>1, <1>2, <1>3 DEF WordOf

LEMMA WordPopped ==
  ASSUME NEW s \in Seq(Word), s # <<>>, NEW top \in Int, NEW v, NEW l \in Int,
         WordOf(s, top, v, l), NEW s2, s2 = Front(s)
  PROVE  WordOf(s2, top + 1, v, l)
<1>1. /\ Len(s) \in Nat /\ Len(s2) = Len(s) - 1
      /\ \A k \in 1 .. Len(s) - 1 : s2[k] = s[k]
  BY FrontOfStack
<1>2. l \in top + 1 .. top + 1 + Len(s2) - 1 =>
        /\ l \in top .. top + Len(s) - 1 /\ top + Len(s) - l \in 1 .. Len(s) - 1
        /\ top + 1 + Len(s2) - l = top + Len(s) - l
  BY <1>1
<1> QED
  BY <1>1, <1>2 DEF WordOf

LEMMA Sizes ==
  /\ ChunkSize \in Nat /\ ChunkSize > 0
  /\ Chunk(1) = ChunkSize /\ Chunk(2) = 2 * ChunkSize /\ Chunk(3) = 3 * ChunkSize
  /\ Chunk(5) = 5 * ChunkSize /\ Chunk(6) = 6 * ChunkSize /\ Chunk(7) = 7 * ChunkSize
  /\ Chunk(8) = 8 * ChunkSize /\ Chunk(9) = 9 * ChunkSize
  /\ RegionSize = 2 * ChunkSize /\ Buffer = 0 .. 8 * ChunkSize - 1
  BY StackAssumption DEF Chunk, RegionSize, Buffer

\* How the ends of the regions follow each other, six chunks apart.
LEMMA Spacing ==
  /\ Chunk(1) \in Int /\ Chunk(3) \in Int /\ Chunk(5) \in Int /\ Chunk(6) \in Int
  /\ Chunk(7) \in Int /\ Chunk(8) \in Int /\ Chunk(9) \in Int
  /\ 0 < Chunk(1) /\ Chunk(1) < Chunk(3) /\ Chunk(3) < Chunk(5) /\ Chunk(5) < Chunk(6)
  /\ Chunk(6) < Chunk(7) /\ Chunk(7) < Chunk(8) /\ Chunk(8) < Chunk(9)
  /\ Chunk(1) + Chunk(6) = Chunk(7) /\ Chunk(3) + Chunk(6) = Chunk(9)
  /\ Chunk(1) + RegionSize = Chunk(3) /\ Chunk(3) + RegionSize = Chunk(5)
  /\ Chunk(5) + RegionSize = Chunk(7) /\ Chunk(7) + RegionSize = Chunk(9)
  /\ RegionSize \in Int /\ RegionSize = Chunk(2) /\ Chunk(2) + Chunk(6) = Chunk(8)
  BY Sizes

LEMMA Inside ==
  ASSUME NEW a \in Int, NEW b \in Int, NEW x \in Int
  PROVE  x \in a .. b - 1 <=> a <= x /\ x < b
  OBVIOUS

LEMMA InBuffer ==
  ASSUME NEW x \in Int
  PROVE  x \in Buffer <=> 0 <= x /\ x < Chunk(8)
  BY Sizes

-----------------------------------------------------------------------------
(* The program's steps.                                                     *)

\* How far from its region the pointer may be.
LEMMA BoundsOf ==
  ASSUME NEW top \in 1 .. Chunk(8), NEW r \in 1 .. 3, RegionOf(top) - r \in -1 .. 1
  PROVE  /\ r = 1 => top <= Chunk(5)
         /\ r = 2 => Chunk(1) < top /\ top <= Chunk(7)
         /\ r = 3 => Chunk(3) < top
<1> DEFINE seen == RegionOf(top)
<1>1. /\ seen \in 0 .. 4
      /\ seen = 0 <=> top <= Chunk(1)
      /\ seen = 1 <=> Chunk(1) < top /\ top <= Chunk(3)
      /\ seen = 2 <=> Chunk(3) < top /\ top <= Chunk(5)
      /\ seen = 3 <=> Chunk(5) < top /\ top <= Chunk(7)
      /\ seen = 4 <=> Chunk(7) < top
  BY RegionBounds
<1>2. seen - r \in -1 .. 1
  OBVIOUS
<1> HIDE DEF seen
<1>3. CASE r = 1
  BY <1>1, <1>2, <1>3, Spacing
<1>4. CASE r = 2
  BY <1>1, <1>2, <1>4, Spacing
<1>5. CASE r = 3
  BY <1>1, <1>2, <1>5, Spacing
<1> QED
  BY <1>3, <1>4, <1>5

LEMMA Bounds ==
  ASSUME Typed, sound
  PROVE  /\ stackTop \in Nat /\ Len(stack) \in Nat /\ Bottom \in Nat /\ stackTop \in 1 .. Chunk(8)
         /\ Near /\ currentRegion = 1 => stackTop <= Chunk(5)
         /\ Near /\ currentRegion = 2 => Chunk(1) < stackTop /\ stackTop <= Chunk(7)
         /\ Near /\ currentRegion = 3 => Chunk(3) < stackTop
<1>1. stackTop \in Nat /\ Len(stack) \in Nat /\ Bottom \in Nat /\ stackTop \in 1 .. Chunk(8)
  BY DEF Typed, Bottom
<1>2. currentRegion \in 1 .. 3
  BY DEF Typed
<1> QED
  BY <1>1, <1>2, BoundsOf DEF Near

LEMMA PushStep == IInv /\ ProgramPushes => IInv'
<1> SUFFICES ASSUME IInv, ProgramPushes PROVE IInv'
  OBVIOUS
<1>1. Typed /\ sound /\ Near /\ Reachable /\ Joins /\ Copies /\ Spilled
  BY DEF IInv, ProgramPushes
<1> DEFINE t == stackTop - 1
<1>2. /\ MayMoveTo(t) /\ RegionOf(stackTop) # 4 /\ stackTop' = t
      /\ UNCHANGED <<currentRegion, file, sound>>
  BY DEF ProgramPushes
<1>3. PICK w \in Word : memory' = [memory EXCEPT ![t] = w] /\ stack' = Append(stack, w)
  BY <1>2 DEF ProgramPushes
<1>4. t \in 1 .. Chunk(8) /\ t \in Buffer /\ t + 1 = stackTop /\ t < Chunk(7) /\ t \in Int
  <2>1. t \in 1 .. Chunk(8) /\ stackTop \in 1 .. Chunk(8)
    BY <1>1, <1>2, Bounds DEF MayMoveTo
  <2>2. ~(Chunk(7) < stackTop)
    BY <1>2, <2>1, RegionBounds
  <2> QED
    BY <2>1, <2>2, Spacing, InBuffer
<1>5. /\ stack \in Seq(Word) /\ Len(stack) \in Nat /\ stack' \in Seq(Word)
      /\ Len(stack') = Len(stack) + 1
  BY <1>1, <1>3, LastAppended DEF Typed
<1> DEFINE Now(v, l) == WordOf(stack', stackTop', v, l)
<1>6. /\ Now(w, t)
      /\ \A v : \A l \in Int : l # t /\ IsWord(v, l) => Now(v, l)
  <2>1. stackTop \in Int
    BY <1>1 DEF Typed
  <2> QED
    BY <1>2, <1>3, <1>5, <2>1, WordPushed DEF IsWord
<1> HIDE DEF t
<1>7. Typed'
  BY <1>1, <1>2, <1>3, <1>4, <1>5 DEF Typed, Contents
<1>8. Near'
  BY <1>2 DEF MayMoveTo, Near
<1>9. Bottom' = Bottom
  BY <1>1, <1>2, <1>4, <1>5 DEF Bottom, Typed
<1>10. /\ memory'[t] = w
       /\ \A l \in Buffer : l # t => memory'[l] = memory[l]
  BY <1>1, <1>3, <1>4 DEF Typed
<1>11. currentRegion = 1 => t < Chunk(5)
  <2>1. currentRegion = 1 => stackTop <= Chunk(5)
    BY <1>1, Bounds
  <2> QED
    BY <1>4, <2>1, Spacing
<1>12. currentRegion = 3 => Chunk(3) < t
  <2>1. currentRegion \in 1 .. 3
    BY <1>1 DEF Typed
  <2> QED
    BY <1>2, <1>4, <2>1, BoundsOf DEF MayMoveTo
<1> HIDE DEF Now
<1>13. Reachable'
  <2>1. ASSUME NEW l \in t .. InPlace - 1 PROVE Now(memory'[l], l)
    <3>1. l \in Int /\ l \in Buffer /\ (l = t \/ l \in stackTop .. InPlace - 1)
      BY <1>4, Spacing, InBuffer DEF InPlace
    <3>2. CASE l = t
      BY <1>6, <1>10, <3>2
    <3>3. CASE l # t
      <4>1. IsWord(memory[l], l)
        BY <1>1, <3>1, <3>3 DEF Reachable
      <4> QED
        BY <1>6, <1>10, <3>1, <3>3, <4>1
    <3> QED
      BY <3>2, <3>3
  <2>2. InPlace' = InPlace
    BY <1>2 DEF InPlace
  <2> QED
    BY <1>2, <2>1, <2>2 DEF Reachable, IsWord, Now
<1>14. Joins'
  <2>1. ASSUME currentRegion = 3, NEW l \in Chunk(7) .. Chunk(9) - 1
        PROVE  Now(memory'[l - Chunk(6)], l)
    <3>1. l \in Int /\ Chunk(7) <= l /\ l < Chunk(9)
      BY <2>1, Spacing
    <3>2. l # t /\ l - Chunk(6) # t
      BY <1>4, <1>12, <2>1, <3>1, Spacing
    <3>3. l - Chunk(6) \in Buffer
      BY <3>1, Spacing, InBuffer
    <3>4. IsWord(memory[l - Chunk(6)], l)
      BY <1>1, <2>1 DEF Joins
    <3> QED
      BY <1>6, <1>10, <3>1, <3>2, <3>3, <3>4
  <2> QED
    BY <1>2, <2>1 DEF Joins, IsWord, Now
<1>15. Copies'
  <2>1. ASSUME currentRegion = 1, ~Loaded, NEW l \in Chunk(7) .. Chunk(8) - 1
        PROVE  Now(memory'[l], l)
    <3>1. l \in Int /\ l # t /\ l \in Buffer
      BY <1>4, Spacing, InBuffer
    <3>2. IsWord(memory[l], l)
      BY <1>1, <2>1 DEF Copies
    <3> QED
      BY <1>6, <1>10, <3>1, <3>2
  <2> QED
    BY <1>2, <2>1 DEF Copies, IsWord, Loaded, Now
<1>16. Spilled'
  <2>1. file.regions = <<>> => currentRegion' = 3 /\ Bottom' = Chunk(7)
    BY <1>1, <1>2, <1>9 DEF Spilled
  <2>2. ASSUME file.regions # <<>>, ~Loaded, NEW j \in 1 .. RegionSize
        PROVE  Now(Last(file.regions)[j], SpillBase + j - 1)
    <3>1. SpillBase + j - 1 \in Int /\ SpillBase + j - 1 # t
      <4>1. j \in Int /\ j >= 1
        BY <2>2, Spacing
      <4>2. currentRegion \in 1 .. 3
        BY <1>1 DEF Typed
      <4>3. SpillBase \in Int /\ t < SpillBase
        BY <1>4, <1>11, <4>2, Spacing DEF SpillBase
      <4> QED
        BY <1>4, <4>1, <4>3
    <3>2. IsWord(Last(file.regions)[j], SpillBase + j - 1)
      BY <1>1, <2>2 DEF Spilled
    <3> QED
      BY <1>6, <3>1, <3>2
  <2>3. SpillBase' = SpillBase
    BY <1>2 DEF SpillBase
  <2> QED
    BY <1>2, <2>1, <2>2, <2>3 DEF Spilled, Loaded, IsWord, Now
<1> QED
  BY <1>7, <1>8, <1>13, <1>14, <1>15, <1>16 DEF IInv

LEMMA PopStep == IInv /\ ProgramPops => IInv'
<1> SUFFICES ASSUME IInv, ProgramPops PROVE IInv'
  OBVIOUS
<1>1. Typed /\ sound /\ Near /\ Reachable /\ Joins /\ Copies /\ Spilled
  BY DEF IInv, ProgramPops
<1>2. /\ stack # <<>> /\ MayMoveTo(stackTop + 1)
      /\ stackTop' = stackTop + 1 /\ stack' = Front(stack)
      /\ UNCHANGED <<memory, currentRegion, file, sound>>
  BY DEF ProgramPops
<1>3. stackTop \in Int /\ stack \in Seq(Word)
  BY <1>1 DEF Typed
<1>4. stack' \in Seq(Word) /\ Len(stack') = Len(stack) - 1
  BY <1>2, <1>3, FrontOfStack
<1> DEFINE Now(v, l) == WordOf(stack', stackTop', v, l)
<1>5. \A v : \A l \in Int : IsWord(v, l) => Now(v, l)
  BY <1>2, <1>3, WordPopped DEF IsWord
<1> HIDE DEF Now
<1>6. Typed'
  BY <1>1, <1>2, <1>4 DEF Typed, MayMoveTo
<1>7. Near'
  BY <1>2 DEF MayMoveTo, Near
<1>8. Bottom' = Bottom
  BY <1>2, <1>3, <1>4 DEF Bottom
<1>9. Reachable'
  <2>1. InPlace \in Int
    BY Spacing DEF InPlace
  <2>2. ASSUME NEW l \in stackTop + 1 .. InPlace - 1 PROVE Now(memory[l], l)
    <3>1. l \in Int /\ l \in stackTop .. InPlace - 1
      BY <1>3, <2>1
    <3> QED
      BY <1>1, <1>5, <3>1 DEF Reachable
  <2>3. InPlace' = InPlace
    BY <1>2 DEF InPlace
  <2> QED
    BY <1>2, <2>2, <2>3 DEF Reachable, IsWord, Now
<1>10. Joins'
  <2>1. ASSUME currentRegion = 3, NEW l \in Chunk(7) .. Chunk(9) - 1
        PROVE  Now(memory[l - Chunk(6)], l)
    BY <1>1, <1>5, <2>1, Spacing DEF Joins
  <2> QED
    BY <1>2, <2>1 DEF Joins, IsWord, Now
<1>11. Copies'
  <2>1. ASSUME currentRegion = 1, ~Loaded, NEW l \in Chunk(7) .. Chunk(8) - 1
        PROVE  Now(memory[l], l)
    BY <1>1, <1>5, <2>1, Spacing DEF Copies
  <2> QED
    BY <1>2, <2>1 DEF Copies, IsWord, Loaded, Now
<1>12. Spilled'
  <2>1. file.regions = <<>> => currentRegion' = 3 /\ Bottom' = Chunk(7)
    BY <1>1, <1>2, <1>8 DEF Spilled
  <2>2. SpillBase \in Int
    BY <1>1, Spacing DEF SpillBase, Typed
  <2>3. ASSUME file.regions # <<>>, ~Loaded, NEW j \in 1 .. RegionSize
        PROVE  Now(Last(file.regions)[j], SpillBase + j - 1)
    <3>1. SpillBase + j - 1 \in Int
      BY <2>2, Spacing
    <3> QED
      BY <1>1, <1>5, <2>3, <3>1 DEF Spilled
  <2>4. SpillBase' = SpillBase
    BY <1>2 DEF SpillBase
  <2> QED
    BY <1>2, <2>1, <2>3, <2>4 DEF Spilled, Loaded, IsWord, Now
<1> QED
  BY <1>6, <1>7, <1>9, <1>10, <1>11, <1>12 DEF IInv

-----------------------------------------------------------------------------
(* Update.                                                                  *)

Files == [regions : Seq(Region), loaded : BOOLEAN]

LEMMA Spilling ==
  ASSUME file \in Files, NEW m \in [Buffer -> Contents], NEW first \in Nat,
         first + RegionSize <= Chunk(8), VirtualPush(m, first)
  PROVE  /\ memory' \in [Buffer -> Contents] /\ file' \in Files
         /\ file'.regions # <<>> /\ ~file'.loaded /\ sound' = sound
         /\ \A j \in 1 .. RegionSize : Last(file'.regions)[j] = m[first + j - 1]
         /\ \A i \in Buffer : i < first \/ first + RegionSize <= i => memory'[i] = m[i]
<1> DEFINE words == Words(m, first, RegionSize)
<1>1. RegionSize \in Nat
  BY Spacing
<1>2. words \in Region /\ \A j \in 1 .. RegionSize : words[j] = m[first + j - 1]
  BY <1>1, WordsAt DEF Region
<1>3. Cleared \in [1 .. RegionSize -> Contents]
  BY DEF Cleared, Contents
<1>4. /\ file' = [regions |-> Append(file.regions, words), loaded |-> FALSE]
      /\ memory' = Copied(m, first, Cleared) /\ sound' = sound
  BY DEF VirtualPush
<1>5. /\ memory' \in [Buffer -> Contents]
      /\ \A i \in Buffer : memory'[i] =
           IF first <= i /\ i < first + RegionSize THEN Cleared[i - first + 1] ELSE m[i]
  BY <1>1, <1>3, <1>4, CopiedAt
<1> HIDE DEF words
<1>6. file.regions \in Seq(Region)
  BY DEF Files
<1>7. LET regions == Append(file.regions, words)
      IN  regions \in Seq(Region) /\ regions # <<>> /\ Last(regions) = words
  BY <1>2, <1>6, LastAppended
<1>8. file' \in Files /\ file'.regions # <<>> /\ ~file'.loaded /\ Last(file'.regions) = words
  BY <1>4, <1>7 DEF Files
<1>9. \A i \in Buffer : i < first \/ first + RegionSize <= i =>
        ~(first <= i /\ i < first + RegionSize)
  BY <1>1, Sizes
<1> QED
  BY <1>2, <1>4, <1>5, <1>8, <1>9

LEMMA LastOf ==
  ASSUME NEW S, NEW s \in Seq(S), s # <<>>
  PROVE  Last(s) \in S
  BY DEF Last

LEMMA Loading ==
  ASSUME Typed, file.regions # <<>>, NEW first \in Nat, VirtualPop(memory, first)
  PROVE  /\ memory' \in [Buffer -> Contents] /\ file' \in Files
         /\ file'.regions # <<>> /\ file'.loaded /\ sound' = ~Loaded
         /\ \A i \in Buffer : memory'[i] =
              IF first <= i /\ i < first + RegionSize
                THEN Last(file.regions)[i - first + 1] ELSE memory[i]
<1>1. RegionSize \in Nat
  BY Sizes
<1>2. file \in Files /\ file.regions \in Seq(Region) /\ memory \in [Buffer -> Contents]
  BY DEF Typed, Files
<1>3. Last(file.regions) \in [1 .. RegionSize -> Contents]
  BY <1>2, LastOf DEF Region
<1>4. /\ memory' = Copied(memory, first, Last(file.regions))
      /\ file' = [file EXCEPT !.loaded = TRUE] /\ sound' = ~Loaded
  BY DEF VirtualPop
<1>5. file' \in Files /\ file'.regions # <<>> /\ file'.loaded
  BY <1>2, <1>4 DEF Files
<1> QED
  BY <1>1, <1>2, <1>3, <1>4, <1>5, CopiedAt

\* The pointer has gone from A down to B: C is spilled.
LEMMA FromAToB ==
  ASSUME IInv, sound, currentRegion = 3, RegionOf(stackTop) = 2, stackTop' = stackTop,
         currentRegion' = 2, VirtualPush(memory, Chunk(1)), UNCHANGED stack
  PROVE  IInv'
<1>1. Typed /\ Near /\ Reachable /\ Joins /\ Copies /\ Spilled
  BY DEF IInv
<1>2. memory \in [Buffer -> Contents] /\ file \in Files /\ stack \in Seq(Word)
  BY <1>1 DEF Typed, Files
<1>3. stackTop \in 1 .. Chunk(8) /\ Chunk(3) < stackTop /\ stackTop <= Chunk(5)
  <2>1. stackTop \in 1 .. Chunk(8)
    BY <1>1, Bounds
  <2> QED
    BY <2>1, RegionBounds
<1>4. /\ memory' \in [Buffer -> Contents] /\ file' \in Files
      /\ file'.regions # <<>> /\ ~file'.loaded /\ sound' = sound
      /\ \A j \in 1 .. RegionSize : Last(file'.regions)[j] = memory[Chunk(1) + j - 1]
      /\ \A i \in Buffer : i < Chunk(1) \/ Chunk(1) + RegionSize <= i => memory'[i] = memory[i]
  BY <1>2, Spilling, Sizes
<1>5. Typed'
  BY <1>1, <1>3, <1>4 DEF Typed, Files
<1>6. Near'
  BY DEF Near
<1>7. Reachable'
  <2>1. ASSUME NEW l \in stackTop .. Chunk(8) - 1 PROVE IsWord(memory'[l], l)
    <3>1. l \in Buffer /\ Chunk(1) + RegionSize <= l
      BY <1>3, Spacing, InBuffer
    <3>2. IsWord(memory[l], l)
      BY <1>1 DEF Reachable, InPlace
    <3> QED
      BY <1>4, <3>1, <3>2
  <2>2. InPlace' = Chunk(8)
    BY DEF InPlace
  <2> QED
    BY <2>1, <2>2 DEF Reachable, IsWord
<1>8. Joins' /\ Copies'
  BY DEF Joins, Copies
<1>9. Spilled'
  <2>1. ASSUME NEW j \in 1 .. RegionSize
        PROVE  IsWord(Last(file'.regions)[j], Chunk(7) + j - 1)
    <3> DEFINE l == Chunk(7) + j - 1
    <3>1. l \in Chunk(7) .. Chunk(9) - 1 /\ l - Chunk(6) = Chunk(1) + j - 1
      BY Spacing
    <3>2. IsWord(memory[l - Chunk(6)], l)
      BY <1>1, <3>1 DEF Joins
    <3> QED
      BY <1>4, <3>1, <3>2
  <2>2. SpillBase' = Chunk(7)
    BY DEF SpillBase
  <2> QED
    BY <1>4, <2>1, <2>2 DEF Spilled, IsWord
<1> QED
  BY <1>5, <1>6, <1>7, <1>8, <1>9 DEF IInv

\* From B down to C: A is spilled.
LEMMA FromBToC ==
  ASSUME IInv, sound, currentRegion = 2, RegionOf(stackTop) = 1, stackTop' = stackTop,
         currentRegion' = 1, VirtualPush(memory, Chunk(5)), UNCHANGED stack
  PROVE  IInv'
<1>1. Typed /\ Near /\ Reachable /\ Joins /\ Copies /\ Spilled
  BY DEF IInv
<1>2. memory \in [Buffer -> Contents] /\ file \in Files /\ stack \in Seq(Word)
  BY <1>1 DEF Typed, Files
<1>3. stackTop \in 1 .. Chunk(8) /\ Chunk(1) < stackTop /\ stackTop <= Chunk(3)
  <2>1. stackTop \in 1 .. Chunk(8)
    BY <1>1, Bounds
  <2> QED
    BY <2>1, RegionBounds
<1>4. /\ memory' \in [Buffer -> Contents] /\ file' \in Files
      /\ file'.regions # <<>> /\ ~file'.loaded /\ sound' = sound
      /\ \A j \in 1 .. RegionSize : Last(file'.regions)[j] = memory[Chunk(5) + j - 1]
      /\ \A i \in Buffer : i < Chunk(5) \/ Chunk(5) + RegionSize <= i => memory'[i] = memory[i]
  <2>1. Chunk(5) \in Nat /\ Chunk(5) + RegionSize <= Chunk(8)
    BY Spacing
  <2> QED
    BY <1>2, <2>1, Spilling
<1>5. Typed'
  BY <1>1, <1>3, <1>4 DEF Typed, Files
<1>6. Near'
  BY DEF Near
<1>7. \A l \in stackTop .. Chunk(8) - 1 : IsWord(memory[l], l)
  BY <1>1 DEF Reachable, InPlace
<1>8. Reachable'
  <2>1. ASSUME NEW l \in stackTop .. Chunk(5) - 1 PROVE IsWord(memory'[l], l)
    <3>1. l \in Buffer /\ l < Chunk(5) /\ l \in stackTop .. Chunk(8) - 1
      BY <1>3, Spacing, InBuffer
    <3> QED
      BY <1>4, <1>7, <3>1
  <2>2. InPlace' = Chunk(5)
    BY DEF InPlace
  <2> QED
    BY <2>1, <2>2 DEF Reachable, IsWord
<1>9. Joins'
  BY DEF Joins
<1>10. Copies'
  <2>1. ASSUME NEW l \in Chunk(7) .. Chunk(8) - 1 PROVE IsWord(memory'[l], l)
    <3>1. l \in Buffer /\ Chunk(5) + RegionSize <= l /\ l \in stackTop .. Chunk(8) - 1
      BY <1>3, Spacing, InBuffer
    <3> QED
      BY <1>4, <1>7, <3>1
  <2> QED
    BY <2>1 DEF Copies, IsWord
<1>11. Spilled'
  <2>1. ASSUME NEW j \in 1 .. RegionSize
        PROVE  IsWord(Last(file'.regions)[j], Chunk(5) + j - 1)
    <3>1. Chunk(5) + j - 1 \in stackTop .. Chunk(8) - 1
      BY <1>3, Spacing
    <3> QED
      BY <1>4, <1>7, <3>1
  <2>2. SpillBase' = Chunk(5)
    BY DEF SpillBase
  <2> QED
    BY <1>4, <2>1, <2>2 DEF Spilled, IsWord
<1> QED
  BY <1>5, <1>6, <1>8, <1>9, <1>10, <1>11 DEF IInv

\* What every step keeps of the invariant, that of a load after a load included.
LEMMA LoadedTwice == Typed' /\ ~sound' => IInv'
  BY DEF IInv

\* The pointer has gone back from C up to B: A is loaded.
LEMMA FromCToB ==
  ASSUME IInv, sound, currentRegion = 1, RegionOf(stackTop) = 2, stackTop' = stackTop,
         currentRegion' = 2, VirtualPop(memory, Chunk(5)), UNCHANGED stack
  PROVE  IInv'
<1>1. Typed /\ Near /\ Reachable /\ Joins /\ Copies /\ Spilled
  BY DEF IInv
<1>2. stackTop \in 1 .. Chunk(8)
  BY <1>1, Bounds
<1>3. file.regions # <<>>
  BY <1>1 DEF Spilled
<1>4. /\ memory' \in [Buffer -> Contents] /\ file' \in Files
      /\ file'.regions # <<>> /\ file'.loaded /\ sound' = ~Loaded
      /\ \A i \in Buffer : memory'[i] =
           IF Chunk(5) <= i /\ i < Chunk(5) + RegionSize
             THEN Last(file.regions)[i - Chunk(5) + 1] ELSE memory[i]
  <2>1. Chunk(5) \in Nat
    BY Spacing
  <2> QED
    BY <1>1, <1>3, <2>1, Loading
<1>5. Typed'
  BY <1>1, <1>2, <1>4 DEF Typed, Files
<1>6. CASE Loaded
  BY <1>4, <1>5, <1>6, LoadedTwice
<1>7. CASE ~Loaded
  <2>1. Near'
    BY DEF Near
  <2>2. Reachable'
    <3>1. ASSUME NEW l \in stackTop .. Chunk(8) - 1 PROVE IsWord(memory'[l], l)
      <4>1. l \in Buffer /\ l \in Int /\ Chunk(5) \in Int /\ Chunk(5) + RegionSize = Chunk(7)
        BY <1>2, Spacing, InBuffer
      <4>2. CASE l < Chunk(5)
        <5>1. l \in stackTop .. Chunk(5) - 1
          BY <1>2, <4>1, <4>2
        <5>2. IsWord(memory[l], l)
          BY <1>1, <5>1 DEF Reachable, InPlace
        <5> QED
          BY <1>4, <4>1, <4>2, <5>2
      <4>3. CASE Chunk(5) <= l /\ l < Chunk(7)
        <5> DEFINE j == l - Chunk(5) + 1
        <5>1. j \in 1 .. RegionSize /\ Chunk(5) + j - 1 = l
          <6>1. l \in Int
            BY <4>1
          <6>2. j \in Int /\ 1 <= j /\ j <= RegionSize
            BY <4>3, <6>1, Spacing
          <6> QED
            BY <6>1, <6>2, Spacing
        <5>2. SpillBase = Chunk(5)
          BY DEF SpillBase
        <5>3. IsWord(Last(file.regions)[j], l)
          BY <1>1, <1>3, <1>7, <5>1, <5>2 DEF Spilled
        <5> QED
          BY <1>4, <4>1, <4>3, <5>3
      <4>4. CASE Chunk(7) <= l
        <5>1. l \in Chunk(7) .. Chunk(8) - 1 /\ ~(l < Chunk(5) + RegionSize)
          BY <4>1, <4>4, Spacing
        <5>2. IsWord(memory[l], l)
          BY <1>1, <1>7, <5>1 DEF Copies
        <5> QED
          BY <1>4, <4>1, <5>1, <5>2
      <4> QED
        BY <4>1, <4>2, <4>3, <4>4, Spacing
    <3>2. InPlace' = Chunk(8)
      BY DEF InPlace
    <3> QED
      BY <3>1, <3>2 DEF Reachable, IsWord
  <2>3. Joins' /\ Copies'
    BY DEF Joins, Copies
  <2>4. Spilled'
    BY <1>4 DEF Spilled, Loaded
  <2> QED
    BY <1>5, <2>1, <2>2, <2>3, <2>4 DEF IInv
<1> QED
  BY <1>6, <1>7

\* From B up to A: C is loaded.
LEMMA FromBToA ==
  ASSUME IInv, sound, currentRegion = 2, RegionOf(stackTop) = 3, stackTop' = stackTop,
         currentRegion' = 3, VirtualPop(memory, Chunk(1)), UNCHANGED stack
  PROVE  IInv'
<1>1. Typed /\ Near /\ Reachable /\ Joins /\ Copies /\ Spilled
  BY DEF IInv
<1>2. stackTop \in 1 .. Chunk(8) /\ Chunk(5) < stackTop
  <2>1. stackTop \in 1 .. Chunk(8)
    BY <1>1, Bounds
  <2> QED
    BY <2>1, RegionBounds
<1>3. file.regions # <<>>
  BY <1>1 DEF Spilled
<1>4. /\ memory' \in [Buffer -> Contents] /\ file' \in Files
      /\ file'.regions # <<>> /\ file'.loaded /\ sound' = ~Loaded
      /\ \A i \in Buffer : memory'[i] =
           IF Chunk(1) <= i /\ i < Chunk(1) + RegionSize
             THEN Last(file.regions)[i - Chunk(1) + 1] ELSE memory[i]
  <2>1. Chunk(1) \in Nat
    BY Spacing
  <2> QED
    BY <1>1, <1>3, <2>1, Loading
<1>5. Typed'
  BY <1>1, <1>2, <1>4 DEF Typed, Files
<1>6. CASE Loaded
  BY <1>4, <1>5, <1>6, LoadedTwice
<1>7. CASE ~Loaded
  <2>1. Near'
    BY DEF Near
  <2>2. Reachable'
    <3>1. ASSUME NEW l \in stackTop .. Chunk(8) - 1 PROVE IsWord(memory'[l], l)
      <4>1. l \in Buffer /\ ~(l < Chunk(1) + RegionSize)
        BY <1>2, Spacing, InBuffer
      <4>2. IsWord(memory[l], l)
        BY <1>1 DEF Reachable, InPlace
      <4> QED
        BY <1>4, <4>1, <4>2
    <3>2. InPlace' = Chunk(8)
      BY DEF InPlace
    <3> QED
      BY <3>1, <3>2 DEF Reachable, IsWord
  <2>3. Joins'
    <3>1. ASSUME NEW l \in Chunk(7) .. Chunk(9) - 1 PROVE IsWord(memory'[l - Chunk(6)], l)
      <4> DEFINE i == l - Chunk(6)
                 j == i - Chunk(1) + 1
      <4>1. i \in Buffer /\ Chunk(1) <= i /\ i < Chunk(1) + RegionSize
        BY Spacing, InBuffer
      <4>2. j \in 1 .. RegionSize /\ Chunk(7) + j - 1 = l
        BY Spacing
      <4>3. SpillBase = Chunk(7)
        BY DEF SpillBase
      <4>4. IsWord(Last(file.regions)[j], l)
        BY <1>1, <1>3, <1>7, <4>2, <4>3 DEF Spilled
      <4> QED
        BY <1>4, <4>1, <4>4
    <3> QED
      BY <3>1 DEF Joins, IsWord
  <2>4. Copies'
    BY DEF Copies
  <2>5. Spilled'
    BY <1>4 DEF Spilled, Loaded
  <2> QED
    BY <1>5, <2>1, <2>2, <2>3, <2>4, <2>5 DEF IInv
<1> QED
  BY <1>6, <1>7

\* From C down to Y: the pointer is moved to A with its region's words, and B is spilled.
LEMMA FromCToA ==
  ASSUME IInv, sound, currentRegion = 1, RegionOf(stackTop) = 0,
         stackTop' = stackTop + Chunk(6), currentRegion' = 3,
         VirtualPush(MovedMemory(0), Chunk(3)), UNCHANGED stack
  PROVE  IInv'
<1> DEFINE m == MovedMemory(0)
           d == Chunk(6)
<1>1. Typed /\ Near /\ Reachable /\ Joins /\ Copies /\ Spilled
  BY DEF IInv
<1>2. memory \in [Buffer -> Contents] /\ file \in Files /\ stack \in Seq(Word)
  BY <1>1 DEF Typed, Files
<1>3. stackTop \in 1 .. Chunk(1) /\ stackTop' \in 1 .. Chunk(8)
  <2>1. stackTop \in 1 .. Chunk(8)
    BY <1>1, Bounds
  <2>2. stackTop <= Chunk(1)
    BY <2>1, RegionBounds
  <2> QED
    BY <2>1, <2>2, Spacing
<1>4. /\ m \in [Buffer -> Contents]
      /\ \A i \in Buffer : i < stackTop + d => m[i] = memory[i]
      /\ \A i \in Buffer : stackTop + d <= i => m[i] = memory[i - d]
  <2> DEFINE n     == Chunk(2) - stackTop
             words == Words(memory, stackTop, n)
  <2>1. n \in Nat /\ stackTop \in Nat /\ stackTop + n <= Chunk(8) /\ stackTop + d \in Nat
    BY <1>3, Spacing
  <2> DEFINE first == stackTop + d
  <2>2. m = Copied(memory, first, words) /\ n \in Nat /\ first \in Nat
    BY <2>1 DEF MovedMemory
  <2>3. stackTop + d + n = Chunk(8)
    BY <2>1, Spacing
  <2> HIDE DEF n
  <2>4. words \in [1 .. n -> Contents] /\ \A j \in 1 .. n : words[j] = memory[stackTop + j - 1]
    BY <1>2, <2>1, WordsAt
  <2> HIDE DEF words
  <2> HIDE DEF m, first
  <2>6. /\ m \in [Buffer -> Contents]
        /\ \A i \in Buffer : m[i] =
             IF first <= i /\ i < first + n THEN words[i - first + 1] ELSE memory[i]
    BY <1>2, <2>2, <2>4, CopiedAt
  <2>7. ASSUME NEW i \in Buffer, first <= i
        PROVE  m[i] = memory[i - d]
    <3>1. i \in Int /\ d \in Int /\ stackTop \in Int
      BY <1>3, Spacing DEF Buffer
    <3> HIDE DEF d
    <3>2. first + n = Chunk(8) /\ i < Chunk(8)
      BY <2>3, Spacing DEF Buffer, first
    <3>3. i - first + 1 \in 1 .. n /\ i < first + n
      BY <2>2, <2>7, <3>1, <3>2
    <3>4. stackTop + (i - first + 1) - 1 = i - d
      BY <3>1 DEF first
    <3> QED
      BY <2>4, <2>6, <2>7, <3>3, <3>4
  <2>8. ASSUME NEW i \in Buffer, i < first
        PROVE  m[i] = memory[i]
    <3>1. ~(first <= i)
      BY <2>2, <2>8, Spacing DEF Buffer
    <3> QED
      BY <2>6, <3>1
  <2> QED
    BY <2>6, <2>7, <2>8 DEF first
<1> HIDE DEF m
<1>5. /\ memory' \in [Buffer -> Contents] /\ file' \in Files
      /\ file'.regions # <<>> /\ ~file'.loaded /\ sound' = sound
      /\ \A j \in 1 .. RegionSize : Last(file'.regions)[j] = m[Chunk(3) + j - 1]
      /\ \A i \in Buffer : i < Chunk(3) \/ Chunk(3) + RegionSize <= i => memory'[i] = m[i]
  <2>1. Chunk(3) \in Nat /\ Chunk(3) + RegionSize <= Chunk(8)
    BY Spacing
  <2> QED
    BY <1>2, <1>4, <2>1, Spilling DEF m
<1>6. Typed'
  BY <1>1, <1>3, <1>5 DEF Typed, Files
<1>7. Near'
  <2>1. stackTop' \in 1 .. Chunk(8) /\ Chunk(5) < stackTop' /\ stackTop' <= Chunk(7)
    BY <1>3, Spacing
  <2> DEFINE t == stackTop'
  <2>2. RegionOf(t) = 3
    BY <2>1, RegionBounds
  <2>3. RegionOf(t) - 3 \in -1 .. 1
    BY <2>2
  <2> QED
    BY <2>3 DEF Near
<1> DEFINE Now(v, l) == WordOf(stack', stackTop', v, l)
\* What was in place before is six chunks from its place now.
<1>8. ASSUME NEW l \in Int, stackTop + d <= l, l < Chunk(5) + d
      PROVE  Now(memory[l - d], l)
  <2>1. l - d \in stackTop .. Chunk(5) - 1 /\ l - d \in Int /\ stackTop \in Int /\ d \in Int
    <3>1. d \in Int /\ stackTop \in Int /\ Chunk(5) \in Int
      BY <1>3, Spacing
    <3> HIDE DEF d
    <3> QED
      BY <1>8, <3>1
  <2>2. IsWord(memory[l - d], l - d)
    BY <1>1, <2>1 DEF Reachable, InPlace
  <2> QED
    BY <1>2, <1>8, <2>1, <2>2, WordsMoved DEF IsWord
<1> HIDE DEF Now
<1>9. Reachable'
  <2>1. ASSUME NEW l \in stackTop' .. Chunk(8) - 1 PROVE Now(memory'[l], l)
    <3>1. /\ l \in Int /\ stackTop + d <= l /\ l < Chunk(5) + d
          /\ l \in Buffer /\ Chunk(3) + RegionSize <= l
      BY <1>3, Spacing, InBuffer
    <3>2. memory'[l] = memory[l - d]
      BY <1>4, <1>5, <3>1
    <3> QED
      BY <1>8, <3>1, <3>2
  <2>2. InPlace' = Chunk(8)
    BY DEF InPlace
  <2> QED
    BY <2>1, <2>2 DEF Reachable, IsWord, Now
<1>10. Joins'
  <2>1. ASSUME NEW l \in Chunk(7) .. Chunk(9) - 1 PROVE Now(memory'[l - d], l)
    <3>1. l \in Int /\ Chunk(7) <= l /\ l < Chunk(9)
      BY Spacing
    <3>2. stackTop \in Int /\ 1 <= stackTop /\ stackTop <= Chunk(1)
      BY <1>3, Spacing
    <3>3. stackTop + d <= l /\ l < Chunk(5) + d
      BY <3>1, <3>2, Spacing
    <3> DEFINE k == l - d
    <3>4. k \in Int /\ 0 <= k /\ k < Chunk(3)
      BY <3>1, Spacing
    <3> HIDE DEF k
    <3>5. k < stackTop + d /\ k < Chunk(8)
      BY <3>2, <3>4, Spacing
    <3>6. k \in Buffer
      BY <3>4, <3>5, InBuffer
    <3>7. memory'[k] = memory[k]
      BY <1>4, <1>5, <3>4, <3>5, <3>6
    <3> QED
      BY <1>8, <3>1, <3>3, <3>7 DEF k
  <2> QED
    BY <2>1 DEF Joins, IsWord, Now
<1>11. Copies'
  BY DEF Copies
<1>12. Spilled'
  <2>1. ASSUME NEW j \in 1 .. RegionSize
        PROVE  Now(Last(file'.regions)[j], Chunk(9) + j - 1)
    <3> DEFINE l == Chunk(9) + j - 1
    <3>1. j \in Int /\ 1 <= j /\ j <= RegionSize
      BY Spacing
    <3>2. stackTop \in Int /\ 1 <= stackTop /\ stackTop <= Chunk(1)
      BY <1>3, Spacing
    <3> DEFINE k == Chunk(3) + j - 1
    <3>3. k \in Int /\ Chunk(3) <= k /\ k < Chunk(5) /\ l \in Int
      BY <3>1, Spacing
    <3>4. l - d = k
      BY <3>1, Spacing
    <3> HIDE DEF l
    <3>5. stackTop + d <= l /\ l < Chunk(5) + d
      BY <3>2, <3>3, <3>4, Spacing
    <3>6. Last(file'.regions)[j] = m[k]
      BY <1>5
    <3> HIDE DEF k
    <3>7. k < stackTop + d /\ k < Chunk(8)
      BY <3>2, <3>3, Spacing
    <3>8. k \in Buffer
      BY <3>3, <3>7, InBuffer, Spacing
    <3>9. m[k] = memory[k]
      BY <1>4, <3>7, <3>8
    <3>10. Now(Last(file'.regions)[j], l)
      BY <1>8, <3>3, <3>4, <3>5, <3>6, <3>9
    <3> QED
      BY <3>10 DEF l
  <2>2. SpillBase' = Chunk(9)
    BY DEF SpillBase
  <2> QED
    BY <1>5, <2>1, <2>2 DEF Spilled, IsWord, Now
<1> QED
  BY <1>6, <1>7, <1>9, <1>10, <1>11, <1>12 DEF IInv

\* From A up to X: the pointer is moved to C, and B is loaded.
LEMMA FromAToC ==
  ASSUME IInv, sound, currentRegion = 3, RegionOf(stackTop) = 4,
         stackTop' = stackTop - Chunk(6), currentRegion' = 1,
         VirtualPop(memory, Chunk(3)), UNCHANGED stack
  PROVE  IInv'
<1> DEFINE d == -Chunk(6)
<1>1. Typed /\ Near /\ Reachable /\ Joins /\ Copies /\ Spilled
  BY DEF IInv
<1>2. /\ stackTop \in 1 .. Chunk(8) /\ Chunk(7) < stackTop
      /\ stackTop' \in 1 .. Chunk(8) /\ Chunk(1) < stackTop' /\ stackTop' <= Chunk(3)
      /\ d \in Int /\ stackTop' = stackTop + d
  <2>1. stackTop \in 1 .. Chunk(8)
    BY <1>1, Bounds
  <2>2. Chunk(7) < stackTop
    BY <2>1, RegionBounds
  <2> QED
    BY <2>1, <2>2, Spacing
<1>3. file.regions # <<>>
  <2>1. Len(stack) \in Nat
    BY <1>1, Bounds
  <2>2. Bottom # Chunk(7)
    BY <1>2, <2>1, Spacing DEF Bottom
  <2> QED
    BY <1>1, <2>2 DEF Spilled
<1>4. /\ memory' \in [Buffer -> Contents] /\ file' \in Files
      /\ file'.regions # <<>> /\ file'.loaded /\ sound' = ~Loaded
      /\ \A i \in Buffer : memory'[i] =
           IF Chunk(3) <= i /\ i < Chunk(3) + RegionSize
             THEN Last(file.regions)[i - Chunk(3) + 1] ELSE memory[i]
  <2>1. Chunk(3) \in Nat
    BY Spacing
  <2> QED
    BY <1>1, <1>3, <2>1, Loading
<1>5. Typed'
  BY <1>1, <1>2, <1>4 DEF Typed, Files
<1>6. CASE Loaded
  BY <1>4, <1>5, <1>6, LoadedTwice
<1>7. CASE ~Loaded
  <2>1. Near'
    <3> DEFINE t == stackTop'
    <3>1. RegionOf(t) = 1
      BY <1>2, RegionBounds
    <3>2. RegionOf(t) - 1 \in -1 .. 1
      BY <3>1
    <3> QED
      BY <3>2 DEF Near
  <2> DEFINE Now(v, l) == WordOf(stack', stackTop', v, l)
  <2>2. ASSUME NEW v, NEW l \in Int, IsWord(v, l - d)
        PROVE  Now(v, l)
    <3>1. stack \in Seq(Word) /\ stackTop \in Int
      BY <1>1 DEF Typed
    <3> QED
      BY <1>2, <2>2, <3>1, WordsMoved DEF IsWord
  <2> HIDE DEF Now
  <2>3. Reachable'
    <3>1. ASSUME NEW l \in stackTop' .. Chunk(5) - 1 PROVE Now(memory'[l], l)
      <4>1. /\ l \in Int /\ l \in Buffer /\ l - d = l + Chunk(6) /\ Chunk(1) < l
            /\ l < Chunk(5) /\ Chunk(3) + RegionSize = Chunk(5) /\ Chunk(3) \in Int
        <5>1. l \in Int /\ Chunk(1) < l /\ l < Chunk(5)
          <6> DEFINE t == stackTop'
          <6>1. t \in Int /\ Chunk(1) < t /\ l \in t .. Chunk(5) - 1
            BY <1>2, Spacing
          <6> HIDE DEF t
          <6> QED
            BY <6>1, Spacing
        <5>2. l - d = l + Chunk(6) /\ l \in Buffer
          BY <5>1, Spacing, InBuffer
        <5> QED
          BY <5>1, <5>2, Spacing
      <4>2. CASE l < Chunk(3)
        <5> DEFINE k == l + Chunk(6)
        <5>1. k \in Chunk(7) .. Chunk(9) - 1 /\ k - Chunk(6) = l
          <6>1. l \in Int /\ Chunk(1) < l
            BY <4>1
          <6>2. k \in Int /\ Chunk(7) <= k /\ k < Chunk(9)
            BY <4>2, <6>1, Spacing
          <6>3. k - Chunk(6) = l
            BY <6>1, Spacing
          <6> HIDE DEF k
          <6> QED
            BY <6>2, <6>3, Inside, Spacing
        <5>2. IsWord(memory[l], l - d)
          BY <1>1, <4>1, <5>1 DEF Joins
        <5>3. memory'[l] = memory[l]
          BY <1>4, <4>1, <4>2
        <5> QED
          BY <2>2, <4>1, <5>2, <5>3
      <4>3. CASE Chunk(3) <= l
        <5> DEFINE j == l - Chunk(3) + 1
        <5>1. j \in 1 .. RegionSize /\ Chunk(9) + j - 1 = l + Chunk(6)
          <6>1. l \in Int /\ l < Chunk(5)
            BY <4>1
          <6>2. j \in Int /\ 1 <= j /\ j <= RegionSize
            BY <4>3, <6>1, Spacing
          <6>3. Chunk(9) + j - 1 = l + Chunk(6)
            BY <6>1, Spacing
          <6> QED
            BY <6>2, <6>3, Spacing
        <5>2. SpillBase = Chunk(9)
          BY DEF SpillBase
        <5>3. IsWord(Last(file.regions)[j], l - d)
          BY <1>1, <1>3, <1>7, <4>1, <5>1, <5>2 DEF Spilled
        <5>4. memory'[l] = Last(file.regions)[j]
          BY <1>4, <4>1, <4>3
        <5> QED
          BY <2>2, <4>1, <5>3, <5>4
      <4> QED
        BY <4>1, <4>2, <4>3
    <3>2. InPlace' = Chunk(5)
      BY DEF InPlace
    <3> QED
      BY <3>1, <3>2 DEF Reachable, IsWord, Now
  <2>4. Joins'
    BY DEF Joins
  <2>5. Copies' /\ Spilled'
    BY <1>4 DEF Copies, Spilled, Loaded
  <2> QED
    BY <1>5, <2>1, <2>3, <2>4, <2>5 DEF IInv
<1> QED
  BY <1>6, <1>7

LEMMA UpdateStep == IInv /\ Update => IInv'
<1> SUFFICES ASSUME IInv, Update PROVE IInv'
  OBVIOUS
<1> DEFINE seen == RegionOf(stackTop)
           newRegion == MovedRegion(seen)
           Spills == VirtualPush(MovedMemory(seen), ClearBuffer(newRegion))
           Loads  == VirtualPop(MovedMemory(seen), LoadBuffer(newRegion))
<1>1. /\ sound /\ seen # currentRegion
      /\ stackTop' = MovedTop(seen) /\ currentRegion' = newRegion
      /\ Descends(newRegion) => Spills
      /\ ~Descends(newRegion) => Loads
      /\ UNCHANGED stack
  BY DEF Update
<1>2. Near /\ currentRegion \in 1 .. 3 /\ seen \in 0 .. 4
  <2>1. stackTop \in 1 .. Chunk(8)
    BY <1>1, Bounds DEF IInv
  <2> QED
    BY <1>1, <2>1, RegionBounds DEF IInv, Typed
<1>3. \/ currentRegion = 3 /\ seen = 2
      \/ currentRegion = 2 /\ seen = 1
      \/ currentRegion = 1 /\ seen = 2
      \/ currentRegion = 2 /\ seen = 3
      \/ currentRegion = 1 /\ seen = 0
      \/ currentRegion = 3 /\ seen = 4
  <2>1. seen - currentRegion \in -1 .. 1
    BY <1>2 DEF Near
  <2> HIDE DEF seen
  <2> QED
    BY <1>1, <1>2, <2>1
<1>4. CASE currentRegion = 3 /\ seen = 2
  <2>1. newRegion = 2 /\ stackTop' = stackTop /\ VirtualPush(memory, Chunk(1))
    BY <1>1, <1>4 DEF MovedRegion, MovedTop, MovedMemory, Descends, ClearBuffer
  <2> QED
    BY <1>1, <1>4, <2>1, FromAToB
<1>5. CASE currentRegion = 2 /\ seen = 1
  <2>1. newRegion = 1 /\ stackTop' = stackTop /\ VirtualPush(memory, Chunk(5))
    BY <1>1, <1>5 DEF MovedRegion, MovedTop, MovedMemory, Descends, ClearBuffer
  <2> QED
    BY <1>1, <1>5, <2>1, FromBToC
<1>6. CASE currentRegion = 1 /\ seen = 2
  <2>1. newRegion = 2 /\ stackTop' = stackTop /\ VirtualPop(memory, Chunk(5))
    BY <1>1, <1>6 DEF MovedRegion, MovedTop, MovedMemory, Descends, LoadBuffer
  <2> QED
    BY <1>1, <1>6, <2>1, FromCToB
<1>7. CASE currentRegion = 2 /\ seen = 3
  <2>1. newRegion = 3 /\ stackTop' = stackTop /\ VirtualPop(memory, Chunk(1))
    BY <1>1, <1>7 DEF MovedRegion, MovedTop, MovedMemory, Descends, LoadBuffer
  <2> QED
    BY <1>1, <1>7, <2>1, FromBToA
<1>8. CASE currentRegion = 1 /\ seen = 0
  <2>1. /\ newRegion = 3 /\ stackTop' = stackTop + Chunk(6)
        /\ VirtualPush(MovedMemory(0), Chunk(3))
    BY <1>1, <1>8 DEF MovedRegion, MovedTop, Descends, ClearBuffer
  <2> QED
    BY <1>1, <1>8, <2>1, FromCToA
<1>9. CASE currentRegion = 3 /\ seen = 4
  <2>1. newRegion = 1 /\ stackTop' = stackTop - Chunk(6) /\ VirtualPop(memory, Chunk(3))
    BY <1>1, <1>9 DEF MovedRegion, MovedTop, MovedMemory, Descends, LoadBuffer
  <2> QED
    BY <1>1, <1>9, <2>1, FromAToC
<1> QED
  BY <1>3, <1>4, <1>5, <1>6, <1>7, <1>8, <1>9

-----------------------------------------------------------------------------
(* The theorems.                                                            *)

LEMMA Initially == Init => IInv
<1> SUFFICES ASSUME Init PROVE IInv
  OBVIOUS
<1>1. stackTop \in 1 .. Chunk(8) /\ stackTop \in Nat
  BY Sizes DEF Init
<1>2. Len(stack) = 0
  BY DEF Init
<1>3. Typed
  BY <1>1 DEF Init, Typed, Contents
<1>4. Near
  <2>0. Chunk(5) < stackTop /\ stackTop <= Chunk(7)
    <3>1. stackTop = Chunk(7)
      BY DEF Init
    <3> QED
      BY <3>1, Spacing
  <2>1. RegionOf(stackTop) = 3
    BY <1>1, <2>0, RegionBounds
  <2>2. RegionOf(stackTop) - 3 \in -1 .. 1
    BY <2>1
  <2> QED
    BY <2>2 DEF Near, Init
<1>5. \A v : \A l \in Int : IsWord(v, l)
  <2>1. \A l \in Int : l \notin stackTop .. stackTop + Len(stack) - 1
    BY <1>1, <1>2
  <2> QED
    BY <2>1 DEF IsWord, WordOf
<1>6. Reachable /\ Joins /\ Copies
  <2>1. /\ InPlace \in Int
        /\ Chunk(7) \in Int /\ Chunk(8) \in Int /\ Chunk(9) \in Int
    BY Spacing DEF InPlace
  <2> QED
    BY <1>1, <1>5, <2>1 DEF Reachable, Joins, Copies
<1>7. Spilled
  BY <1>1, <1>2 DEF Spilled, Bottom, Init
<1> QED
  BY <1>3, <1>4, <1>6, <1>7 DEF IInv

\* Push stores the word in the pointer, and Pop moves it: both end what the invariant says.
LEMMA FlagsStep ==
  ASSUME IInv, (\E w \in Word : Push(w)) \/ Pop
  PROVE  IInv'
<1>1. Typed
  BY DEF IInv
<1>2. Typed' /\ ~sound'
  <2>1. \A w \in Word : w \in Nat
    BY DEF Word, Plain, Marked
  <2>2. stackTop' \in Nat /\ sound' = FALSE /\ UNCHANGED <<memory, currentRegion, file, stack>>
    BY <1>1, <2>1 DEF Typed, Push, Pop
  <2> QED
    BY <1>1, <2>2 DEF Typed
<1> QED
  BY <1>2, LoadedTwice

LEMMA Stutters == IInv /\ UNCHANGED vars => IInv'
  BY DEF IInv, vars, Typed, Near, Reachable, InPlace, Joins, Copies, Loaded, Spilled,
         SpillBase, Bottom, IsWord

LEMMA Inductive == Spec => []IInv
<1>1. IInv /\ [Next]_vars => IInv'
  BY PushStep, PopStep, UpdateStep, FlagsStep, Stutters DEF Next
<1> QED
  BY <1>1, Initially, PTL DEF Spec

\* The words and the pointer keep their types, and the pointer stays in the buffer
\* until Push or Pop stores something else in it, however many regions are spilled.
THEOREM StackIsTyped == Spec => []TypeOK
<1>1. IInv => TypeOK
  <2> SUFFICES ASSUME Typed PROVE TypeOK
    BY DEF IInv
  <2>1. file.regions \in Seq(Region)
    BY DEF Typed
  <2>2. \A r \in ToSet(file.regions) : r \in Region
    BY <2>1 DEF ToSet
  <2> QED
    BY <2>2 DEF Typed, TypeOK, Contents, Region
<1> QED
  BY <1>1, Inductive, PTL

\* A pop returns the last word pushed and not popped, for chunks of any size: Update
\* may be called anywhere between the two, move the pointer, spill and load.
THEOREM PopsInOrder == Spec => []PopsWhatWasPushed
<1>1. IInv => PopsWhatWasPushed
  <2> SUFFICES ASSUME IInv, sound, MayPop PROVE memory[stackTop] = Last(stack)
    BY DEF PopsWhatWasPushed
  <2>1. Typed /\ Near /\ Reachable /\ stack # <<>> /\ MayMoveTo(stackTop + 1)
    BY DEF IInv, MayPop
  <2>2. stack \in Seq(Word) /\ Len(stack) \in Nat /\ Len(stack) > 0
    BY <2>1 DEF Typed
  <2>3. stackTop \in Int /\ stackTop < InPlace
    <3> DEFINE t == stackTop + 1
    <3>1. stackTop \in Int /\ currentRegion \in 1 .. 3
      BY <2>1 DEF Typed
    <3>2. t \in 1 .. Chunk(8) /\ RegionOf(t) - currentRegion \in -1 .. 1
      BY <2>1 DEF MayMoveTo
    <3> HIDE DEF t
    <3>3. currentRegion = 1 => t <= Chunk(5)
      BY <3>1, <3>2, BoundsOf
    <3>4. t <= Chunk(8) /\ Chunk(8) \in Int /\ Chunk(5) \in Int
      BY <3>2, Spacing
    <3>5. t <= InPlace /\ InPlace \in Int
      BY <3>3, <3>4 DEF InPlace
    <3> QED
      BY <3>1, <3>5 DEF t
  <2>4. IsWord(memory[stackTop], stackTop)
    <3>1. InPlace \in Int
      BY Spacing DEF InPlace
    <3>2. stackTop \in stackTop .. InPlace - 1
      BY <2>3, <3>1
    <3> QED
      BY <2>1, <3>2 DEF Reachable
  <2>5. stackTop \in stackTop .. stackTop + Len(stack) - 1
        /\ stackTop + Len(stack) - stackTop = Len(stack)
    BY <2>2, <2>3
  <2> QED
    BY <2>4, <2>5 DEF IsWord, WordOf, Last
<1> QED
  BY <1>1, Inductive, PTL
=============================================================================
