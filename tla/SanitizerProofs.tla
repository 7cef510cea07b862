--------------------------- MODULE SanitizerProofs ---------------------------
(***************************************************************************)
(* Proofs about TraceParser and Sanitizer: for any number of blocks, of    *)
(* symbolic objects in front of a block, and of active calls, the parser   *)
(* accepts a log that keeps the documented order, and annotates addresses  *)
(* and follows calls as its readers expect; and whatever addresses the log *)
(* holds, the sanitizer reports the ones it should.                        *)
(*                                                                         *)
(* A log is known by what may stand next to what: each entry determines    *)
(* enough of the entries after it, and this survives the reading of the    *)
(* first entry.  To it the invariants add, for each type of entry that may *)
(* be first, what the parser must have kept from the ones before.          *)
(***************************************************************************)
EXTENDS Sanitizer, SequenceTheorems, TLAPS

Jump == {"other", "call", "ret"}
Kind == {"addr", "jcc"}

Entry ==
  [type : {"Z3_MODULE", "AST", "MODULE", "NEXT_MODULE"}]
    \cup [type : {"REGISTERS"}, esp : {StackBase}]
    \cup [type : {"SYMBOLIC"}, block : Nat, kind : Kind]
    \cup [type : {"OFFSET"}, block : Nat, jump : Jump, esp : Int]
    \cup [type : {"NEXT_OFFSET"}, block : Nat]

\* Whether the block being read began with its module after symbolic objects.
Mixed == blocks \in mixed
\* What a block's last formula comes before.
AfterAst(mix) == IF mix THEN "MODULE" ELSE "OFFSET"

\* What the entry at i of the log of a block, mixed or not, says of the ones after it.
Follows(l, i, mix) ==
  /\ l[i].type = "REGISTERS" => i = Len(l)
  /\ l[i].type = "Z3_MODULE" => i < Len(l) /\ l[i + 1].type = "SYMBOLIC"
  /\ l[i].type = "SYMBOLIC"  => i < Len(l) /\ l[i + 1].type = "AST"
  /\ l[i].type = "AST" => i < Len(l) /\ l[i + 1].type \in {"SYMBOLIC", AfterAst(mix)}
  /\ l[i].type = "MODULE" => i < Len(l) /\ l[i + 1].type = "OFFSET"
  /\ l[i].type = "OFFSET" => i + 1 < Len(l) /\ l[i + 1].type = "NEXT_OFFSET"
  /\ l[i].type = "NEXT_OFFSET" =>
       \/ i = Len(l)
       \/ i + 1 = Len(l) /\ l[i + 1].type = "NEXT_OFFSET"
       \/ i + 2 = Len(l) /\ l[i + 1].type = "NEXT_MODULE"
  /\ l[i].type = "NEXT_MODULE" => i + 1 = Len(l) /\ l[i + 1].type = "NEXT_OFFSET"

InOrder(l, mix) == \A i \in 1 .. Len(l) : Follows(l, i, mix)

Carriers == {"SYMBOLIC", "OFFSET", "NEXT_OFFSET"}

\* The entries are those of one block.
OfBlock(l, b) == \A i \in 1 .. Len(l) : l[i].type \in Carriers => l[i].block = b

First(type) == log # <<>> /\ Head(log).type = type
Between == log = <<>> \/ First("REGISTERS")
LastNext == First("NEXT_MODULE") \/ (First("NEXT_OFFSET") /\ Len(log) = 1)

\* The parser is where the first entry of the log wants it.
Placed ==
  /\ Between => state = "NONE" /\ next = 0
  /\ First("Z3_MODULE") => state = "NONE" /\ next = 0
  /\ First("SYMBOLIC")  => state \in {"NONE", "Z3_MODULE", "Z3_AST"} /\ next = 0
  /\ First("AST")       => state = "Z3_SYMBOLIC_OBJECT" /\ next = 0
  /\ First("MODULE")    => state = (IF Mixed THEN "Z3_AST" ELSE "NONE") /\ next = 0
  /\ First("OFFSET")    => /\ IF Mixed THEN state = "Z3_OFFSET" ELSE state \in {"NONE", "Z3_AST"}
                           /\ next = 0
  /\ First("NEXT_OFFSET") /\ Len(log) # 1 =>
       state = (IF Mixed THEN "NONE" ELSE "Z3_OFFSET") /\ next = 0
  /\ LastNext => IF Mixed THEN state = "NONE" /\ next = 0 ELSE state = "Z3_OFFSET" /\ next = 1

-----------------------------------------------------------------------------
(* Logs.                                                                    *)

LEMMA FrontTyped ==
  ASSUME NEW S, NEW l \in Seq(S), Len(l) > 1
  PROVE  /\ Front(l) \in Seq(S) /\ Len(Front(l)) = Len(l) - 1 /\ Front(l) # <<>>
<1>1. /\ SubSeq(l, 1, Len(l) - 1) \in Seq(S)
      /\ Len(SubSeq(l, 1, Len(l) - 1)) = Len(l) - 1
  BY SubSeqProperties
<1>2. Front(l) = SubSeq(l, 1, Len(l) - 1)
  BY DEF Front
<1>3. Front(l) \in Seq(S) /\ Len(Front(l)) = Len(l) - 1
  BY <1>1, <1>2
<1> HIDE DEF Front
<1> QED
  BY <1>3
LEMMA FrontOfAny ==
  ASSUME NEW S, NEW l \in Seq(S), l # <<>>
  PROVE  Front(l) \in Seq(S)
<1>1. SubSeq(l, 1, Len(l) - 1) \in Seq(S)
  BY SubSeqProperties
<1> QED
  BY <1>1 DEF Front

LEMMA Elements ==
  ASSUME NEW S, NEW l \in Seq(S)
  PROVE  Len(l) \in Nat /\ \A i \in 1 .. Len(l) : l[i] \in S
  OBVIOUS

LEMMA OfFunction ==
  ASSUME NEW S, NEW n \in Nat, NEW f \in [1 .. n -> S]
  PROVE  f \in Seq(S) /\ Len(f) = n
  OBVIOUS

LEMMA EmptyIfNoLength ==
  ASSUME NEW S, NEW l \in Seq(S), Len(l) = 0
  PROVE  l = <<>>
  OBVIOUS

LEMMA TailOf ==
  ASSUME NEW S, NEW l \in Seq(S), l # <<>>
  PROVE  /\ Tail(l) \in Seq(S) /\ Len(Tail(l)) = Len(l) - 1 /\ Len(l) \in Nat /\ Len(l) > 0
         /\ \A i \in 1 .. Len(l) - 1 : Tail(l)[i] = l[i + 1]
         /\ Head(l) = l[1] /\ l[1] \in S
         /\ Tail(l) = <<>> <=> Len(l) = 1
         /\ Tail(l) # <<>> => Head(Tail(l)) = l[2] /\ l[2] \in S /\ Len(l) > 1
<1>1. Len(l) \in Nat /\ Len(l) > 0 /\ Head(l) = l[1] /\ l[1] \in S
  OBVIOUS
<1>2. Tail(l) \in Seq(S) /\ Len(Tail(l)) = Len(l) - 1
  OBVIOUS
<1>3. \A i \in 1 .. Len(l) - 1 : Tail(l)[i] = l[i + 1]
  OBVIOUS
<1>4. Tail(l) = <<>> <=> Len(l) = 1
  <2> DEFINE t == Tail(l)
  <2>1. t \in Seq(S) /\ Len(t) = Len(l) - 1
    BY <1>2
  <2> HIDE DEF t
  <2>2. Len(t) = 0 => t = <<>>
    BY <2>1, EmptyIfNoLength, Zenon
  <2>3. t = <<>> => Len(t) = 0
    OBVIOUS
  <2>4. t = <<>> <=> Len(l) = 1
    BY <1>1, <2>1, <2>2, <2>3
  <2> QED
    BY <2>4 DEF t
<1>5. ASSUME Tail(l) # <<>> PROVE Head(Tail(l)) = l[2] /\ l[2] \in S /\ Len(l) > 1
  BY <1>1, <1>2, <1>3, <1>4, <1>5
<1> QED
  BY <1>1, <1>2, <1>3, <1>4, <1>5

LEMMA OrderedTail ==
  ASSUME NEW l \in Seq(Entry), l # <<>>, NEW mix, InOrder(l, mix)
  PROVE  InOrder(Tail(l), mix)
<1> DEFINE t == Tail(l)
<1> SUFFICES ASSUME NEW i \in 1 .. Len(t) PROVE Follows(t, i, mix)
  BY DEF InOrder
<1>1. Len(t) = Len(l) - 1 /\ Len(l) \in Nat /\ \A k \in 1 .. Len(l) - 1 : t[k] = l[k + 1]
  BY TailOf
<1>2. i \in Nat /\ i + 1 \in 1 .. Len(l) /\ t[i] = l[i + 1]
  BY <1>1
<1>3. Follows(l, i + 1, mix)
  BY <1>2 DEF InOrder
<1>4. i < Len(t) => t[i + 1] = l[i + 1 + 1]
  BY <1>1
<1> HIDE DEF t
<1> QED
  BY <1>1, <1>2, <1>3, <1>4 DEF Follows

-----------------------------------------------------------------------------
(* The log of a block.                                                      *)

LEMMA OptionalEntry ==
  ASSUME NEW yes \in BOOLEAN, NEW type \in {"Z3_MODULE", "MODULE", "NEXT_MODULE"}
  PROVE  /\ Optional(yes, type) \in Seq(Entry)
         /\ Len(Optional(yes, type)) \in {0, 1}
         /\ Len(Optional(yes, type)) = 1 <=> yes
         /\ yes => Optional(yes, type)[1].type = type
<1>1. [type |-> type] \in Entry
  BY DEF Entry
<1>2. CASE yes
  BY <1>1, <1>2 DEF Optional, E
<1>3. CASE ~yes
  BY <1>3 DEF Optional
<1> QED
  BY <1>2, <1>3

LEMMA SymbolicTyped ==
  ASSUME NEW b \in Nat, NEW s \in Seq(Kind)
  PROVE  /\ SymbolicEntries(b, s) \in Seq(Entry)
         /\ Len(SymbolicEntries(b, s)) = 2 * Len(s)
         /\ \A j \in 1 .. 2 * Len(s) :
              IF j % 2 = 1
                THEN /\ SymbolicEntries(b, s)[j].type = "SYMBOLIC"
                     /\ SymbolicEntries(b, s)[j].block = b
                ELSE SymbolicEntries(b, s)[j].type = "AST"
<1> DEFINE y == SymbolicEntries(b, s)
<1>1. Len(s) \in Nat /\ 2 * Len(s) \in Nat
  OBVIOUS
<1>2. \A j \in 1 .. 2 * Len(s) :
        IF j % 2 = 1
          THEN y[j] \in Entry /\ y[j].type = "SYMBOLIC" /\ y[j].block = b
          ELSE y[j] \in Entry /\ y[j].type = "AST"
  <2> SUFFICES ASSUME NEW j \in 1 .. 2 * Len(s)
               PROVE  IF j % 2 = 1
                        THEN y[j] \in Entry /\ y[j].type = "SYMBOLIC" /\ y[j].block = b
                        ELSE y[j] \in Entry /\ y[j].type = "AST"
    OBVIOUS
  <2>1. CASE j % 2 = 1
    <3>1. (j + 1) \div 2 \in 1 .. Len(s)
      BY <1>1, <2>1
    <3>2. y[j] = [type |-> "SYMBOLIC", block |-> b, kind |-> s[(j + 1) \div 2]]
      BY <2>1 DEF SymbolicEntries, SymbolEntry
    <3>3. s[(j + 1) \div 2] \in Kind
      BY <3>1
    <3> QED
      BY <2>1, <3>2, <3>3 DEF Entry
  <2>2. CASE j % 2 # 1
    <3>1. y[j] = [type |-> "AST"]
      BY <2>2 DEF SymbolicEntries, E
    <3> QED
      BY <2>2, <3>1 DEF Entry
  <2> QED
    BY <2>1, <2>2
<1>3. y \in [1 .. 2 * Len(s) -> Entry]
  <2>1. \A j \in 1 .. 2 * Len(s) : y[j] \in Entry
    BY <1>2
  <2>2. y = [j \in 1 .. 2 * Len(s) |-> y[j]]
    BY DEF SymbolicEntries
  <2> QED
    BY <2>1, <2>2
<1>4. y \in Seq(Entry) /\ Len(y) = 2 * Len(s)
  BY <1>1, <1>3
<1> QED
  BY <1>2, <1>4

\* r is p, and then q, or e.
Joins(r, p, q) ==
  /\ Len(r) = Len(p) + Len(q)
  /\ \A i \in 1 .. Len(p) : r[i] = p[i]
  /\ \A i \in 1 .. Len(q) : r[Len(p) + i] = q[i]
Adds(r, p, e) ==
  /\ Len(r) = Len(p) + 1
  /\ \A i \in 1 .. Len(p) : r[i] = p[i]
  /\ r[Len(p) + 1] = e

\* Where the parts of a log are: z, y and m, the offset o, the successor n, k and n.
Laid(l, z, y, m, o, n, k) ==
  LET a == Len(z) + Len(y) + Len(m) IN
    /\ Len(l) = a + Len(k) + 3
    /\ \A i \in 1 .. Len(z) : l[i] = z[i]
    /\ \A i \in 1 .. Len(y) : l[Len(z) + i] = y[i]
    /\ \A i \in 1 .. Len(m) : l[Len(z) + Len(y) + i] = m[i]
    /\ l[a + 1] = o /\ l[a + 2] = n
    /\ \A i \in 1 .. Len(k) : l[a + 2 + i] = k[i]
    /\ l[Len(l)] = n

LEMMA Joined ==
  ASSUME NEW S, NEW p \in Seq(S), NEW q \in Seq(S)
  PROVE  p \o q \in Seq(S) /\ Joins(p \o q, p, q)
  BY DEF Joins

LEMMA OneMore ==
  ASSUME NEW S, NEW p \in Seq(S), NEW e \in S
  PROVE  p \o <<e>> \in Seq(S) /\ Adds(p \o <<e>>, p, e)
  BY DEF Adds

LEMMA Nested ==
  ASSUME NEW S, NEW z \in Seq(S), NEW y \in Seq(S), NEW m \in Seq(S), NEW k \in Seq(S),
         NEW o, NEW n,
         NEW l1, NEW l2, NEW l3, NEW l4, NEW l5, NEW l,
         Joins(l1, z, y), Joins(l2, l1, m), Adds(l3, l2, o), Adds(l4, l3, n),
         Joins(l5, l4, k), Adds(l, l5, n)
  PROVE  Laid(l, z, y, m, o, n, k)
<1> DEFINE a == Len(z) + Len(y) + Len(m)
<1>1. Len(z) \in Nat /\ Len(y) \in Nat /\ Len(m) \in Nat /\ Len(k) \in Nat /\ a \in Nat
  OBVIOUS
<1>2. /\ Len(l2) = a /\ Len(l3) = a + 1 /\ Len(l4) = a + 2 /\ Len(l5) = a + 2 + Len(k)
      /\ Len(l) = a + Len(k) + 3
  BY <1>1 DEF Joins, Adds
<1>3. \A i \in 1 .. a + 2 : l[i] = l4[i]
  BY <1>1, <1>2 DEF Joins, Adds
<1>4. \A i \in 1 .. a : l[i] = l2[i]
  BY <1>1, <1>2, <1>3 DEF Joins, Adds
<1>5. \A i \in 1 .. Len(z) + Len(y) : l[i] = l1[i]
  BY <1>1, <1>4 DEF Joins, Adds
<1>6. \A i \in 1 .. Len(z) : l[i] = z[i]
  BY <1>1, <1>5 DEF Joins
<1>7. \A i \in 1 .. Len(y) : l[Len(z) + i] = y[i]
  BY <1>1, <1>5 DEF Joins
<1>8. \A i \in 1 .. Len(m) : l[Len(z) + Len(y) + i] = m[i]
  BY <1>1, <1>4 DEF Joins
<1>9. l[a + 1] = o /\ l[a + 2] = n
  <2> HIDE DEF a
  <2>1. l[a + 1] = l4[a + 1] /\ l[a + 2] = l4[a + 2]
    BY <1>1, <1>3
  <2>2. l4[a + 1] = l3[a + 1] /\ l3[a + 1] = o
    BY <1>1, <1>2 DEF Adds
  <2>3. l4[a + 2] = n
    BY <1>1, <1>2 DEF Adds
  <2> QED
    BY <2>1, <2>2, <2>3
<1>10. \A i \in 1 .. Len(k) : l[a + 2 + i] = k[i]
  BY <1>1, <1>2 DEF Joins, Adds
<1>11. l[Len(l)] = n
  BY <1>1, <1>2 DEF Adds
<1> QED
  BY <1>2, <1>6, <1>7, <1>8, <1>9, <1>10, <1>11 DEF Laid

\* l is these parts, one after the other.
Whole(l, z, y, m, o, n, k) == l = z \o y \o m \o <<o>> \o <<n>> \o k \o <<n>>

LEMMA Places ==
  ASSUME NEW S, NEW z \in Seq(S), NEW y \in Seq(S), NEW m \in Seq(S), NEW k \in Seq(S),
         NEW o \in S, NEW n \in S,
         NEW l, Whole(l, z, y, m, o, n, k)
  PROVE  l \in Seq(S) /\ Laid(l, z, y, m, o, n, k)
<1> DEFINE l1 == z \o y
           l2 == l1 \o m
           l3 == l2 \o <<o>>
           l4 == l3 \o <<n>>
           l5 == l4 \o k
<1>1. l = l5 \o <<n>>
  BY DEF Whole
<1>2. l1 \in Seq(S) /\ Joins(l1, z, y)
  BY Joined, Zenon
<1> HIDE DEF l1
<1>3. l2 \in Seq(S) /\ Joins(l2, l1, m)
  BY <1>2, Joined, Zenon
<1> HIDE DEF l2
<1>4. l3 \in Seq(S) /\ Adds(l3, l2, o)
  BY <1>3, OneMore, Zenon
<1> HIDE DEF l3
<1>5. l4 \in Seq(S) /\ Adds(l4, l3, n)
  BY <1>4, OneMore, Zenon
<1> HIDE DEF l4
<1>6. l5 \in Seq(S) /\ Joins(l5, l4, k)
  BY <1>5, Joined, Zenon
<1> HIDE DEF l5
<1>7. l \in Seq(S) /\ Adds(l, l5, n)
  BY <1>1, <1>6, OneMore, Zenon
<1> QED
  BY <1>2, <1>3, <1>4, <1>5, <1>6, <1>7, Nested, Zenon

LEMMA Parity ==
  ASSUME NEW j \in Nat, NEW q \in Nat
  PROVE  /\ j % 2 = 1 => (j + 1) % 2 # 1 /\ j # 2 * q
         /\ j % 2 # 1 => (j + 1) % 2 = 1
  OBVIOUS

LEMMA Regions ==
  ASSUME NEW z \in {0, 1}, NEW y \in Nat, NEW m \in {0, 1}, NEW k \in {0, 1},
         NEW i \in 1 .. z + y + m + k + 3
  PROVE  \/ z = 1 /\ i = 1
         \/ i - z \in 1 .. y
         \/ m = 1 /\ i = z + y + m
         \/ i = z + y + m + 1 \/ i = z + y + m + 2
         \/ k = 1 /\ i = z + y + m + 3
         \/ i = z + y + m + k + 3
  OBVIOUS

\* The log of block b, mixed or not, whose offset is o, when it has been written.
BeginsBlock(l, b, o, mix) ==
  /\ InOrder(l, mix) /\ OfBlock(l, b)
  /\ l # <<>>
  /\ \/ Head(l).type \in {"Z3_MODULE", "SYMBOLIC"}
     \/ Head(l).type \in {"MODULE", "OFFSET"} /\ ~mix
  /\ \E i \in 1 .. Len(l) : l[i].type = "OFFSET"
  /\ \A i \in 1 .. Len(l) : l[i].type = "OFFSET" => l[i] = o

\* What z, y, m, o, n and k are in the log of block b with q symbolic objects.
Parts(z, y, m, o, n, k, b, q, mix) ==
  /\ Len(z) \in {0, 1} /\ Len(m) \in {0, 1} /\ Len(k) \in {0, 1}
  /\ Len(y) = 2 * q
  /\ Len(z) = 1 => q > 0 /\ z[1].type = "Z3_MODULE"
  /\ \A j \in 1 .. Len(y) : IF j % 2 = 1 THEN y[j].type = "SYMBOLIC" /\ y[j].block = b
                                         ELSE y[j].type = "AST"
  /\ Len(m) = 1 => m[1].type = "MODULE"
  /\ mix <=> q > 0 /\ Len(m) = 1
  /\ Len(k) = 1 => k[1].type = "NEXT_MODULE"
  /\ o.type = "OFFSET" /\ o.block = b /\ n.type = "NEXT_OFFSET" /\ n.block = b

\* Parts that are laid like this keep the order.
LEMMA PartsInOrder ==
  ASSUME NEW b \in Nat, NEW q \in Nat, NEW mix \in BOOLEAN,
         NEW z \in Seq(Entry), NEW y \in Seq(Entry), NEW m \in Seq(Entry), NEW k \in Seq(Entry),
         NEW o \in Entry, NEW n \in Entry, NEW l \in Seq(Entry),
         Laid(l, z, y, m, o, n, k), Parts(z, y, m, o, n, k, b, q, mix)
  PROVE  BeginsBlock(l, b, o, mix)
<1> DEFINE a == Len(z) + Len(y) + Len(m)
<1>1. /\ Len(z) \in {0, 1} /\ Len(m) \in {0, 1} /\ Len(k) \in {0, 1} /\ Len(y) = 2 * q
      /\ Len(z) = 1 => q > 0
      /\ mix <=> q > 0 /\ Len(m) = 1
  BY DEF Parts
<1>2. /\ o.type = "OFFSET" /\ o.block = b /\ n.type = "NEXT_OFFSET" /\ n.block = b
  BY DEF Parts
<1>9. a \in Nat /\ Len(l) = a + Len(k) + 3
  BY DEF Laid
<1>10. Len(z) = 1 => l[1].type = "Z3_MODULE"
  BY DEF Laid, Parts
<1>11. \A j \in 1 .. Len(y) : IF j % 2 = 1
                               THEN l[Len(z) + j].type = "SYMBOLIC" /\ l[Len(z) + j].block = b
                               ELSE l[Len(z) + j].type = "AST"
  BY DEF Laid, Parts
<1>12. Len(m) = 1 => l[a].type = "MODULE"
  <2>1. Len(m) = 1 => l[Len(z) + Len(y) + 1] = m[1]
    BY DEF Laid, Parts
  <2> QED
    BY <2>1 DEF Parts
<1>13. l[a + 1] = o /\ l[a + 2] = n
  BY DEF Laid, Parts
<1>14. Len(k) = 1 => l[a + 3].type = "NEXT_MODULE"
  <2>1. Len(k) = 1 => l[a + 2 + 1] = k[1]
    BY DEF Laid, Parts
  <2>2. Len(k) = 1 => k[1].type = "NEXT_MODULE"
    BY DEF Parts
  <2> HIDE DEF a
  <2> QED
    BY <1>1, <1>9, <2>1, <2>2, SMTT(20)
<1>15. l[Len(l)] = n
  BY DEF Laid, Parts
<1> DEFINE Right(i) == /\ Follows(l, i, mix)
                       /\ l[i].type \in Carriers => l[i].block = b
                       /\ l[i].type = "OFFSET" => l[i] = o
<1>16. Len(z) = 1 => Right(1)
  <2> SUFFICES ASSUME Len(z) = 1 PROVE Right(1)
    OBVIOUS
  <2>1. 1 \in 1 .. Len(y)
    BY <1>1, <1>9
  <2>2. l[1 + 1].type = "SYMBOLIC"
    <3>1. 1 % 2 = 1
      OBVIOUS
    <3>2. l[Len(z) + 1].type = "SYMBOLIC"
      BY <1>11, <2>1, <3>1
    <3> QED
      BY <3>2
  <2>3. 1 < Len(l)
    BY <1>1, <1>9
  <2> QED
    BY <1>10, <2>2, <2>3 DEF Follows, Carriers
<1>17. \A j \in 1 .. Len(y) : Right(Len(z) + j)
  <2> SUFFICES ASSUME NEW j \in 1 .. Len(y) PROVE Right(Len(z) + j)
    OBVIOUS
  <2>0. /\ j \in Nat /\ j <= Len(y) /\ Len(y) \in Nat /\ Len(z) \in Nat
        /\ Len(m) \in Nat /\ Len(k) \in Nat
    BY <1>1
  <2>1. Len(z) + j \in Nat /\ Len(z) + j < Len(l) /\ q > 0
    <3>1. q > 0
      BY <1>1, <2>0
    <3> QED
      BY <1>9, <2>0, <3>1
  <2>2. CASE j % 2 = 1
    <3>1. j + 1 \in 1 .. Len(y) /\ (j + 1) % 2 # 1
      <4>1. j \in Nat /\ Len(y) \in Nat /\ j <= Len(y)
        BY <1>1
      <4>2. (j + 1) % 2 # 1 /\ j # 2 * q
        BY <2>2, <4>1, Parity
      <4> QED
        BY <1>1, <4>1, <4>2
    <3>2. l[Len(z) + j + 1].type = "AST"
      <4>1. Len(z) + (j + 1) = Len(z) + j + 1
        OBVIOUS
      <4>2. l[Len(z) + (j + 1)].type = "AST"
        BY <1>11, <3>1
      <4> QED
        BY <4>1, <4>2
    <3>3. l[Len(z) + j].type = "SYMBOLIC" /\ l[Len(z) + j].block = b
      BY <1>11, <2>2
    <3> QED
      BY <2>1, <3>2, <3>3 DEF Follows, Carriers
  <2>3. CASE j % 2 # 1 /\ j < Len(y)
    <3>1. j + 1 \in 1 .. Len(y) /\ (j + 1) % 2 = 1
      BY <1>1, <2>3, Parity
    <3>2. l[Len(z) + j + 1].type = "SYMBOLIC"
      <4>1. Len(z) + (j + 1) = Len(z) + j + 1
        OBVIOUS
      <4> QED
        BY <1>11, <3>1, <4>1
    <3>3. l[Len(z) + j].type = "AST"
      BY <1>11, <2>3
    <3> QED
      BY <2>1, <3>2, <3>3 DEF Follows, Carriers
  <2>4. CASE j % 2 # 1 /\ j = Len(y)
    <3>1. l[Len(z) + j].type = "AST"
      BY <1>11, <2>4
    <3>2. CASE Len(m) = 1
      <4>1. Len(z) + j + 1 = a
        BY <1>1, <1>9, <2>4, <3>2
      <4>2. l[Len(z) + j + 1].type = AfterAst(mix)
        BY <1>1, <1>9, <1>12, <2>1, <3>2, <4>1 DEF AfterAst
      <4> QED
        BY <2>1, <3>1, <4>2 DEF Follows, Carriers
    <3>3. CASE Len(m) = 0
      <4>1. Len(z) + j + 1 = a + 1
        BY <1>1, <1>9, <2>4, <3>3
      <4>2. l[Len(z) + j + 1].type = AfterAst(mix)
        BY <1>1, <1>2, <1>13, <3>3, <4>1 DEF AfterAst
      <4> QED
        BY <2>1, <3>1, <4>2 DEF Follows, Carriers
    <3> QED
      BY <1>1, <3>2, <3>3
  <2> QED
    BY <1>1, <1>9, <2>2, <2>3, <2>4
<1> HIDE DEF a
<1>18. Len(m) = 1 => Right(a)
  <2>1. a < Len(l) /\ l[a + 1].type = "OFFSET"
    BY <1>1, <1>9, <1>2, <1>13
  <2> QED
    BY <1>12, <2>1 DEF Follows, Carriers
<1>19. Right(a + 1)
  <2>1. a + 1 + 1 = a + 2 /\ a + 1 + 1 < Len(l)
    BY <1>1, <1>9
  <2>2. l[a + 1 + 1].type = "NEXT_OFFSET"
    BY <1>2, <1>13, <2>1
  <2> QED
    BY <1>2, <1>13, <2>1, <2>2 DEF Follows, Carriers
<1>20. Right(a + 2)
  <2>1. CASE Len(k) = 1
    <3>1. a + 2 + 2 = Len(l) /\ a + 2 + 1 = a + 3
      BY <1>9, <2>1
    <3>2. l[a + 2 + 1].type = "NEXT_MODULE"
      BY <1>14, <2>1, <3>1
    <3> QED
      BY <1>2, <1>13, <3>1, <3>2 DEF Follows, Carriers
  <2>2. CASE Len(k) = 0
    <3>1. a + 2 + 1 = Len(l) /\ l[a + 2 + 1].type = "NEXT_OFFSET"
      <4>1. a + 2 + 1 = Len(l)
        BY <1>9, <2>2
      <4> QED
        BY <1>2, <1>15, <4>1
    <3> QED
      BY <1>2, <1>13, <3>1 DEF Follows, Carriers
  <2> QED
    BY <1>1, <2>1, <2>2
<1>21. Len(k) = 1 => Right(a + 3)
  <2> SUFFICES ASSUME Len(k) = 1 PROVE Right(a + 3)
    OBVIOUS
  <2>1. a + 3 + 1 = Len(l) /\ l[a + 3 + 1].type = "NEXT_OFFSET"
    BY <1>1, <1>2, <1>9, <1>15
  <2> QED
    BY <1>14, <2>1 DEF Follows, Carriers
<1>22. Right(Len(l))
  BY <1>2, <1>15 DEF Follows, Carriers
<1>23. \A i \in 1 .. Len(l) : Right(i)
  <2> SUFFICES ASSUME NEW i \in 1 .. Len(l) PROVE Right(i)
    OBVIOUS
  <2>1. \/ Len(z) = 1 /\ i = 1
        \/ i - Len(z) \in 1 .. Len(y) /\ i = Len(z) + (i - Len(z))
        \/ Len(m) = 1 /\ i = a
        \/ i = a + 1 \/ i = a + 2
        \/ Len(k) = 1 /\ i = a + 3
        \/ i = Len(l)
    <3>1. Len(y) \in Nat /\ i \in 1 .. Len(z) + Len(y) + Len(m) + Len(k) + 3
      BY <1>1, <1>9 DEF a
    <3>2. i = Len(z) + (i - Len(z))
      BY <1>1
    <3> QED
      <4>1. \/ Len(z) = 1 /\ i = 1
            \/ i - Len(z) \in 1 .. Len(y)
            \/ Len(m) = 1 /\ i = Len(z) + Len(y) + Len(m)
            \/ i = Len(z) + Len(y) + Len(m) + 1 \/ i = Len(z) + Len(y) + Len(m) + 2
            \/ Len(k) = 1 /\ i = Len(z) + Len(y) + Len(m) + 3
            \/ i = Len(z) + Len(y) + Len(m) + Len(k) + 3
        BY <1>1, <3>1, Regions
      <4> QED
        BY <1>9, <3>2, <4>1, Zenon DEF a
  <2> HIDE DEF Right
  <2> QED
    BY <1>16, <1>17, <1>18, <1>19, <1>20, <1>21, <1>22, <2>1
<1>24. /\ l # <<>>
       /\ \/ Head(l).type \in {"Z3_MODULE", "SYMBOLIC"}
          \/ Head(l).type \in {"MODULE", "OFFSET"} /\ ~mix
  <2>1. Len(l) > 0 /\ l # <<>> /\ Head(l) = l[1]
    BY <1>1, <1>9
  <2>2. CASE Len(z) = 1
    BY <1>10, <2>1, <2>2
  <2>3. CASE Len(z) = 0 /\ Len(y) > 0
    <3>1. l[1].type = "SYMBOLIC"
      <4>1. 1 \in 1 .. Len(y) /\ 1 % 2 = 1 /\ Len(z) + 1 = 1
        BY <1>1, <2>3
      <4>2. l[Len(z) + 1].type = "SYMBOLIC"
        BY <1>11, <4>1
      <4> QED
        BY <4>1, <4>2
    <3> QED
      BY <2>1, <3>1
  <2>4. CASE Len(z) = 0 /\ Len(y) = 0 /\ Len(m) = 1
    <3>1. a = 1
      BY <2>4 DEF a
    <3>2. ~mix
      BY <1>1, <2>4
    <3> QED
      BY <1>12, <2>1, <2>4, <3>1, <3>2
  <2>5. CASE Len(z) = 0 /\ Len(y) = 0 /\ Len(m) = 0
    <3>1. a + 1 = 1
      BY <2>5 DEF a
    <3>2. ~mix
      BY <1>1, <2>5
    <3> QED
      BY <1>2, <1>13, <2>1, <3>1, <3>2
  <2> QED
    BY <1>1, <1>9, <2>2, <2>3, <2>4, <2>5
<1>25. \E i \in 1 .. Len(l) : l[i].type = "OFFSET"
  <2>1. a + 1 \in 1 .. Len(l)
    BY <1>1, <1>9
  <2> QED
    BY <1>2, <1>13, <2>1
<1>26. InOrder(l, mix) /\ OfBlock(l, b)
  BY <1>23 DEF InOrder, OfBlock
<1> QED
  BY <1>23, <1>24, <1>25, <1>26 DEF BeginsBlock

\* l is what a block writes.
Writes(l, b, s, zmodule, module, nmodule, jump, esp) ==
  l = Optional(zmodule, "Z3_MODULE") \o SymbolicEntries(b, s)
        \o Optional(module, "MODULE") \o <<OffsetEntry(b, jump, esp)>>
        \o <<NextEntry(b)>> \o Optional(nmodule, "NEXT_MODULE") \o <<NextEntry(b)>>

\* Whether a block is mixed.
Mixes(mix, s, module) == mix <=> module /\ s # <<>>

\* The log that a block leaves keeps the order.
LEMMA BlockLog ==
  ASSUME NEW b \in Nat, NEW s \in Seq(Kind),
         NEW zmodule \in BOOLEAN, NEW module \in BOOLEAN, NEW nmodule \in BOOLEAN,
         NEW mix \in BOOLEAN, NEW jump \in Jump, NEW esp \in Int, NEW l,
         zmodule => s # <<>>, Mixes(mix, s, module),
         Writes(l, b, s, zmodule, module, nmodule, jump, esp)
  PROVE  l \in Seq(Entry) /\ BeginsBlock(l, b, OffsetEntry(b, jump, esp), mix)
<1> DEFINE z == Optional(zmodule, "Z3_MODULE")
           y == SymbolicEntries(b, s)
           m == Optional(module, "MODULE")
           k == Optional(nmodule, "NEXT_MODULE")
           o == OffsetEntry(b, jump, esp)
           n == NextEntry(b)
<1>1. z \in Seq(Entry) /\ Len(z) \in {0, 1} /\ (Len(z) = 1 => zmodule /\ z[1].type = "Z3_MODULE")
  BY OptionalEntry
<1>2. /\ m \in Seq(Entry) /\ Len(m) \in {0, 1}
      /\ Len(m) = 1 <=> module
      /\ Len(m) = 1 => m[1].type = "MODULE"
  BY OptionalEntry
<1>3. k \in Seq(Entry) /\ Len(k) \in {0, 1} /\ (Len(k) = 1 => k[1].type = "NEXT_MODULE")
  BY OptionalEntry
<1>4. /\ y \in Seq(Entry) /\ Len(y) = 2 * Len(s)
      /\ \A j \in 1 .. Len(y) : IF j % 2 = 1 THEN y[j].type = "SYMBOLIC" /\ y[j].block = b
                                            ELSE y[j].type = "AST"
  BY SymbolicTyped
<1>5. o \in Entry /\ o.type = "OFFSET" /\ o.block = b
  BY DEF OffsetEntry, Entry
<1>6. n \in Entry /\ n.type = "NEXT_OFFSET" /\ n.block = b
  BY DEF NextEntry, Entry
<1>7. Len(s) \in Nat /\ (s # <<>> => Len(s) > 0) /\ (Len(s) > 0 => s # <<>>)
  <2>1. Len(s) = 0 => s = <<>>
    BY EmptyIfNoLength, Zenon
  <2>2. s = <<>> => Len(s) = 0
    OBVIOUS
  <2>3. Len(s) \in Nat
    OBVIOUS
  <2> QED
    BY <2>1, <2>2, <2>3
<1> HIDE DEF z, y, m, k, o, n
<1>8. l \in Seq(Entry) /\ Laid(l, z, y, m, o, n, k)
  <2>1. Whole(l, z, y, m, o, n, k)
    BY Zenon DEF z, y, m, k, o, n, Writes, Whole
  <2>2. /\ z \in Seq(Entry) /\ y \in Seq(Entry) /\ m \in Seq(Entry) /\ k \in Seq(Entry)
        /\ o \in Entry /\ n \in Entry
    BY <1>1, <1>2, <1>3, <1>4, <1>5, <1>6
  <2> QED
    BY <2>1, <2>2, Places
<1>9. Len(z) = 1 => Len(s) > 0
  BY <1>1, <1>7
<1>10. mix <=> Len(s) > 0 /\ Len(m) = 1
  BY <1>2, <1>7 DEF Mixes
<1>11. BeginsBlock(l, b, o, mix)
  <2> DEFINE q == Len(s)
  <2>1. q \in Nat
    BY <1>7
  <2>2. Len(y) = 2 * q /\ (Len(z) = 1 => q > 0) /\ (mix <=> q > 0 /\ Len(m) = 1)
    BY <1>4, <1>9, <1>10
  <2> HIDE DEF q
  <2>3. Parts(z, y, m, o, n, k, b, q, mix)
    BY <1>1, <1>2, <1>3, <1>4, <1>5, <1>6, <2>2 DEF Parts
  <2> QED
    BY <1>1, <1>2, <1>3, <1>4, <1>5, <1>6, <1>8, <2>1, <2>3, PartsInOrder, Zenon
<1> QED
  BY <1>8, <1>11 DEF o

-----------------------------------------------------------------------------
(* The steps of the program and the reading of an entry.                    *)

\* What the program and its log are at any time.
Written ==
  /\ blocks \in 0 .. MaxBlocks /\ frames \in Seq(Int) /\ frames # <<>>
  /\ log \in Seq(Entry) /\ InOrder(log, Mixed) /\ OfBlock(log, blocks)
  /\ mixed \subseteq 1 .. blocks

\* How the active calls change with a block that ends so.
Calls(jump, esp) ==
  \/ jump = "other" /\ frames' = frames
  \/ jump = "call" /\ frames' = Append(frames, esp)
  \/ /\ jump = "ret" /\ Len(frames) > 1 /\ frames' = Front(frames)
     /\ \E n \in Arguments : esp = Last(frames) + 1 + n

LEMMA BlockWritten ==
  ASSUME Written, RunBlock
  PROVE  /\ Written' /\ log = <<>> /\ blocks' = blocks + 1 /\ UNCHANGED parser
         /\ mixed' \in {mixed, mixed \cup {blocks'}}
         /\ \E jump \in Jump, esp \in Int :
              /\ BeginsBlock(log', blocks', OffsetEntry(blocks', jump, esp), Mixed')
              /\ Calls(jump, esp)
<1>1. /\ log = <<>> /\ blocks' = blocks + 1 /\ blocks' \in 0 .. MaxBlocks /\ blocks' \in Nat
      /\ UNCHANGED parser
  BY ParserAssumption DEF RunBlock, Written
<1>2. PICK s \in Symbolic, zmodule, nmodule, module \in BOOLEAN :
        /\ mixed' = IF module /\ s # <<>> THEN mixed \cup {blocks'} ELSE mixed
        /\ \E jump \in Jump, esp \in Int :
             /\ frames' \in Seq(Int) /\ frames' # <<>> /\ Calls(jump, esp)
             /\ Write(blocks', s, zmodule, module, nmodule, jump, esp)
  <2>1. PICK s \in Symbolic, zmodule, nmodule, module \in BOOLEAN :
        /\ mixed' = IF module /\ s # <<>> THEN mixed \cup {blocks'} ELSE mixed
        /\ \/ /\ frames' = frames
              /\ Write(blocks', s, zmodule, module, nmodule, "other", Last(frames) - 1)
           \/ \E k \in Locals :
                /\ frames' = Append(frames, Last(frames) - 1 - k)
                /\ Write(blocks', s, zmodule, module, nmodule, "call", Last(frames'))
           \/ \E n \in Arguments :
                /\ Len(frames) > 1 /\ frames' = Front(frames)
                /\ Write(blocks', s, zmodule, module, nmodule, "ret", Last(frames) + 1 + n)
    BY Zenon DEF RunBlock
  <2>2. Last(frames) \in Int /\ Len(frames) > 0
    BY DEF Written, Last
  <2>3. CASE /\ frames' = frames
             /\ Write(blocks', s, zmodule, module, nmodule, "other", Last(frames) - 1)
    <3>1. Last(frames) - 1 \in Int /\ "other" \in Jump
      BY <2>2 DEF Jump
    <3>2. frames' \in Seq(Int) /\ frames' # <<>> /\ Calls("other", Last(frames) - 1)
      BY <2>3 DEF Calls, Written
    <3> QED
      BY <2>1, <2>3, <3>1, <3>2
  <2>4. ASSUME NEW k \in Locals,
               frames' = Append(frames, Last(frames) - 1 - k),
               Write(blocks', s, zmodule, module, nmodule, "call", Last(frames'))
        PROVE  \E jump \in Jump, esp \in Int :
                 /\ frames' \in Seq(Int) /\ frames' # <<>> /\ Calls(jump, esp)
                 /\ Write(blocks', s, zmodule, module, nmodule, jump, esp)
    <3>1. Last(frames) - 1 - k \in Int /\ "call" \in Jump
      BY <2>2, ParserAssumption DEF Jump
    <3>2. frames' \in Seq(Int) /\ frames' # <<>> /\ Last(frames') = Last(frames) - 1 - k
      <4> DEFINE e == Last(frames) - 1 - k
      <4>1. e \in Int /\ frames' = Append(frames, e)
        BY <2>4, <3>1
      <4> HIDE DEF e
      <4>2. frames' \in Seq(Int) /\ frames' # <<>> /\ Last(frames') = e
        BY <4>1 DEF Last, Written
      <4> QED
        BY <4>2 DEF e
    <3>3. Calls("call", Last(frames'))
      BY <2>4, <3>2 DEF Calls
    <3> QED
      BY <2>4, <3>1, <3>2, <3>3
  <2>5. ASSUME NEW n \in Arguments,
               Len(frames) > 1, frames' = Front(frames),
               Write(blocks', s, zmodule, module, nmodule, "ret", Last(frames) + 1 + n)
        PROVE  \E jump \in Jump, esp \in Int :
                 /\ frames' \in Seq(Int) /\ frames' # <<>> /\ Calls(jump, esp)
                 /\ Write(blocks', s, zmodule, module, nmodule, jump, esp)
    <3>1. Last(frames) + 1 + n \in Int /\ "ret" \in Jump
      BY <2>2, ParserAssumption DEF Jump
    <3>2. frames' \in Seq(Int) /\ frames' # <<>>
      BY <2>5, FrontTyped DEF Written
    <3>3. Calls("ret", Last(frames) + 1 + n)
      BY <2>5 DEF Calls
    <3> QED
      BY <2>5, <3>1, <3>2, <3>3
  <2> QED
    BY <2>1, <2>3, <2>4, <2>5
<1>3. PICK jump \in Jump, esp \in Int :
        /\ frames' \in Seq(Int) /\ frames' # <<>> /\ Calls(jump, esp)
        /\ Write(blocks', s, zmodule, module, nmodule, jump, esp)
  BY <1>2
<1>4. log' \in Seq(Entry) /\ BeginsBlock(log', blocks', OffsetEntry(blocks', jump, esp), Mixed')
  <2> DEFINE z == zmodule /\ s # <<>> /\ Head(s) = "addr"
  <2>1. s \in Seq(Kind) /\ z \in BOOLEAN /\ (z => s # <<>>)
    BY <1>2, ParserAssumption DEF Kind
  <2>4. module \in BOOLEAN /\ nmodule \in BOOLEAN /\ jump \in Jump /\ esp \in Int
    BY <1>2, <1>3
  <2>2. Mixed' <=> module /\ s # <<>>
    <3>1. blocks' \notin mixed
      BY <1>1 DEF Written
    <3> QED
      BY <1>2, <3>1 DEF Mixed
  <2>3. log' = Optional(z, "Z3_MODULE") \o SymbolicEntries(blocks', s)
                 \o Optional(module, "MODULE") \o <<OffsetEntry(blocks', jump, esp)>>
                 \o <<NextEntry(blocks')>> \o Optional(nmodule, "NEXT_MODULE")
                 \o <<NextEntry(blocks')>>
    BY <1>3 DEF Write
  <2> DEFINE b == blocks'
             l == log'
             mix == Mixed'
  <2>8. mix \in BOOLEAN /\ (mix <=> module /\ s # <<>>)
    BY <2>2 DEF Mixed
  <2>5. b \in Nat /\ l = Optional(z, "Z3_MODULE") \o SymbolicEntries(b, s)
                 \o Optional(module, "MODULE") \o <<OffsetEntry(b, jump, esp)>>
                 \o <<NextEntry(b)>> \o Optional(nmodule, "NEXT_MODULE")
                 \o <<NextEntry(b)>>
    BY <1>1, <2>3
  <2>6. z \in BOOLEAN /\ (z => s # <<>>)
    BY <2>1
  <2> HIDE DEF z, b, l, mix
  <2>9. /\ b \in Nat /\ s \in Seq(Kind) /\ z \in BOOLEAN /\ module \in BOOLEAN
        /\ nmodule \in BOOLEAN /\ (z => s # <<>>)
        /\ mix \in BOOLEAN /\ Mixes(mix, s, module)
        /\ jump \in Jump /\ esp \in Int
    BY <2>1, <2>4, <2>5, <2>6, <2>8 DEF Mixes
  <2>10. Writes(l, b, s, z, module, nmodule, jump, esp)
    BY <2>5 DEF Writes
  <2>7. l \in Seq(Entry) /\ BeginsBlock(l, b, OffsetEntry(b, jump, esp), mix)
    BY <2>9, <2>10, BlockLog
  <2> QED
    BY <2>7 DEF l, b, mix
<1>5. mixed' \in {mixed, mixed \cup {blocks'}} /\ mixed' \subseteq 1 .. blocks'
  BY <1>1, <1>2 DEF Written
<1>6. Written'
  BY <1>1, <1>3, <1>4, <1>5 DEF Written, BeginsBlock
<1> QED
  BY <1>1, <1>3, <1>4, <1>5, <1>6

\* What comes after an entry.
LEMMA Reading ==
  ASSUME NEW l \in Seq(Entry), l # <<>>, NEW mix, InOrder(l, mix), NEW t, t = Tail(l)
  PROVE  /\ Head(l) \in Entry /\ t \in Seq(Entry) /\ InOrder(t, mix)
         /\ Head(l).type = "REGISTERS" => t = <<>>
         /\ Head(l).type = "Z3_MODULE" => t # <<>> /\ Head(t).type = "SYMBOLIC"
         /\ Head(l).type = "SYMBOLIC" => t # <<>> /\ Head(t).type = "AST"
         /\ Head(l).type = "AST" => t # <<>> /\ Head(t).type \in {"SYMBOLIC", AfterAst(mix)}
         /\ Head(l).type = "MODULE" => t # <<>> /\ Head(t).type = "OFFSET"
         /\ Head(l).type = "OFFSET" =>
              t # <<>> /\ Head(t).type = "NEXT_OFFSET" /\ Len(t) # 1
         /\ Head(l).type = "NEXT_OFFSET" /\ Len(l) = 1 => t = <<>>
         /\ Head(l).type = "NEXT_OFFSET" /\ Len(l) # 1 =>
              /\ t # <<>>
              /\ Head(t).type = "NEXT_MODULE" \/ (Head(t).type = "NEXT_OFFSET" /\ Len(t) = 1)
         /\ Head(l).type = "NEXT_MODULE" =>
              t # <<>> /\ Head(t).type = "NEXT_OFFSET" /\ Len(t) = 1
<1>1. /\ t \in Seq(Entry) /\ Len(t) = Len(l) - 1 /\ Len(l) \in Nat /\ Len(l) > 0
      /\ Head(l) = l[1] /\ l[1] \in Entry
      /\ t = <<>> <=> Len(l) = 1
      /\ t # <<>> => Head(t) = l[2] /\ Len(l) > 1
  BY TailOf
<1>2. InOrder(t, mix)
  BY OrderedTail
<1>3. Follows(l, 1, mix)
  BY <1>1 DEF InOrder
<1>4. 1 + 1 = 2 /\ 1 + 2 = 3
  OBVIOUS
<1> QED
  BY <1>1, <1>2, <1>3, <1>4 DEF Follows

LEMMA BlockOfTail ==
  ASSUME NEW l \in Seq(Entry), l # <<>>, NEW b, OfBlock(l, b), NEW t, t = Tail(l)
  PROVE  OfBlock(t, b) /\ (Head(l).type \in Carriers => Head(l).block = b)
<1>1. /\ Len(t) = Len(l) - 1 /\ Len(l) \in Nat /\ Len(l) > 0 /\ Head(l) = l[1]
      /\ \A i \in 1 .. Len(l) - 1 : t[i] = l[i + 1]
  BY TailOf
<1> QED
  BY <1>1 DEF OfBlock

LEMMA EntryRead ==
  ASSUME Written, Parse
  PROVE  /\ Written' /\ log # <<>> /\ log' = Tail(log) /\ log \in Seq(Entry)
         /\ InOrder(log, Mixed) /\ Mixed' = Mixed
         /\ blocks' = blocks /\ frames' = frames /\ mixed' = mixed
<1>1. log # <<>> /\ log' = Tail(log) /\ UNCHANGED program
  BY DEF Parse, Read, HandleRegisters, BasicBlockModule, BasicBlockOffset, NextOffset,
         NextModule, Z3Module, Z3Symbolic, Z3Ast
<1>2. Mixed' = Mixed
  BY <1>1 DEF Mixed, program
<1>3. log' \in Seq(Entry) /\ InOrder(log', Mixed) /\ OfBlock(log', blocks)
  BY <1>1, Reading, BlockOfTail DEF Written
<1> QED
  BY <1>1, <1>2, <1>3 DEF Written, program

-----------------------------------------------------------------------------
(* The parser is never lost.                                                *)

Path == Written /\ Placed

LEMMA WrittenFirst == Init => Written
<1> SUFFICES ASSUME Init PROVE Written
  OBVIOUS
<1> DEFINE e == [type |-> "REGISTERS", esp |-> StackBase]
<1>1. e \in Entry /\ e.type = "REGISTERS"
  BY DEF Entry
<1>2. log = <<e>>
  BY DEF Init
<1>3. StackBase \in Int
  BY DEF StackBase
<1> HIDE DEF e
<1>4. log \in Seq(Entry) /\ Len(log) = 1 /\ log[1] = e
  BY <1>1, <1>2
<1>5. InOrder(log, Mixed) /\ OfBlock(log, blocks)
  BY <1>1, <1>4 DEF InOrder, OfBlock, Follows, Carriers
<1> QED
  BY <1>3, <1>4, <1>5, ParserAssumption DEF Written, Init, Mixed

LEMMA PathFirst == Init => Path
<1> SUFFICES ASSUME Init PROVE Path
  OBVIOUS
<1>1. Written
  BY WrittenFirst
<1>2. First("REGISTERS") /\ state = "NONE" /\ next = 0
  BY DEF Init, First
<1> QED
  BY <1>1, <1>2 DEF Path, Placed, First, Between, LastNext

LEMMA PathStep == Path /\ [Next]_vars => Path'
<1> SUFFICES ASSUME Path, [Next]_vars PROVE Path'
  OBVIOUS
<1> USE DEF Path
<1>1. CASE RunBlock
  <2>1. Written' /\ log = <<>> /\ state' = state /\ next' = next
    BY <1>1, BlockWritten DEF parser
  <2>2. /\ log' # <<>>
        /\ \/ Head(log').type \in {"Z3_MODULE", "SYMBOLIC"}
           \/ Head(log').type \in {"MODULE", "OFFSET"} /\ ~Mixed'
    BY <1>1, BlockWritten DEF BeginsBlock
  <2>3. state = "NONE" /\ next = 0
    BY <2>1 DEF Placed, Between
  <2> QED
    BY <2>1, <2>2, <2>3 DEF Placed, First, Between, LastNext
<1>2. CASE Parse
  <2>1. /\ Written' /\ log # <<>> /\ log' = Tail(log) /\ log \in Seq(Entry)
        /\ InOrder(log, Mixed) /\ Mixed' = Mixed /\ Mixed \in BOOLEAN
    BY <1>2, EntryRead DEF Mixed
  <2> DEFINE t == log'
  <2>2. /\ Head(log).type = "REGISTERS" => t = <<>>
        /\ Head(log).type = "Z3_MODULE" => t # <<>> /\ Head(t).type = "SYMBOLIC"
        /\ Head(log).type = "SYMBOLIC" => t # <<>> /\ Head(t).type = "AST"
        /\ Head(log).type = "AST" =>
             t # <<>> /\ Head(t).type \in {"SYMBOLIC", IF Mixed THEN "MODULE" ELSE "OFFSET"}
        /\ Head(log).type = "MODULE" => t # <<>> /\ Head(t).type = "OFFSET"
        /\ Head(log).type = "OFFSET" => t # <<>> /\ Head(t).type = "NEXT_OFFSET" /\ Len(t) # 1
        /\ Head(log).type = "NEXT_OFFSET" /\ Len(log) = 1 => t = <<>>
        /\ Head(log).type = "NEXT_OFFSET" /\ Len(log) # 1 =>
             /\ t # <<>>
             /\ Head(t).type = "NEXT_MODULE" \/ (Head(t).type = "NEXT_OFFSET" /\ Len(t) = 1)
        /\ Head(log).type = "NEXT_MODULE" =>
             t # <<>> /\ Head(t).type = "NEXT_OFFSET" /\ Len(t) = 1
    BY <2>1, Reading DEF AfterAst
  <2>3. CASE HandleRegisters
    <3>1. First("REGISTERS") /\ UNCHANGED <<state, next>>
      BY <2>3 DEF HandleRegisters, Read, First
    <3> QED
      BY <2>1, <2>2, <3>1 DEF Placed, First, Between, LastNext
  <2>4. CASE BasicBlockModule
    <3>1. First("MODULE")
      BY <2>4 DEF BasicBlockModule, Read, First
    <3>2. next' = 0 /\ state' = (IF Mixed THEN "Z3_OFFSET" ELSE "NONE")
      BY <2>4, <3>1 DEF BasicBlockModule, Placed
    <3> QED
      BY <2>1, <2>2, <3>1, <3>2 DEF Placed, First, Between, LastNext
  <2>5. CASE BasicBlockOffset
    <3>1. First("OFFSET")
      BY <2>5 DEF BasicBlockOffset, Read, First
    <3>2. next' = 0 /\ state' = (IF Mixed THEN "NONE" ELSE "Z3_OFFSET")
      BY <2>5, <3>1 DEF BasicBlockOffset, Placed
    <3> QED
      BY <2>1, <2>2, <3>1, <3>2 DEF Placed, First, Between, LastNext
  <2>6. CASE NextOffset
    <3>1. First("NEXT_OFFSET")
      BY <2>6 DEF NextOffset, Read, First
    <3>2. CASE Len(log) # 1
      <4>1. IF Mixed THEN state' = "NONE" /\ next' = 0 ELSE state' = "Z3_OFFSET" /\ next' = 1
        BY <2>6, <3>1, <3>2 DEF NextOffset, Placed, parser
      <4> QED
        BY <2>1, <2>2, <3>1, <3>2, <4>1 DEF Placed, First, Between, LastNext
    <3>3. CASE Len(log) = 1
      <4>1. state' = "NONE" /\ next' = 0
        BY <2>6, <3>1, <3>3 DEF NextOffset, Placed, LastNext, Annotate, parser
      <4> QED
        BY <2>1, <2>2, <3>1, <3>3, <4>1 DEF Placed, First, Between, LastNext
    <3> QED
      BY <3>2, <3>3
  <2>7. CASE NextModule
    <3>1. First("NEXT_MODULE")
      BY <2>7 DEF NextModule, Read, First
    <3>2. UNCHANGED <<state, next>>
      BY <2>7, <3>1 DEF NextModule, Placed, LastNext, parser
    <3> QED
      BY <2>1, <2>2, <3>1, <3>2 DEF Placed, First, Between, LastNext
  <2>8. CASE Z3Module
    <3>1. First("Z3_MODULE")
      BY <2>8 DEF Z3Module, Read, First
    <3>2. next' = 0 /\ state' = "Z3_MODULE"
      BY <2>8, <3>1 DEF Z3Module, Placed
    <3> QED
      BY <2>1, <2>2, <3>1, <3>2 DEF Placed, First, Between, LastNext
  <2>9. CASE Z3Symbolic
    <3>1. First("SYMBOLIC")
      BY <2>9 DEF Z3Symbolic, Read, First
    <3>2. next' = 0 /\ state' = "Z3_SYMBOLIC_OBJECT"
      BY <2>9, <3>1 DEF Z3Symbolic, Placed
    <3> QED
      BY <2>1, <2>2, <3>1, <3>2 DEF Placed, First, Between, LastNext
  <2>10. CASE Z3Ast
    <3>1. First("AST")
      BY <2>10 DEF Z3Ast, Read, First
    <3>2. next' = 0 /\ state' = "Z3_AST"
      BY <2>10, <3>1 DEF Z3Ast, Placed
    <3> QED
      BY <2>1, <2>2, <3>1, <3>2 DEF Placed, First, Between, LastNext
  <2> QED
    BY <1>2, <2>3, <2>4, <2>5, <2>6, <2>7, <2>8, <2>9, <2>10 DEF Parse
<1>3. CASE UNCHANGED vars
  BY <1>3 DEF vars, parser, program, Written, Placed, Mixed, First, Between, LastNext
<1> QED
  BY <1>1, <1>2, <1>3 DEF Next

LEMMA PathInvariance == Spec => []Path
  BY PathFirst, PathStep, PTL DEF Spec

\* No log that keeps the documented order stops the parser, whatever blocks come in
\* it and with whatever is optional in them, and each block is read to its end.
THEOREM NeverLost == Spec => []NeverBreaks
<1>1. Path => NeverBreaks
  <2> SUFFICES ASSUME Path PROVE NeverBreaks
    OBVIOUS
  <2>1. Settled => state = "NONE"
    BY DEF Path, Placed, Between, Settled
  <2>2. state # "BREAK"
    <3>1. CASE log = <<>>
      BY <3>1 DEF Path, Placed, Between
    <3>2. CASE log # <<>>
      <4>1. Head(log) \in Entry
        BY <3>2 DEF Path, Written
      <4>2. Head(log).type \in {"REGISTERS", "Z3_MODULE", "SYMBOLIC", "AST", "MODULE",
                                "OFFSET", "NEXT_OFFSET", "NEXT_MODULE"}
        BY <4>1 DEF Entry
      <4> QED
        BY <3>2, <4>2 DEF Path, Placed, First, Between, LastNext
    <3> QED
      BY <3>1, <3>2
  <2> QED
    BY <2>1, <2>2 DEF NeverBreaks
<1> QED
  BY <1>1, PathInvariance, PTL

-----------------------------------------------------------------------------
(* The calls that are active.                                               *)

\* The call stack once the block of offset entry e has been followed.
Followed(stack, e) ==
  CASE e.jump = "call" -> Append(stack, e.esp)
    [] e.jump = "ret" /\ stack # <<>> /\ Last(stack) + 1 = e.esp -> Front(stack)
    [] OTHER -> stack

\* Until the offset of the block has been read the call stack is a step behind.
Behind ==
  /\ First("REGISTERS") => callStack = <<>> /\ frames = <<StackBase>>
  /\ ~First("REGISTERS") =>
       IF \E i \in 1 .. Len(log) : log[i].type = "OFFSET"
         THEN \A i \in 1 .. Len(log) :
                log[i].type = "OFFSET" => Followed(callStack, log[i]) = frames
         ELSE callStack = frames

CallsKept == Written /\ Behind

LEMMA OneOffset ==
  ASSUME NEW l \in Seq(Entry), l # <<>>, NEW mix, InOrder(l, mix),
         Head(l).type = "OFFSET", NEW t, t = Tail(l)
  PROVE  \A i \in 1 .. Len(t) : t[i].type # "OFFSET"
<1>1. /\ Len(t) = Len(l) - 1 /\ Len(l) \in Nat /\ Len(l) > 0 /\ Head(l) = l[1]
      /\ \A i \in 1 .. Len(l) - 1 : t[i] = l[i + 1]
  BY TailOf
<1>2. Follows(l, 1, mix)
  BY <1>1 DEF InOrder
<1>3. 1 + 1 < Len(l) /\ l[2].type = "NEXT_OFFSET"
  <2>1. 1 + 1 = 2
    OBVIOUS
  <2> QED
    BY <1>1, <1>2, <2>1 DEF Follows
<1>4. Follows(l, 2, mix)
  BY <1>1, <1>3 DEF InOrder
<1>5. \/ Len(l) = 3 /\ l[3].type = "NEXT_OFFSET"
      \/ Len(l) = 4 /\ l[3].type = "NEXT_MODULE"
  <2>1. 2 + 1 = 3 /\ 2 + 2 = 4
    OBVIOUS
  <2> QED
    BY <1>3, <1>4, <2>1 DEF Follows
<1>6. Len(l) = 4 => l[4].type = "NEXT_OFFSET"
  <2>1. Len(l) = 4 => Follows(l, 3, mix)
    BY DEF InOrder
  <2>2. 3 + 1 = 4
    OBVIOUS
  <2> QED
    BY <1>5, <2>1, <2>2 DEF Follows
<1>7. \A j \in 2 .. Len(l) : l[j].type # "OFFSET"
  BY <1>1, <1>3, <1>5, <1>6
<1> QED
  BY <1>1, <1>7

LEMMA SameOffsets ==
  ASSUME NEW l \in Seq(Entry), l # <<>>, Head(l).type # "OFFSET", NEW t, t = Tail(l)
  PROVE  /\ \A i \in 1 .. Len(t) : i + 1 \in 1 .. Len(l) /\ t[i] = l[i + 1]
         /\ \A i \in 1 .. Len(l) :
              l[i].type = "OFFSET" => i - 1 \in 1 .. Len(t) /\ t[i - 1] = l[i]
<1>1. /\ Len(t) = Len(l) - 1 /\ Len(l) \in Nat /\ Len(l) > 0 /\ Head(l) = l[1]
      /\ \A i \in 1 .. Len(l) - 1 : t[i] = l[i + 1]
  BY TailOf
<1>2. ASSUME NEW i \in 1 .. Len(l), l[i].type = "OFFSET"
      PROVE  i - 1 \in 1 .. Len(t) /\ t[i - 1] = l[i]
  <2>1. i # 1
    BY <1>1, <1>2
  <2>2. i - 1 \in 1 .. Len(l) - 1 /\ (i - 1) + 1 = i
    BY <1>1, <2>1
  <2> QED
    BY <1>1, <2>2
<1> QED
  BY <1>1, <1>2

LEMMA HandledCall ==
  ASSUME NEW e, HandleCallInstruction(e.jump, e.esp)
  PROVE  callStack' = Followed(callStack, e)
<1>1. CASE e.jump = "call"
  BY <1>1 DEF HandleCallInstruction, Push, Followed
<1>2. CASE e.jump # "call"
  BY <1>2 DEF HandleCallInstruction, GetLastCallFrame, Pop, Followed
<1> QED
  BY <1>1, <1>2

LEMMA CallsStep ==
  ASSUME Arguments \subseteq {0}
  PROVE  CallsKept /\ [Next]_vars => CallsKept'
<1> SUFFICES ASSUME CallsKept, [Next]_vars PROVE CallsKept'
  OBVIOUS
<1> USE DEF CallsKept
<1>1. CASE RunBlock
  <2>1. Written' /\ log = <<>> /\ callStack' = callStack
    BY <1>1, BlockWritten DEF parser
  <2>2. PICK jump \in Jump, esp \in Int :
          /\ BeginsBlock(log', blocks', OffsetEntry(blocks', jump, esp), Mixed')
          /\ Calls(jump, esp)
    BY <1>1, BlockWritten
  <2> DEFINE e == OffsetEntry(blocks', jump, esp)
  <2>3. e.jump = jump /\ e.esp = esp
    BY DEF OffsetEntry
  <2>4. callStack = frames
    BY <2>1 DEF Behind, First
  <2>5. ~First("REGISTERS")'
    BY <2>2 DEF BeginsBlock, First
  <2> HIDE DEF e
  <2>6. Followed(callStack, e) = frames'
    <3>1. CASE jump = "other"
      BY <2>2, <2>3, <2>4, <3>1 DEF Calls, Followed
    <3>2. CASE jump = "call"
      BY <2>2, <2>3, <2>4, <3>2 DEF Calls, Followed
    <3>3. CASE jump = "ret"
      <4>1. Len(frames) > 1 /\ frames' = Front(frames) /\ esp = Last(frames) + 1 + 0
        BY <2>2, <3>3 DEF Calls
      <4>2. Last(frames) \in Int /\ frames # <<>>
        BY <4>1 DEF Last, Written
      <4>3. Last(frames) + 1 = esp
        BY <4>1, <4>2
      <4> QED
        BY <2>3, <2>4, <3>3, <4>1, <4>2, <4>3 DEF Followed
    <3> QED
      BY <3>1, <3>2, <3>3 DEF Jump
  <2>7. \A i \in 1 .. Len(log') : log'[i].type = "OFFSET" => log'[i] = e
    BY <2>2 DEF BeginsBlock, e
  <2>8. \E i \in 1 .. Len(log') : log'[i].type = "OFFSET"
    BY <2>2 DEF BeginsBlock
  <2> QED
    BY <2>1, <2>5, <2>6, <2>7, <2>8 DEF Behind
<1>2. CASE Parse
  <2>1. /\ Written' /\ log # <<>> /\ log' = Tail(log) /\ log \in Seq(Entry)
        /\ InOrder(log, Mixed) /\ frames' = frames
    BY <1>2, EntryRead
  <2>2. CASE HandleRegisters
    <3>1. First("REGISTERS")
      BY <2>2 DEF HandleRegisters, Read, First
    <3>2. log' = <<>>
      BY <2>1, <3>1, Reading DEF First
    <3>3. Head(log) \in Entry
      BY <2>1
    <3>4. Head(log).esp = StackBase
      BY <3>1, <3>3 DEF Entry, First
    <3>5. callStack' = <<StackBase>> /\ frames = <<StackBase>>
      BY <2>2, <3>1, <3>4 DEF HandleRegisters, Push, Behind
    <3>6. ~\E i \in 1 .. Len(log') : log'[i].type = "OFFSET"
      BY <3>2
    <3>7. ~First("REGISTERS")'
      BY <3>2 DEF First
    <3> QED
      BY <2>1, <3>5, <3>6, <3>7 DEF Behind
  <2>3. CASE BasicBlockOffset
    <3>1. First("OFFSET")
      BY <2>3 DEF BasicBlockOffset, Read, First
    <3>2. callStack' = Followed(callStack, Head(log))
      BY <2>3, HandledCall DEF BasicBlockOffset
    <3>3. Head(log) = log[1] /\ 1 \in 1 .. Len(log)
      BY <2>1
    <3>4. callStack' = frames
      BY <3>1, <3>2, <3>3 DEF Behind, First
    <3>5. \A i \in 1 .. Len(log') : log'[i].type # "OFFSET"
      BY <2>1, <3>1, OneOffset DEF First
    <3>6. ~First("REGISTERS")'
      BY <2>1, <3>1, Reading DEF First
    <3> QED
      BY <2>1, <3>4, <3>5, <3>6 DEF Behind
  <2>4. ASSUME ~First("OFFSET"), ~First("REGISTERS"), callStack' = callStack
        PROVE  CallsKept'
    <3>1. /\ \A i \in 1 .. Len(log') : i + 1 \in 1 .. Len(log) /\ log'[i] = log[i + 1]
          /\ \A i \in 1 .. Len(log) :
               log[i].type = "OFFSET" => i - 1 \in 1 .. Len(log') /\ log'[i - 1] = log[i]
      BY <2>1, <2>4, SameOffsets DEF First
    <3>2. ~First("REGISTERS")'
      <4>1. Head(log) \in Entry
        BY <2>1
      <4>2. Head(log).type \in {"Z3_MODULE", "SYMBOLIC", "AST", "MODULE", "NEXT_OFFSET",
                                "NEXT_MODULE"}
        BY <2>1, <2>4, <4>1 DEF Entry, First
      <4> QED
        BY <2>1, <4>2, Reading DEF First, AfterAst
    <3>3. CASE \E i \in 1 .. Len(log) : log[i].type = "OFFSET"
      <4>1. \E i \in 1 .. Len(log') : log'[i].type = "OFFSET"
        BY <3>1, <3>3
      <4>2. \A i \in 1 .. Len(log) : log[i].type = "OFFSET" => Followed(callStack, log[i]) = frames
        BY <2>4, <3>3 DEF Behind
      <4>3. \A i \in 1 .. Len(log') :
              log'[i].type = "OFFSET" => Followed(callStack', log'[i]) = frames'
        BY <2>1, <2>4, <3>1, <4>2
      <4> QED
        BY <2>1, <3>2, <4>1, <4>3 DEF Behind
    <3>4. CASE ~\E i \in 1 .. Len(log) : log[i].type = "OFFSET"
      <4>1. ~\E i \in 1 .. Len(log') : log'[i].type = "OFFSET"
        BY <3>1, <3>4
      <4>2. callStack' = frames'
        BY <2>1, <2>4, <3>4 DEF Behind
      <4> QED
        BY <2>1, <3>2, <4>1, <4>2 DEF Behind
    <3> QED
      BY <3>3, <3>4
  <2>5. CASE BasicBlockModule \/ Z3Module \/ Z3Symbolic \/ Z3Ast
    <3>1. ~First("OFFSET") /\ ~First("REGISTERS") /\ callStack' = callStack
      BY <2>5 DEF BasicBlockModule, Z3Module, Z3Symbolic, Z3Ast, Read, First, Break
    <3> QED
      BY <2>4, <3>1
  <2>6. CASE NextOffset \/ NextModule
    <3>1. ~First("OFFSET") /\ ~First("REGISTERS") /\ callStack' = callStack
      BY <2>6 DEF NextOffset, NextModule, Read, First, Break, parser
    <3> QED
      BY <2>4, <3>1
  <2> QED
    BY <1>2, <2>2, <2>3, <2>5, <2>6 DEF Parse
<1>3. CASE UNCHANGED vars
  BY <1>3 DEF vars, parser, program, Written, Mixed, Behind, First
<1> QED
  BY <1>1, <1>2, <1>3 DEF Next

\* Whatever the program calls and returns from, and however deep, its active calls
\* are known when a block has been read, as long as no function removes its own
\* arguments.
THEOREM CallsAreFollowed ==
  ASSUME Arguments \subseteq {0}
  PROVE  Spec => []CallsFollowed
<1>1. Init => CallsKept
  BY WrittenFirst DEF CallsKept, Behind, Init, First
<1>2. CallsKept /\ [Next]_vars => CallsKept'
  BY CallsStep
<1>3. CallsKept => CallsFollowed
  BY DEF CallsKept, Behind, First, CallsFollowed, Settled
<1> QED
  BY <1>1, <1>2, <1>3, PTL DEF Spec

-----------------------------------------------------------------------------
(* The types, and the annotation of addresses.                              *)

Block == [offset : 0 .. MaxBlocks, data : 0 .. MaxBlocks, next : 0 .. MaxBlocks, frame : Int]

\* What the types need besides TypeOK: those of the other variables, that a block has a
\* number once something of it is in the log, and a symbolic object its block's.
Typed ==
  /\ TypeOK /\ tmp \in Block /\ callStack \in Seq(Int)
  /\ kind \in [type : {"SYMBOLIC"}, block : Nat, kind : Kind]
  /\ ~Between => blocks > 0
  /\ First("AST") => kind.block = blocks

ParserTyped == Path /\ Typed

LEMMA AnnotatedTyped ==
  ASSUME NEW list \in Seq(Assertion), NEW loop, NEW b \in Block
  PROVE  /\ Annotated(list, loop, b) \in Seq(Assertion)
         /\ Len(Annotated(list, loop, b)) = Len(list)
<1>1. Assertion = [of : 1 .. MaxBlocks, block : Block]
  BY DEF Assertion, Block
<1>2. \A e \in Assertion : [e EXCEPT !.block = b] \in Assertion
  BY <1>1
<1>3. Len(list) \in Nat /\ \A i \in 1 .. Len(list) : list[i] \in Assertion
  BY Elements, Zenon
<1> DEFINE f == Annotated(list, loop, b)
<1>4. \A i \in 1 .. Len(list) :
        (IF i \in loop THEN [list[i] EXCEPT !.block = b] ELSE list[i]) \in Assertion
  BY <1>2, <1>3
<1>5. f \in [1 .. Len(list) -> Assertion]
  BY <1>4 DEF Annotated
<1> HIDE DEF f
<1>6. f \in Seq(Assertion) /\ Len(f) = Len(list)
  BY <1>3, <1>5, OfFunction, Zenon
<1> QED
  BY <1>6 DEF f

LEMMA TypedFirst == Init => Typed
<1> SUFFICES ASSUME Init PROVE Typed
  OBVIOUS
<1>1. MaxBlocks \in Nat /\ 0 \in 0 .. MaxBlocks /\ 0 \in Int
  BY ParserAssumption
<1>2. TypeOK
  BY <1>1 DEF TypeOK, Init
<1>3. tmp \in Block
  BY <1>1 DEF Init, Clean, Block
<1>4. Between /\ ~First("AST")
  BY DEF Init, Between, First
<1> QED
  BY <1>2, <1>3, <1>4 DEF Typed, Init, SymbolEntry, Kind

LEMMA TypedStep == ParserTyped /\ [Next]_vars => ParserTyped'
<1> SUFFICES ASSUME ParserTyped, [Next]_vars PROVE ParserTyped'
  OBVIOUS
<1>1. Path'
  BY PathStep DEF ParserTyped
<1> SUFFICES Typed'
  BY <1>1 DEF ParserTyped
<1>2. /\ TypeOK /\ tmp \in Block /\ callStack \in Seq(Int)
      /\ kind \in [type : {"SYMBOLIC"}, block : Nat, kind : Kind]
      /\ Written /\ Placed
  BY DEF ParserTyped, Typed, Path
<1>3. blocks' \in 0 .. MaxBlocks /\ MaxBlocks \in Nat /\ mixed' \subseteq 1 .. blocks'
  BY <1>1, ParserAssumption DEF Path, Written
<1>4. CASE RunBlock
  <2>1. blocks' = blocks + 1 /\ UNCHANGED parser
    BY <1>2, <1>4, BlockWritten
  <2>2. blocks' > 0
    BY <1>2, <2>1 DEF TypeOK
  <2>3. ~First("AST")'
    BY <1>2, <1>4, BlockWritten DEF BeginsBlock, First
  <2> QED
    BY <1>2, <1>3, <2>1, <2>2, <2>3 DEF Typed, TypeOK, parser
<1>5. CASE Parse
  <2>1. /\ log # <<>> /\ log' = Tail(log) /\ log \in Seq(Entry)
        /\ InOrder(log, Mixed) /\ blocks' = blocks
    BY <1>2, <1>5, EntryRead
  <2>2. ~Between' => blocks' > 0
    BY <2>1, Reading DEF ParserTyped, Typed, Between, First
  <2>3. First("AST")' => First("SYMBOLIC")
    <3>1. Head(log).type \in {"REGISTERS", "Z3_MODULE", "SYMBOLIC", "AST", "MODULE",
                              "OFFSET", "NEXT_OFFSET", "NEXT_MODULE"}
      BY <2>1 DEF Entry
    <3> QED
      BY <2>1, <3>1, Reading DEF First, AfterAst
  <2>4. OfBlock(log, blocks)
    BY <1>2 DEF Written
  <2>5. Head(log).type \in Carriers => Head(log).block = blocks
    BY <2>1, <2>4, BlockOfTail
  <2>6. First("OFFSET") \/ First("NEXT_OFFSET") \/ First("AST") \/ First("SYMBOLIC") => blocks \in 1 .. MaxBlocks
    BY <1>2 DEF ParserTyped, Typed, Between, First, TypeOK
  <2>7. CASE HandleRegisters
    <3>1. First("REGISTERS") /\ Head(log) \in Entry
      BY <2>1, <2>7 DEF HandleRegisters, Read, First
    <3>2. Head(log).esp \in Int
      BY <3>1 DEF Entry, First, StackBase
    <3>3. callStack' \in Seq(Int)
      BY <1>2, <2>7, <3>2 DEF HandleRegisters, Push
    <3> QED
      BY <1>2, <1>3, <2>2, <2>3, <2>7, <3>1, <3>3 DEF HandleRegisters, Typed, TypeOK, First
  <2>8. CASE BasicBlockModule
    <3>1. First("MODULE")
      BY <2>8 DEF BasicBlockModule, Read, First
    <3> QED
      BY <1>2, <1>3, <2>2, <2>3, <2>8, <3>1 DEF BasicBlockModule, Break, Typed, TypeOK, First
  <2>9. CASE BasicBlockOffset
    <3>1. First("OFFSET") /\ Head(log) \in Entry
      BY <2>1, <2>9 DEF BasicBlockOffset, Read, First
    <3>2. Head(log).block \in 0 .. MaxBlocks /\ Head(log).esp \in Int
      BY <1>2, <2>5, <3>1 DEF Entry, First, Carriers, TypeOK
    <3>3. GetLastCallFrame \in Int
      BY <1>2 DEF GetLastCallFrame, Last, NoFrame
    <3>4. tmp' \in Block
      BY <1>2, <2>9, <3>2, <3>3 DEF BasicBlockOffset, Block
    <3>5. callStack' \in Seq(Int)
      <4>1. callStack' \in {callStack, Append(callStack, Head(log).esp), Pop}
        BY <2>9 DEF BasicBlockOffset, HandleCallInstruction, Push
      <4>2. Append(callStack, Head(log).esp) \in Seq(Int)
        BY <1>2, <3>2
      <4>3. Pop \in Seq(Int)
        <5>1. CASE callStack = <<>>
          BY <5>1 DEF Pop
        <5>2. CASE callStack # <<>>
          BY <1>2, <5>2, FrontOfAny DEF Pop
        <5> QED
          BY <5>1, <5>2
      <4> QED
        BY <1>2, <4>1, <4>2, <4>3
    <3> QED
      BY <1>2, <1>3, <2>2, <2>3, <2>9, <3>1, <3>4, <3>5
      DEF BasicBlockOffset, Typed, TypeOK, First
  <2>10. CASE NextOffset
    <3> DEFINE b == [tmp EXCEPT !.next = Head(log).block]
    <3>1. First("NEXT_OFFSET") /\ Head(log) \in Entry
      BY <2>1, <2>10 DEF NextOffset, Read, First
    <3>2. b \in Block
      BY <1>2, <2>5, <3>1 DEF First, Carriers, TypeOK, Block
    <3>3. CASE UNCHANGED parser
      BY <1>2, <1>3, <2>2, <2>3, <3>1, <3>3 DEF parser, Typed, TypeOK, First
    <3>4. CASE Break
      BY <1>2, <1>3, <2>2, <2>3, <3>1, <3>4 DEF Break, Typed, TypeOK, First
    <3>5. CASE /\ next = 0 /\ next' = 1 /\ tmp' = b
               /\ UNCHANGED <<state, kind, addr, jcc, lviAddr, lviJcc, callStack>>
      BY <1>2, <1>3, <2>2, <2>3, <3>1, <3>2, <3>5 DEF Typed, TypeOK, First
    <3>6. CASE Annotate(b) /\ UNCHANGED <<kind, callStack>>
      <4> HIDE DEF b
      <4>1. /\ addr' \in Seq(Assertion) /\ jcc' \in Seq(Assertion)
            /\ lviAddr' = Len(addr') - 1 /\ lviJcc' = Len(jcc') - 1
        BY <1>2, <3>2, <3>6, AnnotatedTyped DEF Annotate, TypeOK, LastIndex
      <4>2. Clean \in Block
        BY <1>3 DEF Clean, Block
      <4>3. lviAddr' \in -1 .. Len(addr') - 1 /\ lviJcc' \in -1 .. Len(jcc') - 1
        BY <4>1
      <4>4. state' = "NONE" /\ next' = 0 /\ tmp' = Clean
        BY <3>6 DEF Annotate
      <4>5. kind' = kind /\ callStack' = callStack
        BY <3>6
      <4> QED
        BY <1>2, <1>3, <2>2, <2>3, <3>1, <4>1, <4>2, <4>3, <4>4, <4>5 DEF Typed, TypeOK, First
    <3> QED
      BY <2>10, <3>3, <3>4, <3>5, <3>6 DEF NextOffset
  <2>11. CASE NextModule
    <3>1. First("NEXT_MODULE")
      BY <2>11 DEF NextModule, Read, First
    <3>2. UNCHANGED parser \/ Break
      BY <2>11 DEF NextModule
    <3> QED
      BY <1>2, <1>3, <2>2, <2>3, <3>1, <3>2 DEF Break, parser, Typed, TypeOK, First
  <2>12. CASE Z3Module
    <3>1. First("Z3_MODULE")
      BY <2>12 DEF Z3Module, Read, First
    <3> QED
      BY <1>2, <1>3, <2>2, <2>3, <2>12, <3>1 DEF Z3Module, Break, Typed, TypeOK, First
  <2>13. CASE Z3Symbolic
    <3>1. First("SYMBOLIC") /\ Head(log) \in Entry /\ state \in {"NONE", "Z3_MODULE", "Z3_AST"}
      BY <1>2, <2>1, <2>13 DEF Z3Symbolic, Read, First, Placed
    <3>2. Head(log) \in [type : {"SYMBOLIC"}, block : Nat, kind : Kind]
      BY <3>1 DEF Entry, First
    <3>3. Head(log).block = blocks
      BY <2>5, <3>1 DEF First, Carriers
    <3>4. Clean \in Block
      BY <1>3 DEF Clean, Block
    <3> DEFINE cleaned == IF state = "Z3_AST" THEN Clean ELSE tmp
    <3>5. cleaned \in Block
      BY <1>2, <3>4
    <3>6. /\ state' = "Z3_SYMBOLIC_OBJECT" /\ kind' = Head(log)
          /\ tmp' = IF Head(log).kind = "addr" THEN [cleaned EXCEPT !.offset = Head(log).block]
                                              ELSE cleaned
          /\ UNCHANGED <<next, addr, jcc, lviAddr, lviJcc, callStack>>
      BY <2>13, <3>1 DEF Z3Symbolic
    <3> HIDE DEF cleaned
    <3>7. tmp' \in Block
      BY <2>6, <3>1, <3>3, <3>5, <3>6 DEF Block
    <3> QED
      BY <1>2, <1>3, <2>1, <2>2, <3>2, <3>3, <3>6, <3>7 DEF Typed, TypeOK
  <2>14. CASE Z3Ast
    <3> DEFINE new == [of |-> kind.block, block |-> Clean]
    <3>1. First("AST") /\ state = "Z3_SYMBOLIC_OBJECT"
      BY <1>2, <2>14 DEF Z3Ast, Read, First, Placed
    <3>2. kind.block \in 1 .. MaxBlocks
      BY <2>6, <3>1 DEF ParserTyped, Typed
    <3>3. new \in Assertion
      BY <1>3, <3>2 DEF Assertion, Clean
    <3>4. /\ state' = "Z3_AST"
          /\ addr' = IF kind.kind = "addr" THEN Append(addr, new) ELSE addr
          /\ jcc'  = IF kind.kind = "jcc"  THEN Append(jcc, new)  ELSE jcc
          /\ UNCHANGED <<next, tmp, kind, lviAddr, lviJcc, callStack>>
      BY <2>14, <3>1 DEF Z3Ast
    <3> HIDE DEF new
    <3>5. /\ addr' \in Seq(Assertion) /\ jcc' \in Seq(Assertion)
          /\ lviAddr' \in -1 .. Len(addr') - 1 /\ lviJcc' \in -1 .. Len(jcc') - 1
      BY <1>2, <3>3, <3>4 DEF TypeOK
    <3> QED
      BY <1>2, <1>3, <2>2, <2>3, <3>1, <3>4, <3>5 DEF Typed, TypeOK, First
  <2> QED
    BY <1>5, <2>7, <2>8, <2>9, <2>10, <2>11, <2>12, <2>13, <2>14 DEF Parse
<1>6. CASE UNCHANGED vars
  BY <1>2, <1>6 DEF vars, parser, program, ParserTyped, Typed, TypeOK, Between, First
<1> QED
  BY <1>4, <1>5, <1>6 DEF Next

\* Every variable of the parser has its type: above all, the indices of the last
\* annotated entries stay within their sequences.
THEOREM ParserIsTyped == Spec => []TypeOK
<1>1. Init => ParserTyped
  BY PathFirst, TypedFirst DEF ParserTyped
<1>2. ParserTyped => TypeOK
  BY DEF ParserTyped, Typed
<1> QED
  BY <1>1, <1>2, TypedStep, PTL DEF Spec

-----------------------------------------------------------------------------

Settling   == First("NEXT_OFFSET") \/ First("NEXT_MODULE")
HasAddress == \E i \in 1 .. Len(addr) : addr[i].of = blocks

\* An address that has been annotated has its own block, or a later one if its own was
\* mixed; one that has not is of the block being read, or was of a mixed block.
Fated(a, done) ==
  /\ a.of \in 1 .. blocks
  /\ done /\ a.of \in mixed    => Later(a)
  /\ done /\ a.of \notin mixed => Own(a)
  /\ ~done => a.block = Clean /\ a.of \in mixed \cup {blocks}

\* Addresses wait behind the last annotated one, between two blocks only if the last
\* block was mixed; and what they are to be annotated with is of the block being read.
Owed ==
  /\ \A i \in 1 .. Len(addr) : Fated(addr[i], i - 1 <= lviAddr)
  /\ Between => Mixed \/ lviAddr = Len(addr) - 1
  /\ Settling => tmp.data = blocks /\ (HasAddress => tmp.offset = blocks)
  /\ ~Settling /\ (HasAddress \/ (First("AST") /\ kind.kind = "addr")) =>
       tmp.offset \in {0, blocks}

AddressesKept == ParserTyped /\ Owed

LEMMA OwedBlock ==
  ASSUME AddressesKept, RunBlock
  PROVE  Owed'
<1>1. ParserTyped /\ Written /\ Typed /\ TypeOK /\ Owed
  BY DEF AddressesKept, ParserTyped, Typed, Path
<1>2. addr \in Seq(Assertion) /\ lviAddr \in Int /\ Len(addr) \in Nat /\ blocks \in Nat
      /\ mixed \subseteq 1 .. blocks
  BY <1>1 DEF TypeOK
<1>3. /\ log = <<>> /\ blocks' = blocks + 1 /\ UNCHANGED parser
      /\ mixed' \in {mixed, mixed \cup {blocks'}}
  BY <1>1, BlockWritten
<1>4. /\ log' # <<>>
      /\ Head(log').type \in {"Z3_MODULE", "SYMBOLIC", "MODULE", "OFFSET"}
  BY <1>1, BlockWritten DEF BeginsBlock
<1>5. ~Between' /\ ~Settling' /\ ~First("AST")'
  BY <1>4 DEF Between, Settling, First
<1>6. addr' = addr /\ lviAddr' = lviAddr
  BY <1>3 DEF parser
<1>7. Mixed \/ lviAddr = Len(addr) - 1
  BY <1>1, <1>3 DEF Owed, Between
<1>8. ASSUME NEW i \in 1 .. Len(addr)
      PROVE  Fated(addr[i], i - 1 <= lviAddr)' /\ addr[i].of # blocks'
  <2>1. Fated(addr[i], i - 1 <= lviAddr) /\ addr[i].of \in 1 .. blocks
    BY <1>1 DEF Owed, Fated
  <2>2. addr[i].of # blocks'
    BY <1>2, <1>3, <2>1
  <2>3. CASE i - 1 <= lviAddr
    <3>1. Fated(addr[i], TRUE)
      BY <2>1, <2>3 DEF Fated
    <3>2. /\ addr[i].of \in 1 .. blocks' /\ addr[i].of \in mixed => Later(addr[i])
          /\ addr[i].of \notin mixed => Own(addr[i])
      BY <1>2, <1>3, <3>1 DEF Fated
    <3>3. addr[i].of \in mixed' <=> addr[i].of \in mixed
      BY <1>3, <2>2
    <3> QED
      BY <1>6, <2>1, <2>2, <2>3, <3>2, <3>3, <1>2, <1>3 DEF Fated, Later, Own
  <2>4. CASE ~(i - 1 <= lviAddr)
    <3>1. Mixed
      BY <1>2, <1>7, <2>4
    <3>2. addr[i].block = Clean /\ addr[i].of \in mixed
      BY <2>1, <2>4, <3>1 DEF Fated, Mixed
    <3> QED
      BY <1>2, <1>3, <1>6, <2>1, <2>2, <2>4, <3>2 DEF Fated
  <2> QED
    BY <2>3, <2>4
<1>9. ~HasAddress'
  BY <1>6, <1>8 DEF HasAddress
<1> QED
  BY <1>5, <1>6, <1>8, <1>9 DEF Owed

\* What is left to show where neither the addresses nor the parser's block changes.
LEMMA OwedAlone ==
  ASSUME AddressesKept, Parse, UNCHANGED <<tmp, addr, lviAddr>>, ~Between',
         Settling' <=> Settling, ~First("AST")'
  PROVE  Owed'
<1>1. blocks' = blocks /\ mixed' = mixed /\ Owed
  BY EntryRead DEF AddressesKept, ParserTyped, Path
<1>2. HasAddress' <=> HasAddress
  BY <1>1 DEF HasAddress
<1>3. \A i \in 1 .. Len(addr') : Fated(addr[i], i - 1 <= lviAddr)'
  BY <1>1 DEF Owed, Fated, Later, Own
<1> QED
  BY <1>1, <1>2, <1>3 DEF Owed

LEMMA OwedNext ==
  ASSUME AddressesKept, NextOffset
  PROVE  Owed'
<1> DEFINE b == [tmp EXCEPT !.next = Head(log).block]
<1>1. /\ ParserTyped /\ Written /\ Placed /\ Typed /\ TypeOK /\ tmp \in Block /\ Owed
      /\ addr \in Seq(Assertion) /\ lviAddr \in Int /\ lviAddr <= Len(addr) - 1
      /\ Len(addr) \in Nat /\ blocks \in Nat /\ mixed \subseteq 1 .. blocks
  BY DEF AddressesKept, ParserTyped, Typed, Path, TypeOK
<1>2. /\ log # <<>> /\ log' = Tail(log) /\ log \in Seq(Entry) /\ InOrder(log, Mixed)
      /\ blocks' = blocks /\ mixed' = mixed /\ Mixed' = Mixed /\ OfBlock(log, blocks)
  BY <1>1, EntryRead DEF Parse, Written
<1>3. First("NEXT_OFFSET") /\ Settling
  BY DEF NextOffset, Read, First, Settling
<1>4. Head(log).block = blocks /\ tmp.data = blocks /\ (HasAddress => tmp.offset = blocks)
  BY <1>1, <1>2, <1>3, BlockOfTail DEF Owed, First, Carriers
<1>5. b.data = blocks /\ b.next = blocks /\ (HasAddress => b.offset = blocks)
  BY <1>1, <1>4 DEF Block
<1>6. \A i \in 1 .. Len(addr) : Fated(addr[i], i - 1 <= lviAddr)
  BY <1>1 DEF Owed
<1>7. CASE Len(log) # 1
  <2>1. ~Between' /\ Settling' /\ ~First("AST")'
    BY <1>2, <1>3, <1>7, Reading DEF First, Between, Settling
  <2>2. next = 0 /\ state = (IF Mixed THEN "NONE" ELSE "Z3_OFFSET")
    BY <1>1, <1>3, <1>7 DEF Placed
  <2>3. UNCHANGED <<addr, lviAddr>> /\ tmp' \in {tmp, b}
    BY <2>2 DEF NextOffset, parser
  <2> HIDE DEF b
  <2>4. tmp'.data = blocks /\ (HasAddress => tmp'.offset = blocks)
    BY <1>4, <1>5, <2>3
  <2>5. HasAddress' <=> HasAddress
    BY <1>2, <2>3 DEF HasAddress
  <2>6. \A i \in 1 .. Len(addr') : Fated(addr[i], i - 1 <= lviAddr)'
    BY <1>2, <1>6, <2>3 DEF Fated, Later, Own
  <2> QED
    BY <1>2, <2>1, <2>4, <2>5, <2>6 DEF Owed
<1>8. CASE Len(log) = 1
  <2>1. log' = <<>> /\ ~Settling' /\ ~First("AST")' /\ Between'
    BY <1>2, <1>3, <1>8, Reading DEF First, Between, Settling
  <2>2. LastNext
    BY <1>3, <1>8 DEF LastNext
  <2>3. CASE Mixed
    <3>1. UNCHANGED <<addr, lviAddr, tmp>>
      BY <1>1, <2>2, <2>3 DEF Placed, NextOffset, parser
    <3>2. HasAddress' <=> HasAddress
      BY <1>2, <3>1 DEF HasAddress
    <3>3. \A i \in 1 .. Len(addr') : Fated(addr[i], i - 1 <= lviAddr)'
      BY <1>2, <1>6, <3>1 DEF Fated, Later, Own
    <3> QED
      BY <1>2, <1>4, <2>1, <2>3, <3>1, <3>2, <3>3 DEF Owed
  <2>4. CASE ~Mixed
    <3>1. state = "Z3_OFFSET" /\ next = 1
      BY <1>1, <2>2, <2>4 DEF Placed
    <3>2. Annotate(b)
      BY <3>1 DEF NextOffset
    <3> HIDE DEF b
    <3>3. /\ addr' = Annotated(addr, {i \in 1 .. Len(addr) : i - 1 >= FirstNewAddr}, b)
          /\ lviAddr' = Len(addr) - 1 /\ tmp' = Clean
      BY <3>2 DEF Annotate, LastIndex
    <3>4. /\ Len(addr') = Len(addr)
          /\ \A i \in 1 .. Len(addr) :
               addr'[i] = IF i - 1 >= FirstNewAddr THEN [addr[i] EXCEPT !.block = b] ELSE addr[i]
      BY <1>1, <3>3 DEF Annotated
    <3>5. ASSUME NEW i \in 1 .. Len(addr)
          PROVE  Fated(addr[i], TRUE)'
      <4>1. addr[i] \in [of : 1 .. MaxBlocks, block : Block]
        <5>1. Assertion = [of : 1 .. MaxBlocks, block : Block]
          BY DEF Assertion, Block
        <5>2. addr[i] \in Assertion
          BY <1>1, Elements, Zenon
        <5> QED
          BY <5>1, <5>2
      <4>2. Fated(addr[i], i - 1 <= lviAddr)
        BY <1>6
      <4>3. CASE i - 1 <= lviAddr
        <5>1. ~(i - 1 >= FirstNewAddr)
          BY <1>1, <4>3 DEF FirstNewAddr
        <5>2. addr'[i] = addr[i]
          BY <3>4, <5>1
        <5> QED
          BY <1>2, <4>2, <4>3, <5>2 DEF Fated, Later, Own
      <4>4. CASE ~(i - 1 <= lviAddr)
        <5>1. i - 1 >= FirstNewAddr
          BY <1>1, <4>4 DEF FirstNewAddr
        <5>2. addr'[i] = [addr[i] EXCEPT !.block = b] /\ addr[i].of \in mixed \cup {blocks}
              /\ addr[i].of \in 1 .. blocks
          BY <3>4, <4>2, <4>4, <5>1 DEF Fated
        <5>3. addr'[i].of = addr[i].of /\ addr'[i].block = b
          BY <4>1, <5>2
        <5>4. CASE addr[i].of \in mixed
          <6>1. addr[i].of < blocks
            BY <1>1, <2>4, <5>2, <5>4 DEF Mixed
          <6>2. Later(addr'[i])
            BY <1>5, <5>3, <6>1 DEF Later
          <6> QED
            BY <1>2, <5>2, <5>3, <5>4, <6>2 DEF Fated, Later
        <5>5. CASE addr[i].of \notin mixed
          <6>1. addr[i].of = blocks /\ HasAddress
            BY <5>2, <5>5 DEF HasAddress
          <6>2. Own(addr'[i])
            BY <1>5, <5>3, <6>1 DEF Own
          <6> QED
            BY <1>2, <5>2, <5>3, <5>5, <6>2 DEF Fated, Own
        <5> QED
          BY <5>4, <5>5
      <4> QED
        BY <4>3, <4>4
    <3>6. \A i \in 1 .. Len(addr') : Fated(addr[i], i - 1 <= lviAddr)'
      <4> SUFFICES ASSUME NEW i \in 1 .. Len(addr) PROVE Fated(addr[i], i - 1 <= lviAddr)'
        BY <3>4
      <4>1. i - 1 <= lviAddr'
        BY <1>1, <3>3
      <4>2. Fated(addr[i], TRUE)'
        BY <3>5
      <4> QED
        BY <4>1, <4>2 DEF Fated
    <3>7. tmp'.offset = 0 /\ lviAddr' = Len(addr') - 1
      BY <3>3, <3>4 DEF Clean
    <3> QED
      BY <2>1, <3>6, <3>7 DEF Owed
  <2> QED
    BY <2>3, <2>4
<1> QED
  BY <1>7, <1>8

LEMMA OwedEntry ==
  ASSUME AddressesKept, Parse
  PROVE  Owed'
<1>1. /\ ParserTyped /\ Written /\ Placed /\ Typed /\ TypeOK /\ tmp \in Block /\ Owed
      /\ addr \in Seq(Assertion) /\ lviAddr \in Int /\ lviAddr <= Len(addr) - 1
      /\ Len(addr) \in Nat /\ blocks \in Nat
  BY DEF AddressesKept, ParserTyped, Typed, Path, TypeOK
<1>2. /\ log # <<>> /\ log' = Tail(log) /\ log \in Seq(Entry) /\ InOrder(log, Mixed)
      /\ blocks' = blocks /\ mixed' = mixed /\ Mixed' = Mixed /\ OfBlock(log, blocks)
  BY <1>1, EntryRead DEF Written
<1>3. Head(log).type \in Carriers => Head(log).block = blocks
  BY <1>2, BlockOfTail
<1>4. /\ First("REGISTERS") => log' = <<>>
      /\ First("Z3_MODULE") \/ First("SYMBOLIC") \/ First("AST") \/ First("MODULE") =>
           ~Between' /\ ~Settling'
      /\ First("Z3_MODULE") \/ First("AST") \/ First("MODULE") => ~First("AST")'
      /\ First("OFFSET") \/ First("NEXT_MODULE") =>
           ~Between' /\ Settling' /\ ~First("AST")'
  BY <1>2, Reading DEF First, Between, Settling, AfterAst
<1>5. ASSUME UNCHANGED <<addr, lviAddr>>
      PROVE  /\ HasAddress' <=> HasAddress
             /\ \A i \in 1 .. Len(addr') : Fated(addr[i], i - 1 <= lviAddr)'
  BY <1>1, <1>2, <1>5 DEF Owed, Fated, Later, Own, HasAddress
<1>6. CASE HandleRegisters
  <2>1. First("REGISTERS") /\ UNCHANGED <<tmp, addr, lviAddr>>
    BY <1>6 DEF HandleRegisters, Read, First
  <2>2. log' = <<>> /\ Between /\ ~Settling
    BY <1>4, <2>1 DEF Between, Settling, First
  <2>3. ~Settling' /\ ~First("AST")'
    BY <2>2 DEF Settling, First
  <2>4. Mixed' \/ lviAddr' = Len(addr') - 1
    BY <1>1, <1>2, <2>1, <2>2 DEF Owed
  <2>5. HasAddress => tmp.offset \in {0, blocks}
    BY <1>1, <2>2 DEF Owed
  <2> QED
    BY <1>2, <1>5, <2>1, <2>3, <2>4, <2>5 DEF Owed
<1>7. CASE BasicBlockModule \/ Z3Module
  <2>1. First("MODULE") \/ First("Z3_MODULE")
    BY <1>7 DEF BasicBlockModule, Z3Module, Read, First
  <2>2. UNCHANGED <<tmp, addr, lviAddr>>
    BY <1>7 DEF BasicBlockModule, Z3Module, Break
  <2>3. ~Settling
    BY <2>1 DEF Settling, First
  <2> QED
    BY <1>4, <2>1, <2>2, <2>3, OwedAlone
<1>8. CASE BasicBlockOffset
  <2>1. First("OFFSET") /\ ~Settling
    BY <1>8 DEF BasicBlockOffset, Read, First, Settling
  <2>2. /\ UNCHANGED <<addr, lviAddr>>
        /\ tmp' = [tmp EXCEPT !.offset = IF @ = 0 THEN Head(log).block ELSE @,
                              !.data = Head(log).block, !.frame = GetLastCallFrame]
    BY <1>8 DEF BasicBlockOffset
  <2>3. Head(log).block = blocks
    BY <1>3, <2>1 DEF First, Carriers
  <2>4. HasAddress => tmp.offset \in {0, blocks}
    BY <1>1, <2>1 DEF Owed
  <2>5. tmp'.data = blocks /\ (HasAddress => tmp'.offset = blocks)
    BY <1>1, <2>2, <2>3, <2>4 DEF Block
  <2> QED
    BY <1>2, <1>4, <1>5, <2>1, <2>2, <2>5 DEF Owed
<1>9. CASE NextOffset
  BY <1>9, OwedNext
<1>10. CASE NextModule
  <2>1. First("NEXT_MODULE") /\ UNCHANGED <<tmp, addr, lviAddr>> /\ Settling
    BY <1>10 DEF NextModule, Read, First, Break, parser, Settling
  <2> QED
    BY <1>4, <2>1, OwedAlone
<1>11. CASE Z3Symbolic
  <2>1. First("SYMBOLIC") /\ UNCHANGED <<addr, lviAddr>> /\ ~Settling
    BY <1>11 DEF Z3Symbolic, Read, First, Break, Settling
  <2>2. Head(log).block = blocks
    BY <1>3, <2>1 DEF First, Carriers
  <2>3. state \in {"NONE", "Z3_MODULE", "Z3_AST"}
    BY <1>1, <2>1 DEF Placed
  <2> DEFINE cleaned == IF state = "Z3_AST" THEN Clean ELSE tmp
  <2>4. /\ tmp' = IF Head(log).kind = "addr" THEN [cleaned EXCEPT !.offset = Head(log).block]
                                              ELSE cleaned
        /\ kind' = Head(log)
    BY <1>11, <2>3 DEF Z3Symbolic
  <2>5. cleaned \in Block /\ (HasAddress => cleaned.offset \in {0, blocks})
    BY <1>1, <2>1, ParserAssumption DEF Owed, Clean, Block
  <2> HIDE DEF cleaned
  <2>6. HasAddress \/ kind'.kind = "addr" => tmp'.offset \in {0, blocks}
    <3>1. CASE Head(log).kind = "addr"
      BY <2>2, <2>4, <2>5, <3>1 DEF Block
    <3>2. CASE Head(log).kind # "addr"
      BY <2>4, <2>5, <3>2
    <3> QED
      BY <3>1, <3>2
  <2> QED
    BY <1>2, <1>4, <1>5, <2>1, <2>6 DEF Owed
<1>12. CASE Z3Ast
  <2> DEFINE new == [of |-> kind.block, block |-> Clean]
  <2>1. First("AST") /\ UNCHANGED <<tmp, lviAddr>> /\ ~Settling
    BY <1>12 DEF Z3Ast, Read, First, Break, Settling
  <2>2. kind.block = blocks /\ state = "Z3_SYMBOLIC_OBJECT" /\ blocks \in 1 .. blocks
    BY <1>1, <2>1 DEF Typed, Placed, Between, First
  <2>3. addr' = IF kind.kind = "addr" THEN Append(addr, new) ELSE addr
    BY <1>12, <2>2 DEF Z3Ast
  <2>4. new.of = blocks /\ new.block = Clean
    BY <2>2
  <2>5. HasAddress \/ kind.kind = "addr" => tmp'.offset \in {0, blocks}
    BY <1>1, <2>1 DEF Owed
  <2> HIDE DEF new
  <2>6. CASE kind.kind # "addr"
    <3>1. addr' = addr
      BY <2>3, <2>6
    <3> QED
      BY <1>2, <1>4, <1>5, <2>1, <2>5, <3>1 DEF Owed
  <2>7. CASE kind.kind = "addr"
    <3>1. /\ Len(addr') = Len(addr) + 1 /\ addr'[Len(addr) + 1] = new
          /\ \A i \in 1 .. Len(addr) : addr'[i] = addr[i]
      BY <1>1, <2>3, <2>7
    <3>2. ASSUME NEW i \in 1 .. Len(addr')
          PROVE  Fated(addr[i], i - 1 <= lviAddr)'
      <4>1. CASE i \in 1 .. Len(addr)
        <5>1. Fated(addr[i], i - 1 <= lviAddr)
          BY <1>1, <4>1 DEF Owed
        <5>2. addr'[i] = addr[i] /\ lviAddr' = lviAddr
          BY <2>1, <3>1, <4>1
        <5> QED
          BY <1>2, <5>1, <5>2 DEF Fated, Later, Own
      <4>2. CASE i = Len(addr) + 1
        <5>1. ~(i - 1 <= lviAddr')
          BY <1>1, <2>1, <4>2
        <5> QED
          BY <1>2, <2>2, <2>4, <3>1, <4>2, <5>1 DEF Fated
      <4> QED
        BY <1>1, <3>1, <4>1, <4>2
    <3> QED
      BY <1>2, <1>4, <2>1, <2>5, <2>7, <3>2 DEF Owed
  <2> QED
    BY <2>6, <2>7
<1> QED
  BY <1>6, <1>7, <1>8, <1>9, <1>10, <1>11, <1>12 DEF Parse

LEMMA OwedStep == AddressesKept /\ [Next]_vars => Owed'
<1> SUFFICES ASSUME AddressesKept, [Next]_vars PROVE Owed'
  OBVIOUS
<1>1. CASE UNCHANGED vars
  BY <1>1 DEF AddressesKept, vars, parser, program, Owed, Fated, Own, Later, Mixed, Settling,
              HasAddress, Between, First
<1> QED
  BY <1>1, OwedBlock, OwedEntry DEF Next

LEMMA AddressesFirst == Init => AddressesKept
<1> SUFFICES ASSUME Init PROVE AddressesKept
  OBVIOUS
<1>1. ParserTyped
  BY PathFirst, TypedFirst DEF ParserTyped
<1>2. First("REGISTERS") /\ addr = <<>> /\ lviAddr = -1 /\ tmp = Clean
  BY DEF Init, First
<1>3. ~Settling /\ ~First("AST") /\ ~HasAddress /\ Len(addr) = 0
  BY <1>2 DEF Settling, First, HasAddress
<1> QED
  BY <1>1, <1>2, <1>3 DEF AddressesKept, Owed

\* Every symbolic address is annotated with the block it came with, however many come
\* with it and whatever comes later; if that block began with its module, with a later
\* block, or none.  So no such block harms the addresses of another.
THEOREM AddressesAreAnnotated == Spec => []AddressesAnnotated
<1>1. AddressesKept /\ [Next]_vars => AddressesKept'
  BY OwedStep, TypedStep DEF AddressesKept
<1>2. AddressesKept => AddressesAnnotated
  <2> SUFFICES ASSUME AddressesKept, Settled, NEW i \in 1 .. Len(addr)
               PROVE  IF addr[i].of \in mixed THEN Later(addr[i]) ELSE Own(addr[i])
    BY DEF AddressesAnnotated
  <2>1. Mixed \/ lviAddr = Len(addr) - 1
    BY DEF AddressesKept, Owed, Settled, Between
  <2>2. Len(addr) \in Nat /\ lviAddr \in Int
    BY DEF AddressesKept, ParserTyped, Typed, TypeOK
  <2>3. Fated(addr[i], i - 1 <= lviAddr)
    BY DEF AddressesKept, Owed
  <2>4. CASE i - 1 <= lviAddr
    BY <2>3, <2>4 DEF Fated
  <2>5. CASE ~(i - 1 <= lviAddr)
    <3>1. Mixed
      BY <2>1, <2>2, <2>5
    <3>2. addr[i].block = Clean /\ addr[i].of \in mixed
      BY <2>3, <2>5, <3>1 DEF Fated, Mixed
    <3> QED
      BY <3>2 DEF Later
  <2> QED
    BY <2>4, <2>5
<1> QED
  BY <1>1, <1>2, AddressesFirst, PTL DEF Spec

-----------------------------------------------------------------------------
(* The blocks' return addresses.                                            *)

OffsetComes == \E i \in 1 .. Len(log) : log[i].type = "OFFSET"

\* The frames the addresses as have are those that n blocks began with, at h.
FramesKnown(as, n, h) ==
  \A i \in 1 .. Len(as) :
    as[i].block # Clean => /\ as[i].block.data \in 1 .. n
                           /\ as[i].block.frame = h[as[i].block.data]

\* The return address a block began with is the parser's last active call until the
\* block's offset is read, then that of the parser's block, and in the end that of the
\* addresses it annotates.
Homed ==
  /\ home \in Seq(Int) /\ Len(home) = blocks
  /\ OffsetComes => GetLastCallFrame = home[blocks]
  /\ Settling => tmp.frame = home[blocks]
  /\ FramesKnown(addr, blocks, home)

ParserKept == AddressesKept /\ CallsKept

LEMMA HomedBlock ==
  ASSUME ParserKept, Homed, RunBlock, home' = Append(home, Last(frames))
  PROVE  Homed'
<1>1. /\ ParserTyped /\ Written /\ Typed /\ TypeOK /\ Owed /\ Behind
      /\ home \in Seq(Int) /\ Len(home) = blocks
  BY DEF ParserKept, AddressesKept, ParserTyped, Typed, CallsKept, Homed
<1>2. log = <<>> /\ blocks' = blocks + 1 /\ UNCHANGED parser
  BY <1>1, BlockWritten
<1>3. log' # <<>> /\ Head(log').type \in {"Z3_MODULE", "SYMBOLIC", "MODULE", "OFFSET"}
  BY <1>1, BlockWritten DEF BeginsBlock
<1>4. frames \in Seq(Int) /\ frames # <<>> /\ callStack = frames
  BY <1>1, <1>2 DEF Written, Behind, First
<1>5. Last(frames) \in Int /\ GetLastCallFrame' = Last(frames)
  BY <1>2, <1>4 DEF Last, GetLastCallFrame, parser
<1> DEFINE e == Last(frames)
<1> HIDE DEF e
<1>6. /\ home' \in Seq(Int) /\ Len(home') = blocks'
      /\ home'[blocks'] = e
      /\ \A b \in 1 .. blocks : home'[b] = home[b]
  <2>1. home' = Append(home, e) /\ e \in Int
    BY <1>5 DEF e
  <2> QED
    BY <1>1, <1>2, <2>1
<1>7. blocks \in Nat
  BY <1>1 DEF TypeOK, Written
<1>8. FramesKnown(addr', blocks', home')
  <2>1. addr' = addr /\ blocks' = blocks + 1
    BY <1>2 DEF parser
  <2>2. FramesKnown(addr, blocks, home)
    BY DEF Homed
  <2> QED
    BY <1>6, <1>7, <2>1, <2>2 DEF FramesKnown
<1>9. ~Settling'
  BY <1>3 DEF Settling, First
<1>10. GetLastCallFrame' = home'[blocks']
  BY <1>5, <1>6 DEF e
<1> QED
  BY <1>6, <1>8, <1>9, <1>10 DEF Homed

LEMMA HomedEntry ==
  ASSUME ParserKept, Homed, Parse, home' = home
  PROVE  Homed'
<1>1. /\ ParserTyped /\ Written /\ Placed /\ Typed /\ TypeOK /\ tmp \in Block /\ Owed
      /\ home \in Seq(Int) /\ Len(home) = blocks
      /\ addr \in Seq(Assertion) /\ lviAddr \in Int /\ lviAddr <= Len(addr) - 1
      /\ Len(addr) \in Nat /\ blocks \in Nat
  BY DEF ParserKept, AddressesKept, ParserTyped, Typed, Path, Homed, TypeOK
<1>2. /\ log # <<>> /\ log' = Tail(log) /\ log \in Seq(Entry) /\ InOrder(log, Mixed)
      /\ blocks' = blocks /\ OfBlock(log, blocks)
  BY <1>1, EntryRead DEF Written, Typed
<1>3. FramesKnown(addr, blocks, home)
  BY DEF Homed
<1>4. /\ First("REGISTERS") => log' = <<>>
      /\ First("Z3_MODULE") \/ First("SYMBOLIC") \/ First("AST") \/ First("MODULE") =>
           ~Settling'
      /\ First("NEXT_OFFSET") /\ Len(log) = 1 => log' = <<>>
  BY <1>2, Reading DEF First, Settling, AfterAst
<1>5. ASSUME ~First("OFFSET"), ~First("REGISTERS"), callStack' = callStack
      PROVE  OffsetComes' => GetLastCallFrame' = home[blocks]
  <2>1. /\ \A i \in 1 .. Len(log') : i + 1 \in 1 .. Len(log) /\ log'[i] = log[i + 1]
    BY <1>2, <1>5, SameOffsets DEF First
  <2>2. OffsetComes' => OffsetComes
    BY <2>1 DEF OffsetComes
  <2>3. GetLastCallFrame' = GetLastCallFrame
    BY <1>5 DEF GetLastCallFrame
  <2> QED
    BY <2>2, <2>3 DEF Homed
<1>6. log' = <<>> => ~OffsetComes' /\ ~Settling'
  <2>1. log' = <<>> => Len(log') = 0
    OBVIOUS
  <2> QED
    BY <2>1 DEF OffsetComes, First, Settling
<1> DEFINE Kept == /\ FramesKnown(addr', blocks, home)
                   /\ OffsetComes' => GetLastCallFrame' = home[blocks]
                   /\ Settling' => tmp'.frame = home[blocks]
<1>14. Kept => Homed'
  BY <1>1, <1>2 DEF Homed
<1>7. CASE HandleRegisters
  <2>1. First("REGISTERS") /\ UNCHANGED <<tmp, addr, lviAddr>>
    BY <1>7 DEF HandleRegisters, Read, First
  <2> QED
    BY <1>1, <1>2, <1>3, <1>4, <1>6, <2>1 DEF Homed
<1>8. CASE BasicBlockModule \/ Z3Module
  <2>1. First("MODULE") \/ First("Z3_MODULE")
    BY <1>8 DEF BasicBlockModule, Z3Module, Read, First
  <2>2. UNCHANGED <<addr, lviAddr, callStack>>
    BY <1>8 DEF BasicBlockModule, Z3Module, Break
  <2>3. OffsetComes' => GetLastCallFrame' = home[blocks]
    BY <1>5, <2>1, <2>2 DEF First
  <2> QED
    BY <1>1, <1>2, <1>3, <1>4, <2>1, <2>2, <2>3 DEF Homed
<1>9. CASE BasicBlockOffset
  <2>1. First("OFFSET") /\ UNCHANGED <<addr, lviAddr>>
    BY <1>9 DEF BasicBlockOffset, Read, First
  <2>2. tmp' = [tmp EXCEPT !.offset = IF @ = 0 THEN Head(log).block ELSE @,
                           !.data = Head(log).block, !.frame = GetLastCallFrame]
    BY <1>9 DEF BasicBlockOffset
  <2>3. Head(log) = log[1] /\ 1 \in 1 .. Len(log)
    BY <1>2
  <2>4. GetLastCallFrame = home[blocks]
    BY <2>1, <2>3 DEF Homed, OffsetComes, First
  <2>5. tmp'.frame = home[blocks]
    BY <1>1, <2>2, <2>4 DEF Block
  <2>6. ~OffsetComes'
    BY <1>2, <2>1, OneOffset DEF OffsetComes, First
  <2> QED
    BY <1>1, <1>2, <1>3, <2>1, <2>5, <2>6 DEF Homed
<1>10. CASE NextOffset
  <2> DEFINE b == [tmp EXCEPT !.next = Head(log).block]
  <2>1. First("NEXT_OFFSET") /\ Settling /\ tmp.frame = home[blocks] /\ tmp.data = blocks
    BY <1>1, <1>10 DEF NextOffset, Read, First, Settling, Homed, Owed
  <2>2. b.frame = home[blocks] /\ b.data = blocks /\ blocks \in 1 .. blocks
    BY <1>1, <2>1 DEF Block, Between, First, Typed
  <2>3. OffsetComes' => GetLastCallFrame' = home[blocks]
    <3>1. callStack' = callStack
      BY <1>10 DEF NextOffset, parser, Break
    <3> QED
      BY <1>5, <2>1, <3>1 DEF First
  <2>4. CASE UNCHANGED <<addr, lviAddr>> /\ tmp' \in {tmp, b}
    <3> HIDE DEF b
    <3>1. tmp'.frame = home[blocks]
      BY <2>1, <2>2, <2>4
    <3> QED
      BY <1>1, <1>2, <1>3, <2>3, <2>4, <3>1 DEF Homed
  <2>5. CASE Annotate(b) /\ next = 1
    <3> HIDE DEF b
    <3>1. addr' = Annotated(addr, {i \in 1 .. Len(addr) : i - 1 >= FirstNewAddr}, b)
      BY <2>5 DEF Annotate
    <3>2. /\ Len(addr') = Len(addr)
          /\ \A i \in 1 .. Len(addr) :
               addr'[i] = IF i - 1 >= FirstNewAddr THEN [addr[i] EXCEPT !.block = b] ELSE addr[i]
      BY <1>1, <3>1 DEF Annotated
    <3>3. ASSUME NEW i \in 1 .. Len(addr)
          PROVE  addr'[i].block = b \/ addr'[i] = addr[i]
      <4>1. addr[i] \in [of : 1 .. MaxBlocks, block : Block]
        <5>1. Assertion = [of : 1 .. MaxBlocks, block : Block]
          BY DEF Assertion, Block
        <5>2. addr[i] \in Assertion
          BY <1>1, Elements, Zenon
        <5> QED
          BY <5>1, <5>2
      <4>2. addr'[i] = addr[i] \/ addr'[i] = [addr[i] EXCEPT !.block = b]
        BY <3>2
      <4> QED
        BY <4>1, <4>2
    <3>4. FramesKnown(addr', blocks, home)
      BY <1>3, <2>2, <3>2, <3>3 DEF FramesKnown
    <3>5. log' = <<>>
      <4>1. Len(log) # 1 => next = 0
        BY <1>1, <2>1 DEF Placed
      <4> QED
        BY <1>2, <1>4, <2>1, <2>5, <4>1
    <3> QED
      BY <1>1, <1>2, <1>6, <3>4, <3>5 DEF Homed
  <2>6. CASE UNCHANGED parser \/ Break
    BY <2>4, <2>6 DEF parser, Break
  <2> QED
    BY <1>10, <2>4, <2>5, <2>6 DEF NextOffset
<1>11. CASE NextModule
  <2>1. First("NEXT_MODULE") /\ UNCHANGED <<tmp, addr, lviAddr, callStack>>
    BY <1>11 DEF NextModule, Read, First, Break, parser
  <2>2. OffsetComes' => GetLastCallFrame' = home[blocks]
    BY <1>5, <2>1 DEF First
  <2>3. tmp'.frame = home[blocks]
    BY <2>1 DEF Homed, Settling
  <2> QED
    BY <1>1, <1>2, <1>3, <2>1, <2>2, <2>3 DEF Homed
<1>12. CASE Z3Symbolic
  <2>1. First("SYMBOLIC") /\ UNCHANGED <<addr, lviAddr, callStack>>
    BY <1>12 DEF Z3Symbolic, Read, First, Break
  <2>2. OffsetComes' => GetLastCallFrame' = home[blocks]
    BY <1>5, <2>1 DEF First
  <2> QED
    BY <1>1, <1>2, <1>3, <1>4, <2>1, <2>2 DEF Homed
<1>13. CASE Z3Ast
  <2> DEFINE new == [of |-> kind.block, block |-> Clean]
  <2>1. First("AST") /\ UNCHANGED <<tmp, lviAddr, callStack>>
    BY <1>13 DEF Z3Ast, Read, First, Break
  <2>2. kind.block = blocks /\ state = "Z3_SYMBOLIC_OBJECT" /\ blocks > 0
    BY <1>1, <2>1 DEF Typed, Placed, Between, First
  <2>3. addr' = addr \/ addr' = Append(addr, new)
    BY <1>13, <2>2 DEF Z3Ast
  <2>4. new.of = blocks /\ new.block = Clean
    BY <2>2
  <2> HIDE DEF new
  <2>5. FramesKnown(addr', blocks, home)
    <3>1. CASE addr' = addr
      BY <1>3, <3>1
    <3>2. CASE addr' = Append(addr, new)
      <4>1. /\ Len(addr') = Len(addr) + 1 /\ addr'[Len(addr) + 1] = new
            /\ \A i \in 1 .. Len(addr) : addr'[i] = addr[i]
        BY <1>1, <3>2
      <4>2. \A i \in 1 .. Len(addr') : i \in 1 .. Len(addr) \/ i = Len(addr) + 1
        BY <1>1, <4>1
      <4> QED
        BY <1>3, <2>4, <4>1, <4>2 DEF FramesKnown
    <3> QED
      BY <2>3, <3>1, <3>2
  <2>6. OffsetComes' => GetLastCallFrame' = home[blocks]
    BY <1>5, <2>1 DEF First
  <2> QED
    BY <1>1, <1>2, <1>4, <2>1, <2>5, <2>6 DEF Homed
<1> QED
  BY <1>7, <1>8, <1>9, <1>10, <1>11, <1>12, <1>13 DEF Parse

-----------------------------------------------------------------------------
(* The optimizer.                                                           *)

Goal(objective) == [holds |-> Solution, objective |-> objective]
Asked(f) == <<Frame, [holds |-> Graph(f), objective |-> "none"]>>
Sought(f, objective) == <<Frame, [holds |-> Graph(f), objective |-> "none"], Goal(objective)>>

LEMMA Appended ==
  ASSUME NEW S, NEW s \in Seq(S), NEW e \in S
  PROVE  /\ Append(s, e) \in Seq(S) /\ Len(Append(s, e)) = Len(s) + 1
         /\ \A i \in 1 .. Len(s) : Append(s, e)[i] = s[i]
         /\ Append(s, e)[Len(s) + 1] = e
  OBVIOUS

LEMMA PopPushed ==
  ASSUME NEW S, NEW s \in Seq(S), NEW e \in S
  PROVE  OptimizePop(Append(s, e)) = s
<1> DEFINE t == Append(s, e)
<1>1. t \in Seq(S) /\ Len(t) = Len(s) + 1 /\ \A i \in 1 .. Len(s) : t[i] = s[i]
  OBVIOUS
<1> HIDE DEF t
<1>2. Len(s) \in Nat /\ Len(t) - 1 = Len(s) /\ Len(s) <= Len(t)
  BY <1>1
<1>3. /\ SubSeq(t, 1, Len(s)) \in Seq(S) /\ Len(SubSeq(t, 1, Len(s))) = Len(s)
      /\ \A i \in 1 .. Len(s) : SubSeq(t, 1, Len(s))[i] = t[i]
  BY <1>1, <1>2
<1> DEFINE u == SubSeq(t, 1, Len(s))
<1>4. u \in Seq(S) /\ Len(u) = Len(s) /\ \A i \in 1 .. Len(u) : u[i] = s[i]
  BY <1>1, <1>3
<1> HIDE DEF u
<1>5. u = s
  BY <1>4, SeqEqual, Zenon
<1> QED
  BY <1>2, <1>5 DEF OptimizePop, Front, t, u

LEMMA Pushed ==
  ASSUME NEW a, NEW b, NEW c
  PROVE  Append(<<a>>, b) = <<a, b>> /\ Append(<<a, b>>, c) = <<a, b, c>>
<1> DEFINE S == {a, b, c}
           p == <<a>>
           q == <<a, b>>
           r == <<a, b, c>>
<1>1. /\ p \in Seq(S) /\ Len(p) = 1 /\ p[1] = a
      /\ q \in Seq(S) /\ Len(q) = 2 /\ q[1] = a /\ q[2] = b
      /\ r \in Seq(S) /\ Len(r) = 3 /\ r[1] = a /\ r[2] = b /\ r[3] = c
  OBVIOUS
<1>2. b \in S /\ c \in S
  OBVIOUS
<1> HIDE DEF S, p, q, r
<1> DEFINE t == Append(p, b)
           u == Append(q, c)
<1>3. t \in Seq(S) /\ Len(t) = Len(q) /\ \A i \in 1 .. Len(t) : t[i] = q[i]
  <2>1. p \in Seq(S) /\ b \in S
    BY <1>1, <1>2
  <2>2. /\ t \in Seq(S) /\ Len(t) = Len(p) + 1
        /\ \A i \in 1 .. Len(p) : t[i] = p[i]
        /\ t[Len(p) + 1] = b
    BY <2>1, Appended, Zenon
  <2> HIDE DEF t
  <2>3. Len(t) = 2 /\ t[1] = a /\ t[2] = b
    BY <1>1, <2>2
  <2> QED
    BY <1>1, <2>2, <2>3
<1>4. u \in Seq(S) /\ Len(u) = Len(r) /\ \A i \in 1 .. Len(u) : u[i] = r[i]
  <2>1. q \in Seq(S) /\ c \in S
    BY <1>1, <1>2
  <2>2. /\ u \in Seq(S) /\ Len(u) = Len(q) + 1
        /\ \A i \in 1 .. Len(q) : u[i] = q[i]
        /\ u[Len(q) + 1] = c
    BY <2>1, Appended, Zenon
  <2> HIDE DEF u
  <2>3. Len(u) = 3 /\ u[1] = a /\ u[2] = b /\ u[3] = c
    BY <1>1, <2>2
  <2> QED
    BY <1>1, <2>2, <2>3
<1> HIDE DEF t, u
<1>5. t = q /\ u = r
  BY <1>1, <1>3, <1>4, SeqEqual, Zenon
<1> QED
  BY <1>5 DEF p, q, r, t, u

LEMMA PopTwo ==
  ASSUME NEW a, NEW b
  PROVE  OptimizePop(<<a, b>>) = <<a>>
<1>1. <<a>> \in Seq({a, b}) /\ b \in {a, b}
  OBVIOUS
<1>2. OptimizePop(Append(<<a>>, b)) = <<a>>
  BY <1>1, PopPushed, Zenon
<1>3. Append(<<a>>, b) = <<a, b>>
  BY Pushed, Zenon
<1> QED
  BY <1>2, <1>3

LEMMA PopThree ==
  ASSUME NEW a, NEW b, NEW c
  PROVE  OptimizePop(<<a, b, c>>) = <<a, b>>
<1>1. <<a, b>> \in Seq({a, b, c}) /\ c \in {a, b, c}
  OBVIOUS
<1> QED
  BY <1>1, PopPushed, Pushed, Zenon

LEMMA GraphSolves ==
  ASSUME NEW f \in Formula
  PROVE  /\ Graph(f) \subseteq Solution
         /\ \A x \in Graph(f) : \E i \in Input : x.address = f[i]
         /\ \A i \in Input : \E x \in Graph(f) : x.address = f[i]
         /\ \A x \in Graph(f) : x.address \in Nat
<1>1. \A i \in Input : f[i] \in Nat
  BY SanitizerAssumption
<1>2. \A i \in Input : [input |-> i, address |-> f[i]] \in Solution
  BY DEF Solution
<1>3. \A i \in Input : [input |-> i, address |-> f[i]] \in Graph(f)
  BY DEF Graph
<1>4. \A x \in Graph(f) : \E i \in Input : x = [input |-> i, address |-> f[i]]
  BY DEF Graph
<1>5. ASSUME NEW x \in Graph(f)
      PROVE  x \in Solution /\ x.address \in Nat /\ \E i \in Input : x.address = f[i]
  <2>1. PICK i \in Input : x = [input |-> i, address |-> f[i]]
    BY <1>4
  <2> QED
    BY <1>1, <1>2, <2>1
<1>6. ASSUME NEW i \in Input
      PROVE  \E x \in Graph(f) : x.address = f[i]
  BY <1>3
<1> QED
  BY <1>5, <1>6

LEMMA AskedFor ==
  ASSUME NEW f \in Formula, opt = <<Frame>>
  PROVE  Asserted(OptimizePush(opt), Graph(f)) = Asked(f)
<1>1. Solution \cap Graph(f) = Graph(f)
  BY GraphSolves
<1> DEFINE g == [holds |-> Graph(f), objective |-> "none"]
<1>2. [Frame EXCEPT !.holds = @ \cap Graph(f)] = g
  <2>1. \A v : [Frame EXCEPT !.holds = v] = [holds |-> v, objective |-> "none"]
    BY DEF Frame
  <2>2. Frame.holds = Solution
    BY DEF Frame
  <2> QED
    BY <1>1, <2>1, <2>2
<1>3. OptimizePush(opt) = <<Frame, Frame>>
  BY Pushed DEF OptimizePush
<1>4. [<<Frame, Frame>> EXCEPT ![2].holds = @ \cap Graph(f)]
        = <<Frame, [Frame EXCEPT !.holds = @ \cap Graph(f)]>>
  OBVIOUS
<1> QED
  BY <1>2, <1>3, <1>4 DEF Asserted, Asked

LEMMA SoughtAbove ==
  ASSUME NEW f \in Formula, NEW objective
  PROVE  /\ Optimize(OptimizePush(Asked(f)), objective) = Sought(f, objective)
         /\ OptimizePop(Sought(f, objective)) = Asked(f)
         /\ OptimizePop(Asked(f)) = <<Frame>>
<1> DEFINE g == [holds |-> Graph(f), objective |-> "none"]
<1>1. OptimizePush(Asked(f)) = <<Frame, g, Frame>>
  BY Pushed DEF OptimizePush, Asked
<1>2. [Frame EXCEPT !.objective = objective] = Goal(objective)
  BY DEF Frame, Goal
<1>3. [<<Frame, g, Frame>> EXCEPT ![3].objective = objective]
        = <<Frame, g, [Frame EXCEPT !.objective = objective]>>
  OBVIOUS
<1>4. Optimize(OptimizePush(Asked(f)), objective) = Sought(f, objective)
  BY <1>1, <1>2, <1>3 DEF Optimize, Sought
<1> QED
  BY <1>4, PopTwo, PopThree DEF Sought, Asked

\* A model of an objective is a best solution of the formula.
LEMMA BestModels ==
  ASSUME NEW f \in Formula, NEW objective \in {"max", "min"}, NEW x \in Models(Sought(f, objective))
  PROVE  /\ x \in Graph(f)
         /\ \A y \in Graph(f) : IF objective = "max" THEN x.address >= y.address
                                                     ELSE x.address <= y.address
<1> DEFINE s == Sought(f, objective)
<1>1. /\ DOMAIN s = 1 .. 3 /\ s[1].objective = "none" /\ s[2].objective = "none"
      /\ s[3].objective = objective
      /\ s[1].holds = Solution /\ s[2].holds = Graph(f) /\ s[3].holds = Solution
  BY DEF Sought, Goal, Frame
<1> HIDE DEF s
<1>2. Feasible(s) = Graph(f)
  BY <1>1, GraphSolves DEF Feasible
<1>3. 3 \in DOMAIN s /\ s[3].objective # "none" /\ \A j \in 1 .. 3 - 1 : s[j].objective = "none"
  BY <1>1
<1>4. x \in Models(s)
  BY DEF s
<1> QED
  BY <1>1, <1>2, <1>3, <1>4 DEF Models

Limits(f, low, high) ==
  /\ \E i \in Input : f[i] = low
  /\ \E i \in Input : f[i] = high
  /\ \A i \in Input : low <= f[i] /\ f[i] <= high

\* solve leaves the least and the greatest value of the formula, and the optimizer
\* as it was.
LEMMA Solves ==
  ASSUME NEW f \in Formula, opt = <<Frame>>, Solve(f)
  PROVE  /\ opt' = <<Frame>>
         /\ \E low, high \in Nat : Limits(f, low, high) /\ space' = WithInterval(EmptySpace, low, high)
<1> DEFINE asserted == Asserted(OptimizePush(opt), Graph(f))
           highest  == Optimize(OptimizePush(asserted), "max")
           lowest   == Lowest(OptimizePop(highest))
<1>1. asserted = Asked(f)
  BY AskedFor
<1> HIDE DEF asserted
<1>2. highest = Sought(f, "max") /\ OptimizePop(highest) = asserted
  BY <1>1, SoughtAbove
<1> HIDE DEF highest
<1>3. lowest = Sought(f, "min") /\ Solved(lowest) = <<Frame>>
  BY <1>1, <1>2, SoughtAbove DEF Lowest, Solved
<1> HIDE DEF lowest
<1>4. PICK high \in Models(highest) : \E low \in Models(lowest) :
        space' = WithInterval(EmptySpace, low.address, high.address)
  BY DEF Solve, highest, asserted, lowest
<1>5. PICK low \in Models(lowest) : space' = WithInterval(EmptySpace, low.address, high.address)
  BY <1>4
<1>6. opt' = Solved(lowest)
  BY DEF Solve, highest, asserted, lowest
<1>7. high \in Graph(f) /\ \A y \in Graph(f) : high.address >= y.address
  BY <1>2, <1>4, BestModels
<1>8. low \in Graph(f) /\ \A y \in Graph(f) : low.address <= y.address
  BY <1>3, <1>5, BestModels
<1>9. high.address \in Nat /\ low.address \in Nat
  BY <1>7, <1>8, GraphSolves
<1>10. Limits(f, low.address, high.address)
  <2>1. \A i \in Input : low.address <= f[i] /\ f[i] <= high.address
    BY <1>7, <1>8, GraphSolves
  <2> QED
    BY <1>7, <1>8, <2>1, GraphSolves DEF Limits
<1> QED
  BY <1>3, <1>5, <1>6, <1>9, <1>10

\* solveEq finds an input exactly if there is one, and leaves the optimizer as it was.
LEMMA Equates ==
  ASSUME NEW f \in Formula, NEW concrete \in Int, opt = <<Frame>>, SolveEq(f, concrete)
  PROVE  /\ opt' = <<Frame>>
         /\ verdict' = [index |-> index, formula |-> f,
                        reported |-> \E i \in Input : f[i] = concrete]
<1> DEFINE g == Graph(f) \cap At(concrete)
           t == [holds |-> g, objective |-> "none"]
           asserted == Asserted(Asserted(OptimizePush(opt), Graph(f)), At(concrete))
<1>1. asserted = <<Frame, t>>
  <2>1. [Asked(f) EXCEPT ![2].holds = @ \cap At(concrete)] = <<Frame, t>>
    BY SMTT(20) DEF Asked
  <2>2. Len(Asked(f)) = 2
    BY DEF Asked
  <2> QED
    BY <2>1, <2>2, AskedFor DEF Asserted
<1> HIDE DEF asserted
<1>2. OptimizePush(asserted) = <<Frame, t, Frame>>
  BY <1>1, Pushed DEF OptimizePush
<1>3. OptimizePop(OptimizePop(OptimizePush(asserted))) = <<Frame>>
  BY <1>2, PopTwo, PopThree
<1> DEFINE s == OptimizePush(asserted)
<1>4. /\ DOMAIN s = 1 .. 3 /\ \A k \in 1 .. 3 : s[k].objective = "none"
      /\ s[1].holds = Solution /\ s[2].holds = g /\ s[3].holds = Solution
  BY <1>2 DEF Frame
<1> HIDE DEF s, t
<1>5. Models(s) = Feasible(s)
  BY <1>4 DEF Models
<1>6. g \subseteq Solution
  BY GraphSolves
<1> HIDE DEF g
<1>7. Feasible(s) = g
  BY <1>4, <1>6 DEF Feasible
<1>8. g # {} <=> \E i \in Input : f[i] = concrete
  BY GraphSolves DEF g, At
<1>9. (Models(s) # {}) = (\E i \in Input : f[i] = concrete)
  BY <1>5, <1>7, <1>8
<1> QED
  BY <1>3, <1>9 DEF SolveEq, asserted, s

-----------------------------------------------------------------------------
(* From log to report.                                                      *)

\* Between two addresses the optimizer and the tree are as they were at first.
Rested ==
  /\ main \in {"parse", "sanitize", "solved", "done"} /\ index \in 0 .. Len(addr)
  /\ formula \in Formula /\ opt = <<Frame>>
  /\ main # "solved" => space = EmptySpace
  /\ main = "solved" =>
       /\ index > 0
       /\ \E low, high \in Nat : Limits(formula, low, high) /\ space = WithInterval(EmptySpace, low, high)
  /\ main = "parse" => index = 0 /\ verdict = NoVerdict
  /\ \/ verdict = NoVerdict
     \/ verdict \in [index : 1 .. Len(addr), formula : Formula, reported : BOOLEAN]
  /\ home \in Seq(Int) /\ Len(home) = blocks

SanitizerKept == ParserTyped /\ Rested

\* The last verdict is about what the parser left.
Reported(v) == v.reported <=> \E x \in Input : v.formula[x] = addr[v.index].block.frame
Judged == verdict # NoVerdict => Reported(verdict)

\* What is asked of the interval tree: an interval alone in it is found.
Alone == \A low, high \in Nat, v \in Int :
           InSpace(WithInterval(EmptySpace, low, high), v) <=> low <= v /\ v <= high

Sanitized == SanitizerKept /\ ParserKept /\ Homed /\ Judged

\* What the main program does is, to the parser, a step of it or nothing.
LEMMA ParserStep == [NextAll]_all => [Next]_vars
  BY DEF NextAll, all, ParseEntry, WriteBlock, LogEnds, Bound, Sanitize, Finish, Next

LEMMA RestedFirst == InitAll => SanitizerKept
<1> SUFFICES ASSUME InitAll PROVE SanitizerKept
  OBVIOUS
<1>1. Init
  BY DEF InitAll
<1>2. ParserTyped
  BY <1>1, PathFirst, TypedFirst DEF ParserTyped
<1>3. formula \in Formula
  BY SanitizerAssumption DEF InitAll
<1>4. index \in 0 .. Len(addr)
  BY <1>1 DEF InitAll, Init
<1>5. home \in Seq(Int) /\ Len(home) = blocks
  BY <1>1 DEF InitAll, Init
<1> QED
  BY <1>2, <1>3, <1>4, <1>5 DEF InitAll, Rested, SanitizerKept

\* An address as sanitize finds it.
LEMMA AddressFound ==
  ASSUME SanitizerKept, main = "solved"
  PROVE  index \in 1 .. Len(addr) /\ addr[index].block.frame \in Int
<1>1. addr \in Seq(Assertion) /\ Rested
  BY DEF SanitizerKept, ParserTyped, Typed, TypeOK
<1>2. index \in 1 .. Len(addr)
  BY <1>1 DEF Rested
<1>3. addr[index] \in Assertion
  BY <1>1, <1>2, Elements, Zenon
<1> QED
  BY <1>2, <1>3 DEF Assertion

LEMMA RestedStep == SanitizerKept /\ [NextAll]_all => SanitizerKept'
<1> SUFFICES ASSUME SanitizerKept, [NextAll]_all PROVE SanitizerKept'
  OBVIOUS
<1>1. ParserTyped /\ Written /\ Rested
  BY DEF SanitizerKept, ParserTyped, Path
<1>2. ParserTyped'
  BY <1>1, ParserStep, TypedStep
<1>3. Len(addr) \in Nat /\ blocks \in Nat
  BY <1>1 DEF ParserTyped, Typed, TypeOK
<1>4. Len(addr') \in Nat
  BY <1>2 DEF ParserTyped, Typed, TypeOK
<1>5. ASSUME UNCHANGED <<vars, home>> PROVE UNCHANGED <<addr, blocks, home>>
  BY <1>5 DEF vars, parser, program
<1>6. CASE ParseEntry
  <2>1. UNCHANGED <<blocks, home>>
    BY <1>6 DEF ParseEntry, Parse, HandleRegisters, BasicBlockModule, BasicBlockOffset,
                NextOffset, NextModule, Z3Module, Z3Symbolic, Z3Ast, program
  <2>2. Rested'
    BY <1>1, <1>4, <1>6, <2>1 DEF ParseEntry, sanitizer, Rested
  <2> QED
    BY <1>2, <2>2 DEF SanitizerKept
<1>7. CASE WriteBlock
  <2>1. blocks' = blocks + 1 /\ home' = Append(home, Last(frames)) /\ log = <<>>
    BY <1>7 DEF WriteBlock, RunBlock
  <2>2. Last(frames) \in Int
    BY <1>1 DEF Written, Last
  <2>3. home' \in Seq(Int) /\ Len(home') = blocks'
    <3> DEFINE e == Last(frames)
    <3> HIDE DEF e
    <3>1. home' = Append(home, e) /\ e \in Int
      BY <2>1, <2>2 DEF e
    <3> QED
      BY <1>1, <2>1, <3>1 DEF Rested
  <2>4. Rested'
    BY <1>1, <1>4, <1>7, <2>3 DEF WriteBlock, sanitizer, Rested
  <2> QED
    BY <1>2, <2>4 DEF SanitizerKept
<1>8. CASE LogEnds \/ Finish
  <2>1. UNCHANGED <<addr, blocks, home>> /\ UNCHANGED <<index, formula, space, opt, verdict>>
    BY <1>5, <1>8 DEF LogEnds, Finish
  <2>2. main # "solved" /\ main' \in {"sanitize", "done"}
    BY <1>8 DEF LogEnds, Finish
  <2>3. Rested'
    BY <1>1, <2>1, <2>2 DEF Rested
  <2> QED
    BY <1>2, <2>3 DEF SanitizerKept
<1>9. CASE Bound
  <2>1. UNCHANGED <<addr, blocks, home>> /\ verdict' = verdict
    BY <1>5, <1>9 DEF Bound
  <2>2. PICK f \in Formula : formula' = f /\ Solve(f)
    BY <1>9 DEF Bound
  <2>3. main' = "solved" /\ index' = index + 1 /\ index' <= Len(addr) /\ index \in Nat
    BY <1>1, <1>9 DEF Bound, Following, Rested
  <2>4. /\ opt' = <<Frame>>
        /\ \E low, high \in Nat : Limits(f, low, high) /\ space' = WithInterval(EmptySpace, low, high)
    BY <1>1, <2>2, Solves DEF Rested
  <2>5. index' \in 0 .. Len(addr') /\ index' > 0
    BY <1>3, <2>1, <2>3
  <2>6. Rested'
    BY <1>1, <2>1, <2>2, <2>3, <2>4, <2>5 DEF Rested
  <2> QED
    BY <1>2, <2>6 DEF SanitizerKept
<1>10. CASE Sanitize
  <2> DEFINE ebpPlusFour == addr[index].block.frame
  <2>1. UNCHANGED <<addr, blocks, home>> /\ UNCHANGED <<index, formula>> /\ main = "solved"
        /\ main' = "sanitize" /\ space' = EmptySpace
    BY <1>5, <1>10 DEF Sanitize
  <2>2. index \in 1 .. Len(addr) /\ formula \in Formula /\ opt = <<Frame>> /\ ebpPlusFour \in Int
    BY <1>1, <2>1, AddressFound DEF Rested
  <2> HIDE DEF ebpPlusFour
  <2>3. opt' = <<Frame>> /\ \E r \in BOOLEAN : verdict' = [index |-> index, formula |-> formula, reported |-> r]
    <3>1. CASE InSpace(space, ebpPlusFour)
      <4>1. SolveEq(formula, ebpPlusFour)
        BY <1>10, <3>1 DEF Sanitize, ebpPlusFour
      <4>2. (\E i \in Input : formula[i] = ebpPlusFour) \in BOOLEAN
        OBVIOUS
      <4> QED
        BY <2>2, <4>1, <4>2, Equates
    <3>2. CASE ~InSpace(space, ebpPlusFour)
      BY <1>10, <2>2, <3>2 DEF Sanitize, ebpPlusFour
    <3> QED
      BY <3>1, <3>2
  <2>4. verdict' \in [index : 1 .. Len(addr), formula : Formula, reported : BOOLEAN]
    BY <2>2, <2>3
  <2>5. Rested'
    BY <1>1, <2>1, <2>3, <2>4 DEF Rested
  <2> QED
    BY <1>2, <2>5 DEF SanitizerKept
<1>11. CASE UNCHANGED all
  <2>1. UNCHANGED <<addr, blocks, home>> /\ UNCHANGED sanitizer
    BY <1>5, <1>11 DEF all
  <2>2. Rested'
    BY <1>1, <2>1 DEF Rested, sanitizer
  <2> QED
    BY <1>2, <2>2 DEF SanitizerKept
<1> QED
  BY <1>6, <1>7, <1>8, <1>9, <1>10, <1>11 DEF NextAll

\* The main program runs the parser as it is specified: what holds of the parser alone
\* holds of it in the sanitizer.
THEOREM ParserWithin == SpecAll => Spec
<1>1. InitAll => Init
  BY DEF InitAll
<1> QED
  BY <1>1, ParserStep, PTL DEF SpecAll, Spec

\* The variables of the parser and of the sanitizer have their types, and each address
\* is solved with the optimizer main began with.
THEOREM SanitizerIsTyped == SpecAll => []SanitizerTypeOK
<1>1. SanitizerKept => SanitizerTypeOK
  <2> SUFFICES ASSUME SanitizerKept PROVE SanitizerTypeOK
    OBVIOUS
  <2>1. TypeOK /\ Rested
    BY DEF SanitizerKept, ParserTyped, Typed
  <2>2. opt \in Seq([holds : SUBSET Solution, objective : {"none", "max", "min"}])
    <3>1. Frame \in [holds : SUBSET Solution, objective : {"none", "max", "min"}]
      BY DEF Frame
    <3>2. opt = <<Frame>>
      BY <2>1 DEF Rested
    <3> HIDE DEF Frame
    <3> QED
      BY <3>1, <3>2
  <2>3. space \in {EmptySpace} \cup {WithInterval(EmptySpace, l, h) : l, h \in Address}
    <3>1. CASE main # "solved"
      BY <2>1, <3>1 DEF Rested
    <3>2. CASE main = "solved"
      <4>1. PICK low, high \in Nat : Limits(formula, low, high) /\ space = WithInterval(EmptySpace, low, high)
        BY <2>1, <3>2 DEF Rested
      <4>2. \A i \in Input : formula[i] \in Address
        <5>1. formula \in Formula
          BY <2>1 DEF Rested
        <5>2. \A i \in Input : [input |-> i, address |-> formula[i]] \in Solution
          BY <5>1 DEF Solution
        <5>3. \A x \in Solution : x.address \in Address
          BY DEF Address
        <5> QED
          BY <5>2, <5>3
      <4> QED
        BY <4>1, <4>2 DEF Limits
    <3> QED
      BY <3>1, <3>2
  <2> QED
    BY <2>1, <2>2, <2>3 DEF SanitizerTypeOK, Rested
<1> QED
  BY <1>1, RestedFirst, RestedStep, PTL DEF SpecAll

LEMMA SanitizedFirst == InitAll => Sanitized
<1> SUFFICES ASSUME InitAll PROVE Sanitized
  OBVIOUS
<1>1. Init /\ SanitizerKept
  BY RestedFirst DEF InitAll
<1>2. AddressesKept
  BY <1>1, AddressesFirst
<1>3. CallsKept
  BY <1>1, WrittenFirst DEF CallsKept, Behind, Init, First
<1>4. Homed
  <2>1. /\ home = <<>> /\ blocks = 0 /\ addr = <<>> /\ Len(addr) = 0
        /\ log = <<[type |-> "REGISTERS", esp |-> StackBase]>>
    BY <1>1 DEF InitAll, Init
  <2>2. ~Settling /\ ~OffsetComes
    BY <2>1 DEF First, OffsetComes, Settling
  <2>3. FramesKnown(addr, blocks, home)
    BY <2>1 DEF FramesKnown
  <2> QED
    BY <2>1, <2>2, <2>3 DEF Homed
<1>5. Judged
  BY DEF InitAll, Judged
<1> QED
  BY <1>1, <1>2, <1>3, <1>4, <1>5 DEF Sanitized, ParserKept

\* sanitize is right of the address it is given.
LEMMA JudgedNow ==
  ASSUME Alone, SanitizerKept, Sanitize
  PROVE  Judged'
<1> DEFINE ebpPlusFour == addr[index].block.frame
<1>1. /\ UNCHANGED <<vars, home>> /\ main = "solved" /\ Rested
  BY DEF Sanitize, SanitizerKept
<1>2. addr' = addr
  BY <1>1 DEF vars, parser
<1>3. index \in 1 .. Len(addr) /\ formula \in Formula /\ opt = <<Frame>> /\ ebpPlusFour \in Int
  BY <1>1, AddressFound DEF Rested
<1>4. PICK low, high \in Nat : Limits(formula, low, high) /\ space = WithInterval(EmptySpace, low, high)
  BY <1>1 DEF Rested
<1> HIDE DEF ebpPlusFour
<1>5. verdict' = [index |-> index, formula |-> formula,
                  reported |-> \E i \in Input : formula[i] = ebpPlusFour]
  <2>1. CASE InSpace(space, ebpPlusFour)
    <3>1. SolveEq(formula, ebpPlusFour)
      BY <2>1 DEF Sanitize, ebpPlusFour
    <3> QED
      BY <1>3, <3>1, Equates
  <2>2. CASE ~InSpace(space, ebpPlusFour)
    <3>1. ~(low <= ebpPlusFour /\ ebpPlusFour <= high)
      BY <1>3, <1>4, <2>2 DEF Alone
    <3>2. ~\E i \in Input : formula[i] = ebpPlusFour
      BY <1>4, <3>1 DEF Limits
    <3>3. verdict' = [index |-> index, formula |-> formula, reported |-> FALSE]
      BY <2>2 DEF Sanitize, ebpPlusFour
    <3>4. (\E i \in Input : formula[i] = ebpPlusFour) = FALSE
      BY <3>2
    <3> QED
      BY <3>3, <3>4
  <2> QED
    BY <2>1, <2>2
<1> DEFINE v == [index |-> index, formula |-> formula,
                 reported |-> \E i \in Input : formula[i] = ebpPlusFour]
<1>6. /\ v.index = index /\ v.formula = formula
      /\ v.reported = (\E i \in Input : formula[i] = ebpPlusFour)
  OBVIOUS
<1> HIDE DEF v
<1>7. verdict' = v
  BY <1>5 DEF v
<1>8. Reported(verdict)'
  BY <1>2, <1>6, <1>7 DEF Reported, ebpPlusFour
<1> QED
  BY <1>8 DEF Judged

LEMMA SanitizedStep ==
  ASSUME Arguments \subseteq {0}, Alone
  PROVE  Sanitized /\ [NextAll]_all => Sanitized'
<1> SUFFICES ASSUME Sanitized, [NextAll]_all PROVE Sanitized'
  OBVIOUS
<1>1. SanitizerKept /\ ParserKept /\ Homed /\ Judged
  BY DEF Sanitized
<1>2. SanitizerKept' /\ ParserKept'
  <2>1. AddressesKept' /\ CallsKept'
    BY <1>1, ParserStep, OwedStep, TypedStep, CallsStep DEF ParserKept, AddressesKept
  <2> QED
    BY <1>1, <2>1, RestedStep DEF ParserKept
<1>3. CASE ParseEntry \/ WriteBlock
  <2>1. Homed'
    BY <1>1, <1>3, HomedEntry, HomedBlock DEF ParseEntry, WriteBlock
  <2>2. main = "parse" /\ verdict' = verdict
    BY <1>3 DEF ParseEntry, WriteBlock, sanitizer
  <2>3. Judged'
    BY <1>1, <2>2 DEF SanitizerKept, Rested, Judged
  <2> QED
    BY <1>2, <2>1, <2>3 DEF Sanitized
<1>4. ASSUME UNCHANGED <<vars, home>> PROVE Homed'
  BY <1>1, <1>4 DEF vars, parser, program, Homed, OffsetComes, First, Settling, GetLastCallFrame
<1>5. CASE LogEnds \/ Finish \/ Bound \/ UNCHANGED all
  <2>1. UNCHANGED <<vars, home>> /\ verdict' = verdict
    BY <1>5 DEF LogEnds, Finish, Bound, all, sanitizer
  <2>2. addr' = addr
    BY <2>1 DEF vars, parser
  <2>3. Judged'
    BY <1>1, <2>1, <2>2 DEF Judged, Reported
  <2> QED
    BY <1>2, <1>4, <2>1, <2>3 DEF Sanitized
<1>6. CASE Sanitize
  <2>1. UNCHANGED <<vars, home>>
    BY <1>6 DEF Sanitize
  <2> QED
    BY <1>1, <1>2, <1>4, <1>6, <2>1, JudgedNow DEF Sanitized
<1> QED
  BY <1>3, <1>5, <1>6 DEF NextAll

\* However many addresses the log holds, and wherever it ends, the sanitizer reports
\* the ones that some input makes the place of the return address they belong to, and
\* no other: what solve and solveEq leave behind never reaches a later address.
THEOREM ReportsAreExact ==
  ASSUME Arguments \subseteq {0}, Alone
  PROVE  SpecAll => []ReportsExact
<1>1. Sanitized => ReportsExact
  <2> SUFFICES ASSUME Sanitized, verdict # NoVerdict PROVE ReportsExact
    BY DEF ReportsExact
  <2> DEFINE i == verdict.index
             a == addr[i]
  <2>1. Reported(verdict) /\ i \in 1 .. Len(addr)
    BY DEF Sanitized, SanitizerKept, Rested, Judged
  <2>2. Fated(a, i - 1 <= lviAddr) /\ FramesKnown(addr, blocks, home)
    BY <2>1 DEF Sanitized, Homed, ParserKept, AddressesKept, Owed
  <2>3. a.block # Clean => a.block.frame = home[a.block.data]
    BY <2>1, <2>2 DEF FramesKnown
  <2>4. a.block # Clean /\ a.of \notin mixed => a.block.data = a.of
    <3> SUFFICES ASSUME a.block # Clean, a.of \notin mixed PROVE Own(a)
      BY DEF Own
    <3> QED
      BY <2>2 DEF Fated
  <2>5. a.block.frame = Place(a)
    BY <2>3, <2>4 DEF Place, Clean
  <2> QED
    BY <2>1, <2>5 DEF Reported, ReportsExact
<1>2. Sanitized /\ [NextAll]_all => Sanitized'
  BY SanitizedStep
<1> QED
  BY <1>1, <1>2, SanitizedFirst, PTL DEF SpecAll
=============================================================================
