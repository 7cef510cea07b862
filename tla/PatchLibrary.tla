---------------------------- MODULE PatchLibrary ----------------------------
(***************************************************************************)
(* BasicObserver::HandlePatchLibrary: before the first block of a task is  *)
(* executed, the lines `module+offset=value' of the patch file are written *)
(* over the modules in memory.  A line is described by what the loop looks *)
(* at: how many blanks it starts with, the character after them, and the   *)
(* module, offset and value it names.                                      *)
(***************************************************************************)
EXTENDS Integers, Sequences, SequencesExt

CONSTANTS
  Module,    \* the modules that are loaded
  Unloaded,  \* the module names of the file that are not
  Offset, Value,
  MaxLines,  \* bound on the length of the file
  Blanks,    \* the numbers of blanks a line may start with
  Kind       \* the kinds of lines that occur: "patch" "force" "comment" "empty"

Line == [blanks : Blanks, kind : Kind, module : Module \cup Unloaded,
         offset : Offset, value : Value]

ASSUME PatchAssumption ==
  /\ MaxLines \in Nat /\ Blanks \subseteq Nat
  /\ Kind \subseteq {"patch", "force", "comment", "empty"}
  /\ Module \cap Unloaded = {}

VARIABLES
  pc,      \* "open" | "getline" | "done"
  found,   \* the file can be opened
  file,    \* its lines
  pos,     \* lines read
  memory,  \* <<module, offset>> -> value written, "untouched" when none was
  result   \* what HandlePatchLibrary returns

vars == <<pc, found, file, pos, memory, result>>

-----------------------------------------------------------------------------

\* The name looked up is all of the line before '+': blanks and '!' included.
\* GetModuleOffset is 0 for a name that is not a loaded module's.
ModuleFound(line) ==
  line.blanks = 0 /\ line.kind = "patch" /\ line.module \in Module

\* Mutant of Skipped: a comment is not told apart from a patch.
SkippedNot(line) == FALSE
\* getline strips the newline that the case for empty lines looks for.
Skipped(line) == line.kind = "comment"
HasPlusAndEquals(line) == line.kind \in {"patch", "force"}

\* Mutant of Written: the offset is left out.
WrittenAtBase(m, line) ==
  [m EXCEPT ![<<line.module, CHOOSE o \in Offset : TRUE>>] = line.value]
Written(m, line) == [m EXCEPT ![<<line.module, line.offset>>] = line.value]

OpenPatchFile ==
  /\ pc = "open"
  /\ IF found THEN pc' = "getline" /\ UNCHANGED result
              ELSE pc' = "done" /\ result' = -1
  /\ UNCHANGED <<found, file, pos, memory>>

NextLine == file[pos + 1]
Reading  == pc = "getline" /\ pos < Len(file)

SkipLine ==
  /\ Reading /\ Skipped(NextLine)
  /\ pos' = pos + 1
  /\ UNCHANGED <<pc, found, file, memory, result>>

PatchLine ==
  /\ Reading /\ ~Skipped(NextLine)
  /\ HasPlusAndEquals(NextLine) /\ ModuleFound(NextLine)
  /\ memory' = Written(memory, NextLine)
  /\ pos' = pos + 1
  /\ UNCHANGED <<pc, found, file, result>>

\* PatchLibrary returns false, which HandlePatchLibrary does not look at.
RejectLine ==
  /\ Reading /\ ~Skipped(NextLine)
  /\ ~(HasPlusAndEquals(NextLine) /\ ModuleFound(NextLine))
  /\ pc' = "done" /\ result' = 0
  /\ UNCHANGED <<found, file, pos, memory>>

EndOfFile ==
  /\ pc = "getline" /\ pos = Len(file)
  /\ pc' = "done" /\ result' = 0
  /\ UNCHANGED <<found, file, pos, memory>>

Init ==
  /\ pc = "open" /\ pos = 0 /\ result = 0
  /\ found \in BOOLEAN
  /\ file \in BoundedSeq(Line, MaxLines)
  /\ memory = [a \in Module \X Offset |-> "untouched"]

Next == OpenPatchFile \/ SkipLine \/ PatchLine \/ RejectLine \/ EndOfFile

Spec == Init /\ [][Next]_vars

-----------------------------------------------------------------------------
(* Properties.                                                              *)

\* The lines that ask for a write to an address, as the comments in PatchLibrary
\* describe them: blanks are trimmed, comments and empty lines are passed over,
\* a '!' marks a patch.
PatchesOf(a, lines) ==
  {k \in 1 .. Len(lines) : /\ lines[k].kind \in {"patch", "force"}
                           /\ <<lines[k].module, lines[k].offset>> = a}

Applied(lines) ==
  [a \in Module \X Offset |->
     LET ks == PatchesOf(a, lines)
     IN IF ks = {} THEN "untouched" ELSE lines[Max(ks)].value]

\* A file of unmarked patches of loaded modules, from the first column on, and
\* of comments.  The code rejects the other lines its comments speak of.
Loadable ==
  \A k \in 1 .. Len(file) :
    \/ file[k].kind = "comment"
    \/ file[k].kind = "patch" /\ file[k].blanks = 0 /\ file[k].module \in Module

\* At any moment exactly the lines read so far have been applied, the last
\* write to an address winning; a line that is rejected ends it for good.
PrefixApplied == memory = Applied(SubSeq(file, 1, pos))

\* When the patch file is found and is such a file, the traced program starts with
\* all of its patches.
AllApplied ==
  pc = "done" /\ found /\ Loadable => memory = Applied(file)
=============================================================================
