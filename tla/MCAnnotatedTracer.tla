-------------------------- MODULE MCAnnotatedTracer --------------------------
(* A program of two nested branches, b1 on the first payload byte and b2 on *)
(* the second, that ends in b3; bx cannot be translated.                    *)
EXTENDS AnnotatedTracer

CONSTANTS b1, b2, b3, bx

MCBranch ==
  [b \in {b1, b2, b3, bx} |->
     CASE b = b1 -> <<b2, b3>>
       [] b = b2 -> <<b3, bx>>
       [] b = bx -> <<b3>>
       [] b = b3 -> <<>>]

MCTested ==
  [b \in {b1, b2, b3, bx} |->
     CASE b = b1 -> {0} [] b = b2 -> {1} [] OTHER -> {}]
=============================================================================
