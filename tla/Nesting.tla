------------------------------ MODULE Nesting ------------------------------
(***************************************************************************)
(* Data that holds data of its own kind: a where in a where, a relation's  *)
(* arguments in those it is joined with, a record in the one it was joined *)
(* to. Inner(x) is what x holds; the code recurs into it.                  *)
(***************************************************************************)
EXTENDS Naturals

\* What is n levels down from the root.
Levels(root, Inner(_)) ==
    LET level[n \in Nat] == IF n = 0 THEN {root} ELSE UNION {Inner(x) : x \in level[n - 1]}
    IN level

\* The root and everything below it, as far down as there is any.
Within(root, Inner(_)) ==
    LET levels == Levels(root, Inner)
        below[n \in Nat] == IF levels[n] = {} THEN {} ELSE levels[n] \cup below[n + 1]
    IN below[0]
=============================================================================
