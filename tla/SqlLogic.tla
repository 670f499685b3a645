------------------------------ MODULE SqlLogic ------------------------------
(***************************************************************************)
(* PostgreSQL's three-valued logic, and the order of ORDER BY: what the    *)
(* conditions the client writes mean to the database. External.            *)
(*                                                                         *)
(* Values are naturals, compared as the database compares them; Null is no *)
(* value. A truth value is "true", "false" or "unknown".                   *)
(***************************************************************************)
EXTENDS Naturals, Sequences

CONSTANT Null

ASSUME NullAssumption == Null \notin Nat

Value == Nat \cup {Null}
Truth == {"true", "false", "unknown"}

AsTruth(b) == IF b THEN "true" ELSE "false"

\* AND and OR over a set of conditions; the empty AND is true, the empty OR false.
All3(S) == CASE "false" \in S -> "false"
             [] "false" \notin S /\ "unknown" \in S -> "unknown"
             [] OTHER -> "true"
Any3(S) == CASE "true" \in S -> "true"
             [] "true" \notin S /\ "unknown" \in S -> "unknown"
             [] OTHER -> "false"
Not3(t) == CASE t = "true" -> "false"
             [] t = "false" -> "true"
             [] OTHER -> "unknown"

\* A comparison with NULL is unknown; IS NULL never is.
Eq3(a, b) == IF Null \in {a, b} THEN "unknown" ELSE AsTruth(a = b)
Lt3(a, b) == IF Null \in {a, b} THEN "unknown" ELSE AsTruth(a < b)
Gt3(a, b) == Lt3(b, a)
IsNull3(a) == AsTruth(a = Null)

\* WHERE keeps the rows its condition is true of.
Holds(t) == t = "true"

(***************************************************************************)
(* ORDER BY: a term is [dir |-> "asc" or "desc", nulls |-> "first" or      *)
(* "last"]. a and b are the values of the terms in two rows.               *)
(***************************************************************************)
TermBefore(term, a, b) ==
    CASE a = b -> FALSE
      [] a = Null /\ b # Null -> term.nulls = "first"
      [] a # Null /\ b = Null -> term.nulls = "last"
      [] OTHER -> IF term.dir = "asc" THEN a < b ELSE b < a

\* Row a sorts before row b, the first term that tells them apart deciding.
OrderedBefore(terms, a, b) ==
    \E i \in DOMAIN terms :
        /\ TermBefore(terms[i], a[i], b[i])
        /\ \A j \in 1 .. (i - 1) : a[j] = b[j]
=============================================================================
