------------------------------- MODULE Keyset -------------------------------
(***************************************************************************)
(* sql.keyset: the condition a row satisfies when it sorts strictly past a *)
(* cursor, under a list of order keys. A key is [dir, nullable]; `values`  *)
(* are the cursor's, one per key, and `row` has the row's value of each.   *)
(***************************************************************************)
EXTENDS SqlLogic

Flip(dir) == IF dir = "asc" THEN "desc" ELSE "asc"

\* What sql.keyset throws on: no key, unpaired keys, a null no row can hold.
KeysetThrows(keys, values) ==
    \/ keys = <<>>
    \/ Len(keys) # Len(values)
    \/ \E i \in DOMAIN keys : ~keys[i].nullable /\ values[i] = Null

\* Mutant: forgets that nulls sort past every value.
PastTermsNoNull(key, bound, value, v) ==
    LET ascending == (key.dir = "asc") <=> (bound = "after") IN
    CASE value = Null -> IF ascending THEN {} ELSE {Not3(IsNull3(v))}
      [] OTHER -> {IF ascending THEN Gt3(v, value) ELSE Lt3(v, value)}

\* The conditions of which one must hold for v to sort strictly past `value` on one key.
PastTerms(key, bound, value, v) ==
    LET ascending == (key.dir = "asc") <=> (bound = "after") IN
    CASE value = Null -> IF ascending THEN {} ELSE {Not3(IsNull3(v))}
      [] value # Null /\ ~ascending -> {Lt3(v, value)}
      [] OTHER -> {Gt3(v, value)} \cup (IF key.nullable THEN {IsNull3(v)} ELSE {})

Tie(value, v) == IF value = Null THEN IsNull3(v) ELSE Eq3(v, value)

(***************************************************************************)
(* Built from the last key outwards: past on this key, or tied on it and   *)
(* past on the keys after it. A level without terms is one no row can      *)
(* satisfy, and adds nothing to the level above it.                        *)
(***************************************************************************)
KeysetCondition(keys, bound, values, row) ==
    LET Terms[i \in 1 .. Len(keys) + 1] ==
            IF i = Len(keys) + 1 THEN {}
            ELSE PastTerms(keys[i], bound, values[i], row[i])
                 \cup IF Terms[i + 1] = {} THEN {}
                      ELSE {All3({Tie(values[i], row[i]), Any3(Terms[i + 1])})}
    IN Any3(Terms[1])
=============================================================================
