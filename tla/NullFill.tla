------------------------------ MODULE NullFill ------------------------------
(***************************************************************************)
(* What the BACKFILL step of a plan promises of the column it fills, with  *)
(* the application writing all along: it gives the default to rows that    *)
(* are NULL and touches no other; it is done only after a moment at which  *)
(* no row was NULL ("repeated until no NULL is left"), with the number of  *)
(* rows it filled; it gives up on its default only if there is a NULL the  *)
(* default does not fill.                                                  *)
(***************************************************************************)
EXTENDS Naturals, FiniteSets

CONSTANTS
  Rows,
  Absent, Null, Filled, Own   \* of a row: not there, or what its column has

Values == {Absent, Null, Filled, Own}

VARIABLES
  table,    \* what each row has
  unsure,   \* the default may turn out NULL
  phase,    \* "filling", "clear" (no NULL was left), "completed", "failed"
  count,    \* rows this run of the step has filled
  cause     \* why it failed: "default", "other"

vars == <<table, unsure, phase, count, cause>>

Nulls(t) == {r \in Rows : t[r] = Null}

FilledIn(t, rows) == [r \in Rows |-> IF r \in rows THEN Filled ELSE t[r]]

Init ==
  /\ table \in [Rows -> Values] /\ unsure \in BOOLEAN
  /\ phase = "filling" /\ count = 0 /\ cause = "none"

(* The application inserts, updates or deletes a row.                      *)
Write ==
  /\ \E r \in Rows, v \in Values : table' = [table EXCEPT ![r] = v]
  /\ UNCHANGED <<unsure, phase, count, cause>>

Fill ==
  /\ phase = "filling"
  /\ \E rows \in SUBSET Nulls(table) :
       /\ table' = FilledIn(table, rows)
       /\ count' = count + Cardinality(rows)
  /\ UNCHANGED <<unsure, phase, cause>>

Clear ==
  /\ phase = "filling" /\ Nulls(table) = {}
  /\ phase' = "clear"
  /\ UNCHANGED <<table, unsure, count, cause>>

Complete ==
  /\ phase = "clear"
  /\ phase' = "completed"
  /\ UNCHANGED <<table, unsure, count, cause>>

GiveUp ==
  /\ phase = "filling"
  /\ unsure /\ Nulls(table) # {}
  /\ phase' = "failed" /\ cause' = "default"
  /\ UNCHANGED <<table, unsure, count>>

(* What it was doing when it failed may have been done.                    *)
Fail ==
  /\ phase \in {"filling", "clear"}
  /\ \E rows \in SUBSET Nulls(table) : table' = FilledIn(table, rows)
  /\ phase' = "failed" /\ cause' = "other"
  /\ UNCHANGED <<unsure, count>>

Again ==
  /\ phase = "failed"
  /\ phase' = "filling" /\ count' = 0 /\ cause' = "none"
  /\ UNCHANGED <<table, unsure>>

Next == Write \/ Fill \/ Clear \/ Complete \/ GiveUp \/ Fail \/ Again

Spec == Init /\ [][Next]_vars
=============================================================================
