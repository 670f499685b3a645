------------------------------ MODULE Backfill ------------------------------
(***************************************************************************)
(* OperationExecutor._backfill (packages/migration/src/executor.ts): the   *)
(* BACKFILL step, batch after batch, each a transaction of its own, while  *)
(* the application writes to the table.                                    *)
(*                                                                         *)
(* The statement of a batch (ddl/printer.ts) updates up to BatchSize rows  *)
(* that are NULL to the default, in no order, and returns of each whether  *)
(* it is NULL no longer. DSQL runs it on a snapshot and lets it commit if  *)
(* no row it wrote was written since; otherwise it fails with 40001, and   *)
(* the executor sends it again, up to Attempts times. Catalog takes the    *)
(* whole step for one; NullFill is what entitles it to.                    *)
(***************************************************************************)
EXTENDS Naturals, FiniteSets

CONSTANTS
  Rows,
  Absent, Null, Filled, Own,  \* of a row: not there, or what its column has
  BatchSize,                  \* BACKFILL_BATCH_SIZE
  Attempts,                   \* BACKFILL_ATTEMPTS
  MaxWrites, MaxFaults        \* bounds: the application's writes, calls lost

ASSUME BackfillAssumption ==
  /\ IsFiniteSet(Rows)
  /\ Cardinality({Absent, Null, Filled, Own}) = 4
  /\ BatchSize \in Nat \ {0}
  /\ Attempts \in Nat \ {0}
  /\ MaxWrites \in Nat /\ MaxFaults \in Nat

VARIABLES
  table,     \* what each row has
  unsure,    \* the default may turn out NULL: nullif(...), a lookup
  pc,        \* "send", "sent", "completed", "failed"
  batch,     \* the rows the statement sent has picked
  written,   \* the rows the application has written since
  attempt,   \* how often the batch was sent
  count,     \* rows filled so far
  cause,     \* why the step failed: "default", "other"
  writes, faults

stepVars == <<pc, batch, attempt, count, cause>>
vars == <<table, unsure, stepVars, written, writes, faults>>

Values == {Absent, Null, Filled, Own}

Nulls(t) == {r \in Rows : t[r] = Null}

FilledIn(t, rows) == [r \in Rows |-> IF r \in rows THEN Filled ELSE t[r]]

TypeOK ==
  /\ table \in [Rows -> Values] /\ unsure \in BOOLEAN
  /\ pc \in {"send", "sent", "completed", "failed"}
  /\ batch \in SUBSET Rows
  /\ written \in SUBSET Rows
  /\ attempt \in 1..Attempts
  /\ count \in Nat
  /\ cause \in {"none", "default", "other"}
  /\ writes \in 0..MaxWrites /\ faults \in 0..MaxFaults

Init ==
  /\ table \in [Rows -> Values] /\ unsure \in BOOLEAN
  /\ pc = "send" /\ batch = {} /\ written = {}
  /\ attempt = 1 /\ count = 0 /\ cause = "none"
  /\ writes = 0 /\ faults = 0

-----------------------------------------------------------------------------
(* Mutant: the statement updates any row.                                  *)
PickableAny(t) == {r \in Rows : t[r] # Absent}

Pickable(t) == Nulls(t)

(* WHERE key IN (SELECT key ... WHERE c IS NULL LIMIT n).                  *)
Picks(t) ==
  {rows \in SUBSET Pickable(t) :
     \/ Cardinality(rows) = BatchSize
     \/ rows = Pickable(t) /\ Cardinality(rows) < BatchSize}

(* The statement is sent, and picks its rows from the table as it is.      *)
Send ==
  /\ pc = "send"
  /\ pc' = "sent"
  /\ batch' \in Picks(table)
  /\ written' = {}
  /\ UNCHANGED <<table, unsure, attempt, count, cause, writes, faults>>

Conflicts == batch \cap written # {}

(* What DEFAULT can make of the rows of a batch: those it fills.           *)
Outcomes == IF unsure THEN SUBSET batch ELSE {batch}

(* A batch that matches nothing ends the step; one that fills nothing      *)
(* would be picked again for ever.                                         *)
CompleteStep ==
  /\ pc = "sent" /\ batch = {}
  /\ pc' = "completed"
  /\ UNCHANGED <<table, unsure, batch, written, attempt, count, cause, writes, faults>>

(* Mutant: a batch that fills nothing is followed by the next.             *)
StopsShortNever(filled) == FALSE

StopsShort(filled) == filled = {}

NextBatch ==
  /\ pc = "sent" /\ batch # {} /\ ~ Conflicts
  /\ \E filled \in Outcomes :
       /\ ~ StopsShort(filled)
       /\ table' = FilledIn(table, filled)
       /\ count' = count + Cardinality(filled)
  /\ pc' = "send" /\ batch' = {} /\ attempt' = 1
  /\ UNCHANGED <<unsure, written, cause, writes, faults>>

FailWith(reason) ==
  /\ pc' = "failed" /\ cause' = reason
  /\ batch' = {}
  /\ UNCHANGED <<unsure, written, attempt, count, writes>>

NoProgress ==
  /\ pc = "sent" /\ batch # {} /\ ~ Conflicts
  /\ \E filled \in Outcomes : StopsShort(filled)
  /\ FailWith("default")
  /\ UNCHANGED <<table, faults>>

(* 40001: the same batch again, or the step fails.                         *)
Resend ==
  /\ pc = "sent" /\ Conflicts
  /\ attempt < Attempts
  /\ pc' = "send" /\ batch' = {} /\ attempt' = attempt + 1
  /\ UNCHANGED <<table, unsure, written, count, cause, writes, faults>>

ConflictsAgain ==
  /\ pc = "sent" /\ Conflicts
  /\ attempt = Attempts
  /\ FailWith("other")
  /\ UNCHANGED <<table, faults>>

(* The call fails otherwise, before or after its transaction commits.      *)
Lose ==
  /\ pc = "sent"
  /\ faults < MaxFaults
  /\ faults' = faults + 1
  /\ \/ UNCHANGED table
     \/ /\ ~ Conflicts
        /\ \E filled \in Outcomes : table' = FilledIn(table, filled)
  /\ FailWith("other")

(* The run is called again, and its plan has the step again.               *)
Rerun ==
  /\ pc = "failed"
  /\ pc' = "send" /\ attempt' = 1 /\ count' = 0 /\ cause' = "none"
  /\ UNCHANGED <<table, unsure, batch, written, writes, faults>>

(* The application inserts, updates or deletes a row.                      *)
Write ==
  /\ writes < MaxWrites
  /\ writes' = writes + 1
  /\ \E r \in Rows, v \in Values :
       /\ table[r] # Absent \/ v # Absent
       /\ table' = [table EXCEPT ![r] = v]
       /\ written' = written \cup {r}
  /\ UNCHANGED <<unsure, stepVars, faults>>

Answered ==
  CompleteStep \/ NextBatch \/ NoProgress \/ Resend \/ ConflictsAgain

Next == Send \/ Answered \/ Lose \/ Rerun \/ Write

Spec == Init /\ [][Next]_vars

(* A statement that was sent is answered, and the executor goes on.        *)
FairSpec == Spec /\ WF_vars(Send) /\ WF_vars(Answered)

-----------------------------------------------------------------------------
(* Batches that race with the application's writes amount to one step that *)
(* only fills NULLs and is done when none was left: what Catalog's one-    *)
(* step BACKFILL and the comment "it only fills NULLs, so running it again *)
(* is safe" (executor.ts:149) take it for.                                 *)
Phase ==
  IF pc \in {"completed", "failed"} THEN pc
  ELSE IF pc = "sent" /\ batch = {} THEN "clear" ELSE "filling"

Step == INSTANCE NullFill WITH phase <- Phase

FillsNulls == Step!Spec

(* The step ends, whatever the default turns out to be for which rows.     *)
Ends == []<>(pc \in {"completed", "failed"})
=============================================================================
