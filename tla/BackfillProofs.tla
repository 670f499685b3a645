--------------------------- MODULE BackfillProofs ---------------------------
(***************************************************************************)
(* Proofs about Backfill for any table, any batch size and any number of   *)
(* attempts, writes and lost calls: types, what a batch that was sent      *)
(* still is, and that the step implements NullFill.                        *)
(***************************************************************************)
EXTENDS Backfill, FiniteSetTheorems, TLAPS

(* The rows a batch picked are NULL until the application writes them.     *)
BatchInv ==
  /\ TypeOK
  /\ pc = "sent" => \A r \in batch \ written : table[r] = Null
  /\ pc # "sent" => batch = {}

-----------------------------------------------------------------------------
(* The rows a statement fills are a finite set.                            *)
LEMMA CountedRows ==
  ASSUME NEW rows \in SUBSET Rows
  PROVE  Cardinality(rows) \in Nat
BY BackfillAssumption, FS_Subset, FS_CardinalityType

(* NullFill counts as Backfill does.                                       *)
LEMMA SameCount ==
  ASSUME NEW rows
  PROVE  Step!Cardinality(rows) = Cardinality(rows)
BY Zenon DEF Cardinality, Step!Cardinality

(* A statement picks nothing only when nothing is NULL: LIMIT is not 0.    *)
LEMMA EmptyPick ==
  ASSUME {} \in Picks(table)
  PROVE  Nulls(table) = {}
BY BackfillAssumption, FS_EmptySet DEF Picks, Pickable

(* Rows that are filled have a value like any other.                       *)
LEMMA FilledTyped ==
  ASSUME table \in [Rows -> Values], NEW rows
  PROVE  FilledIn(table, rows) \in [Rows -> Values]
BY DEF FilledIn, Values

(* To fill no row is to leave the table as it is.                          *)
LEMMA FillNone ==
  ASSUME table \in [Rows -> Values]
  PROVE  FilledIn(table, {}) = table
BY DEF FilledIn

(* What a batch without conflicts fills is NULL.                           *)
LEMMA BatchIsNull ==
  ASSUME BatchInv, pc = "sent", ~ Conflicts, NEW filled \in Outcomes
  PROVE  filled \in SUBSET batch /\ filled \in SUBSET Nulls(table)
BY DEF BatchInv, TypeOK, Conflicts, Outcomes, Nulls

-----------------------------------------------------------------------------
(* No batch has been sent at first.                                        *)
LEMMA BatchInit == Init => BatchInv
BY BackfillAssumption DEF Init, BatchInv, TypeOK

(* Each step of the executor, of its callers and of the application keeps  *)
(* what is known of the batch: only a write of the application takes a row *)
(* out of NULL, and it is remembered as one.                               *)
LEMMA BatchNext == BatchInv /\ [Next]_vars => BatchInv'
<1> SUFFICES ASSUME BatchInv, [Next]_vars PROVE BatchInv'
  OBVIOUS
<1> USE BackfillAssumption DEF BatchInv, TypeOK
<1>1. CASE Send
  BY <1>1 DEF Send, Picks, Pickable, Nulls
<1>2. CASE CompleteStep
  BY <1>2 DEF CompleteStep
<1>3. CASE NextBatch
  <2>1. PICK filled \in Outcomes :
          /\ table' = FilledIn(table, filled)
          /\ count' = count + Cardinality(filled)
    BY <1>3 DEF NextBatch
  <2>2. filled \in SUBSET Rows
    BY <1>3, BatchIsNull DEF NextBatch
  <2>3. table' \in [Rows -> Values]
    BY <2>1, FilledTyped
  <2>4. count' \in Nat
    BY <2>1, <2>2, CountedRows
  <2> QED
    BY <1>3, <2>3, <2>4 DEF NextBatch
<1>4. CASE NoProgress
  BY <1>4 DEF NoProgress, FailWith
<1>5. CASE Resend
  BY <1>5 DEF Resend
<1>6. CASE ConflictsAgain
  BY <1>6 DEF ConflictsAgain, FailWith
<1>7. CASE Lose
  <2>1. table' \in [Rows -> Values]
    BY <1>7, FilledTyped DEF Lose
  <2> QED
    BY <1>7, <2>1 DEF Lose, FailWith
<1>8. CASE Rerun
  BY <1>8 DEF Rerun
<1>9. CASE Write
  BY <1>9 DEF Write, stepVars
<1>10. CASE UNCHANGED vars
  BY <1>10 DEF vars, stepVars
<1> QED
  BY <1>1, <1>2, <1>3, <1>4, <1>5, <1>6, <1>7, <1>8, <1>9, <1>10
  DEF Next, Answered

(* Every variable keeps its type; the rows a batch in flight has picked    *)
(* are NULL, but for those the application wrote meanwhile.                *)
THEOREM BackfillBatches == Spec => []BatchInv
BY BatchInit, BatchNext, PTL DEF Spec

-----------------------------------------------------------------------------
(* Every step of the executor is a step of NullFill, or leaves what it     *)
(* speaks of alone.                                                        *)
LEMMA StepNext == BatchInv /\ [Next]_vars => [Step!Next]_(Step!vars)
<1> SUFFICES ASSUME BatchInv, [Next]_vars PROVE [Step!Next]_(Step!vars)
  OBVIOUS
<1> USE DEF BatchInv, TypeOK, Phase
<1>1. CASE Send
  <2>1. CASE batch' = {}
    <3>1. Nulls(table) = {}
      BY <1>1, <2>1, EmptyPick DEF Send
    <3>2. Step!Clear
      BY <1>1, <2>1, <3>1 DEF Send, Step!Clear, Step!Nulls, Nulls
    <3> QED
      BY <3>2 DEF Step!Next
  <2>2. CASE batch' # {}
    BY <1>1, <2>2 DEF Send, Step!vars
  <2> QED
    BY <2>1, <2>2
<1>2. CASE CompleteStep
  <2>1. Step!Complete
    BY <1>2 DEF CompleteStep, Step!Complete
  <2> QED
    BY <2>1 DEF Step!Next
<1>3. CASE NextBatch
  <2>1. PICK filled \in Outcomes :
          /\ table' = FilledIn(table, filled)
          /\ count' = count + Cardinality(filled)
    BY <1>3 DEF NextBatch
  <2>2. filled \in SUBSET Nulls(table)
    BY <1>3, BatchIsNull DEF NextBatch
  <2>3. count' = count + Step!Cardinality(filled)
    BY <2>1, SameCount
  <2>4. Step!Fill
    BY <1>3, <2>1, <2>2, <2>3
    DEF NextBatch, Step!Fill, Step!FilledIn, FilledIn, Step!Nulls, Nulls
  <2> QED
    BY <2>4 DEF Step!Next
<1>4. CASE NoProgress
  <2>1. unsure
    BY <1>4 DEF NoProgress, Outcomes, StopsShort
  <2>2. Nulls(table) # {}
    BY <1>4 DEF NoProgress, Conflicts, Nulls
  <2>3. Step!GiveUp
    BY <1>4, <2>1, <2>2
    DEF NoProgress, FailWith, Step!GiveUp, Step!Nulls, Nulls
  <2> QED
    BY <2>3 DEF Step!Next
<1>5. CASE Resend
  BY <1>5 DEF Resend, Conflicts, Step!vars
<1>6. CASE ConflictsAgain
  <2>1. table' = FilledIn(table, {})
    BY <1>6, FillNone DEF ConflictsAgain
  <2>2. Step!Fail
    BY <1>6, <2>1
    DEF ConflictsAgain, FailWith, Step!Fail, Step!FilledIn, FilledIn, Step!Nulls
  <2> QED
    BY <2>2 DEF Step!Next
<1>7. CASE Lose
  <2>1. PICK rows \in SUBSET Nulls(table) : table' = FilledIn(table, rows)
    <3>1. CASE UNCHANGED table
      BY <3>1, FillNone
    <3>2. CASE ~ Conflicts /\ \E filled \in Outcomes : table' = FilledIn(table, filled)
      BY <1>7, <3>2, BatchIsNull DEF Lose
    <3> QED
      BY <1>7, <3>1, <3>2 DEF Lose
  <2>2. Step!Fail
    BY <1>7, <2>1
    DEF Lose, FailWith, Step!Fail, Step!FilledIn, FilledIn, Step!Nulls, Nulls
  <2> QED
    BY <2>2 DEF Step!Next
<1>8. CASE Rerun
  <2>1. Step!Again
    BY <1>8 DEF Rerun, Step!Again
  <2> QED
    BY <2>1 DEF Step!Next
<1>9. CASE Write
  <2>1. Step!Write
    BY <1>9 DEF Write, stepVars, Step!Write, Step!Values, Values
  <2> QED
    BY <2>1 DEF Step!Next
<1>10. CASE UNCHANGED vars
  BY <1>10 DEF vars, stepVars, Step!vars
<1> QED
  BY <1>1, <1>2, <1>3, <1>4, <1>5, <1>6, <1>7, <1>8, <1>9, <1>10
  DEF Next, Answered

(* Batches that race with the application's writes, conflict, are sent     *)
(* again or are lost only ever fill NULLs, and the step is done only after *)
(* a moment with none: _backfill is the one step its callers take it for.  *)
THEOREM BackfillFillsNulls == Spec => FillsNulls
<1>1. Init => Step!Init
  BY DEF Init, Step!Init, Phase, Step!Values, Values
<1> QED
  BY <1>1, StepNext, BackfillBatches, PTL DEF Spec, FillsNulls, Step!Spec
=============================================================================
