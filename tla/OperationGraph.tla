-------------------------- MODULE OperationGraph --------------------------
(***************************************************************************)
(* The dependency graph of a migration's operations, as planOperations of  *)
(* packages/migration/src/reconciliation/planner.ts builds it, and the     *)
(* order it puts them in.                                                  *)
(*                                                                         *)
(* An operation is a record with, among others, the fields                 *)
(*   id      its position in the emission order                            *)
(*   type    "CREATE", "ALTER" or "DROP"                                   *)
(*   kind    the kind of the object it carries                             *)
(*   name    the qualified name of that object                             *)
(*   refs    the sequence of qualified names it references                 *)
(*   change  the key of the change it is a step of                         *)
(*   step    its position in that change                                   *)
(* Ids are handed out in array order by SchemaReconciler, so "the order of *)
(* the array" and "the order of the ids" are the same order here.          *)
(***************************************************************************)
EXTENDS Integers, FiniteSets, Sequences

ConstraintKinds ==
  {"PRIMARY_KEY_CONSTRAINT", "UNIQUE_CONSTRAINT", "CHECK_CONSTRAINT"}

IdsOf(ops) == {o.id : o \in ops}

(* What other operations name in refs to point at op: a standalone         *)
(* constraint is qualified with its parent table, the first of its refs.   *)
SubjectOf(op) ==
  IF op.kind \in ConstraintKinds /\ op.refs # <<>>
    THEN <<op.refs[1], op.name>>
    ELSE <<op.name>>

RefsOf(op) == {<<op.refs[k]>> : k \in DOMAIN op.refs}

-----------------------------------------------------------------------------
(* The graph: <<a, b>> is an edge when operation a has to run before b.    *)

StepBefore(o, p) ==
  /\ o.change = p.change
  /\ o.step < p.step \/ (o.step = p.step /\ o.id < p.id)

(* The steps of one change, each linked to the next of the sorted order.   *)
StepEdges(ops) ==
  {<<e[1].id, e[2].id>> : e \in
     {op \in ops \X ops :
        /\ StepBefore(op[1], op[2])
        /\ ~ \E q \in ops : StepBefore(op[1], q) /\ StepBefore(q, op[2])}}

(* op references the subject of target, a step of another change.          *)
Touches(op, target) ==
  /\ SubjectOf(target) \in RefsOf(op)
  /\ target.change # op.change

(* Mutant: every operation also runs after those it references.            *)
RefEdgesOfDrops(ops) ==
  {<<e[1].id, e[2].id>> : e \in
     {op \in ops \X ops :
        \/ op[1].type = "DROP" /\ Touches(op[1], op[2])
        \/ Touches(op[2], op[1])}}

(* A DROP runs before the operations it references, any other after them.  *)
RefEdges(ops) ==
  {<<e[1].id, e[2].id>> : e \in
     {op \in ops \X ops :
        \/ op[1].type = "DROP" /\ Touches(op[1], op[2])
        \/ op[2].type # "DROP" /\ Touches(op[2], op[1])}}

DependencyGraph(ops) == StepEdges(ops) \cup RefEdges(ops)

Before(ops, i) == {a \in IdsOf(ops) : <<a, i>> \in DependencyGraph(ops)}

-----------------------------------------------------------------------------
(* The order as a function of the operations, for the modules that plan    *)
(* and run: the ids planOperations emits, which are fewer than the         *)
(* operations exactly when it throws.                                      *)
PlanOrder(set) ==
  LET graph == DependencyGraph(set)
      emit[n \in 0..Cardinality(set)] ==
        IF n = 0 THEN <<>> ELSE
          LET done == emit[n - 1]
              free == {i \in IdsOf(set) :
                         /\ \A k \in DOMAIN done : done[k] # i
                         /\ \A e \in graph :
                              e[2] = i => \E k \in DOMAIN done : done[k] = e[1]}
          IN  IF free = {} THEN done
              ELSE Append(done, CHOOSE i \in free : \A j \in free : i <= j)
  IN  emit[Cardinality(set)]

HasCycle(set) == Len(PlanOrder(set)) # Cardinality(set)

============================================================================
