------------------------------ MODULE Planner ------------------------------
(***************************************************************************)
(* Kahn's algorithm as planOperations of                                   *)
(* packages/migration/src/reconciliation/planner.ts runs it over the graph *)
(* of OperationGraph, with a ready list kept in id order.                  *)
(***************************************************************************)
EXTENDS OperationGraph

CONSTANT Inputs        \* the sets of operations planOperations is called with

(* Ids number the operations of one call, and a call gets finitely many.   *)
ASSUME InputsAssumption ==
  \A ops \in Inputs :
    /\ IsFiniteSet(ops)
    /\ \A o \in ops : o.id \in Nat
    /\ \A o, p \in ops : o.id = p.id => o = p

-----------------------------------------------------------------------------
VARIABLES
  ops,        \* the operations of this call
  inDegree,   \* id -> how many of its predecessors are still to be emitted
  ready,      \* the ids whose in-degree is zero, in id order in the code
  result,     \* the ids emitted so far
  pc          \* "build", "visit", "planned" or "thrown"

vars == <<ops, inDegree, ready, result, pc>>

Emitted == {result[k] : k \in 1..Len(result)}

Init ==
  /\ ops \in Inputs
  /\ inDegree = [i \in IdsOf(ops) |-> 0]
  /\ ready = {}
  /\ result = <<>>
  /\ pc = "build"

(* buildSubjectRegistry, buildDependencyGraph and the first ready list.    *)
Build ==
  /\ pc = "build"
  /\ inDegree' = [i \in IdsOf(ops) |-> Cardinality(Before(ops, i))]
  /\ ready' = {i \in IdsOf(ops) : inDegree'[i] = 0}
  /\ pc' = "visit"
  /\ UNCHANGED <<ops, result>>

(* Mutants of Visit: a successor is released by its first predecessor; the  *)
(* ready list is only searched forward; the largest id is taken; the       *)
(* in-degrees of all but the successors are forgotten.                     *)
VisitEarly ==
  /\ pc = "visit"
  /\ \E id \in ready :
       /\ \A other \in ready : id <= other
       /\ result' = Append(result, id)
       /\ inDegree' = [i \in IdsOf(ops) |-> inDegree[i]]
       /\ ready' = (ready \ {id}) \cup {i \in IdsOf(ops) : id \in Before(ops, i)}
  /\ UNCHANGED <<ops, pc>>

VisitForward ==
  /\ pc = "visit"
  /\ \E id \in ready :
       /\ \A other \in ready : id <= other
       /\ result' = Append(result, id)
       /\ inDegree' = [i \in IdsOf(ops) |->
                         IF id \in Before(ops, i) THEN inDegree[i] - 1
                                                  ELSE inDegree[i]]
       /\ ready' = (ready \ {id}) \cup
                     {i \in IdsOf(ops) : id \in Before(ops, i) /\ inDegree'[i] = 0
                                      /\ i > id}
  /\ UNCHANGED <<ops, pc>>

VisitLargest ==
  /\ pc = "visit"
  /\ \E id \in ready :
       /\ \A other \in ready : id >= other
       /\ result' = Append(result, id)
       /\ inDegree' = [i \in IdsOf(ops) |->
                         IF id \in Before(ops, i) THEN inDegree[i] - 1
                                                  ELSE inDegree[i]]
       /\ ready' = (ready \ {id}) \cup
                     {i \in IdsOf(ops) : id \in Before(ops, i) /\ inDegree'[i] = 0}
  /\ UNCHANGED <<ops, pc>>

VisitForgets ==
  /\ pc = "visit"
  /\ \E id \in ready :
       /\ \A other \in ready : id <= other
       /\ result' = Append(result, id)
       /\ inDegree' = [i \in {j \in IdsOf(ops) : id \in Before(ops, j)} |->
                         inDegree[i] - 1]
       /\ ready' = (ready \ {id}) \cup {i \in DOMAIN inDegree' : inDegree'[i] = 0}
  /\ UNCHANGED <<ops, pc>>

(* Shift the smallest ready id, emit it, and release its successors.       *)
Visit ==
  /\ pc = "visit"
  /\ \E id \in ready :
       /\ \A other \in ready : id <= other
       /\ result' = Append(result, id)
       /\ inDegree' = [i \in IdsOf(ops) |->
                         IF id \in Before(ops, i) THEN inDegree[i] - 1
                                                  ELSE inDegree[i]]
       /\ ready' = (ready \ {id}) \cup
                     {i \in IdsOf(ops) : id \in Before(ops, i) /\ inDegree'[i] = 0}
  /\ UNCHANGED <<ops, pc>>

(* Mutants of Return: a short result is returned as the plan; the loop     *)
(* waits for operations that never become ready.                           *)
ReturnShort ==
  /\ pc = "visit"
  /\ ready = {}
  /\ pc' = "planned"
  /\ UNCHANGED <<ops, inDegree, ready, result>>

ReturnWaits ==
  /\ pc = "visit"
  /\ Len(result) = Cardinality(ops)
  /\ pc' = "planned"
  /\ UNCHANGED <<ops, inDegree, ready, result>>

(* Nothing is ready: either every operation was emitted, or it throws.     *)
Return ==
  /\ pc = "visit"
  /\ ready = {}
  /\ pc' = IF Len(result) = Cardinality(ops) THEN "planned" ELSE "thrown"
  /\ UNCHANGED <<ops, inDegree, ready, result>>

Next == Build \/ Visit \/ Return

Spec == Init /\ [][Next]_vars

FairSpec == Spec /\ WF_vars(Next)

-----------------------------------------------------------------------------
TypeOK ==
  /\ inDegree \in [IdsOf(ops) -> Int]
  /\ ready \subseteq IdsOf(ops)
  /\ result \in Seq(IdsOf(ops))
  /\ pc \in {"build", "visit", "planned", "thrown"}

(* No operation is emitted before one it depends on, or twice: what is     *)
(* emitted is closed under the graph at every moment of the loop.          *)
EdgesRespected ==
  /\ \A k, l \in 1..Len(result) : result[k] = result[l] => k = l
  /\ \A k \in 1..Len(result) : \A a \in Before(ops, result[k]) :
       \E j \in 1..(k - 1) : result[j] = a

(* A plan that is returned holds every operation.                          *)
PlanComplete == pc = "planned" => Emitted = IdsOf(ops)

(* The error is thrown only for a cycle: each operation left out waits on  *)
(* another one left out.                                                   *)
ThrownOnlyOnCycle ==
  pc = "thrown" =>
    /\ Emitted # IdsOf(ops)
    /\ \A i \in IdsOf(ops) \ Emitted : Before(ops, i) \ Emitted # {}

(* Stability: an operation is overtaken by a later one (a larger id) only  *)
(* while one of its own predecessors is still to come.                     *)
MinIdFirst ==
  \A k, l \in 1..Len(result) :
    k < l /\ result[l] < result[k] =>
      \E m \in k..(l - 1) : result[m] \in Before(ops, result[l])

(* The loop computes PlanOrder.                                            *)
ComputesPlanOrder ==
  pc \in {"planned", "thrown"} =>
    /\ result = PlanOrder(ops)
    /\ (pc = "thrown") = HasCycle(ops)

(* planOperations ends, with a plan or with the error.                     *)
Ends == <>(pc \in {"planned", "thrown"})
=============================================================================
