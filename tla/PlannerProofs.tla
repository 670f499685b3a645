--------------------------- MODULE PlannerProofs ---------------------------
(***************************************************************************)
(* Proofs about Planner for every set of operations: types, the order of   *)
(* the plan, what it holds, when the error is thrown, and stability.       *)
(***************************************************************************)
EXTENDS Planner, ListProofs

Prefix(k) == {result[j] : j \in 1..k}

(* The loop's bookkeeping: what was emitted is counted once, the in-degree *)
(* counts the predecessors still to come, the ready set is exactly what    *)
(* has none, and each emitted id was the smallest one that could have been.*)
Bookkeeping ==
  /\ ops \in Inputs
  /\ Cardinality(Emitted) = Len(result) /\ IsFiniteSet(Emitted)
  /\ pc = "build" => result = <<>>
  /\ pc # "build" =>
       /\ \A i \in IdsOf(ops) :
            inDegree[i] = Cardinality(Before(ops, i) \ Emitted)
       /\ ready = {i \in IdsOf(ops) \ Emitted : Before(ops, i) \subseteq Emitted}
  /\ pc = "planned" => Len(result) = Cardinality(ops)
  /\ pc = "thrown" => ready = {} /\ Len(result) # Cardinality(ops)
  /\ \A k \in 1..Len(result) : \A i \in IdsOf(ops) \ Prefix(k - 1) :
       Before(ops, i) \subseteq Prefix(k - 1) => result[k] <= i

IInv == TypeOK /\ EdgesRespected /\ Bookkeeping

(* Distinct operations have distinct natural ids, so there are as many ids *)
(* as operations.                                                          *)
LEMMA IdsCount ==
  ASSUME NEW S \in Inputs
  PROVE  /\ IsFiniteSet(IdsOf(S))
         /\ Cardinality(IdsOf(S)) = Cardinality(S)
         /\ IdsOf(S) \subseteq Nat
<1>1. IsFiniteSet(S) /\ \A o, p \in S : o.id = p.id => o = p
  BY InputsAssumption
<1>2. IdsOf(S) \subseteq Nat
  BY InputsAssumption DEF IdsOf
<1> QED
  BY <1>1, <1>2, IdsAreCounted

(* The predecessors of an id are finitely many ids of the same call.       *)
LEMMA BeforeFinite ==
  ASSUME NEW S \in Inputs, NEW i
  PROVE  Before(S, i) \subseteq IdsOf(S) /\ IsFiniteSet(Before(S, i))
<1>1. Before(S, i) \in SUBSET IdsOf(S)
  BY DEF Before
<1> QED
  BY <1>1, IdsCount, FS_Subset

(* Taking one id off a finite set of pending predecessors.                 *)
LEMMA PendingStep ==
  ASSUME NEW P, IsFiniteSet(P), NEW E, NEW x, x \notin E
  PROVE  /\ P \ (E \cup {x}) = (P \ E) \ {x}
         /\ x \in P => Cardinality(P \ (E \cup {x})) = Cardinality(P \ E) - 1
         /\ x \notin P => P \ (E \cup {x}) = P \ E
         /\ Cardinality(P \ E) \in Nat
         /\ Cardinality(P \ E) = 0 <=> P \subseteq E
<1>1. IsFiniteSet(P \ E) /\ P \ E \in SUBSET P
  BY FS_Difference
<1>2. P \ (E \cup {x}) = (P \ E) \ {x}
  OBVIOUS
<1>3. Cardinality((P \ E) \ {x}) = IF x \in P \ E THEN Cardinality(P \ E) - 1
                                                  ELSE Cardinality(P \ E)
  BY <1>1, FS_RemoveElement
<1>4. Cardinality(P \ E) \in Nat
  BY <1>1, FS_CardinalityType
<1>5. Cardinality(P \ E) = 0 <=> P \ E = {}
  BY <1>1, FS_EmptySet
<1> QED
  BY <1>2, <1>3, <1>4, <1>5

(* Nothing is emitted at first.                                            *)
LEMMA InitInv == Init => IInv
<1> SUFFICES ASSUME Init PROVE IInv
  OBVIOUS
<1>1. Emitted = {} /\ Len(result) = 0
  BY DEF Init, Emitted
<1>2. TypeOK
  BY DEF Init, TypeOK
<1>3. EdgesRespected
  BY <1>1 DEF Init, EdgesRespected
<1>4. Bookkeeping
  BY <1>1, FS_EmptySet DEF Init, Bookkeeping
<1> QED
  BY <1>2, <1>3, <1>4 DEF IInv

(* Building the graph keeps the invariant: nothing is emitted yet, so the  *)
(* in-degree is the number of predecessors.                                *)
LEMMA BuildInv == IInv /\ Build => IInv'
<1> SUFFICES ASSUME IInv, Build PROVE IInv'
  OBVIOUS
<1> USE DEF IInv
<1>1. result = <<>> /\ result' = <<>> /\ ops' = ops /\ pc' = "visit" /\ ops \in Inputs
  BY DEF Build, Bookkeeping
<1>2. Emitted = {} /\ Emitted' = {} /\ Len(result) = 0 /\ Len(result') = 0
  BY <1>1 DEF Emitted
<1>3. \A i \in IdsOf(ops) : /\ inDegree'[i] = Cardinality(Before(ops, i))
                            /\ inDegree'[i] \in Nat
                            /\ inDegree'[i] = 0 <=> Before(ops, i) = {}
  BY <1>1, BeforeFinite, FS_CardinalityType, FS_EmptySet DEF Build
<1>4. TypeOK'
  BY <1>1, <1>3 DEF TypeOK, Build
<1>5. EdgesRespected'
  BY <1>2 DEF EdgesRespected
<1>6. ready' = {i \in IdsOf(ops) \ Emitted' : Before(ops, i) \subseteq Emitted'}
  BY <1>2, <1>3 DEF Build
<1>7. \A i \in IdsOf(ops) : inDegree'[i] = Cardinality(Before(ops, i) \ Emitted')
  BY <1>2, <1>3
<1>8. Bookkeeping'
  BY <1>1, <1>2, <1>6, <1>7, FS_EmptySet DEF Bookkeeping
<1> QED
  BY <1>4, <1>5, <1>8

(* Emitting the smallest ready id keeps the invariant.                     *)
LEMMA VisitInv == IInv /\ Visit => IInv'
<1> SUFFICES ASSUME IInv, Visit PROVE IInv'
  OBVIOUS
<1>1. PICK id \in ready :
        /\ \A other \in ready : id <= other
        /\ result' = Append(result, id)
        /\ inDegree' = [i \in IdsOf(ops) |->
                          IF id \in Before(ops, i) THEN inDegree[i] - 1
                                                   ELSE inDegree[i]]
        /\ ready' = (ready \ {id}) \cup
                      {i \in IdsOf(ops) : id \in Before(ops, i) /\ inDegree'[i] = 0}
  BY DEF Visit
<1>2. /\ pc = "visit" /\ pc' = "visit" /\ ops' = ops /\ ops \in Inputs
      /\ result \in Seq(IdsOf(ops)) /\ inDegree \in [IdsOf(ops) -> Int]
  BY DEF Visit, IInv, TypeOK, Bookkeeping
<1>3. /\ ready = {i \in IdsOf(ops) \ Emitted : Before(ops, i) \subseteq Emitted}
      /\ \A i \in IdsOf(ops) : inDegree[i] = Cardinality(Before(ops, i) \ Emitted)
      /\ Cardinality(Emitted) = Len(result) /\ IsFiniteSet(Emitted)
  BY <1>2 DEF IInv, Bookkeeping
<1>4. id \in IdsOf(ops) /\ id \notin Emitted /\ Before(ops, id) \subseteq Emitted
  BY <1>1, <1>3
<1>5. /\ Len(result') = Len(result) + 1 /\ Len(result) \in Nat
      /\ result'[Len(result) + 1] = id
      /\ \A k \in 1..Len(result) : result'[k] = result[k]
      /\ result' \in Seq(IdsOf(ops))
  BY <1>1, <1>2, <1>4
<1>6. Emitted' = Emitted \cup {id}
  BY <1>5 DEF Emitted
<1>7. \A i \in IdsOf(ops) :
        /\ inDegree'[i] = Cardinality(Before(ops, i) \ Emitted')
        /\ inDegree'[i] \in Int
        /\ inDegree'[i] = 0 <=> Before(ops, i) \subseteq Emitted'
  <2> SUFFICES ASSUME NEW i \in IdsOf(ops)
               PROVE  /\ inDegree'[i] = Cardinality(Before(ops, i) \ Emitted')
                      /\ inDegree'[i] \in Int
                      /\ inDegree'[i] = 0 <=> Before(ops, i) \subseteq Emitted'
    OBVIOUS
  <2> DEFINE P == Before(ops, i)
  <2> HIDE DEF P
  <2>1. IsFiniteSet(P)
    BY <1>2, BeforeFinite DEF P
  <2>2. /\ id \in P => Cardinality(P \ Emitted') = Cardinality(P \ Emitted) - 1
        /\ id \notin P => P \ Emitted' = P \ Emitted
        /\ Cardinality(P \ Emitted) \in Nat
    BY <2>1, <1>4, <1>6, PendingStep
  <2>3. inDegree'[i] = IF id \in P THEN inDegree[i] - 1 ELSE inDegree[i]
    BY <1>1 DEF P
  <2>4. inDegree[i] = Cardinality(P \ Emitted)
    BY <1>3 DEF P
  <2>5. inDegree'[i] = Cardinality(P \ Emitted')
    BY <2>2, <2>3, <2>4
  <2>6. IsFiniteSet(P \ Emitted') /\ Cardinality(P \ Emitted') \in Nat
    BY <2>1, FS_Difference, FS_CardinalityType
  <2>7. Cardinality(P \ Emitted') = 0 <=> P \ Emitted' = {}
    BY <2>6, FS_EmptySet
  <2> QED
    BY <2>5, <2>6, <2>7 DEF P
<1>8. \A k \in 1..Len(result) : Before(ops, result[k]) \subseteq Emitted
  <2>1. ASSUME NEW k \in 1..Len(result), NEW a \in Before(ops, result[k])
        PROVE  a \in Emitted
    <3>1. PICK j \in 1..(k - 1) : result[j] = a
      BY <2>1 DEF IInv, EdgesRespected
    <3>2. j \in 1..Len(result)
      BY <1>5
    <3> QED
      BY <3>1, <3>2 DEF Emitted
  <2> QED
    BY <2>1
<1>9. ready' = {i \in IdsOf(ops) \ Emitted' : Before(ops, i) \subseteq Emitted'}
  <2>1. \A i \in Emitted : id \notin Before(ops, i)
    BY <1>4, <1>8 DEF Emitted
  <2>2. id \notin Before(ops, id)
    BY <1>4
  <2>3. ASSUME NEW i \in IdsOf(ops)
        PROVE  i \in ready' <=> i \notin Emitted' /\ Before(ops, i) \subseteq Emitted'
    <3>1. i \in ready' <=> \/ i \in ready /\ i # id
                           \/ id \in Before(ops, i) /\ inDegree'[i] = 0
      BY <1>1
    <3>2. i \in ready <=> i \notin Emitted /\ Before(ops, i) \subseteq Emitted
      BY <1>3
    <3> QED
      BY <3>1, <3>2, <2>1, <2>2, <1>6, <1>7
  <2>4. ready' \subseteq IdsOf(ops)
    BY <1>1, <1>3
  <2> QED
    BY <2>3, <2>4
<1>10. TypeOK'
  <2>1. inDegree' \in [IdsOf(ops) -> Int]
    BY <1>1, <1>2
  <2> QED
    BY <2>1, <1>2, <1>5, <1>9 DEF TypeOK
<1>11. EdgesRespected'
  <2>1. ASSUME NEW k \in 1..Len(result'), NEW l \in 1..Len(result'),
               result'[k] = result'[l]
        PROVE  k = l
    <3>1. \A m \in 1..Len(result) : result[m] # id
      BY <1>4 DEF Emitted
    <3>2. \A m, n \in 1..Len(result) : result[m] = result[n] => m = n
      BY DEF IInv, EdgesRespected
    <3> QED
      BY <2>1, <3>1, <3>2, <1>5
  <2>2. ASSUME NEW k \in 1..Len(result'), NEW a \in Before(ops, result'[k])
        PROVE  \E j \in 1..(k - 1) : result'[j] = a
    <3>1. CASE k \in 1..Len(result)
      <4>1. PICK j \in 1..(k - 1) : result[j] = a
        BY <3>1, <1>5 DEF IInv, EdgesRespected
      <4> QED
        BY <4>1, <3>1, <1>5
    <3>2. CASE k = Len(result) + 1
      <4>1. a \in Emitted
        BY <3>2, <1>4, <1>5
      <4> QED
        BY <4>1, <3>2, <1>5 DEF Emitted
    <3> QED
      BY <3>1, <3>2, <1>5
  <2> QED
    BY <2>1, <2>2, <1>2 DEF EdgesRespected
<1>12. Bookkeeping'
  <2>1. Cardinality(Emitted') = Len(result') /\ IsFiniteSet(Emitted')
    BY <1>3, <1>4, <1>5, <1>6, FS_AddElement
  <2>2. ASSUME NEW k \in 1..Len(result'), NEW i \in IdsOf(ops) \ Prefix(k - 1)',
               Before(ops, i) \subseteq Prefix(k - 1)'
        PROVE  result'[k] <= i
    <3>1. Prefix(k - 1)' = Prefix(k - 1)
      BY <1>5 DEF Prefix
    <3>2. CASE k \in 1..Len(result)
      BY <2>2, <3>1, <3>2, <1>5 DEF IInv, Bookkeeping
    <3>3. CASE k = Len(result) + 1
      <4>1. Prefix(k - 1) = Emitted
        BY <3>3, <1>5 DEF Prefix, Emitted
      <4>2. i \in ready
        BY <2>2, <3>1, <4>1, <1>3
      <4> QED
        BY <4>2, <3>3, <1>1, <1>5
    <3> QED
      BY <3>2, <3>3, <1>5
  <2> QED
    BY <2>1, <2>2, <1>2, <1>7, <1>9 DEF Bookkeeping
<1> QED
  BY <1>10, <1>11, <1>12 DEF IInv

(* Leaving the loop changes pc only, to what the count says.               *)
LEMMA ReturnInv == IInv /\ Return => IInv'
<1> SUFFICES ASSUME IInv, Return PROVE IInv'
  OBVIOUS
<1>1. /\ UNCHANGED <<ops, inDegree, ready, result>> /\ pc = "visit" /\ ready = {}
      /\ pc' \in {"planned", "thrown"}
      /\ pc' = "planned" <=> Len(result) = Cardinality(ops)
  BY DEF Return
<1>2. Emitted' = Emitted /\ \A k : Prefix(k)' = Prefix(k)
  BY <1>1 DEF Emitted, Prefix
<1>3. TypeOK'
  BY <1>1 DEF IInv, TypeOK
<1>4. EdgesRespected'
  BY <1>1 DEF IInv, EdgesRespected
<1>5. Bookkeeping'
  BY <1>1, <1>2 DEF IInv, Bookkeeping
<1> QED
  BY <1>3, <1>4, <1>5 DEF IInv

(* A step of nobody changes nothing.                                       *)
LEMMA StutterInv == IInv /\ UNCHANGED vars => IInv'
<1> SUFFICES ASSUME IInv, UNCHANGED vars PROVE IInv'
  OBVIOUS
<1>1. UNCHANGED <<ops, inDegree, ready, result, pc>>
  BY DEF vars
<1>2. Emitted' = Emitted /\ \A k : Prefix(k)' = Prefix(k)
  BY <1>1 DEF Emitted, Prefix
<1>3. TypeOK' /\ EdgesRespected'
  BY <1>1 DEF IInv, TypeOK, EdgesRespected
<1>4. Bookkeeping'
  BY <1>1, <1>2 DEF IInv, Bookkeeping
<1> QED
  BY <1>3, <1>4 DEF IInv

(* The invariant holds throughout.                                         *)
LEMMA Invariance == Spec => []IInv
<1>1. IInv /\ [Next]_vars => IInv'
  BY BuildInv, VisitInv, ReturnInv, StutterInv DEF Next
<1> QED
  BY <1>1, InitInv, PTL DEF Spec

-----------------------------------------------------------------------------
(* Types of the loop's variables, for every set of operations.             *)
THEOREM TypeCorrect == Spec => []TypeOK
<1>1. IInv => TypeOK
  BY DEF IInv
<1> QED
  BY <1>1, Invariance, PTL

(* The order planOperations builds never puts an operation before one it   *)
(* depends on, whatever the operations.                                    *)
THEOREM OrderSound == Spec => []EdgesRespected
<1>1. IInv => EdgesRespected
  BY DEF IInv
<1> QED
  BY <1>1, Invariance, PTL

(* A plan that is returned leaves no operation out.                        *)
THEOREM PlanHoldsEverything == Spec => []PlanComplete
<1>1. ASSUME IInv, pc = "planned" PROVE Emitted = IdsOf(ops)
  <2>1. ops \in Inputs /\ Cardinality(Emitted) = Cardinality(ops)
    BY <1>1 DEF IInv, Bookkeeping
  <2>2. Emitted \in SUBSET IdsOf(ops)
    BY <1>1 DEF IInv, TypeOK, Emitted
  <2> QED
    BY <2>1, <2>2, IdsCount, FS_Subset
<1>2. IInv => PlanComplete
  BY <1>1 DEF PlanComplete
<1> QED
  BY <1>2, Invariance, PTL

(* The "Cycle detected" error is thrown only when a cycle is there: every  *)
(* operation left out has a predecessor left out.                          *)
THEOREM ErrorMeansCycle == Spec => []ThrownOnlyOnCycle
<1>1. ASSUME IInv, pc = "thrown"
      PROVE  /\ Emitted # IdsOf(ops)
             /\ \A i \in IdsOf(ops) \ Emitted : Before(ops, i) \ Emitted # {}
  <2>1. /\ ops \in Inputs /\ Cardinality(Emitted) # Cardinality(ops)
        /\ {} = {i \in IdsOf(ops) \ Emitted : Before(ops, i) \subseteq Emitted}
    BY <1>1 DEF IInv, Bookkeeping
  <2>2. Cardinality(IdsOf(ops)) = Cardinality(ops)
    BY <2>1, IdsCount
  <2> QED
    BY <2>1, <2>2
<1>2. IInv => ThrownOnlyOnCycle
  BY <1>1 DEF ThrownOnlyOnCycle
<1> QED
  BY <1>2, Invariance, PTL

(* Stability: a smaller id is overtaken only while it waits for something. *)
THEOREM StableOrder == Spec => []MinIdFirst
<1>1. ASSUME IInv,
             NEW k \in 1..Len(result), NEW l \in 1..Len(result),
             k < l, result[l] < result[k]
      PROVE  \E m \in k..(l - 1) : result[m] \in Before(ops, result[l])
  <2> DEFINE i == result[l]
  <2>1. result \in Seq(IdsOf(ops)) /\ Len(result) \in Nat /\ ops \in Inputs
    BY <1>1 DEF IInv, TypeOK, Bookkeeping
  <2>2. i \in IdsOf(ops) /\ result[k] \in IdsOf(ops) /\ IdsOf(ops) \subseteq Nat
    BY <2>1, IdsCount
  <2>3. i \notin Prefix(k - 1)
    BY <1>1, <2>1 DEF IInv, EdgesRespected, Prefix
  <2>4. ~ (result[k] <= i)
    BY <1>1, <2>2
  <2>5. PICK a \in Before(ops, i) : a \notin Prefix(k - 1)
    BY <1>1, <2>2, <2>3, <2>4 DEF IInv, Bookkeeping
  <2>6. PICK j \in 1..(l - 1) : result[j] = a
    BY <1>1, <2>5 DEF IInv, EdgesRespected
  <2>7. j \in k..(l - 1)
    BY <2>1, <2>5, <2>6 DEF Prefix
  <2> QED
    BY <2>5, <2>6, <2>7
<1>2. IInv => MinIdFirst
  BY <1>1 DEF MinIdFirst
<1> QED
  BY <1>2, Invariance, PTL

-----------------------------------------------------------------------------
(* The ids emitted first, as the sort of OperationGraph counts them.       *)
LEMMA PendingAfter ==
  ASSUME IInv, NEW n \in 0..Len(result)
  PROVE  Pending(ops, SubSeq(result, 1, n)) =
           {i \in IdsOf(ops) \ Prefix(n) : Before(ops, i) \subseteq Prefix(n)}
<1> DEFINE done == SubSeq(result, 1, n)
<1>1. result \in Seq(IdsOf(ops)) /\ Len(result) \in Nat
  BY DEF IInv, TypeOK
<1>2. DOMAIN done = 1..n /\ \A k \in 1..n : done[k] = result[k]
  BY <1>1
<1>3. \A i : (\E k \in DOMAIN done : done[k] = i) <=> i \in Prefix(n)
  BY <1>2 DEF Prefix
<1>4. Prefix(n) \subseteq IdsOf(ops)
  BY <1>1 DEF Prefix
<1>5. \A e \in DependencyGraph(ops) : e[1] \in IdsOf(ops) /\ e = <<e[1], e[2]>>
  BY DEF DependencyGraph, StepEdges, RefEdges, IdsOf
<1> HIDE DEF done
<1>6. \A i : (\A e \in DependencyGraph(ops) : e[2] = i => e[1] \in Prefix(n))
              <=> Before(ops, i) \subseteq Prefix(n)
  BY <1>5 DEF Before
<1> QED BY <1>3, <1>6 DEF Pending, done

(* What the rounds of PlanOrder emit is what the loop has emitted, for as  *)
(* many rounds as it has gone.                                             *)
LEMMA RoundsAgree ==
  ASSUME IInv, NEW emit, EmittedTo(ops, Cardinality(ops), emit),
         Len(result) <= Cardinality(ops)
  PROVE  \A n \in 0..Len(result) : emit[n] = SubSeq(result, 1, n)
<1> DEFINE size == Cardinality(ops)
           S == {n \in Nat : n <= Len(result) => emit[n] = SubSeq(result, 1, n)}
<1>1. /\ result \in Seq(IdsOf(ops)) /\ Len(result) \in Nat /\ size \in Nat
      /\ IdsOf(ops) \subseteq Nat
  BY IdsCount, InputsAssumption, FS_CardinalityType DEF IInv, TypeOK, Bookkeeping
<1>2. 0 \in S
  BY <1>1 DEF EmittedTo
<1>3. ASSUME NEW n \in Nat, n \in S PROVE n + 1 \in S
  <2>1. SUFFICES ASSUME n + 1 <= Len(result)
                 PROVE  emit[n + 1] = SubSeq(result, 1, n + 1)
    OBVIOUS
  <2>2. emit[n + 1] = Round(ops, SubSeq(result, 1, n))
    <3>1. n + 1 \in 0..size /\ n + 1 # 0 /\ (n + 1) - 1 = n /\ n <= Len(result)
      BY <1>1, <2>1
    <3> QED BY <1>3, <3>1 DEF EmittedTo
  <2> DEFINE free == Pending(ops, SubSeq(result, 1, n))
             id == result[n + 1]
  <2>3. free = {i \in IdsOf(ops) \ Prefix(n) : Before(ops, i) \subseteq Prefix(n)}
    BY <1>1, <2>1, PendingAfter
  <2>4. n + 1 \in 1..Len(result) /\ (n + 1) - 1 = n /\ id \in IdsOf(ops)
    BY <1>1, <2>1
  <2>5. id \in free
    <3>1. id \notin Prefix(n)
      <4>1. ASSUME NEW j \in 1..n PROVE result[j] # id
        <5>1. j \in 1..Len(result) /\ j # n + 1
          BY <1>1, <2>1
        <5> QED BY <2>4, <5>1 DEF IInv, EdgesRespected
      <4> QED BY <4>1 DEF Prefix
    <3>2. Before(ops, id) \subseteq Prefix(n)
      BY <2>4 DEF IInv, EdgesRespected, Prefix
    <3> QED BY <2>3, <2>4, <3>1, <3>2
  <2>6. \A i \in free : id <= i
    BY <2>3, <2>4 DEF IInv, Bookkeeping
  <2>7. (CHOOSE i \in free : \A j \in free : i <= j) = id
    <3>1. free \subseteq Nat
      BY <1>1, <2>3
    <3> HIDE DEF free, id
    <3>2. \A i \in free : (\A j \in free : i <= j) => i = id
      BY <2>5, <2>6, <3>1
    <3> QED BY <2>5, <2>6, <3>2
  <2>8. Round(ops, SubSeq(result, 1, n)) = Append(SubSeq(result, 1, n), id)
    BY <2>5, <2>7 DEF Round
  <2>9. Append(SubSeq(result, 1, n), id) = SubSeq(result, 1, n + 1)
    BY <1>1, <2>4
  <2> QED BY <2>2, <2>8, <2>9
<1>4. Nat \subseteq S
  <2> HIDE DEF S
  <2> QED BY <1>2, <1>3, NatSetInduction
<1> QED BY <1>1, <1>4

(* Once nothing is ready, further rounds emit nothing.                     *)
LEMMA RoundsStop ==
  ASSUME IInv, NEW emit, EmittedTo(ops, Cardinality(ops), emit),
         Len(result) <= Cardinality(ops), pc = "thrown"
  PROVE  emit[Cardinality(ops)] = result
<1> DEFINE size == Cardinality(ops)
           S == {n \in Nat : Len(result) + n <= size => emit[Len(result) + n] = result}
<1>1. result \in Seq(IdsOf(ops)) /\ Len(result) \in Nat /\ size \in Nat
  BY InputsAssumption, FS_CardinalityType DEF IInv, TypeOK, Bookkeeping
<1>2. SubSeq(result, 1, Len(result)) = result
  BY <1>1
<1>3. Pending(ops, result) = {}
  <2>1. Pending(ops, result) =
          {i \in IdsOf(ops) \ Prefix(Len(result)) : Before(ops, i) \subseteq Prefix(Len(result))}
    <3>1. Len(result) \in 0..Len(result)
      BY <1>1
    <3>2. Pending(ops, SubSeq(result, 1, Len(result))) =
            {i \in IdsOf(ops) \ Prefix(Len(result)) : Before(ops, i) \subseteq Prefix(Len(result))}
      BY <3>1, PendingAfter
    <3> QED BY <1>2, <3>2
  <2>2. Prefix(Len(result)) = Emitted
    BY DEF Prefix, Emitted
  <2> QED BY <2>1, <2>2 DEF IInv, Bookkeeping
<1>4. 0 \in S
  BY <1>1, <1>2, RoundsAgree
<1>5. ASSUME NEW n \in Nat, n \in S PROVE n + 1 \in S
  <2>1. SUFFICES ASSUME Len(result) + (n + 1) <= size
                 PROVE  emit[Len(result) + (n + 1)] = result
    OBVIOUS
  <2> DEFINE m == Len(result) + (n + 1)
  <2>2. m \in 0..size /\ m # 0 /\ m - 1 = Len(result) + n
    BY <1>1, <2>1
  <2>3. emit[m] = Round(ops, emit[m - 1])
    BY <2>2 DEF EmittedTo
  <2>4. emit[m - 1] = result
    BY <1>1, <1>5, <2>1, <2>2
  <2> QED BY <1>3, <2>3, <2>4 DEF Round
<1>6. Nat \subseteq S
  <2> HIDE DEF S
  <2> QED BY <1>4, <1>5, NatSetInduction
<1>7. PICK n \in Nat : Len(result) + n = size
  <2>1. size - Len(result) \in Nat /\ Len(result) + (size - Len(result)) = size
    BY <1>1
  <2> QED BY <2>1
<1>8. n \in S
  BY <1>6
<1>9. Len(result) + n <= size
  BY <1>1, <1>7
<1>10. emit[Len(result) + n] = result
  BY <1>8, <1>9
<1> QED BY <1>7, <1>10

(* The loop with its ready list and in-degrees computes PlanOrder, the     *)
(* function the migrations are planned with, and throws when that leaves   *)
(* operations out: for every set of operations, cyclic ones included.      *)
THEOREM LoopIsPlanOrder == Spec => []ComputesPlanOrder
<1>1. ASSUME IInv, pc \in {"planned", "thrown"}
      PROVE  result = PlanOrder(ops) /\ (pc = "thrown") = HasCycle(ops)
  <2>1. /\ result \in Seq(IdsOf(ops)) /\ Len(result) \in Nat /\ ops \in Inputs
        /\ IsFiniteSet(ops) /\ Cardinality(ops) \in Nat
    BY <1>1, InputsAssumption, FS_CardinalityType DEF IInv, TypeOK, Bookkeeping
  <2>2. Len(result) <= Cardinality(ops)
    <3>1. Emitted \in SUBSET IdsOf(ops)
      BY <2>1 DEF Emitted
    <3> QED BY <1>1, <2>1, <3>1, IdsCount, FS_Subset DEF IInv, Bookkeeping
  <2>3. PICK emit : /\ EmittedTo(ops, Cardinality(ops), emit)
                    /\ PlanOrder(ops) = emit[Cardinality(ops)]
    BY <2>1, PlanOrderIsEmitted
  <2>4. result = PlanOrder(ops)
    <3>1. CASE pc = "planned"
      <4>1. Len(result) = Cardinality(ops)
        BY <1>1, <3>1 DEF IInv, Bookkeeping
      <4>2. emit[Len(result)] = SubSeq(result, 1, Len(result))
        BY <1>1, <2>1, <2>2, <2>3, RoundsAgree
      <4>3. SubSeq(result, 1, Len(result)) = result
        BY <2>1
      <4> QED BY <2>3, <4>1, <4>2, <4>3
    <3>2. CASE pc = "thrown"
      BY <1>1, <2>2, <2>3, <3>2, RoundsStop
    <3> QED BY <1>1, <3>1, <3>2
  <2>5. (pc = "thrown") = HasCycle(ops)
    BY <1>1, <2>4 DEF HasCycle, IInv, Bookkeeping
  <2> QED BY <2>4, <2>5
<1>2. IInv => ComputesPlanOrder
  BY <1>1 DEF ComputesPlanOrder
<1> QED
  BY <1>2, Invariance, PTL
=============================================================================
