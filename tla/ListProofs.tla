----------------------------- MODULE ListProofs -----------------------------
(***************************************************************************)
(* Facts about lists, the sequences the models plan with: induction over   *)
(* their positions, concatenation, flattening and the list of a set; and   *)
(* about the list a plan is, whose order the operations' graph decides.    *)
(***************************************************************************)
EXTENDS OperationGraph, SequencesExt, FiniteSetTheorems, SequenceTheorems, WellFoundedInduction, TLAPS

(* Induction over the naturals as a fact about a set, which no operator    *)
(* parameter stands in the way of: a set that holds 0 and every successor  *)
(* of its members holds them all.                                          *)
LEMMA NatSetInduction ==
  ASSUME NEW S, 0 \in S, \A n \in Nat : n \in S => n + 1 \in S
  PROVE  Nat \subseteq S
<1> DEFINE R == {p \in Nat \X Nat : p[1] < p[2]}
           Out == Nat \ S
<1>1. IsWellFoundedOn(R, Nat)
  BY NatLessThanWellFounded DEF OpToRel
<1>2. SUFFICES ASSUME Out # {} PROVE FALSE
  OBVIOUS
<1>3. PICK x \in Out : \A y \in Out : ~ (<<y, x>> \in R)
  <2> HIDE DEF R
  <2> QED BY <1>1, <1>2, WFMin
<1>4. x # 0 /\ x \in Nat
  OBVIOUS
<1>5. x - 1 \in Nat /\ x - 1 < x
  BY <1>4
<1>6. x - 1 \notin Out
  BY <1>3, <1>4, <1>5
<1> QED
  BY <1>4, <1>5, <1>6

(* A set of naturals that is not empty has a least member.                 *)
LEMMA NatSetMinimum ==
  ASSUME NEW S, S \subseteq Nat, S # {}
  PROVE  \E x \in S : \A y \in S : x <= y
<1> DEFINE R == {p \in Nat \X Nat : p[1] < p[2]}
<1>1. IsWellFoundedOn(R, Nat)
  BY NatLessThanWellFounded DEF OpToRel
<1>2. PICK x \in S : \A y \in S : ~ (<<y, x>> \in R)
  <2> HIDE DEF R
  <2> QED BY <1>1, WFMin
<1>3. \A y \in S : ~ (y < x)
  BY <1>2
<1>4. \A y \in S : y \in Nat /\ x \in Nat
  OBVIOUS
<1>5. \A y \in S : x <= y
  <2> HIDE DEF R
  <2> QED BY <1>3, <1>4
<1> QED
  BY <1>5

(* Max of a set of positions is one of them, and none is greater.          *)
LEMMA MaxOfInterval ==
  ASSUME NEW m \in Nat, NEW s \in SUBSET (1..m), s # {}
  PROVE  /\ Max(s) \in s
         /\ \A y \in s : y <= Max(s)
<1> DEFINE below == {m - y : y \in s}
<1>1. \A y \in s : y \in Nat /\ y <= m /\ m - y \in Nat
  OBVIOUS
<1> HIDE DEF below
<1>6. below \subseteq Nat /\ below # {}
  BY <1>1 DEF below
<1>2. PICK d \in below : \A e \in below : d <= e
  BY <1>6, NatSetMinimum
<1>3. PICK x \in s : d = m - x
  BY DEF below
<1>4. \A y \in s : x >= y
  <2> TAKE y \in s
  <2>1. m - x <= m - y
    BY <1>2, <1>3 DEF below
  <2> QED BY <1>1, <2>1
<1>5. Max(s) \in s /\ \A y \in s : Max(s) >= y
  BY <1>4 DEF Max
<1> QED
  BY <1>5

(* Max of a set of positions that holds the last one is the last one.      *)
LEMMA MaxIsLast ==
  ASSUME NEW m \in Nat, NEW s \in SUBSET (1..m), m \in s
  PROVE  Max(s) = m
<1>1. Max(s) \in 1..m /\ m <= Max(s)
  BY MaxOfInterval
<1>2. ASSUME NEW x \in 1..m, m <= x PROVE x = m
  BY <1>2
<1> QED BY <1>1, <1>2

List(s) == s \in Seq(ToSet(s))

(* What a list is: a function over the positions up to its length, whose   *)
(* set is the set of its elements.                                         *)
LEMMA ListProperties ==
  ASSUME NEW s, List(s)
  PROVE  /\ Len(s) \in Nat
         /\ DOMAIN s = 1..Len(s)
         /\ s = [k \in 1..Len(s) |-> s[k]]
         /\ \A x : x \in ToSet(s) <=> \E k \in 1..Len(s) : x = s[k]
BY DEF List, ToSet

(* A sequence over a set is a list, of elements of that set.               *)
LEMMA SeqIsList ==
  ASSUME NEW S, NEW s \in Seq(S)
  PROVE  List(s) /\ ToSet(s) \subseteq S
BY DEF List, ToSet

(* A function over the positions up to a number is a list of that length.  *)
LEMMA FunctionIsList ==
  ASSUME NEW n \in Nat, NEW s, s = [k \in 1..n |-> s[k]]
  PROVE  List(s) /\ Len(s) = n
<1>1. \A k \in 1..n : s[k] \in ToSet(s)
  BY DEF ToSet
<1>2. s \in [1..n -> ToSet(s)]
  BY <1>1
<1> QED
  BY <1>2 DEF List

(* A list whose elements belong to a set is a sequence over that set.      *)
LEMMA ListInSeq ==
  ASSUME NEW s, List(s), NEW S, ToSet(s) \subseteq S
  PROVE  s \in Seq(S)
BY DEF List

(* The empty list has no element.                                          *)
LEMMA EmptyList == List(<< >>) /\ ToSet(<< >>) = {}
BY DEF List, ToSet

(* A list of one has that element.                                         *)
LEMMA SingleList == ASSUME NEW x PROVE List(<<x>>) /\ ToSet(<<x>>) = {x}
BY DEF List, ToSet

(* A concatenation has the elements, and the positions, of both lists.     *)
LEMMA ConcatList ==
  ASSUME NEW s, NEW t, List(s), List(t)
  PROVE  List(s \o t) /\ ToSet(s \o t) = ToSet(s) \cup ToSet(t) /\ Len(s \o t) = Len(s) + Len(t)
<1> DEFINE S == ToSet(s) \cup ToSet(t)
<1>1. s \in Seq(S) /\ t \in Seq(S)
  BY ListInSeq
<1>2. s \o t \in Seq(S) /\ Len(s \o t) = Len(s) + Len(t)
  BY <1>1
<1>3. \A k \in 1..Len(s) : (s \o t)[k] = s[k]
  BY <1>1
<1>4. \A k \in 1..Len(t) : Len(s) + k \in 1..Len(s \o t) /\ (s \o t)[Len(s) + k] = t[k]
  BY <1>1
<1>5. S \subseteq ToSet(s \o t)
  <2>1. ASSUME NEW x \in ToSet(s) PROVE x \in ToSet(s \o t)
    BY <1>1, <1>2, <1>3 DEF ToSet
  <2>2. ASSUME NEW x \in ToSet(t) PROVE x \in ToSet(s \o t)
      <3>1. PICK k \in 1..Len(t) : x = t[k]
        BY <1>1 DEF ToSet
      <3>2. Len(s) + k \in DOMAIN (s \o t) /\ (s \o t)[Len(s) + k] = x
        BY <1>1, <1>2, <1>4, <3>1
      <3> QED BY <3>2 DEF ToSet
  <2> QED BY <2>1, <2>2
<1> HIDE DEF S
<1> QED
  BY <1>2, <1>5, SeqIsList DEF S

(* SetToSeq makes a list of a finite set, with the elements of the set.    *)
LEMMA SetToSeqList ==
  ASSUME NEW S, IsFiniteSet(S)
  PROVE  List(SetToSeq(S)) /\ ToSet(SetToSeq(S)) = S
<1> DEFINE n == Cardinality(S)
           f == SetToSeq(S)
<1>1. n \in Nat /\ \E g : g \in Bijection(1..n, S)
  BY FS_CardinalityType DEF ExistsBijection
<1>2. \E g \in [1..n -> S] : IsInjective(g)
  BY <1>1 DEF Bijection, Injection, IsInjective
<1>3. f \in [1..n -> S] /\ IsInjective(f)
  BY <1>2 DEF SetToSeq
<1>4. \A x \in S : \E k \in 1..n : f[k] = x
  <2>1. f \in Injection(1..n, S) /\ IsFiniteSet(S) /\ Cardinality(1..n) = Cardinality(S)
    BY <1>1, <1>3, FS_Interval DEF Injection
  <2>2. f \in Surjection(1..n, S)
    BY <2>1, FS_Injection
  <2> QED
    BY <2>2 DEF Surjection
<1>5. f \in Seq(S) /\ DOMAIN f = 1..n
  BY <1>1, <1>3
<1>6. S \subseteq ToSet(f)
  BY <1>4, <1>5 DEF ToSet
<1> HIDE DEF f
<1>7. List(f) /\ ToSet(f) = S
  BY <1>5, <1>6, SeqIsList
<1> QED
  BY <1>7 DEF f

ChainedTo(ss, m, f) ==
  f = [i \in 1..m |-> IF i = 1 THEN ss[i] ELSE f[i - 1] \o ss[i]]

(* The partial concatenations of a list of lists go one list further.      *)
LEMMA ChainedFurther ==
  ASSUME NEW ss, NEW m \in Nat, NEW g, ChainedTo(ss, m, g)
  PROVE  \E h : ChainedTo(ss, m + 1, h)
<1> DEFINE h == [i \in 1..(m + 1) |->
                   IF i # m + 1 THEN g[i]
                   ELSE IF i = 1 THEN ss[i] ELSE g[m] \o ss[i]]
<1>1. ASSUME NEW i \in 1..(m + 1)
      PROVE  h[i] = IF i = 1 THEN ss[i] ELSE h[i - 1] \o ss[i]
  <2>1. CASE i = m + 1
    BY <2>1
  <2>2. CASE i # m + 1
    <3>1. i \in 1..m /\ h[i] = g[i]
      BY <2>2
    <3>2. i # 1 => i - 1 \in 1..m /\ h[i - 1] = g[i - 1]
      BY <2>2
    <3>3. g[i] = IF i = 1 THEN ss[i] ELSE g[i - 1] \o ss[i]
      BY <3>1 DEF ChainedTo
    <3> QED BY <3>1, <3>2, <3>3
  <2> QED BY <2>1, <2>2
<1>2. h = [i \in 1..(m + 1) |-> h[i]]
  OBVIOUS
<1> HIDE DEF h
<1>3. ChainedTo(ss, m + 1, h)
  BY <1>1, <1>2 DEF ChainedTo
<1> QED BY <1>3

(* FlattenSeq is the last of the partial concatenations.                   *)
LEMMA FlattenIsChained ==
  ASSUME NEW ss, List(ss), ss # << >>
  PROVE  \E f : ChainedTo(ss, Len(ss), f) /\ FlattenSeq(ss) = f[Len(ss)]
<1> DEFINE S == {m \in Nat : \E g : ChainedTo(ss, m, g)}
<1>1. Len(ss) \in Nat \ {0}
  BY ListProperties
<1>2. 0 \in S
  <2>1. ChainedTo(ss, 0, << >>)
    BY DEF ChainedTo
  <2> QED BY <2>1
<1>3. \A m \in Nat : m \in S => m + 1 \in S
  BY ChainedFurther
<1>4. Nat \subseteq S
  <2> HIDE DEF S
  <2> QED BY <1>2, <1>3, NatSetInduction
<1>5. \E g : ChainedTo(ss, Len(ss), g)
  BY <1>1, <1>4
<1> DEFINE f == CHOOSE g : ChainedTo(ss, Len(ss), g)
<1>6. ChainedTo(ss, Len(ss), f)
  BY <1>5
<1>7. FlattenSeq(ss) = f[Len(ss)]
  BY <1>1 DEF FlattenSeq, ChainedTo
<1> QED
  BY <1>6, <1>7

(* FlattenSeq of lists is a list, with the elements of all of them.        *)
LEMMA FlattenList ==
  ASSUME NEW ss, List(ss), \A k \in DOMAIN ss : List(ss[k])
  PROVE  /\ List(FlattenSeq(ss))
         /\ ToSet(FlattenSeq(ss)) = UNION {ToSet(ss[k]) : k \in DOMAIN ss}
<1>1. CASE ss = << >>
  BY <1>1, EmptyList DEF FlattenSeq
<1>2. CASE ss # << >>
  <2>1. PICK f : ChainedTo(ss, Len(ss), f) /\ FlattenSeq(ss) = f[Len(ss)]
    BY <1>2, FlattenIsChained
  <2> DEFINE n == Len(ss)
             S == {m \in Nat : m + 1 <= n =>
                      /\ List(f[m + 1])
                      /\ ToSet(f[m + 1]) = UNION {ToSet(ss[k]) : k \in 1..(m + 1)}}
  <2>2. n \in Nat \ {0} /\ DOMAIN ss = 1..n
    BY <1>2, ListProperties
  <2>3. 0 \in S
    BY <2>1, <2>2 DEF ChainedTo
  <2>4. ASSUME NEW m \in Nat, m \in S PROVE m + 1 \in S
    <3>1. SUFFICES ASSUME m + 2 <= n
                   PROVE /\ List(f[m + 2])
                         /\ ToSet(f[m + 2]) = UNION {ToSet(ss[k]) : k \in 1..(m + 2)}
      OBVIOUS
    <3>2. m + 1 <= n /\ m + 2 \in 1..n /\ f[m + 2] = f[m + 1] \o ss[m + 2]
      <4>1. m + 1 <= n /\ m + 2 \in 1..n /\ (m + 2) - 1 = m + 1 /\ m + 2 # 1
        BY <2>2, <3>1
      <4> QED BY <2>1, <4>1 DEF ChainedTo
    <3>3. /\ List(f[m + 1])
          /\ ToSet(f[m + 1]) = UNION {ToSet(ss[k]) : k \in 1..(m + 1)}
      BY <2>4, <3>2
    <3>4. /\ List(f[m + 2])
          /\ ToSet(f[m + 2]) = ToSet(f[m + 1]) \cup ToSet(ss[m + 2])
      BY <2>2, <3>2, <3>3, ConcatList
    <3>5. 1..(m + 2) = 1..(m + 1) \cup {m + 2}
      OBVIOUS
    <3> QED BY <3>3, <3>4, <3>5
  <2>5. Nat \subseteq S
    <3> HIDE DEF S
    <3> QED BY <2>3, <2>4, NatSetInduction
  <2>6. n - 1 \in S /\ (n - 1) + 1 = n
    <3>1. n - 1 \in Nat /\ (n - 1) + 1 = n
      BY <2>2
    <3> HIDE DEF S
    <3> QED BY <2>5, <3>1
  <2>7. List(f[n]) /\ ToSet(f[n]) = UNION {ToSet(ss[k]) : k \in 1..n}
    BY <2>2, <2>6
  <2> QED BY <2>1, <2>2, <2>7
<1> QED BY <1>1, <1>2

-----------------------------------------------------------------------------
(* The order of execution: the sort of the operations' graph puts out      *)
(* operations it was given, whatever the graph.                            *)

(* The operations the next round of the sort may emit.                     *)
Pending(set, done) ==
  {i \in IdsOf(set) :
     /\ \A k \in DOMAIN done : done[k] # i
     /\ \A e \in DependencyGraph(set) :
          e[2] = i => \E k \in DOMAIN done : done[k] = e[1]}

(* It emits the one of the lowest identifier.                              *)
Round(set, done) ==
  IF Pending(set, done) = {} THEN done
  ELSE Append(done, CHOOSE i \in Pending(set, done) :
                      \A j \in Pending(set, done) : i <= j)

(* What n rounds have emitted.                                             *)
EmittedTo(set, n, emit) ==
  emit = [k \in 0..n |-> IF k = 0 THEN << >> ELSE Round(set, emit[k - 1])]

(* The sort takes one round more.                                          *)
LEMMA EmittedFurther ==
  ASSUME NEW set, NEW n \in Nat, NEW g, EmittedTo(set, n, g)
  PROVE  \E h : EmittedTo(set, n + 1, h)
<1> DEFINE h == [k \in 0..(n + 1) |-> IF k = n + 1 THEN Round(set, g[n]) ELSE g[k]]
<1>1. ASSUME NEW k \in 0..(n + 1)
      PROVE  h[k] = IF k = 0 THEN << >> ELSE Round(set, h[k - 1])
  <2>1. CASE k = n + 1
    BY <2>1
  <2>2. CASE k # n + 1
    <3>1. k \in 0..n /\ h[k] = g[k] /\ (k # 0 => k - 1 \in 0..n /\ h[k - 1] = g[k - 1])
      BY <2>2
    <3>2. g[k] = IF k = 0 THEN << >> ELSE Round(set, g[k - 1])
      BY <3>1 DEF EmittedTo
    <3> QED BY <3>1, <3>2
  <2> QED BY <2>1, <2>2
<1>2. h = [k \in 0..(n + 1) |-> h[k]]
  OBVIOUS
<1> HIDE DEF h
<1>3. EmittedTo(set, n + 1, h)
  BY <1>1, <1>2 DEF EmittedTo
<1> QED BY <1>3

(* The plan is what as many rounds as there are operations have emitted.   *)
LEMMA PlanOrderIsEmitted ==
  ASSUME NEW set, IsFiniteSet(set)
  PROVE  \E emit : /\ EmittedTo(set, Cardinality(set), emit)
                   /\ PlanOrder(set) = emit[Cardinality(set)]
<1> DEFINE S == {n \in Nat : \E g : EmittedTo(set, n, g)}
           size == Cardinality(set)
<1>1. size \in Nat
  BY FS_CardinalityType
<1>2. 0 \in S
  <2>1. EmittedTo(set, 0, [k \in 0..0 |-> << >>])
    BY DEF EmittedTo
  <2> QED BY <2>1
<1>3. \A n \in Nat : n \in S => n + 1 \in S
  BY EmittedFurther
<1>4. Nat \subseteq S
  <2> HIDE DEF S
  <2> QED BY <1>2, <1>3, NatSetInduction
<1>5. \E g : EmittedTo(set, size, g)
  BY <1>1, <1>4
<1> DEFINE emit == CHOOSE g : EmittedTo(set, size, g)
<1>6. EmittedTo(set, size, emit)
  BY <1>5
<1>7. PlanOrder(set) = emit[size]
  BY DEF PlanOrder, EmittedTo, Round, Pending
<1> QED
  BY <1>6, <1>7

(* An order that repeats nothing and puts each operation after those it    *)
(* depends on.                                                             *)
InOrder(set, done) ==
  /\ done \in Seq(IdsOf(set))
  /\ \A k, l \in 1..Len(done) : done[k] = done[l] => k = l
  /\ \A k \in 1..Len(done) : \A e \in DependencyGraph(set) :
       e[2] = done[k] => \E j \in 1..(k - 1) : done[j] = e[1]

(* A round of the sort keeps the order.                                    *)
LEMMA RoundInOrder ==
  ASSUME NEW set, IdsOf(set) \subseteq Nat, NEW done, InOrder(set, done)
  PROVE  InOrder(set, Round(set, done))
<1> DEFINE free == Pending(set, done)
           id == CHOOSE i \in free : \A j \in free : i <= j
           new == Append(done, id)
<1>1. free \subseteq IdsOf(set)
  BY DEF Pending
<1>2. CASE free = {}
  BY <1>2 DEF Round
<1>3. CASE free # {}
  <2>1. id \in free
    <3> HIDE DEF free
    <3>1. \E i \in free : \A j \in free : i <= j
      BY <1>1, <1>3, NatSetMinimum
    <3> QED BY <3>1
  <2>2. Round(set, done) = new
    BY <1>3 DEF Round
  <2>3. /\ \A k \in DOMAIN done : done[k] # id
        /\ \A e \in DependencyGraph(set) :
             e[2] = id => \E k \in DOMAIN done : done[k] = e[1]
    BY <2>1 DEF Pending
  <2> HIDE DEF free, id
  <2>4. /\ new \in Seq(IdsOf(set)) /\ Len(new) = Len(done) + 1 /\ Len(done) \in Nat
        /\ DOMAIN done = 1..Len(done) /\ new[Len(done) + 1] = id
        /\ \A k \in 1..Len(done) : new[k] = done[k]
    BY <1>1, <2>1 DEF InOrder
  <2> HIDE DEF new
  <2>5. \A k, l \in 1..Len(new) : new[k] = new[l] => k = l
    <3>1. TAKE k, l \in 1..Len(new)
    <3>2. CASE k \in 1..Len(done) /\ l \in 1..Len(done)
      BY <2>4, <3>2 DEF InOrder
    <3>3. CASE k = Len(done) + 1 /\ l \in 1..Len(done)
      BY <2>3, <2>4, <3>3
    <3>4. CASE l = Len(done) + 1 /\ k \in 1..Len(done)
      BY <2>3, <2>4, <3>4
    <3> QED BY <2>4, <3>2, <3>3, <3>4
  <2>6. ASSUME NEW k \in 1..Len(new), NEW e \in DependencyGraph(set), e[2] = new[k]
        PROVE  \E j \in 1..(k - 1) : new[j] = e[1]
    <3>1. CASE k \in 1..Len(done)
      <4>1. PICK j \in 1..(k - 1) : done[j] = e[1]
        BY <2>4, <2>6, <3>1 DEF InOrder
      <4>2. j \in 1..Len(done)
        BY <2>4, <3>1
      <4> QED BY <2>4, <4>1, <4>2
    <3>2. CASE k = Len(done) + 1
      <4>1. PICK j \in DOMAIN done : done[j] = e[1]
        BY <2>3, <2>4, <2>6, <3>2
      <4>2. j \in 1..(k - 1) /\ new[j] = done[j]
        BY <2>4, <3>2
      <4> QED BY <4>1, <4>2
    <3> QED BY <2>4, <3>1, <3>2
  <2> QED BY <2>2, <2>4, <2>5, <2>6 DEF InOrder
<1> QED BY <1>2, <1>3

(* The order the migrations are planned with puts every operation after    *)
(* those it depends on and none twice, whatever the graph; operations on a *)
(* cycle it leaves out.                                                    *)
THEOREM PlanOrderSound ==
  ASSUME NEW set, IsFiniteSet(set), \A o \in set : o.id \in Nat
  PROVE  InOrder(set, PlanOrder(set))
<1> DEFINE size == Cardinality(set)
<1>1. PICK emit : EmittedTo(set, size, emit) /\ PlanOrder(set) = emit[size]
  BY PlanOrderIsEmitted
<1> DEFINE S == {n \in Nat : n <= size => InOrder(set, emit[n])}
<1>2. size \in Nat /\ IdsOf(set) \subseteq Nat
  BY FS_CardinalityType DEF IdsOf
<1>3. 0 \in S
  <2>1. emit[0] = << >>
    BY <1>1, <1>2 DEF EmittedTo
  <2>2. InOrder(set, << >>)
    BY DEF InOrder
  <2> QED BY <2>1, <2>2
<1>4. ASSUME NEW n \in Nat, n \in S PROVE n + 1 \in S
  <2>1. SUFFICES ASSUME n + 1 <= size PROVE InOrder(set, emit[n + 1])
    OBVIOUS
  <2>2. InOrder(set, emit[n])
    BY <1>2, <1>4, <2>1
  <2>3. emit[n + 1] = Round(set, emit[n])
    <3>1. n + 1 \in 0..size /\ n + 1 # 0 /\ (n + 1) - 1 = n
      BY <1>2, <2>1
    <3> QED BY <1>1, <3>1 DEF EmittedTo
  <2> QED BY <1>2, <2>2, <2>3, RoundInOrder
<1>5. Nat \subseteq S
  <2> HIDE DEF S
  <2> QED BY <1>3, <1>4, NatSetInduction
<1> QED BY <1>1, <1>2, <1>5

(* Every entry of a plan is one of the operations it orders: the sort      *)
(* makes none up.                                                          *)
LEMMA PlanOrderTyped ==
  ASSUME NEW set, IsFiniteSet(set), \A o \in set : o.id \in Nat
  PROVE  PlanOrder(set) \in Seq(IdsOf(set))
BY PlanOrderSound DEF InOrder

(* Every set of operations, if not empty, has one that waits for no other  *)
(* of the set: what an acyclic graph of finitely many operations is.       *)
Grounded(set) ==
  \A S \in SUBSET IdsOf(set) :
    S # {} => \E i \in S : \A e \in DependencyGraph(set) : e[2] = i => e[1] \notin S

(* Operations of distinct identifiers: as many identifiers as operations.  *)
LEMMA IdsAreCounted ==
  ASSUME NEW set, IsFiniteSet(set), \A o, p \in set : o.id = p.id => o = p
  PROVE  IsFiniteSet(IdsOf(set)) /\ Cardinality(IdsOf(set)) = Cardinality(set)
<1> DEFINE f == [o \in set |-> o.id]
<1>1. f \in [set -> IdsOf(set)]
  BY DEF IdsOf
<1>2. \A o, p \in set : f[o] = f[p] => o = p
  OBVIOUS
<1>3. \A i \in IdsOf(set) : \E o \in set : f[o] = i
  BY DEF IdsOf
<1>4. f \in Bijection(set, IdsOf(set))
  BY <1>1, <1>2, <1>3 DEF Bijection, Injection, Surjection, IsInjective
<1> QED BY <1>4, FS_Bijection DEF ExistsBijection

(* Until every operation of an acyclic graph is emitted, one may be.       *)
LEMMA StillPending ==
  ASSUME NEW set, IsFiniteSet(set), \A o, p \in set : o.id = p.id => o = p,
         Grounded(set), NEW done, done \in Seq(IdsOf(set)), Len(done) < Cardinality(set)
  PROVE  Pending(set, done) # {}
<1> DEFINE gone == {done[k] : k \in 1..Len(done)}
           left == IdsOf(set) \ gone
<1>1. Len(done) \in Nat /\ DOMAIN done = 1..Len(done)
  OBVIOUS
<1>2. IsFiniteSet(gone) /\ Cardinality(gone) <= Len(done)
  <2> DEFINE f == [k \in 1..Len(done) |-> done[k]]
  <2>1. f \in Surjection(1..Len(done), gone)
    BY DEF Surjection
  <2>2. IsFiniteSet(1..Len(done)) /\ Cardinality(1..Len(done)) = Len(done)
    BY <1>1, FS_Interval
  <2> HIDE DEF f, gone
  <2> QED BY <2>1, <2>2, FS_Surjection
<1>3. left # {}
  <2>1. SUFFICES ASSUME IdsOf(set) \subseteq gone PROVE FALSE
    OBVIOUS
  <2> HIDE DEF gone
  <2>2. Cardinality(IdsOf(set)) <= Cardinality(gone)
    BY <1>2, <2>1, FS_Subset
  <2>3. Cardinality(gone) \in Nat /\ Cardinality(IdsOf(set)) = Cardinality(set)
    BY <1>2, IdsAreCounted, FS_CardinalityType
  <2>4. Cardinality(set) \in Nat
    BY FS_CardinalityType
  <2> QED BY <1>1, <1>2, <2>2, <2>3, <2>4
<1>4. PICK i \in left : \A e \in DependencyGraph(set) : e[2] = i => e[1] \notin left
  BY <1>3 DEF Grounded
<1>5. \A e \in DependencyGraph(set) : e[1] \in IdsOf(set)
  BY DEF DependencyGraph, StepEdges, RefEdges, IdsOf
<1>6. i \in Pending(set, done)
  BY <1>1, <1>4, <1>5 DEF Pending
<1> QED BY <1>6

(* An acyclic graph is planned whole: planOperations throws no operation   *)
(* away, and does not throw.                                               *)
THEOREM PlanOrderWhole ==
  ASSUME NEW set, IsFiniteSet(set), \A o \in set : o.id \in Nat,
         \A o, p \in set : o.id = p.id => o = p, Grounded(set)
  PROVE  Len(PlanOrder(set)) = Cardinality(set)
<1> DEFINE size == Cardinality(set)
<1>1. PICK emit : EmittedTo(set, size, emit) /\ PlanOrder(set) = emit[size]
  BY PlanOrderIsEmitted
<1> DEFINE S == {n \in Nat : n <= size => InOrder(set, emit[n]) /\ Len(emit[n]) = n}
<1>2. size \in Nat /\ IdsOf(set) \subseteq Nat
  BY FS_CardinalityType DEF IdsOf
<1>3. 0 \in S
  <2>1. emit[0] = << >>
    BY <1>1, <1>2 DEF EmittedTo
  <2>2. InOrder(set, << >>)
    BY DEF InOrder
  <2> QED BY <2>1, <2>2
<1>4. ASSUME NEW n \in Nat, n \in S PROVE n + 1 \in S
  <2>1. SUFFICES ASSUME n + 1 <= size
                 PROVE  InOrder(set, emit[n + 1]) /\ Len(emit[n + 1]) = n + 1
    OBVIOUS
  <2> DEFINE done == emit[n]
  <2>2. InOrder(set, done) /\ Len(done) = n
    BY <1>2, <1>4, <2>1
  <2>3. emit[n + 1] = Round(set, done)
    <3>1. n + 1 \in 0..size /\ n + 1 # 0 /\ (n + 1) - 1 = n
      BY <1>2, <2>1
    <3> QED BY <1>1, <3>1 DEF EmittedTo
  <2> HIDE DEF done
  <2>4. done \in Seq(IdsOf(set)) /\ Len(done) < size
    BY <1>2, <2>1, <2>2 DEF InOrder
  <2>5. Pending(set, done) # {}
    BY <2>4, StillPending
  <2>6. Len(Round(set, done)) = n + 1
    <3> DEFINE id == CHOOSE i \in Pending(set, done) : \A j \in Pending(set, done) : i <= j
    <3>1. Round(set, done) = Append(done, id)
      BY <2>5 DEF Round
    <3> HIDE DEF id
    <3>2. done \in Seq(IdsOf(set) \cup {id})
      BY <2>4
    <3>3. Len(Append(done, id)) = Len(done) + 1
      BY <3>2
    <3> QED BY <2>2, <3>1, <3>3
  <2> QED BY <1>2, <2>2, <2>3, <2>6, RoundInOrder
<1>5. Nat \subseteq S
  <2> HIDE DEF S
  <2> QED BY <1>3, <1>4, NatSetInduction
<1> QED BY <1>1, <1>2, <1>5
=============================================================================
