---------------------------- MODULE ClientProofs ----------------------------
(***************************************************************************)
(* What holds of a client whatever the schema, the rows and the requests.  *)
(*                                                                         *)
(* In order: nested data, its levels and what is computed over them, level *)
(* by level; the tenant boundary, that a client answers as on a database   *)
(* of the rows in reach alone; the types of the rows and of the identity;  *)
(* lists by global ids; a union's shared where, that what is left of it    *)
(* for a member selects what it means; and the posts that ids name.        *)
(***************************************************************************)
EXTENDS Client, ListProofs

WithinIs(below, levels) ==
  below = [n \in Nat |-> IF levels[n] = {} THEN {} ELSE levels[n] \cup below[n + 1]]

(* Within exists however deep the nesting: level n and all below it, up    *)
(* to the first that is empty.                                             *)
LEMMA BelowExists == ASSUME NEW levels PROVE \E below : WithinIs(below, levels)
<1> DEFINE Down(n) == {m \in Nat : n <= m /\ \A j \in n..m : levels[j] # {}}
           below == [n \in Nat |-> UNION {levels[m] : m \in Down(n)}]
<1>1. ASSUME NEW n \in Nat
      PROVE  below[n] = IF levels[n] = {} THEN {} ELSE levels[n] \cup below[n + 1]
  <2>1. CASE levels[n] = {}
    <3>1. n \in n..n /\ \A m \in Nat : n <= m => n \in n..m
      OBVIOUS
    <3>2. Down(n) = {}
      BY <2>1, <3>1
    <3> QED BY <2>1, <3>2
  <2>2. CASE levels[n] # {}
    <3>1. Down(n) = {n} \cup Down(n + 1)
      <4>1. ASSUME NEW m \in Down(n) PROVE m = n \/ m \in Down(n + 1)
        OBVIOUS
      <4>2. n \in Down(n)
        <5>1. \A j \in n..n : j = n
          OBVIOUS
        <5> QED BY <2>2, <5>1
      <4>3. ASSUME NEW m \in Down(n + 1) PROVE m \in Down(n)
        <5>1. \A j \in n..m : j = n \/ j \in (n + 1)..m
          OBVIOUS
        <5> QED BY <2>2, <4>3, <5>1
      <4> QED BY <4>1, <4>2, <4>3
    <3> HIDE DEF Down
    <3> QED BY <2>2, <3>1
  <2> QED BY <2>1, <2>2
<1>2. below = [n \in Nat |-> below[n]]
  OBVIOUS
<1> HIDE DEF below
<1> QED BY <1>1, <1>2 DEF WithinIs

(* Nothing lies below an empty level, so Within holds every level. *)
LEMMA BelowHoldsLevels ==
  ASSUME NEW levels, \A n \in Nat : levels[n] = {} => levels[n + 1] = {},
         NEW below, WithinIs(below, levels)
  PROVE  \A n \in Nat : levels[n] \subseteq below[0]
<1> DEFINE S == {n \in Nat : below[n] \subseteq below[0]}
<1>1. \A n \in Nat : below[n] = IF levels[n] = {} THEN {} ELSE levels[n] \cup below[n + 1]
  BY DEF WithinIs
<1>2. 0 \in S
  OBVIOUS
<1>3. ASSUME NEW n \in Nat, n \in S PROVE n + 1 \in S
  <2>1. below[n + 1] \subseteq below[n]
    <3>1. CASE levels[n] = {}
      <4>1. n + 1 \in Nat /\ levels[n + 1] = {}
        BY <3>1
      <4> QED BY <1>1, <4>1
    <3>2. CASE levels[n] # {}
      BY <1>1, <3>2
    <3> QED BY <3>1, <3>2
  <2> QED BY <1>3, <2>1
<1>4. Nat \subseteq S
  <2> HIDE DEF S
  <2> QED BY <1>2, <1>3, NatSetInduction
<1> QED BY <1>1, <1>4

(***************************************************************************)
(* What holds something of its own kind, four times over: a where its      *)
(* parts, a level of a read its sublevels, a record's node those joined,   *)
(* a record the records of its joins.                                      *)
(***************************************************************************)
Under(kind, ctx, rows, x) ==
  CASE kind = "node" -> JoiningAll(ctx, rows, x)
    [] kind = "level" -> Sublevels(x)
    [] kind = "record" -> JoinedRecords(x)
    [] OTHER -> Parts(x)

Nests(g, root, kind, ctx, rows) ==
  g = [n \in Nat |-> IF n = 0 THEN {root} ELSE UNION {Under(kind, ctx, rows, x) : x \in g[n - 1]}]

(* Levels exist, however deep the nesting. *)
LEMMA LevelsExist ==
  ASSUME NEW root, NEW kind, NEW ctx, NEW rows
  PROVE  \E g : Nests(g, root, kind, ctx, rows)
<1> DEFINE Further(m) == UNION {Under(kind, ctx, rows, x) : x \in m}
           To(n, g) == g = [k \in 0..n |-> IF k = 0 THEN {root} ELSE Further(g[k - 1])]
           Some == {n \in Nat : \E g : To(n, g)}
<1> HIDE DEF Further
<1>1. 0 \in Some
  <2>1. To(0, [k \in 0..0 |-> {root}])
    OBVIOUS
  <2> QED BY <2>1
<1>2. ASSUME NEW n \in Nat, n \in Some PROVE n + 1 \in Some
  <2>1. PICK g : To(n, g)
    BY <1>2
  <2> DEFINE h == [k \in 0..(n + 1) |-> IF k = n + 1 THEN Further(g[n]) ELSE g[k]]
  <2>2. ASSUME NEW k \in 0..(n + 1)
        PROVE  h[k] = IF k = 0 THEN {root} ELSE Further(h[k - 1])
    <3>1. CASE k = n + 1
      BY <3>1
    <3>2. CASE k # n + 1
      <4>1. k \in 0..n /\ h[k] = g[k] /\ (k # 0 => k - 1 \in 0..n /\ h[k - 1] = g[k - 1])
        BY <3>2
      <4>2. g[k] = IF k = 0 THEN {root} ELSE Further(g[k - 1])
        BY <2>1, <4>1
      <4> QED BY <4>1, <4>2
    <3> QED BY <3>1, <3>2
  <2>3. h = [k \in 0..(n + 1) |-> h[k]]
    OBVIOUS
  <2> HIDE DEF h
  <2>4. To(n + 1, h)
    BY <2>2, <2>3
  <2> QED BY <2>4
<1>3. \A n \in Nat : \E g : To(n, g)
  <2>1. Nat \subseteq Some
    <3> HIDE DEF Some
    <3> QED BY <1>1, <1>2, NatSetInduction
  <2> QED BY <2>1
<1>4. ASSUME NEW n \in Nat, NEW m \in Nat, NEW g, NEW h, To(n, g), To(m, h), NEW k \in Nat,
             k <= n, k <= m
      PROVE  g[k] = h[k]
  <2> DEFINE S == {j \in Nat : j <= n /\ j <= m => g[j] = h[j]}
  <2>1. 0 \in S
    BY <1>4
  <2>2. ASSUME NEW j \in Nat, j \in S PROVE j + 1 \in S
    <3>1. SUFFICES ASSUME j + 1 <= n, j + 1 <= m PROVE g[j + 1] = h[j + 1]
      OBVIOUS
    <3>2. j + 1 \in 0..n /\ j + 1 \in 0..m /\ j + 1 # 0 /\ (j + 1) - 1 = j /\ g[j] = h[j]
      BY <2>2, <3>1
    <3>3. g[j + 1] = Further(g[j]) /\ h[j + 1] = Further(h[j])
      BY <1>4, <3>2
    <3> QED BY <3>2, <3>3
  <2>3. Nat \subseteq S
    <3> HIDE DEF S
    <3> QED BY <2>1, <2>2, NatSetInduction
  <2> QED BY <1>4, <2>3
<1> DEFINE f == [n \in Nat |-> (CHOOSE g : To(n, g))[n]]
<1>7. \A n \in Nat : To(n, CHOOSE g : To(n, g))
  BY <1>3
<1>8. ASSUME NEW n \in Nat PROVE f[n] = IF n = 0 THEN {root} ELSE Further(f[n - 1])
  <2>1. PICK g : To(n, g) /\ f[n] = g[n]
    BY <1>7
  <2> HIDE DEF f
  <2>2. g[n] = IF n = 0 THEN {root} ELSE Further(g[n - 1])
    <3>1. n \in 0..n
      OBVIOUS
    <3> QED BY <2>1, <3>1
  <2>3. ASSUME n # 0 PROVE g[n - 1] = f[n - 1]
    <3>1. n - 1 \in Nat /\ n - 1 <= n
      BY <2>3
    <3>2. PICK h : To(n - 1, h) /\ f[n - 1] = h[n - 1]
      BY <1>7, <3>1 DEF f
    <3> HIDE DEF To
    <3> QED BY <1>4, <2>1, <3>1, <3>2
  <2> QED BY <2>1, <2>2, <2>3
<1> DEFINE Is(g) == g = [n \in Nat |-> IF n = 0 THEN {root} ELSE Further(g[n - 1])]
<1>9. Is(f)
  <2>1. f = [n \in Nat |-> f[n]]
    OBVIOUS
  <2> HIDE DEF f
  <2> QED BY <1>8, <2>1
<1> QED
  <2> HIDE DEF f
  <2> QED BY <1>9 DEF Nests, Further

(* They start at the root, and each is made of what the one above it holds. *)
LEMMA LevelsUnfold ==
  ASSUME NEW root, NEW kind, NEW ctx, NEW rows, NEW g, Nests(g, root, kind, ctx, rows)
  PROVE  /\ g[0] = {root}
         /\ \A n \in Nat : g[n + 1] = UNION {Under(kind, ctx, rows, x) : x \in g[n]}
<1>1. g[0] = {root}
  BY DEF Nests
<1>2. ASSUME NEW n \in Nat PROVE g[n + 1] = UNION {Under(kind, ctx, rows, x) : x \in g[n]}
  <2>1. n + 1 \in Nat /\ n + 1 # 0 /\ (n + 1) - 1 = n
    OBVIOUS
  <2>2. g[n + 1] = IF n + 1 = 0 THEN {root} ELSE UNION {Under(kind, ctx, rows, x) : x \in g[(n + 1) - 1]}
    BY <2>1 DEF Nests
  <2> QED BY <2>1, <2>2
<1> QED BY <1>1, <1>2

Wheres(where) == Levels(where, Parts)

(* The wheres of a where. *)
LEMMA PartsHeld ==
  ASSUME NEW root
  PROVE  /\ Wheres(root)[0] = {root}
         /\ \A n \in Nat : Wheres(root)[n + 1] = UNION {Parts(x) : x \in Wheres(root)[n]}
<1> DEFINE Made(g) == g = [n \in Nat |-> IF n = 0 THEN {root} ELSE UNION {Parts(x) : x \in g[n - 1]}]
           levels == CHOOSE g : Made(g)
<1>1. \A g : Made(g) <=> Nests(g, root, "where", 0, 0)
  BY DEF Nests, Under
<1>2. \E g : Made(g)
  <2> HIDE DEF Made
  <2> QED BY <1>1, LevelsExist
<1>3. Wheres(root) = levels
  BY DEF Wheres, Levels
<1>4. Nests(levels, root, "where", 0, 0)
  <2> HIDE DEF Made
  <2> QED BY <1>1, <1>2
<1> HIDE DEF levels
<1>5. levels[0] = {root} /\ \A n \in Nat : levels[n + 1] = UNION {Under("where", 0, 0, x) : x \in levels[n]}
  BY <1>4, LevelsUnfold
<1> QED BY <1>3, <1>5 DEF Under

(* The levels of a read. *)
LEMMA SublevelsHeld ==
  ASSUME NEW root
  PROVE  LET levels == Levels(root, Sublevels) IN
         /\ levels[0] = {root}
         /\ \A n \in Nat : levels[n + 1] = UNION {Sublevels(x) : x \in levels[n]}
<1> DEFINE Made(g) == g = [n \in Nat |-> IF n = 0 THEN {root} ELSE UNION {Sublevels(x) : x \in g[n - 1]}]
           levels == CHOOSE g : Made(g)
<1>1. \A g : Made(g) <=> Nests(g, root, "level", 0, 0)
  BY DEF Nests, Under
<1>2. \E g : Made(g)
  <2> HIDE DEF Made
  <2> QED BY <1>1, LevelsExist
<1>3. Levels(root, Sublevels) = levels
  BY DEF Levels
<1>4. Nests(levels, root, "level", 0, 0)
  <2> HIDE DEF Made
  <2> QED BY <1>1, <1>2
<1> HIDE DEF levels
<1>5. levels[0] = {root} /\ \A n \in Nat : levels[n + 1] = UNION {Under("level", 0, 0, x) : x \in levels[n]}
  BY <1>4, LevelsUnfold
<1> QED BY <1>3, <1>5 DEF Under

NodesFrom(node, ctx, rows, g) ==
  /\ g[0] = {node}
  /\ \A n \in Nat : g[n + 1] = UNION {JoiningAll(ctx, rows, x) : x \in g[n]}

(* The nodes of a record. *)
LEMMA NodesHeld ==
  ASSUME NEW root, NEW ctx, NEW rows
  PROVE  NodesFrom(root, ctx, rows, NodeLevels(ctx, rows, root))
<1> DEFINE Made(g) == g = [n \in Nat |-> IF n = 0 THEN {root} ELSE UNION {JoiningAll(ctx, rows, x) : x \in g[n - 1]}]
           levels == CHOOSE g : Made(g)
<1>1. \A g : Made(g) <=> Nests(g, root, "node", ctx, rows)
  BY DEF Nests, Under
<1>2. \E g : Made(g)
  <2> HIDE DEF Made
  <2> QED BY <1>1, LevelsExist
<1>3. NodeLevels(ctx, rows, root) = levels
  BY DEF Levels, NodeLevels
<1>4. Nests(levels, root, "node", ctx, rows)
  <2> HIDE DEF Made
  <2> QED BY <1>1, <1>2
<1> HIDE DEF levels
<1>5. levels[0] = {root} /\ \A n \in Nat : levels[n + 1] = UNION {Under("node", ctx, rows, x) : x \in levels[n]}
  BY <1>4, LevelsUnfold
<1> QED BY <1>3, <1>5 DEF Under, NodesFrom

(***************************************************************************)
(* What the code computes of something nested, from what it computed of    *)
(* what that holds: a where's condition on a row, what is left of it for a *)
(* member, what it means to a row, and a node's record.                    *)
(***************************************************************************)
Computed(kind, ctx, rows, x, inner) ==
  CASE kind = "build" -> Together(UNION {Conditions(e, ctx, inner) : e \in x})
    [] kind = "fold" -> AllOf({FoldEntry(e, ctx, inner) : e \in x})
    [] kind = "meaning" -> Together(UNION {Terms(e, ctx, inner) : e \in x})
    [] OTHER -> Reading(ctx, rows, x, inner)

Computes(f, levels, kind, ctx, rows) ==
  f = [n \in Nat |-> [x \in levels[n] |-> Computed(kind, ctx, rows, x, f[n + 1])]]

EmptyFrom(levels, d) == \A n \in Nat : n >= d => levels[n] = {}

(* Where the nesting ends there is such a computation. *)
LEMMA ComputedExists ==
  ASSUME NEW levels, NEW d \in Nat, EmptyFrom(levels, d), NEW kind, NEW ctx, NEW rows
  PROVE  \E f : Computes(f, levels, kind, ctx, rows)
<1> DEFINE Row(n, inner) == [x \in levels[n] |-> Computed(kind, ctx, rows, x, inner)]
           From(g, k) == \A n \in Nat : n + k >= d => g[n] = Row(n, g[n + 1])
           S == {k \in Nat : \E g : g = [n \in Nat |-> g[n]] /\ From(g, k)}
<1>1. 0 \in S
  <2> DEFINE g == [n \in Nat |-> [x \in {} |-> x]]
  <2>1. ASSUME NEW n \in Nat, n + 0 >= d PROVE g[n] = Row(n, g[n + 1])
    <3>1. levels[n] = {}
      BY <2>1 DEF EmptyFrom
    <3> QED BY <3>1
  <2>2. g = [n \in Nat |-> g[n]]
    OBVIOUS
  <2> HIDE DEF g, Row
  <2> QED BY <2>1, <2>2
<1>2. ASSUME NEW k \in Nat, k \in S PROVE k + 1 \in S
  <2>1. PICK g : g = [n \in Nat |-> g[n]] /\ From(g, k)
    BY <1>2
  <2> DEFINE h == [n \in Nat |-> IF n + k >= d THEN g[n] ELSE Row(n, g[n + 1])]
  <2> HIDE DEF Row
  <2>2. ASSUME NEW n \in Nat, n + (k + 1) >= d PROVE h[n] = Row(n, h[n + 1])
    <3>1. n + 1 \in Nat /\ (n + 1) + k >= d
      BY <2>2
    <3>2. h[n + 1] = g[n + 1]
      BY <3>1
    <3>3. h[n] = Row(n, g[n + 1])
      BY <2>1
    <3> HIDE DEF h
    <3> QED BY <3>2, <3>3
  <2>3. h = [n \in Nat |-> h[n]]
    OBVIOUS
  <2> HIDE DEF h
  <2>4. k + 1 \in Nat /\ From(h, k + 1)
    BY <2>2
  <2> HIDE DEF From
  <2> QED BY <2>3, <2>4
<1>3. Nat \subseteq S
  <2> HIDE DEF S
  <2> QED BY <1>1, <1>2, NatSetInduction
<1>4. PICK g : g = [n \in Nat |-> g[n]] /\ From(g, d)
  <2> HIDE DEF From
  <2> QED BY <1>3
<1>5. \A n \in Nat : g[n] = Row(n, g[n + 1])
  <2>1. \A n \in Nat : n + d >= d
    OBVIOUS
  <2> HIDE DEF Row
  <2> QED BY <1>4, <2>1
<1>6. g = [n \in Nat |-> Row(n, g[n + 1])]
  <2> HIDE DEF Row
  <2> QED BY <1>4, <1>5
<1> QED BY <1>6 DEF Computes

(* From the level the nesting ends at there is nothing further down. *)
LEMMA EmptyBelow ==
  ASSUME NEW levels, \A n \in Nat : levels[n] = {} => levels[n + 1] = {},
         NEW d \in Nat, levels[d] = {}
  PROVE  EmptyFrom(levels, d)
<1> DEFINE S == {n \in Nat : n >= d => levels[n] = {}}
<1>1. 0 \in S
  <2>1. CASE d = 0
    BY <2>1
  <2>2. CASE d # 0
    BY <2>2
  <2> QED BY <2>1, <2>2
<1>2. ASSUME NEW n \in Nat, n \in S PROVE n + 1 \in S
  <2>1. CASE n + 1 = d
    BY <2>1
  <2>2. CASE n + 1 # d
    <3>1. n + 1 >= d => n >= d
      BY <2>2
    <3> QED BY <1>2, <3>1
  <2> QED BY <2>1, <2>2
<1>3. Nat \subseteq S
  <2> HIDE DEF S
  <2> QED BY <1>1, <1>2, NatSetInduction
<1> QED BY <1>3 DEF EmptyFrom

(* The levels of a where, below its own, are its parts' levels. *)
LEMMA PartsLevels ==
  ASSUME NEW where, NEW n \in Nat
  PROVE  Wheres(where)[n + 1] = UNION {Wheres(p)[n] : p \in Parts(where)}
<1> DEFINE At(x, m) == Wheres(x)[m]
           S == {m \in Nat : At(where, m + 1) = UNION {At(p, m) : p \in Parts(where)}}
<1>1. \A x : At(x, 0) = {x} /\ \A m \in Nat : At(x, m + 1) = UNION {Parts(y) : y \in At(x, m)}
  BY PartsHeld
<1> HIDE DEF At
<1>2. 0 \in S
  <2>1. At(where, 0 + 1) = Parts(where)
    <3>1. At(where, 0 + 1) = UNION {Parts(y) : y \in At(where, 0)} /\ At(where, 0) = {where}
      BY <1>1
    <3> QED BY <3>1
  <2>2. UNION {At(p, 0) : p \in Parts(where)} = Parts(where)
    <3>1. {At(p, 0) : p \in Parts(where)} = {{p} : p \in Parts(where)}
      BY <1>1
    <3> QED BY <3>1
  <2> QED BY <2>1, <2>2
<1>3. ASSUME NEW m \in Nat, m \in S PROVE m + 1 \in S
  <2>1. m + 1 \in Nat
    OBVIOUS
  <2>2. At(where, (m + 1) + 1) = UNION {Parts(y) : y \in At(where, m + 1)}
    BY <1>1, <2>1
  <2>3. At(where, m + 1) = UNION {At(p, m) : p \in Parts(where)}
    BY <1>3
  <2>4. \A p : At(p, m + 1) = UNION {Parts(y) : y \in At(p, m)}
    BY <1>1
  <2>5. UNION {Parts(y) : y \in UNION {At(p, m) : p \in Parts(where)}}
        = UNION {UNION {Parts(y) : y \in At(p, m)} : p \in Parts(where)}
    OBVIOUS
  <2>6. {At(p, m + 1) : p \in Parts(where)} = {UNION {Parts(y) : y \in At(p, m)} : p \in Parts(where)}
    BY <2>4
  <2> QED BY <2>1, <2>2, <2>3, <2>5, <2>6
<1>4. n \in S
  <2> HIDE DEF S
  <2> QED BY <1>2, <1>3, NatSetInduction
<1> QED BY <1>4 DEF At

\* A where that holds no more than k - 1 others, one in the other.
Nested(where, k) == EmptyFrom(Wheres(where), k)

(* A where is nested one deeper than its parts. *)
LEMMA PartsNested ==
  ASSUME NEW where, NEW k \in Nat
  PROVE  /\ Nested(where, k + 1) <=> \A p \in Parts(where) : Nested(p, k)
         /\ ~Nested(where, 0)
<1> DEFINE At(x, m) == Wheres(x)[m]
<1>1. \A n \in Nat : At(where, n + 1) = UNION {At(p, n) : p \in Parts(where)}
  BY PartsLevels
<1>2. At(where, 0) = {where}
  BY PartsHeld
<1> HIDE DEF At
<1>3. ASSUME \A n \in Nat : n >= k + 1 => At(where, n) = {},
             NEW p \in Parts(where), NEW n \in Nat, n >= k
      PROVE  At(p, n) = {}
  <2>1. n + 1 \in Nat /\ n + 1 >= k + 1
    BY <1>3
  <2>2. At(where, n + 1) = {}
    BY <1>3, <2>1
  <2> QED BY <1>1, <1>3, <2>2
<1>4. ASSUME \A p \in Parts(where) : \A n \in Nat : n >= k => At(p, n) = {},
             NEW n \in Nat, n >= k + 1
      PROVE  At(where, n) = {}
  <2>1. n - 1 \in Nat /\ n - 1 >= k /\ (n - 1) + 1 = n
    BY <1>4
  <2>2. At(where, (n - 1) + 1) = UNION {At(p, n - 1) : p \in Parts(where)}
    BY <1>1, <2>1
  <2>3. \A p \in Parts(where) : At(p, n - 1) = {}
    BY <1>4, <2>1
  <2> QED BY <2>1, <2>2, <2>3
<1>5. ~\A n \in Nat : n >= 0 => At(where, n) = {}
  BY <1>2
<1> QED BY <1>3, <1>4, <1>5 DEF Nested, EmptyFrom, At

\* A table's where: its columns' filters and groups of them, no $$key at any depth.
Keyless(where) == \A e \in where : ~IsKey(e)
TableWhere(where, k) == Nested(where, k) /\ \A n \in Nat : \A w \in Wheres(where)[n] : Keyless(w)

(* A where is a table's when it names no $$key and its parts are a table's. *)
LEMMA TableWhereParts ==
  ASSUME NEW where, NEW k \in Nat
  PROVE  TableWhere(where, k + 1) <=> Keyless(where) /\ \A p \in Parts(where) : TableWhere(p, k)
<1> DEFINE At(x, m) == Wheres(x)[m]
<1>1. \A n \in Nat : At(where, n + 1) = UNION {At(p, n) : p \in Parts(where)}
  BY PartsLevels
<1>2. At(where, 0) = {where}
  BY PartsHeld
<1> HIDE DEF At
<1>3. ASSUME Keyless(where), \A p \in Parts(where) : \A n \in Nat : \A w \in At(p, n) : Keyless(w),
             NEW n \in Nat, NEW w \in At(where, n)
      PROVE  Keyless(w)
  <2>1. CASE n = 0
    BY <1>2, <1>3, <2>1
  <2>2. CASE n # 0
    <3>1. n - 1 \in Nat /\ (n - 1) + 1 = n
      BY <2>2
    <3>2. At(where, (n - 1) + 1) = UNION {At(p, n - 1) : p \in Parts(where)}
      BY <1>1, <3>1
    <3>3. PICK p \in Parts(where) : w \in At(p, n - 1)
      BY <1>3, <3>1, <3>2
    <3> QED BY <1>3, <3>1, <3>3
  <2> QED BY <2>1, <2>2
<1>4. ASSUME \A n \in Nat : \A w \in At(where, n) : Keyless(w),
             NEW p \in Parts(where), NEW n \in Nat, NEW w \in At(p, n)
      PROVE  Keyless(w)
  <2>1. n + 1 \in Nat /\ w \in At(where, n + 1)
    BY <1>1
  <2> QED BY <1>4, <2>1
<1>5. ASSUME \A n \in Nat : \A w \in At(where, n) : Keyless(w) PROVE Keyless(where)
  BY <1>2, <1>5
<1>6. Nested(where, k + 1) <=> \A p \in Parts(where) : Nested(p, k)
  BY PartsNested
<1> HIDE DEF Keyless, Nested
<1>7. (\A n \in Nat : \A w \in At(where, n) : Keyless(w))
      <=> Keyless(where) /\ \A p \in Parts(where) : \A n \in Nat : \A w \in At(p, n) : Keyless(w)
  BY <1>3, <1>4, <1>5
<1> QED BY <1>6, <1>7 DEF TableWhere, At

\* The computation's value, of the root.
ValueOf(kind, ctx, where) ==
  (CHOOSE f : Computes(f, Wheres(where), kind, ctx, 0))[0][where]

OfWheres == {"build", "fold", "meaning"}

(* What is computed of a where depends on what was computed of its parts alone. *)
LEMMA ComputedOfParts ==
  ASSUME NEW kind \in OfWheres, NEW ctx, NEW where, kind = "build" => Keyless(where), NEW f, NEW g,
         \A p \in Parts(where) : f[p] = g[p]
  PROVE  Computed(kind, ctx, 0, where, f) = Computed(kind, ctx, 0, where, g)
<1>1. ASSUME NEW e \in where, ~IsKey(e), ~IsField(e)
      PROVE  /\ IsGroup(e) => {f[w] : w \in e.of} = {g[w] : w \in e.of}
             /\ ~IsGroup(e) => f[e.negated] = g[e.negated]
  BY <1>1 DEF Parts
<1>2. ASSUME NEW e \in where, ~IsKey(e) PROVE Conditions(e, ctx, f) = Conditions(e, ctx, g)
  BY <1>1, <1>2 DEF Conditions
<1>3. ASSUME NEW e \in where PROVE FoldEntry(e, ctx, f) = FoldEntry(e, ctx, g)
  BY <1>1 DEF FoldEntry
<1>4. ASSUME NEW e \in where PROVE Terms(e, ctx, f) = Terms(e, ctx, g)
  BY <1>1 DEF Terms
<1>5. CASE kind = "build"
  <2>1. \A e \in where : Conditions(e, ctx, f) = Conditions(e, ctx, g)
    BY <1>2, <1>5 DEF Keyless
  <2> QED BY <1>5, <2>1 DEF Computed
<1>6. CASE kind = "fold"
  <2>1. {FoldEntry(e, ctx, f) : e \in where} = {FoldEntry(e, ctx, g) : e \in where}
    BY <1>3
  <2> QED BY <1>6, <2>1 DEF Computed
<1>7. CASE kind = "meaning"
  BY <1>4, <1>7 DEF Computed
<1> QED BY <1>5, <1>6, <1>7 DEF OfWheres

(* Computations over the levels of a where and of one of its parts agree. *)
LEMMA ComputationsAgree ==
  ASSUME NEW kind \in OfWheres, NEW ctx, NEW where, NEW p \in Parts(where), NEW k \in Nat,
         kind = "build" => \A n \in Nat : \A w \in Wheres(where)[n] : Keyless(w),
         NEW f, Computes(f, Wheres(where), kind, ctx, 0),
         NEW g, Computes(g, Wheres(p), kind, ctx, 0), Nested(p, k)
  PROVE  g[0][p] = f[0 + 1][p]
<1> DEFINE At(m) == Wheres(where)[m]
           Below(m) == Wheres(p)[m]
           Agree(m) == \A x \in Below(m) : g[m][x] = f[m + 1][x]
           S == {j \in Nat : \A n \in Nat : n + j >= k => Agree(n)}
<1>1. ASSUME NEW n \in Nat PROVE Below(n) \subseteq At(n + 1)
  <2>1. Wheres(where)[n + 1] = UNION {Wheres(q)[n] : q \in Parts(where)}
    BY PartsLevels
  <2> QED BY <2>1
<1>2. Below(0) = {p} /\ \A n \in Nat : Below(n + 1) = UNION {Parts(x) : x \in Below(n)}
  BY PartsHeld
<1>3. \A n \in Nat : \A x \in At(n) : f[n][x] = Computed(kind, ctx, 0, x, f[n + 1])
  BY DEF Computes
<1>4. \A n \in Nat : \A x \in Below(n) : g[n][x] = Computed(kind, ctx, 0, x, g[n + 1])
  BY DEF Computes
<1>5. \A n \in Nat : n >= k => Below(n) = {}
  BY DEF Nested, EmptyFrom
<1>6. kind = "build" => \A n \in Nat : \A w \in At(n) : Keyless(w)
  OBVIOUS
<1> HIDE DEF At, Below
<1>7. 0 \in S
  BY <1>5
<1>8. ASSUME NEW j \in Nat, j \in S PROVE j + 1 \in S
  <2>1. ASSUME NEW n \in Nat, n + (j + 1) >= k, NEW x \in Below(n) PROVE g[n][x] = f[n + 1][x]
    <3>1. n + 1 \in Nat /\ (n + 1) + j >= k
      BY <2>1
    <3>2. \A y \in Below(n + 1) : g[n + 1][y] = f[(n + 1) + 1][y]
      BY <1>8, <3>1
    <3>3. \A y \in Parts(x) : g[n + 1][y] = f[(n + 1) + 1][y]
      BY <1>2, <2>1, <3>2
    <3>4. x \in At(n + 1)
      BY <1>1, <2>1
    <3>5. Computed(kind, ctx, 0, x, g[n + 1]) = Computed(kind, ctx, 0, x, f[(n + 1) + 1])
      <4> DEFINE gg == g[n + 1]
                 ff == f[(n + 1) + 1]
      <4>1. \A y \in Parts(x) : gg[y] = ff[y]
        BY <3>3
      <4>2. kind = "build" => Keyless(x)
        BY <1>6, <3>1, <3>4
      <4> HIDE DEF gg, ff
      <4>3. Computed(kind, ctx, 0, x, gg) = Computed(kind, ctx, 0, x, ff)
        BY <4>1, <4>2, ComputedOfParts
      <4> QED BY <4>3 DEF gg, ff
    <3>6. f[n + 1][x] = Computed(kind, ctx, 0, x, f[(n + 1) + 1])
      BY <1>3, <3>1, <3>4
    <3> QED BY <1>4, <2>1, <3>5, <3>6
  <2> QED BY <2>1
<1>9. Agree(0)
  <2>1. k \in S
    <3> HIDE DEF S
    <3> QED BY <1>7, <1>8, NatSetInduction
  <2>2. 0 + k >= k
    OBVIOUS
  <2> HIDE DEF Agree
  <2> QED BY <2>1, <2>2
<1> QED BY <1>2, <1>9

(* A where's value is computed of its parts' values. *)
LEMMA ValueUnfolds ==
  ASSUME NEW kind \in OfWheres, NEW ctx, NEW where, NEW k \in Nat, Nested(where, k + 1),
         kind = "build" => TableWhere(where, k + 1)
  PROVE  ValueOf(kind, ctx, where)
         = Computed(kind, ctx, 0, where, [p \in Parts(where) |-> ValueOf(kind, ctx, p)])
<1> DEFINE comp(x) == CHOOSE f : Computes(f, Wheres(x), kind, ctx, 0)
           f == comp(where)
           values == [p \in Parts(where) |-> ValueOf(kind, ctx, p)]
<1>1. \A x : ValueOf(kind, ctx, x) = comp(x)[0][x]
  BY DEF ValueOf
<1>2. ASSUME NEW x, NEW d \in Nat, Nested(x, d) PROVE Computes(comp(x), Wheres(x), kind, ctx, 0)
  <2>1. \E g : Computes(g, Wheres(x), kind, ctx, 0)
    BY <1>2, ComputedExists DEF Nested
  <2> QED BY <2>1
<1>3. Computes(f, Wheres(where), kind, ctx, 0)
  <2>1. k + 1 \in Nat
    OBVIOUS
  <2> QED BY <1>2, <2>1
<1> HIDE DEF comp
<1>4. ASSUME NEW p \in Parts(where) PROVE f[0 + 1][p] = values[p]
  <2>1. Nested(p, k)
    BY PartsNested
  <2>2. Computes(comp(p), Wheres(p), kind, ctx, 0)
    BY <1>2, <2>1
  <2>3. kind = "build" => \A n \in Nat : \A w \in Wheres(where)[n] : Keyless(w)
    BY DEF TableWhere
  <2> DEFINE g == comp(p)
  <2> HIDE DEF f, g
  <2>4. Computes(g, Wheres(p), kind, ctx, 0)
    BY <2>2 DEF g
  <2>5. g[0][p] = f[0 + 1][p]
    BY <1>3, <2>1, <2>3, <2>4, ComputationsAgree
  <2> QED BY <1>1, <2>5 DEF g
<1>5. kind = "build" => Keyless(where)
  BY TableWhereParts
<1>6. f[0][where] = Computed(kind, ctx, 0, where, f[0 + 1])
  <2>1. Wheres(where)[0] = {where}
    BY PartsHeld
  <2> QED BY <1>3, <2>1 DEF Computes
<1> HIDE DEF values
<1>7. Computed(kind, ctx, 0, where, f[0 + 1]) = Computed(kind, ctx, 0, where, values)
  <2> DEFINE inner == f[0 + 1]
  <2>1. \A p \in Parts(where) : inner[p] = values[p]
    BY <1>4
  <2> HIDE DEF inner, f
  <2>2. Computed(kind, ctx, 0, where, inner) = Computed(kind, ctx, 0, where, values)
    BY <1>5, <2>1, ComputedOfParts
  <2> QED BY <2>2 DEF inner
<1> QED BY <1>1, <1>6, <1>7 DEF values

(* What Filters computes is these values. *)
LEMMA ValuesAre ==
  ASSUME NEW where, NEW ctx
  PROVE  /\ Build(where, ctx) = ValueOf("build", ctx, where)
         /\ FoldKey(where, ctx) = ValueOf("fold", ctx, where)
         /\ Meaning(where, ctx) = ValueOf("meaning", ctx, where)
<1> DEFINE levels == Wheres(where)
           IsBuild(f) == f = [n \in Nat |-> [w \in levels[n] |->
                                Together(UNION {Conditions(e, ctx, f[n + 1]) : e \in w})]]
           IsFold(f) == f = [n \in Nat |-> [w \in levels[n] |->
                                AllOf({FoldEntry(e, ctx, f[n + 1]) : e \in w})]]
           IsMeaning(f) == f = [n \in Nat |-> [w \in levels[n] |->
                                Together(UNION {Terms(e, ctx, f[n + 1]) : e \in w})]]
<1>1. /\ Build(where, ctx) = (CHOOSE f : IsBuild(f))[0][where]
      /\ FoldKey(where, ctx) = (CHOOSE f : IsFold(f))[0][where]
      /\ Meaning(where, ctx) = (CHOOSE f : IsMeaning(f))[0][where]
  BY DEF Build, FoldKey, Meaning, Wheres
<1> HIDE DEF levels
<1>2. /\ \A f : IsBuild(f) <=> Computes(f, levels, "build", ctx, 0)
      /\ \A f : IsFold(f) <=> Computes(f, levels, "fold", ctx, 0)
      /\ \A f : IsMeaning(f) <=> Computes(f, levels, "meaning", ctx, 0)
  BY DEF Computes, Computed
<1> HIDE DEF IsBuild, IsFold, IsMeaning
<1>3. /\ (CHOOSE f : IsBuild(f)) = CHOOSE f : Computes(f, levels, "build", ctx, 0)
      /\ (CHOOSE f : IsFold(f)) = CHOOSE f : Computes(f, levels, "fold", ctx, 0)
      /\ (CHOOSE f : IsMeaning(f)) = CHOOSE f : Computes(f, levels, "meaning", ctx, 0)
  BY <1>2
<1> QED BY <1>1, <1>3 DEF ValueOf, levels

(* A node's record is computed level by level likewise. *)
LEMMA RecordComputed ==
  ASSUME NEW ctx, NEW rows, NEW node, NEW d \in Nat, EmptyFrom(NodeLevels(ctx, rows, node), d)
  PROVE  \E f : /\ Computes(f, NodeLevels(ctx, rows, node), "node", ctx, rows)
                /\ Record(ctx, rows, node) = f[0][node]
<1> DEFINE levels == NodeLevels(ctx, rows, node)
           Is(f) == f = [n \in Nat |-> [x \in levels[n] |-> Reading(ctx, rows, x, f[n + 1])]]
           record == CHOOSE f : Is(f)
<1>1. Record(ctx, rows, node) = record[0][node]
  BY DEF Record
<1> HIDE DEF levels
<1>2. \A f : Is(f) <=> Computes(f, levels, "node", ctx, rows)
  BY DEF Computes, Computed
<1> HIDE DEF Is
<1>3. \E f : Is(f)
  BY <1>2, ComputedExists DEF levels
<1> QED BY <1>1, <1>2, <1>3 DEF levels

(* Every level of a read is among those the normalizer and the boundary    *)
(* go through.                                                             *)
LEMMA LevelsOfHeld ==
  ASSUME NEW table, NEW args, NEW n \in Nat
  PROVE  Levels(<<table, args>>, Sublevels)[n] \subseteq LevelsOf(table, args)
<1> DEFINE levels == Levels(<<table, args>>, Sublevels)
           below == CHOOSE below : WithinIs(below, levels)
<1>1. \A m \in Nat : levels[m + 1] = UNION {Sublevels(x) : x \in levels[m]}
  BY SublevelsHeld
<1>2. LevelsOf(table, args) = below[0]
  BY DEF LevelsOf, Within, WithinIs
<1> HIDE DEF levels
<1>3. WithinIs(below, levels)
  BY BelowExists
<1> HIDE DEF below
<1>4. \A m \in Nat : levels[m] = {} => levels[m + 1] = {}
  BY <1>1
<1>5. levels[n] \subseteq below[0]
  BY <1>3, <1>4, BelowHoldsLevels
<1> QED BY <1>2, <1>5 DEF levels

----------------------------------------------------------------------------
Own(ctx, rows) == {r \in rows : Reach(ctx, r)}

(* Where the boundary lets an operation pass, its predicate is the         *)
(* client's reach.                                                         *)
LEMMA BoundaryIsReach ==
  ASSUME NEW ctx, NEW r, ~TenantRefused(ctx, r.table)
  PROVE  TenantPredicate(ctx, r) <=> Reach(ctx, r)
BY DEF TenantRefused, TenantPredicate, Reach

(* A client without an identity that does not enforce one meets no         *)
(* boundary.                                                               *)
LEMMA UnscopedReaches ==
  /\ \A r : TenantPredicate(Unscoped, r)
  /\ \A table : ~TenantRefused(Unscoped, table)
  /\ \A table, args : ~LevelRefused(Unscoped, table, args)
BY DEF Unscoped, TenantPredicate, TenantRefused, LevelRefused

(* So a level's WHERE selects, of any rows, what its where alone selects   *)
(* of those in reach.                                                      *)
LEMMA WhereIsOwn ==
  ASSUME NEW ctx, NEW r, ~TenantRefused(ctx, r.table), NEW where
  PROVE  Where(ctx, where, r) <=> Reach(ctx, r) /\ Where(Unscoped, where, r)
BY BoundaryIsReach, UnscopedReaches DEF Where

(* A table's level then reads the same as on a database of the rows in     *)
(* reach.                                                                  *)
LEMMA TableNodesOwn ==
  ASSUME NEW ctx, NEW rows, NEW args, \A r \in rows : ~TenantRefused(ctx, r.table)
  PROVE  TableNodes(ctx, rows, args) = TableNodes(Unscoped, Own(ctx, rows), args)
<1>1. {r \in rows : Where(ctx, args.where, r)} = {r \in Own(ctx, rows) : Where(Unscoped, args.where, r)}
  BY WhereIsOwn DEF Own
<1> QED BY <1>1 DEF TableNodes

(* So does a union's, member by member. *)
LEMMA UnionNodesOwn ==
  ASSUME NEW ctx, NEW rows, NEW args, \A alias \in Branches(args) : ~TenantRefused(ctx, alias)
  PROVE  UnionNodes(ctx, rows, args) = UnionNodes(Unscoped, Own(ctx, rows), args)
<1> DEFINE P(c, r) == /\ r.table \in Branches(args)
                      /\ Where(c, BranchArgs(args, r.table).where, r)
<1>1. {r \in rows : P(ctx, r)} = {r \in Own(ctx, rows) : P(Unscoped, r)}
  BY WhereIsOwn DEF Own
<1> QED BY <1>1 DEF UnionNodes

LevelOf(node) == <<node.row.table, node.args>>

\* The boundary is open to every level a node's joins read.
Opens(ctx, node) == \A level \in Sublevels(LevelOf(node)) : ~TenantRefused(ctx, level[1])

(* A relation joined has arguments, those of its entry in the join. *)
LEMMA JoinedArgs ==
  ASSUME NEW join, NEW f \in JoinNames(join)
  PROVE  \E entry \in join : entry[1] = f /\ entry[2] = Joined(join, f)
BY DEF JoinNames, Joined

(* What a relation joins is read at a level the normalizer went through. *)
LEMMA JoiningLevels ==
  ASSUME NEW ctx, NEW rows, NEW node, NEW f \in JoinNames(JoinOf(node)),
         NEW other \in Joining(ctx, rows, node, f)
  PROVE  LevelOf(other) \in Sublevels(LevelOf(node))
<1> DEFINE args == Joined(JoinOf(node), f)
           levels(entry) == IF entry[1] # "post" THEN {<<"entries", entry[2]>>}
                            ELSE {<<alias, BranchArgs(entry[2], alias)>> : alias \in Branches(entry[2])}
<1>1. PICK entry \in JoinOf(node) : entry[1] = f /\ entry[2] = args
  BY JoinedArgs
<1>2. levels(entry) \subseteq Sublevels(LevelOf(node))
  BY DEF Sublevels, LevelOf, JoinOf
<1>3. LevelOf(other) \in levels(entry)
  <2>1. CASE f = "post"
    <3>1. PICK r : r.table \in Branches(args) /\ other = Node(r, BranchArgs(args, r.table), r.table)
      BY <2>1 DEF Joining, UnionNodes
    <3>2. LevelOf(other) = <<r.table, BranchArgs(args, r.table)>>
      BY <3>1 DEF LevelOf, Node
    <3> QED BY <1>1, <2>1, <3>1, <3>2
  <2>2. CASE f # "post"
    <3>1. PICK r \in Correlated(node.row, f, rows) : other = Node(r, args, Null)
      BY <2>2 DEF Joining, TableNodes
    <3>2. r.table = "entries"
      BY <2>2, <3>1 DEF Correlated
    <3> QED BY <1>1, <2>2, <3>1, <3>2 DEF LevelOf, Node
  <2> QED BY <2>1, <2>2
<1> QED BY <1>2, <1>3

(* A relation joins the same nodes whether or not the rows out of reach    *)
(* are there.                                                              *)
LEMMA JoiningOwn ==
  ASSUME NEW ctx, NEW rows, NEW node, Opens(ctx, node), NEW f \in JoinNames(JoinOf(node))
  PROVE  Joining(ctx, rows, node, f) = Joining(Unscoped, Own(ctx, rows), node, f)
<1> DEFINE args == Joined(JoinOf(node), f)
           from == Correlated(node.row, f, rows)
<1>1. Correlated(node.row, f, Own(ctx, rows)) = Own(ctx, from)
  BY DEF Correlated, Own
<1>2. PICK entry \in JoinOf(node) : entry[1] = f /\ entry[2] = args
  BY JoinedArgs
<1>3. CASE f = "post"
  <2>1. ASSUME NEW alias \in Branches(args) PROVE ~TenantRefused(ctx, alias)
    <3>1. <<alias, BranchArgs(args, alias)>> \in Sublevels(LevelOf(node))
      BY <1>2, <1>3 DEF Sublevels, LevelOf, JoinOf
    <3> QED BY <3>1 DEF Opens
  <2>2. UnionNodes(ctx, from, args) = UnionNodes(Unscoped, Own(ctx, from), args)
    <3> HIDE DEF args, from
    <3> QED BY <2>1, UnionNodesOwn
  <2> QED BY <1>1, <1>3, <2>2 DEF Joining
<1>4. CASE f # "post"
  <2>1. <<"entries", args>> \in Sublevels(LevelOf(node))
    BY <1>2, <1>4 DEF Sublevels, LevelOf, JoinOf
  <2>2. \A r \in from : ~TenantRefused(ctx, r.table)
    BY <1>4, <2>1 DEF Correlated, Opens
  <2>3. TableNodes(ctx, from, args) = TableNodes(Unscoped, Own(ctx, from), args)
    <3> HIDE DEF args, from
    <3> QED BY <2>2, TableNodesOwn
  <2> QED BY <1>1, <1>4, <2>3 DEF Joining
<1> QED BY <1>3, <1>4

(* Every node of a record, at any depth, is read at a level of the         *)
(* request.                                                                *)
LEMMA NodesHaveLevels ==
  ASSUME NEW ctx, NEW rows, NEW node, NEW g, NodesFrom(node, ctx, rows, g)
  PROVE  \A n \in Nat : \A x \in g[n] : LevelOf(x) \in Levels(LevelOf(node), Sublevels)[n]
<1> DEFINE levels == Levels(LevelOf(node), Sublevels)
           S == {n \in Nat : \A x \in g[n] : LevelOf(x) \in levels[n]}
<1>1. levels[0] = {LevelOf(node)} /\ \A n \in Nat : levels[n + 1] = UNION {Sublevels(x) : x \in levels[n]}
  BY SublevelsHeld
<1> HIDE DEF levels
<1>2. 0 \in S
  BY <1>1 DEF NodesFrom
<1>3. ASSUME NEW n \in Nat, n \in S PROVE n + 1 \in S
  <2>1. ASSUME NEW y \in g[n + 1] PROVE LevelOf(y) \in levels[n + 1]
    <3>1. PICK x \in g[n] : y \in JoiningAll(ctx, rows, x)
      BY DEF NodesFrom
    <3>2. PICK f \in JoinNames(JoinOf(x)) : y \in Joining(ctx, rows, x, f)
      BY <3>1 DEF JoiningAll
    <3>3. LevelOf(y) \in Sublevels(LevelOf(x))
      BY <3>2, JoiningLevels
    <3>4. LevelOf(x) \in levels[n]
      BY <1>3
    <3> QED BY <1>1, <3>3, <3>4
  <2> QED BY <2>1
<1>4. Nat \subseteq S
  <2> HIDE DEF S
  <2> QED BY <1>2, <1>3, NatSetInduction
<1> QED BY <1>4 DEF levels

(* So the boundary is open to the joins of every node of a record that     *)
(* is read at all.                                                         *)
LEMMA NodesAreOpen ==
  ASSUME NEW ctx, NEW node, ~LevelRefused(ctx, node.row.table, node.args),
         NEW c, NEW rows, NEW g, NodesFrom(node, c, rows, g)
  PROVE  \A n \in Nat : \A x \in g[n] : Opens(ctx, x)
<1> DEFINE levels == Levels(LevelOf(node), Sublevels)
<1>1. \A n \in Nat : levels[n + 1] = UNION {Sublevels(x) : x \in levels[n]}
  BY SublevelsHeld
<1>2. \A n \in Nat : \A x \in g[n] : LevelOf(x) \in levels[n]
  BY NodesHaveLevels
<1>3. \A n \in Nat : levels[n] \subseteq LevelsOf(node.row.table, node.args)
  BY LevelsOfHeld DEF LevelOf
<1> HIDE DEF levels
<1>4. ASSUME NEW n \in Nat, NEW x \in g[n], NEW level \in Sublevels(LevelOf(x))
      PROVE  ~TenantRefused(ctx, level[1])
  <2>1. level \in levels[n + 1]
    BY <1>1, <1>2
  <2>2. n + 1 \in Nat
    OBVIOUS
  <2> QED BY <1>3, <2>1, <2>2 DEF LevelRefused
<1> QED BY <1>4 DEF Opens

LevelsJoined(g, ctx, rows, node) ==
  g = [n \in Nat |-> IF n = 0 THEN {node} ELSE UNION {JoiningAll(ctx, rows, x) : x \in g[n - 1]}]

(* The nodes of a record are those it has on a database of the rows in     *)
(* reach.                                                                  *)
LEMMA NodesOwn ==
  ASSUME NEW ctx, NEW rows, NEW node, ~LevelRefused(ctx, node.row.table, node.args)
  PROVE  NodeLevels(ctx, rows, node) = NodeLevels(Unscoped, Own(ctx, rows), node)
<1> DEFINE own == Own(ctx, rows)
<1>1. ASSUME NEW x, Opens(ctx, x) PROVE JoiningAll(ctx, rows, x) = JoiningAll(Unscoped, own, x)
  BY <1>1, JoiningOwn DEF JoiningAll
<1>2. ASSUME NEW c, NEW d, NEW g, LevelsJoined(g, c, d, node)
      PROVE  \A n \in Nat : \A x \in g[n] : Opens(ctx, x)
  <2>1. g[0] = {node}
    BY <1>2 DEF LevelsJoined
  <2>2. ASSUME NEW n \in Nat PROVE g[n + 1] = UNION {JoiningAll(c, d, x) : x \in g[n]}
    <3>1. n + 1 \in Nat /\ n + 1 # 0 /\ (n + 1) - 1 = n
      OBVIOUS
    <3> QED BY <1>2, <3>1 DEF LevelsJoined
  <2>3. NodesFrom(node, c, d, g)
    BY <2>1, <2>2 DEF NodesFrom
  <2> QED BY <2>3, NodesAreOpen
<1> HIDE DEF own
<1>3. ASSUME NEW g, \A n \in Nat : \A x \in g[n] : Opens(ctx, x)
      PROVE  LevelsJoined(g, ctx, rows, node) <=> LevelsJoined(g, Unscoped, own, node)
  <2>1. ASSUME NEW n \in Nat
        PROVE  (IF n = 0 THEN {node} ELSE UNION {JoiningAll(ctx, rows, x) : x \in g[n - 1]})
               = (IF n = 0 THEN {node} ELSE UNION {JoiningAll(Unscoped, own, x) : x \in g[n - 1]})
    <3>1. CASE n = 0
      BY <3>1
    <3>2. CASE n # 0
      <4>1. n - 1 \in Nat
        BY <3>2
      <4>2. \A x \in g[n - 1] : JoiningAll(ctx, rows, x) = JoiningAll(Unscoped, own, x)
        BY <1>1, <1>3, <4>1
      <4> QED BY <3>2, <4>2
    <3> QED BY <3>1, <3>2
  <2> QED BY <2>1 DEF LevelsJoined
<1>4. \A g : LevelsJoined(g, ctx, rows, node) <=> LevelsJoined(g, Unscoped, own, node)
  BY <1>2, <1>3
<1>5. (CHOOSE g : LevelsJoined(g, ctx, rows, node)) = (CHOOSE g : LevelsJoined(g, Unscoped, own, node))
  BY <1>4
<1>6. /\ NodeLevels(ctx, rows, node) = CHOOSE g : LevelsJoined(g, ctx, rows, node)
      /\ NodeLevels(Unscoped, own, node) = CHOOSE g : LevelsJoined(g, Unscoped, own, node)
  BY DEF NodeLevels, Levels, LevelsJoined
<1> QED BY <1>5, <1>6 DEF own

RecordsOn(f, levels, ctx, rows) ==
  f = [n \in Nat |-> [x \in levels[n] |-> Reading(ctx, rows, x, f[n + 1])]]

(* A node reads the same there from what its joins read. *)
LEMMA ReadingOwn ==
  ASSUME NEW ctx, NEW rows, NEW node, Opens(ctx, node), NEW inner
  PROVE  Reading(ctx, rows, node, inner) = Reading(Unscoped, Own(ctx, rows), node, inner)
<1> DEFINE joins == JoinNames(JoinOf(node))
           read(c, d, f) == IF f \in joins THEN {inner[x] : x \in Joining(c, d, node, f)} ELSE {}
<1>1. ASSUME NEW f PROVE read(ctx, rows, f) = read(Unscoped, Own(ctx, rows), f)
  BY JoiningOwn
<1>2. \A c, d : Reading(c, d, node, inner)
        = [row |-> Ref(node.row), key |-> node.key,
           fields |-> [f \in ReadColumns(node.row.table, node.args) \cup joins |->
                         ReadField(node, f, read(c, d, f))]]
  BY DEF Reading
<1> HIDE DEF joins, read
<1> QED BY <1>1, <1>2

(* And so does its record, all the way down. *)
LEMMA RecordOwn ==
  ASSUME NEW ctx, NEW rows, NEW node, ~LevelRefused(ctx, node.row.table, node.args)
  PROVE  Record(ctx, rows, node) = Record(Unscoped, Own(ctx, rows), node)
<1> DEFINE own == Own(ctx, rows)
           levels == NodeLevels(ctx, rows, node)
<1>1. NodesFrom(node, ctx, rows, levels)
  BY NodesHeld
<1>2. levels = NodeLevels(Unscoped, own, node)
  BY NodesOwn
<1>3. /\ Record(ctx, rows, node) = (CHOOSE f : RecordsOn(f, levels, ctx, rows))[0][node]
      /\ Record(Unscoped, own, node) = (CHOOSE f : RecordsOn(f, levels, Unscoped, own))[0][node]
  BY <1>2 DEF Record, RecordsOn
<1> HIDE DEF levels, own
<1>4. \A n \in Nat : \A x \in levels[n] : Opens(ctx, x)
  BY <1>1, NodesAreOpen
<1>5. ASSUME NEW f PROVE RecordsOn(f, levels, ctx, rows) <=> RecordsOn(f, levels, Unscoped, own)
  <2>1. ASSUME NEW n \in Nat, NEW x \in levels[n]
        PROVE  Reading(ctx, rows, x, f[n + 1]) = Reading(Unscoped, own, x, f[n + 1])
    BY <1>4, ReadingOwn DEF own
  <2> QED BY <2>1 DEF RecordsOn
<1>6. (CHOOSE f : RecordsOn(f, levels, ctx, rows)) = (CHOOSE f : RecordsOn(f, levels, Unscoped, own))
  BY <1>5
<1> QED BY <1>3, <1>6 DEF own

----------------------------------------------------------------------------
(* A read that is not refused passes the boundary of its own table. *)
LEMMA LevelOpen ==
  ASSUME NEW ctx, NEW table, NEW args, ~LevelRefused(ctx, table, args)
  PROVE  ~TenantRefused(ctx, table)
<1>1. <<table, args>> \in Levels(<<table, args>>, Sublevels)[0]
  BY SublevelsHeld
<1>2. Levels(<<table, args>>, Sublevels)[0] \subseteq LevelsOf(table, args)
  BY LevelsOfHeld
<1> QED BY <1>1, <1>2 DEF LevelRefused

(* The rows an operation on a table selects are those it selects of the    *)
(* rows in reach.                                                          *)
LEMMA TableRowsOwn ==
  ASSUME NEW ctx, NEW rows, NEW table, ~TenantRefused(ctx, table), NEW where
  PROVE  TableRows(ctx, rows, table, where) = TableRows(Unscoped, Own(ctx, rows), table, where)
<1>1. Rows(Own(ctx, rows), table) = Own(ctx, Rows(rows, table))
  BY DEF Own, Rows
<1>2. ASSUME NEW r \in Rows(rows, table)
      PROVE  Where(ctx, where, r) <=> Reach(ctx, r) /\ Where(Unscoped, where, r)
  <2>1. ~TenantRefused(ctx, r.table)
    BY DEF Rows
  <2> QED BY <2>1, WhereIsOwn
<1> QED BY <1>1, <1>2 DEF TableRows, Own

(* A table's records are those of a database of the rows in reach. *)
LEMMA TableRecordsOwn ==
  ASSUME NEW ctx, NEW rows, NEW table, NEW args, ~LevelRefused(ctx, table, args)
  PROVE  TableRecords(ctx, rows, table, args) = TableRecords(Unscoped, Own(ctx, rows), table, args)
<1> DEFINE own == Own(ctx, rows)
           nodes == TableNodes(ctx, Rows(rows, table), args)
<1>1. Rows(own, table) = Own(ctx, Rows(rows, table))
  BY DEF Own, Rows
<1>2. \A r \in Rows(rows, table) : ~TenantRefused(ctx, r.table)
  BY LevelOpen DEF Rows
<1>3. nodes = TableNodes(Unscoped, Rows(own, table), args)
  BY <1>1, <1>2, TableNodesOwn
<1>4. ASSUME NEW node \in nodes PROVE Record(ctx, rows, node) = Record(Unscoped, own, node)
  <2>1. node.row.table = table /\ node.args = args
    BY DEF TableNodes, Node, Rows
  <2> QED BY <2>1, RecordOwn
<1> HIDE DEF nodes, own
<1>5. /\ TableRecords(ctx, rows, table, args) = {Record(ctx, rows, node) : node \in nodes}
      /\ TableRecords(Unscoped, own, table, args) = {Record(Unscoped, own, node) : node \in nodes}
  BY <1>3 DEF TableRecords, nodes
<1> QED BY <1>4, <1>5 DEF own

(* So are a union's. *)
LEMMA UnionRecordsOwn ==
  ASSUME NEW ctx, NEW rows, NEW args,
         \A alias \in Branches(args) : ~LevelRefused(ctx, alias, BranchArgs(args, alias))
  PROVE  UnionRecords(ctx, rows, args) = UnionRecords(Unscoped, Own(ctx, rows), args)
<1> DEFINE own == Own(ctx, rows)
           nodes == UnionNodes(ctx, rows, args)
<1>1. \A alias \in Branches(args) : ~TenantRefused(ctx, alias)
  BY LevelOpen
<1>2. nodes = UnionNodes(Unscoped, own, args)
  BY <1>1, UnionNodesOwn
<1>3. ASSUME NEW node \in nodes PROVE Record(ctx, rows, node) = Record(Unscoped, own, node)
  <2>1. /\ node.row.table \in Branches(args)
        /\ node.args = BranchArgs(args, node.row.table)
    BY DEF UnionNodes, Node
  <2>2. ~LevelRefused(ctx, node.row.table, node.args)
    BY <2>1
  <2> QED BY <2>2, RecordOwn
<1> HIDE DEF nodes, own
<1>4. /\ UnionRecords(ctx, rows, args) = {Record(ctx, rows, node) : node \in nodes}
      /\ UnionRecords(Unscoped, own, args) = {Record(Unscoped, own, node) : node \in nodes}
  BY <1>2 DEF UnionRecords, nodes
<1> QED BY <1>3, <1>4 DEF own

Others(ctx, rows) == rows \ Own(ctx, rows)
Without(outcome, rows) == [outcome EXCEPT !.db = @ \ rows]

(* The parts of an outcome with records. *)
LEMMA FoundIs ==
  ASSUME NEW records, NEW rows
  PROVE  /\ Found(records, rows).db = rows /\ Found(records, rows).refused = "no"
         /\ Found(records, rows).records = records
         /\ \A others : Without(Found(records, rows), others) = Found(records, rows \ others)
BY DEF Found, Without

(* The parts of an outcome with a count. *)
LEMMA CountedIs ==
  ASSUME NEW n, NEW rows
  PROVE  /\ Counted(n, rows).db = rows /\ Counted(n, rows).refused = "no"
         /\ \A others : Without(Counted(n, rows), others) = Counted(n, rows \ others)
BY DEF Counted, Without

(* The parts of a refusal. *)
LEMMA RefusedIs ==
  ASSUME NEW why, NEW rows
  PROVE  Refused(why, rows).refused = why /\ Refused(why, rows).db = rows
BY DEF Refused

\* What comes of an operation, and of the same on a database without the rows out of reach.
ReadsOwn(ctx, rows, outcome, outcomes) ==
  /\ Without(outcome, Others(ctx, rows)) \in outcomes
  /\ outcome.db = rows

(* findOne and findMany on a table answer from the rows in reach alone. *)
LEMMA FindOwn ==
  ASSUME NEW ctx, NEW rows, NEW table, NEW args, NEW one \in BOOLEAN,
         NEW outcome \in FindOutcomes(ctx, rows, table, args, one), outcome.refused = "no"
  PROVE  ReadsOwn(ctx, rows, outcome, FindOutcomes(Unscoped, Own(ctx, rows), table, args, one))
<1> DEFINE records == TableRecords(ctx, rows, table, args)
           own == Own(ctx, rows)
           others == Others(ctx, rows)
           founds == IF one THEN OneOf(records) ELSE {records}
<1>1. /\ ~(ArgsInvalid(table, args) \/ (one /\ RequiredInvalid(table, args.where)))
      /\ ~LevelRefused(ctx, table, args)
  <2>1. \A why \in {"invalid", "tenancy"} : outcome # Refused(why, rows)
    BY RefusedIs
  <2> HIDE DEF records, own, others, founds
  <2> QED BY <2>1 DEF FindOutcomes
<1>2. PICK found \in founds : outcome = Found(found, rows)
  BY <1>1 DEF FindOutcomes
<1>3. records = TableRecords(Unscoped, own, table, args)
  BY <1>1, TableRecordsOwn
<1>4. rows \ others = own
  BY DEF Own, Others
<1>5. Without(outcome, others) = Found(found, own) /\ outcome.db = rows
  <2> HIDE DEF own, others
  <2> QED BY <1>2, <1>4, FoundIs
<1>6. FindOutcomes(Unscoped, own, table, args, one) = {Found(f, own) : f \in founds}
  <2> HIDE DEF own
  <2> QED BY <1>1, <1>3, UnscopedReaches DEF FindOutcomes
<1>7. Found(found, own) \in {Found(f, own) : f \in founds}
  <2> HIDE DEF own, founds
  <2> QED BY <1>2
<1> QED BY <1>5, <1>6, <1>7 DEF ReadsOwn

(* So do they on a union. *)
LEMMA UnionFindOwn ==
  ASSUME NEW ctx, NEW rows, NEW args, NEW one \in BOOLEAN,
         NEW outcome \in UnionFindOutcomes(ctx, rows, args, one), outcome.refused = "no"
  PROVE  ReadsOwn(ctx, rows, outcome, UnionFindOutcomes(Unscoped, Own(ctx, rows), args, one))
<1> DEFINE records == UnionRecords(ctx, rows, args)
           own == Own(ctx, rows)
           others == Others(ctx, rows)
           founds == IF one THEN OneOf(records) ELSE {records}
<1>1. /\ ~(UnionArgsInvalid(args) \/ (one /\ args.where = {}))
      /\ ~(\E alias \in Branches(args) : LevelRefused(ctx, alias, BranchArgs(args, alias)))
  <2>1. \A why \in {"invalid", "tenancy"} : outcome # Refused(why, rows)
    BY RefusedIs
  <2> HIDE DEF records, own, others, founds
  <2> QED BY <2>1 DEF UnionFindOutcomes
<1>2. PICK found \in founds : outcome = Found(found, rows)
  BY <1>1 DEF UnionFindOutcomes
<1>3. records = UnionRecords(Unscoped, own, args)
  BY <1>1, UnionRecordsOwn
<1>4. rows \ others = own
  BY DEF Own, Others
<1>5. Without(outcome, others) = Found(found, own) /\ outcome.db = rows
  <2> HIDE DEF own, others
  <2> QED BY <1>2, <1>4, FoundIs
<1>6. UnionFindOutcomes(Unscoped, own, args, one) = {Found(f, own) : f \in founds}
  <2> HIDE DEF own
  <2> QED BY <1>1, <1>3, UnscopedReaches DEF UnionFindOutcomes
<1>7. Found(found, own) \in {Found(f, own) : f \in founds}
  <2> HIDE DEF own, founds
  <2> QED BY <1>2
<1> QED BY <1>5, <1>6, <1>7 DEF ReadsOwn

(* So does count on a table. *)
LEMMA CountOwn ==
  ASSUME NEW ctx, NEW rows, NEW table, NEW where,
         NEW outcome \in CountOutcomes(ctx, rows, table, where), outcome.refused = "no"
  PROVE  ReadsOwn(ctx, rows, outcome, CountOutcomes(Unscoped, Own(ctx, rows), table, where))
<1> DEFINE own == Own(ctx, rows)
           n == Cardinality(TableRows(ctx, rows, table, where))
<1>1. ~Invalid(table, where) /\ ~TenantRefused(ctx, table)
  <2>1. \A why \in {"invalid", "tenancy"} : outcome # Refused(why, rows)
    BY RefusedIs
  <2> QED BY <2>1 DEF CountOutcomes
<1>2. outcome = Counted(n, rows)
  BY <1>1 DEF CountOutcomes
<1>3. n = Cardinality(TableRows(Unscoped, own, table, where))
  BY <1>1, TableRowsOwn
<1> HIDE DEF n
<1>4. CountOutcomes(Unscoped, own, table, where) = {Counted(n, own)}
  BY <1>1, <1>3, UnscopedReaches DEF CountOutcomes
<1>5. rows \ Others(ctx, rows) = own
  BY DEF Own, Others
<1>6. Without(outcome, Others(ctx, rows)) = Counted(n, own) /\ outcome.db = rows
  <2> HIDE DEF own
  <2> QED BY <1>2, <1>5, CountedIs
<1> QED BY <1>4, <1>6 DEF ReadsOwn

(* So does count on a union: every member's count is over the rows in      *)
(* reach.                                                                  *)
LEMMA UnionCountOwn ==
  ASSUME NEW ctx, NEW rows, NEW where,
         NEW outcome \in UnionCountOutcomes(ctx, rows, where), outcome.refused = "no"
  PROVE  ReadsOwn(ctx, rows, outcome, UnionCountOutcomes(Unscoped, Own(ctx, rows), where))
<1> DEFINE own == Own(ctx, rows)
           args == [WholeUnion EXCEPT !.where = where]
           count(c, d, alias) == Cardinality(TableRows(c, d, alias, BranchArgs(args, alias).where))
           sum(c, d) == MapThenSumSet(LAMBDA alias : count(c, d, alias), Branches(args))
<1>1. /\ ~UnionArgsInvalid(args)
      /\ ~(\E alias \in Branches(args) : TenantRefused(ctx, alias))
      /\ outcome = Counted(sum(ctx, rows), rows)
  <2>1. \A why \in {"invalid", "tenancy"} : outcome # Refused(why, rows)
    BY RefusedIs
  <2>2. UnionCountOutcomes(ctx, rows, where)
        = IF UnionArgsInvalid(args) THEN {Refused("invalid", rows)}
          ELSE IF \E alias \in Branches(args) : TenantRefused(ctx, alias)
          THEN {Refused("tenancy", rows)} ELSE {Counted(sum(ctx, rows), rows)}
    BY DEF UnionCountOutcomes
  <2> HIDE DEF sum, args
  <2> QED BY <2>1, <2>2
<1>2. UnionCountOutcomes(Unscoped, own, where) = {Counted(sum(Unscoped, own), own)}
  BY <1>1, UnscopedReaches DEF UnionCountOutcomes
<1>3. \A alias \in Branches(args) : count(ctx, rows, alias) = count(Unscoped, own, alias)
  <2> HIDE DEF args
  <2> QED BY <1>1, TableRowsOwn
<1>4. sum(ctx, rows) = sum(Unscoped, own)
  <2> DEFINE S == Branches(args)
             Sums(g, c, d) == g = [s \in SUBSET S |->
                IF s = {} THEN 0
                ELSE count(c, d, CHOOSE x \in s : TRUE) + g[s \ {CHOOSE x \in s : TRUE}]]
  <2>1. \A c, d : sum(c, d) = (CHOOSE g : Sums(g, c, d))[S]
    BY DEF MapThenSumSet, MapThenFoldSet
  <2> HIDE DEF count, S, own
  <2>2. ASSUME NEW g PROVE Sums(g, ctx, rows) <=> Sums(g, Unscoped, own)
    <3>1. ASSUME NEW s \in SUBSET S, s # {}
          PROVE  count(ctx, rows, CHOOSE x \in s : TRUE) = count(Unscoped, own, CHOOSE x \in s : TRUE)
      <4>1. (CHOOSE x \in s : TRUE) \in S
        BY <3>1
      <4> QED BY <1>3, <4>1 DEF S
    <3> QED BY <3>1
  <2>3. (CHOOSE g : Sums(g, ctx, rows)) = (CHOOSE g : Sums(g, Unscoped, own))
    BY <2>2
  <2> HIDE DEF sum, Sums
  <2> QED BY <2>1, <2>3
<1>5. rows \ Others(ctx, rows) = own
  BY DEF Own, Others
<1>6. Without(outcome, Others(ctx, rows)) = Counted(sum(ctx, rows), own) /\ outcome.db = rows
  <2> HIDE DEF own, sum, args
  <2> QED BY <1>1, <1>5, CountedIs
<1>7. Without(outcome, Others(ctx, rows)) \in UnionCountOutcomes(Unscoped, own, where)
  <2> HIDE DEF own, sum, args
  <2> QED BY <1>2, <1>4, <1>6
<1> QED BY <1>6, <1>7 DEF ReadsOwn

(* So does $findByGlobalId, whichever node the id names. *)
LEMMA FindByIdOwn ==
  ASSUME NEW ctx, NEW rows, NEW gid,
         NEW outcome \in FindByIdOutcomes(ctx, rows, gid), outcome.refused = "no"
  PROVE  ReadsOwn(ctx, rows, outcome, FindByIdOutcomes(Unscoped, Own(ctx, rows), gid))
<1> DEFINE own == Own(ctx, rows)
           table == KeyOf(gid)
           args == ByKeys({gid})
<1>1. ~GlobalIdInvalid(gid)
  <2>1. outcome # Refused("invalid", rows)
    BY RefusedIs
  <2> HIDE DEF own, table, args
  <2> QED BY <2>1 DEF FindByIdOutcomes
<1>2. PICK found \in FindOutcomes(ctx, rows, table, args, TRUE) : outcome = Tag(found, table)
  BY <1>1 DEF FindByIdOutcomes
<1>3. found.refused = "no"
  BY <1>2 DEF Tag, FindOutcomes, Found, Refused
<1>4. ReadsOwn(ctx, rows, found, FindOutcomes(Unscoped, own, table, args, TRUE))
  BY <1>3, FindOwn
<1> DEFINE less == Without(found, Others(ctx, rows))
<1>5. less \in FindOutcomes(Unscoped, own, table, args, TRUE) /\ found.db = rows
  BY <1>4 DEF ReadsOwn
<1>6. \E records, why, d : found = [records |-> records, count |-> 0, refused |-> why, db |-> d]
  BY DEF FindOutcomes, Found, Refused
<1>7. Tag(less, table) = Without(outcome, Others(ctx, rows)) /\ outcome.db = found.db
  BY <1>2, <1>6 DEF Tag, Without
<1>8. Tag(less, table) \in FindByIdOutcomes(Unscoped, own, gid)
  <2> HIDE DEF less, own
  <2> QED BY <1>1, <1>5 DEF FindByIdOutcomes
<1> QED BY <1>5, <1>7, <1>8 DEF ReadsOwn

----------------------------------------------------------------------------
\* What a write comes to: what it would on a database without the rows out of reach, which stay.
WritesOwn(ctx, rows, outcome, outcomes) ==
  /\ Without(outcome, Others(ctx, rows)) \in outcomes
  /\ Others(ctx, rows) \subseteq outcome.db
  /\ \A r \in outcome.db \ rows : Reach(ctx, r)

(* What an update or a delete selects is in reach. *)
LEMMA OldReached ==
  ASSUME NEW ctx, NEW rows, NEW table, NEW where, ~TenantRefused(ctx, table)
  PROVE  TableRows(ctx, rows, table, where) \subseteq Own(ctx, rows)
<1>1. ASSUME NEW r \in TableRows(ctx, rows, table, where) PROVE r \in Own(ctx, rows)
  <2>1. r \in rows /\ r.table = table /\ Where(ctx, where, r)
    BY DEF TableRows, Rows
  <2> QED BY <2>1, WhereIsOwn DEF Own
<1> QED BY <1>1

(* delete removes rows in reach alone, those it would remove were there    *)
(* no others.                                                              *)
LEMMA DeleteOwn ==
  ASSUME NEW ctx, NEW rows, NEW table, NEW where,
         NEW outcome \in DeleteOutcomes(ctx, rows, table, where), outcome.refused = "no"
  PROVE  WritesOwn(ctx, rows, outcome, DeleteOutcomes(Unscoped, Own(ctx, rows), table, where))
<1> DEFINE own == Own(ctx, rows)
           others == Others(ctx, rows)
           old == TableRows(ctx, rows, table, where)
           ones == OneOf(Returned(table, old))
<1>1. ~RequiredInvalid(table, where) /\ ~TenantRefused(ctx, table)
  <2>1. \A why \in {"invalid", "tenancy"} : outcome # Refused(why, rows)
    BY RefusedIs
  <2> HIDE DEF own, others, old, ones
  <2> QED BY <2>1 DEF DeleteOutcomes
<1>2. PICK one \in ones : outcome = Found(one, rows \ old)
  BY <1>1 DEF DeleteOutcomes
<1>3. old = TableRows(Unscoped, own, table, where) /\ old \subseteq own
  BY <1>1, TableRowsOwn, OldReached
<1>4. DeleteOutcomes(Unscoped, own, table, where) = {Found(f, own \ old) : f \in ones}
  <2> HIDE DEF own, old
  <2> QED BY <1>1, <1>3, UnscopedReaches DEF DeleteOutcomes
<1>5. (rows \ old) \ others = own \ old /\ others \subseteq rows \ old
  BY <1>3 DEF Own, Others
<1> HIDE DEF own, others, old, ones
<1>6. Without(outcome, others) = Found(one, own \ old) /\ outcome.db = rows \ old
  BY <1>2, <1>5, FoundIs
<1>7. Without(outcome, others) \in DeleteOutcomes(Unscoped, own, table, where)
  BY <1>2, <1>4, <1>6
<1> QED BY <1>5, <1>6, <1>7 DEF WritesOwn, own, others

(* A mutation writes neither a claim column nor the table a row is of. *)
LEMMA EntriesWritten ==
  ASSUME NEW table \in Tables, NEW data, ~MutationInvalid(table, data)
  PROVE  LET entries == MutationEntries(table, data) IN
         /\ DOMAIN entries \subseteq Columns(table) \ Scopes[table]
         /\ "table" \notin DOMAIN entries
<1>1. Scopes[table] \subseteq {"org", "team"}
  BY SchemaAssumption
<1>2. Columns(table) \subseteq {"id", "org", "team", "kind", "postId", "name"}
  BY <1>1 DEF Columns
<1>3. DOMAIN data \subseteq Columns(table)
  BY DEF MutationInvalid
<1>4. NamesMember(data) => "kind" \in Columns(table) \ Scopes[table]
  BY <1>1, <1>3 DEF NamesMember, Columns
<1>5. DOMAIN MutationEntries(table, data)
      = (DOMAIN data \ Scopes[table]) \cup (IF NamesMember(data) THEN {"kind"} ELSE {})
  BY DEF MutationEntries, ReadOnly, Discriminator
<1> QED BY <1>2, <1>3, <1>4, <1>5

(* An updated row stays where it was: of its table, its tenant, and under its key. *)
LEMMA UpdatedStays ==
  ASSUME NEW ctx, NEW r, RowOK(r), NEW entries,
         DOMAIN entries \subseteq Columns(r.table) \ Scopes[r.table], "table" \notin DOMAIN entries
  PROVE  /\ UpdateRow(r, entries).table = r.table
         /\ Reach(ctx, UpdateRow(r, entries)) <=> Reach(ctx, r)
<1>1. r.table \in Tables /\ DOMAIN r = AllColumns \cup {"table"}
  BY DEF RowOK
<1>2. Scopes[r.table] \subseteq {"org", "team"}
  BY <1>1, SchemaAssumption
<1>3. UpdateRow(r, entries).table = r.table
  BY <1>1 DEF UpdateRow
<1>4. \A claim \in Scopes[r.table] : UpdateRow(r, entries)[claim] = r[claim]
  BY <1>1, <1>2 DEF UpdateRow, AllColumns
<1> QED BY <1>3, <1>4 DEF Reach

(* update changes rows in reach alone, and leaves them in reach. *)
LEMMA UpdateOwn ==
  ASSUME NEW ctx, NEW rows, RowsOK(rows), NEW table \in Tables, NEW set, NEW where,
         NEW outcome \in UpdateOutcomes(ctx, rows, table, set, where), outcome.refused = "no"
  PROVE  WritesOwn(ctx, rows, outcome, UpdateOutcomes(Unscoped, Own(ctx, rows), table, set, where))
<1> DEFINE own == Own(ctx, rows)
           others == Others(ctx, rows)
           entries == MutationEntries(table, set)
           old == TableRows(ctx, rows, table, where)
           new == {UpdateRow(r, entries) : r \in old}
           ones == OneOf(Returned(table, new))
<1>1. ~UpdateInvalid(table, set, where) /\ ~TenantRefused(ctx, table) /\ DOMAIN entries # {}
  <2>1. \A why \in {"invalid", "tenancy", "database"} : outcome # Refused(why, rows)
    BY RefusedIs
  <2> HIDE DEF own, others, old, new, ones, entries
  <2> QED BY <2>1 DEF UpdateOutcomes, entries
<1>2. PICK one \in ones : outcome = Found(one, (rows \ old) \cup new)
  BY <1>1 DEF UpdateOutcomes
<1>3. old = TableRows(Unscoped, own, table, where) /\ old \subseteq own
  BY <1>1, TableRowsOwn, OldReached
<1>4. UpdateOutcomes(Unscoped, own, table, set, where) = {Found(f, (own \ old) \cup new) : f \in ones}
  <2> HIDE DEF own, old, entries
  <2> QED BY <1>1, <1>3, UnscopedReaches DEF UpdateOutcomes, entries
<1>5. ASSUME NEW r \in new PROVE Reach(ctx, r)
  <2>1. PICK q \in old : r = UpdateRow(q, entries)
    OBVIOUS
  <2>2. q \in rows /\ q.table = table /\ Reach(ctx, q)
    BY <1>3, <2>1 DEF TableRows, Rows, Own
  <2>3. RowOK(q)
    BY <2>2 DEF RowsOK
  <2>4. /\ DOMAIN entries \subseteq Columns(table) \ Scopes[table]
        /\ "table" \notin DOMAIN entries
    BY <1>1, EntriesWritten DEF UpdateInvalid
  <2> HIDE DEF entries
  <2> QED BY <2>1, <2>2, <2>3, <2>4, UpdatedStays
<1> HIDE DEF old, new, ones, entries
<1>6. /\ ((rows \ old) \cup new) \ others = (own \ old) \cup new
      /\ others \subseteq (rows \ old) \cup new
  BY <1>3, <1>5 DEF Own, Others
<1>7. \A r \in ((rows \ old) \cup new) \ rows : Reach(ctx, r)
  BY <1>5
<1> HIDE DEF own, others
<1>8. Without(outcome, others) = Found(one, (own \ old) \cup new) /\ outcome.db = (rows \ old) \cup new
  BY <1>2, <1>6, FoundIs
<1>9. Without(outcome, others) \in UpdateOutcomes(Unscoped, own, table, set, where)
  BY <1>2, <1>4, <1>8
<1> QED BY <1>6, <1>7, <1>8, <1>9 DEF WritesOwn, own, others

\* The claims an identity carries, each with its value.
IdentityOK(identity) == identity # Null => identity \subseteq Claims \X (Orgs \cup Teams)

(* An insert's row is of its table and of the identity's tenant. *)
LEMMA InsertedReached ==
  ASSUME NEW ctx, IdentityOK(ctx.identity), NEW table \in Tables, NEW id, NEW entries,
         ~TenantValueRefused(ctx, table)
  PROVE  LET r == InsertRow(ctx, table, id, entries) IN
         /\ r.table = table
         /\ \A claim \in Scopes[table] : r[claim] \in Orgs \cup Teams
         /\ Reach(ctx, r)
<1> DEFINE r == InsertRow(ctx, table, id, entries)
<1>1. Scopes[table] \subseteq {"org", "team"}
  BY SchemaAssumption
<1>2. r.table = table
  BY <1>1 DEF InsertRow
<1>3. ASSUME NEW claim \in Scopes[table]
      PROVE  /\ ctx.identity # Null /\ r[claim] \in Orgs \cup Teams
             /\ <<claim, r[claim]>> \in ctx.identity
  <2>1. ctx.identity # Null /\ Carries(ctx.identity, claim)
    BY DEF TenantValueRefused
  <2> DEFINE pair == CHOOSE pair \in ctx.identity : pair[1] = claim
  <2>2. pair \in ctx.identity /\ pair[1] = claim
    BY <2>1 DEF Carries
  <2>3. pair = <<claim, pair[2]>> /\ pair[2] \in Orgs \cup Teams
    BY <2>1, <2>2 DEF IdentityOK
  <2>4. r[claim] = pair[2]
    BY <1>1 DEF InsertRow, TenantValue, AllColumns
  <2> QED BY <2>1, <2>2, <2>3, <2>4
<1>4. Reach(ctx, r)
  <2> HIDE DEF r
  <2> QED BY <1>2, <1>3 DEF Reach
<1> QED BY <1>2, <1>3, <1>4

(* create adds one row, within reach, and changes none. *)
LEMMA CreateOwn ==
  ASSUME NEW ctx, IdentityOK(ctx.identity), NEW rows, NEW table \in Tables, NEW data,
         NEW outcome \in CreateOutcomes(ctx, rows, table, data), outcome.refused = "no"
  PROVE  \E id, entries : LET r == InsertRow(ctx, table, id, entries) IN
         /\ entries = MutationEntries(table, data) /\ id \in InsertIds(rows, table, entries)
         /\ ~MutationInvalid(table, data) /\ ~TenantValueRefused(ctx, table)
         /\ \A q \in rows : Ref(q) # Ref(r)
         /\ outcome.db = rows \cup {r} /\ Reach(ctx, r)
<1> DEFINE entries == MutationEntries(table, data)
           row(id) == InsertRow(ctx, table, id, entries)
<1>1. ~MutationInvalid(table, data) /\ ~TenantValueRefused(ctx, table)
  <2>1. \A why \in {"invalid", "tenancy"} : outcome # Refused(why, rows)
    BY RefusedIs
  <2> HIDE DEF entries
  <2> QED BY <2>1 DEF CreateOutcomes
<1>2. PICK id \in InsertIds(rows, table, entries) :
        outcome = IF \E q \in rows : Ref(q) = Ref(row(id)) THEN Refused("database", rows)
                  ELSE Found(Returned(table, {row(id)}), rows \cup {row(id)})
  BY <1>1 DEF CreateOutcomes
<1>3. Reach(ctx, row(id))
  <2> HIDE DEF entries
  <2> QED BY <1>1, InsertedReached
<1> HIDE DEF row, entries
<1>4. /\ \A q \in rows : Ref(q) # Ref(row(id))
      /\ outcome.db = rows \cup {row(id)}
  BY <1>2, RefusedIs, FoundIs
<1> QED BY <1>1, <1>2, <1>3, <1>4 DEF row, entries

\* What a client's operation comes to is its own affair.
IsPrivate(ctx, rows, outcome, req) ==
  /\ \/ Without(outcome, Others(ctx, rows)) \in Outcomes(Unscoped, Own(ctx, rows), req)
     \/ req.op = "create"
     \/ req.op = "raw" /\ ctx.identity = Null
  /\ Others(ctx, rows) \subseteq outcome.db
  /\ \A r \in outcome.db \ rows : Reach(ctx, r)

(* An operation that reads the rows in reach alone is private. *)
LEMMA ReadIsPrivate ==
  ASSUME NEW ctx, NEW rows, NEW req, NEW outcome,
         ReadsOwn(ctx, rows, outcome, Outcomes(Unscoped, Own(ctx, rows), req))
  PROVE  IsPrivate(ctx, rows, outcome, req)
BY DEF ReadsOwn, IsPrivate, Others

(* So is one that writes them alone. *)
LEMMA WriteIsPrivate ==
  ASSUME NEW ctx, NEW rows, NEW req, NEW outcome,
         WritesOwn(ctx, rows, outcome, Outcomes(Unscoped, Own(ctx, rows), req))
  PROVE  IsPrivate(ctx, rows, outcome, req)
BY DEF WritesOwn, IsPrivate, Others

(* Every operation is private, whatever comes of it. *)
LEMMA OutcomeIsPrivate ==
  ASSUME NEW ctx, IdentityOK(ctx.identity), NEW rows, RowsOK(rows), NEW req \in Requests,
         NEW outcome \in Outcomes(ctx, rows, req), outcome.refused = "no"
  PROVE  IsPrivate(ctx, rows, outcome, req)
<1> DEFINE own == Own(ctx, rows)
<1>1. "posts" \notin Tables
  BY SchemaAssumption DEF Tables
<1>2. CASE req.op \in {"findOne", "findMany"} /\ req.on \in Tables
  <2>1. \A c, d : Outcomes(c, d, req) = FindOutcomes(c, d, req.on, req.args, req.op = "findOne")
    BY <1>1, <1>2 DEF Outcomes
  <2> DEFINE one == req.op = "findOne"
  <2>2. one \in BOOLEAN
    OBVIOUS
  <2> HIDE DEF one
  <2>3. \A c, d : Outcomes(c, d, req) = FindOutcomes(c, d, req.on, req.args, one)
    BY <2>1 DEF one
  <2> QED BY <2>2, <2>3, FindOwn, ReadIsPrivate
<1>3. CASE req.op \in {"findOne", "findMany"} /\ req.on = "posts"
  <2>1. \A c, d : Outcomes(c, d, req) = UnionFindOutcomes(c, d, req.args, req.op = "findOne")
    BY <1>1, <1>3 DEF Outcomes
  <2> DEFINE one == req.op = "findOne"
  <2>2. one \in BOOLEAN
    OBVIOUS
  <2> HIDE DEF one
  <2>3. \A c, d : Outcomes(c, d, req) = UnionFindOutcomes(c, d, req.args, one)
    BY <2>1 DEF one
  <2> QED BY <2>2, <2>3, UnionFindOwn, ReadIsPrivate
<1>4. CASE req.op = "count" /\ req.on \in Tables
  <2>1. \A c, d : Outcomes(c, d, req) = CountOutcomes(c, d, req.on, req.args.where)
    BY <1>1, <1>4 DEF Outcomes
  <2> QED BY <2>1, CountOwn, ReadIsPrivate
<1>5. CASE req.op = "count" /\ req.on = "posts"
  <2>1. \A c, d : Outcomes(c, d, req) = UnionCountOutcomes(c, d, req.args.where)
    BY <1>1, <1>5 DEF Outcomes
  <2> QED BY <2>1, UnionCountOwn, ReadIsPrivate
<1>6. CASE req.op = "create"
  <2>1. Outcomes(ctx, rows, req) = CreateOutcomes(ctx, rows, req.on, req.data)
    BY <1>6 DEF Outcomes
  <2>2. req.on \in Tables
    BY <1>6, RequestsAssumption
  <2>3. PICK r : outcome.db = rows \cup {r} /\ Reach(ctx, r)
    BY <2>1, <2>2, CreateOwn
  <2> QED BY <1>6, <2>3 DEF IsPrivate, Others
<1>7. CASE req.op = "update"
  <2>1. \A c, d : Outcomes(c, d, req) = UpdateOutcomes(c, d, req.on, req.data, req.args.where)
    BY <1>7 DEF Outcomes
  <2>2. req.on \in Tables
    BY <1>7, RequestsAssumption
  <2> QED BY <2>1, <2>2, UpdateOwn, WriteIsPrivate
<1>8. CASE req.op = "delete"
  <2>1. \A c, d : Outcomes(c, d, req) = DeleteOutcomes(c, d, req.on, req.args.where)
    BY <1>8 DEF Outcomes
  <2> QED BY <2>1, DeleteOwn, WriteIsPrivate
<1>9. CASE req.op = "findById"
  <2>1. \A c, d : Outcomes(c, d, req) = FindByIdOutcomes(c, d, req.id)
    BY <1>9 DEF Outcomes
  <2> QED BY <2>1, FindByIdOwn, ReadIsPrivate
<1>10. CASE req.op = "raw"
  <2>1. Outcomes(ctx, rows, req) = RawOutcomes(ctx, rows)
    BY <1>10 DEF Outcomes
  <2>2. outcome # Refused("tenancy", rows)
    BY RefusedIs
  <2>3. ctx.identity = Null /\ outcome = Counted(Cardinality(rows), rows)
    BY <2>1, <2>2 DEF RawOutcomes
  <2>4. outcome.db = rows
    BY <2>3, CountedIs
  <2> QED BY <1>10, <2>3, <2>4 DEF IsPrivate, Others
<1> QED
  BY <1>2, <1>3, <1>4, <1>5, <1>6, <1>7, <1>8, <1>9, <1>10, RequestsAssumption

----------------------------------------------------------------------------
(* A table is scoped by an organisation, a team or both. *)
LEMMA ScopesAre == ASSUME NEW table \in Tables PROVE Scopes[table] \subseteq {"org", "team"}
BY SchemaAssumption

(* The rows and counters the program starts from are typed. *)
LEMMA InitTyped == Init => TypeOK
BY InitialDbsAssumption, BoundsAssumption DEF Init, TypeOK, ListIdle

(* Typed, an identity carries claims of the schema alone, each with a      *)
(* value.                                                                  *)
LEMMA ClaimsTyped == ASSUME TypeOK PROVE IdentityOK(client.identity)
BY DEF TypeOK, IdentityOK

(* A derived identity does too: a claim given as nothing is refused,       *)
(* others are dropped.                                                     *)
LEMMA DeriveTyped ==
  ASSUME TypeOK, NEW claims \in Given, Derive(claims) PROVE IdentityOK(client'.identity)
<1>1. CASE DeriveRefused(claims)
  BY <1>1, ClaimsTyped DEF Derive
<1>2. CASE ~DeriveRefused(claims)
  <2>1. client'.identity = {pair \in claims : pair[1] \in Claims} \/ client'.identity = client.identity
    BY <1>2 DEF Derive
  <2>2. ASSUME NEW pair \in claims, pair[1] \in Claims PROVE pair \in Claims \X (Orgs \cup Teams)
    <3>1. pair \in STRING \X ((Orgs \cup Teams) \cup {Null})
      BY <2>2, GivenAssumption DEF OptionalIn
    <3>2. pair[2] # Null
      BY <1>2, <2>2 DEF DeriveRefused
    <3> QED BY <2>2, <3>1, <3>2
  <2> QED BY <2>1, <2>2, ClaimsTyped DEF IdentityOK
<1> QED BY <1>1, <1>2

(* Rows of a mutation: what is stored under each of their columns. *)
LEMMA StoredTyped ==
  ASSUME NEW table \in Tables, NEW data, DataOK(data), ~MutationInvalid(table, data)
  PROVE  LET entries == MutationEntries(table, data) IN
         /\ "id" \in DOMAIN entries => "id" \in DOMAIN data /\ entries.id \in Ids
         /\ "postId" \in DOMAIN entries => entries.postId \in OptionalIn(Ids)
         /\ "kind" \in DOMAIN entries => entries.kind \in OptionalIn(Aliases)
<1> DEFINE entries == MutationEntries(table, data)
<1>1. \A f \in DOMAIN entries :
        /\ f # "kind" => f \in DOMAIN data /\ entries[f] = Stored(f, data[f])
        /\ f = "kind" =>
              \/ NamesMember(data) /\ entries[f] = KeyOf(data.postId)
              \/ f \in DOMAIN data /\ entries[f] = data[f]
  BY DEF MutationEntries, Discriminator, ReadOnly, Stored, IsGuid
<1>2. NamesMember(data) => KeyOf(data.postId) \in Aliases
  BY DEF NamesMember, MutationInvalid, DecodeThrows, IsGuid, NodesOf, Dynamic
<1> HIDE DEF entries
<1>3. \A v \in STRING \X Ids : Raw(v) \in Ids
  BY DEF Raw
<1>4. "id" \in DOMAIN entries => "id" \in DOMAIN data /\ entries.id \in Ids
  BY <1>1, <1>3 DEF DataOK, Stored, IsGuid
<1>5. "postId" \in DOMAIN entries => entries.postId \in OptionalIn(Ids)
  BY <1>1, <1>3 DEF DataOK, Stored, IsGuid, OptionalIn
<1>6. "kind" \in DOMAIN entries => entries.kind \in OptionalIn(Aliases)
  BY <1>1, <1>2 DEF DataOK, OptionalIn, Discriminator
<1> QED BY <1>4, <1>5, <1>6 DEF entries

(* An insert writes a row of its table, with nothing in the columns that   *)
(* are not its own.                                                        *)
LEMMA InsertedTyped ==
  ASSUME NEW ctx, IdentityOK(ctx.identity), NEW rows, NEW table \in Tables, NEW data, DataOK(data),
         ~MutationInvalid(table, data), ~TenantValueRefused(ctx, table),
         NEW id \in InsertIds(rows, table, MutationEntries(table, data))
  PROVE  RowOK(InsertRow(ctx, table, id, MutationEntries(table, data)))
<1> DEFINE entries == MutationEntries(table, data)
           r == InsertRow(ctx, table, id, entries)
<1>1. /\ DOMAIN entries \subseteq Columns(table) \ Scopes[table]
      /\ "table" \notin DOMAIN entries
  BY EntriesWritten
<1>2. /\ "id" \in DOMAIN entries => entries.id \in Ids
      /\ "postId" \in DOMAIN entries => entries.postId \in OptionalIn(Ids)
      /\ "kind" \in DOMAIN entries => entries.kind \in OptionalIn(Aliases)
  BY StoredTyped
<1>3. id \in Ids
  BY <1>2 DEF InsertIds
<1> HIDE DEF entries
<1>4. /\ r.table = table
      /\ \A claim \in Scopes[table] : r[claim] \in Orgs \cup Teams
  BY InsertedReached
<1>5. Scopes[table] \subseteq {"org", "team"}
  BY ScopesAre
<1>6. DOMAIN r = AllColumns \cup {"table"} /\ r.id = id
  <2>1. DOMAIN r = AllColumns \cup {"table"}
    BY DEF InsertRow
  <2>2. r.id = id
    BY <1>5 DEF InsertRow, AllColumns
  <2> QED BY <2>1, <2>2
<1>7. \A f \in AllColumns : f # "id" /\ f \notin Scopes[table] =>
        r[f] = IF f \in DOMAIN entries THEN entries[f] ELSE Null
  BY <1>5 DEF InsertRow, AllColumns
<1> HIDE DEF r
<1>8. \A f \in AllColumns : f \notin Columns(table) => r[f] = Null
  BY <1>1, <1>7 DEF Columns
<1>9. r.kind \in OptionalIn(Aliases) /\ r.postId \in OptionalIn(Ids)
  BY <1>2, <1>5, <1>7 DEF AllColumns, OptionalIn
<1>10. RowOK(r)
  BY <1>3, <1>4, <1>6, <1>8, <1>9 DEF RowOK
<1> QED BY <1>10 DEF r, entries

(* An update leaves a row of its table, under its key. *)
LEMMA UpdatedTyped ==
  ASSUME NEW table \in Tables, NEW data, DataOK(data), ~MutationInvalid(table, data),
         "id" \notin DOMAIN data, NEW r, RowOK(r), r.table = table
  PROVE  LET q == UpdateRow(r, MutationEntries(table, data)) IN RowOK(q) /\ Ref(q) = Ref(r)
<1> DEFINE entries == MutationEntries(table, data)
           q == UpdateRow(r, entries)
<1>1. /\ DOMAIN entries \subseteq Columns(table) \ Scopes[table]
      /\ "table" \notin DOMAIN entries
  BY EntriesWritten
<1>2. /\ "id" \notin DOMAIN entries
      /\ "postId" \in DOMAIN entries => entries.postId \in OptionalIn(Ids)
      /\ "kind" \in DOMAIN entries => entries.kind \in OptionalIn(Aliases)
  BY StoredTyped
<1> HIDE DEF entries
<1>3. DOMAIN r = AllColumns \cup {"table"}
  BY DEF RowOK
<1>4. /\ DOMAIN q = DOMAIN r
      /\ \A f \in DOMAIN r : q[f] = IF f \in DOMAIN entries THEN entries[f] ELSE r[f]
  BY DEF UpdateRow
<1> HIDE DEF q
<1>5. q.table = table /\ q.id = r.id
  BY <1>1, <1>2, <1>3, <1>4 DEF AllColumns
<1>6. Scopes[table] \subseteq {"org", "team"}
  BY ScopesAre
<1>7. \A f \in AllColumns : f \notin Columns(table) \ Scopes[table] => q[f] = r[f]
  BY <1>1, <1>3, <1>4
<1>8. \A claim \in Scopes[table] : q[claim] \in Orgs \cup Teams
  BY <1>6, <1>7 DEF RowOK, AllColumns
<1>9. \A f \in AllColumns : f \notin Columns(table) => q[f] = Null
  BY <1>7 DEF RowOK
<1>10. q.kind \in OptionalIn(Aliases) /\ q.postId \in OptionalIn(Ids)
  BY <1>2, <1>3, <1>4 DEF RowOK, AllColumns
<1>11. RowOK(q)
  BY <1>3, <1>4, <1>5, <1>8, <1>9, <1>10 DEF RowOK
<1> QED BY <1>5, <1>11 DEF Ref, q, entries

\* Whatever comes of it, the rows are left as they are.
(* What a function makes of a finite set is finite. *)
LEMMA ImageFinite ==
  ASSUME NEW S, IsFiniteSet(S), NEW f, DOMAIN f = S, f = [x \in S |-> f[x]]
  PROVE  IsFiniteSet({f[x] : x \in S})
<1> DEFINE T == {f[x] : x \in S}
<1>1. f \in Surjection(S, T)
  BY DEF Surjection
<1> HIDE DEF T
<1> QED BY <1>1, FS_Surjection DEF T

Keeps(outcomes, rows) == \A outcome \in outcomes : outcome.db = rows

(* A read of a table changes no row. *)
LEMMA FindKeeps ==
  ASSUME NEW ctx, NEW rows, NEW table, NEW args, NEW one
  PROVE  Keeps(FindOutcomes(ctx, rows, table, args, one), rows)
BY FoundIs, RefusedIs DEF FindOutcomes, Keeps

(* Nor does one of a union. *)
LEMMA UnionFindKeeps ==
  ASSUME NEW ctx, NEW rows, NEW args, NEW one
  PROVE  Keeps(UnionFindOutcomes(ctx, rows, args, one), rows)
BY FoundIs, RefusedIs DEF UnionFindOutcomes, Keeps

(* Nor does a count. *)
LEMMA CountKeeps ==
  ASSUME NEW ctx, NEW rows, NEW table, NEW where
  PROVE  Keeps(CountOutcomes(ctx, rows, table, where), rows)
BY CountedIs, RefusedIs DEF CountOutcomes, Keeps

(* Nor does a union's. *)
LEMMA UnionCountKeeps ==
  ASSUME NEW ctx, NEW rows, NEW where PROVE Keeps(UnionCountOutcomes(ctx, rows, where), rows)
<1>1. ASSUME NEW outcome \in UnionCountOutcomes(ctx, rows, where) PROVE outcome.db = rows
  <2>1. \/ \E why : outcome = Refused(why, rows)
        \/ \E n : outcome = Counted(n, rows)
    BY DEF UnionCountOutcomes
  <2> QED BY <2>1, CountedIs, RefusedIs
<1> QED BY <1>1 DEF Keeps

(* Nor does a read by global id. *)
LEMMA FindByIdKeeps ==
  ASSUME NEW ctx, NEW rows, NEW gid PROVE Keeps(FindByIdOutcomes(ctx, rows, gid), rows)
<1>1. ASSUME NEW outcome \in FindByIdOutcomes(ctx, rows, gid) PROVE outcome.db = rows
  <2>1. CASE GlobalIdInvalid(gid)
    BY <2>1, RefusedIs DEF FindByIdOutcomes
  <2>2. CASE ~GlobalIdInvalid(gid)
    <3>1. PICK found \in FindOutcomes(ctx, rows, KeyOf(gid), ByKeys({gid}), TRUE) :
            outcome = Tag(found, KeyOf(gid))
      BY <2>2 DEF FindByIdOutcomes
    <3>2. \E records, why : found = [records |-> records, count |-> 0, refused |-> why, db |-> rows]
      BY DEF FindOutcomes, Found, Refused
    <3> QED BY <3>1, <3>2 DEF Tag
  <2> QED BY <2>1, <2>2
<1> QED BY <1>1 DEF Keeps

(* Raw SQL is modelled as a count: the rows it would change are not. *)
LEMMA RawKeeps == ASSUME NEW ctx, NEW rows PROVE Keeps(RawOutcomes(ctx, rows), rows)
BY CountedIs, RefusedIs DEF RawOutcomes, Keeps

(* The rows stay typed, and alone under their keys, when one is            *)
(* inserted.                                                               *)
LEMMA CreateTyped ==
  ASSUME NEW ctx, IdentityOK(ctx.identity), NEW rows, RowsOK(rows), NEW table \in Tables,
         NEW data, DataOK(data), NEW outcome \in CreateOutcomes(ctx, rows, table, data)
  PROVE  RowsOK(outcome.db)
<1>1. CASE outcome.refused = "no"
  <2>1. PICK id, entries :
          /\ entries = MutationEntries(table, data) /\ id \in InsertIds(rows, table, entries)
          /\ ~MutationInvalid(table, data) /\ ~TenantValueRefused(ctx, table)
          /\ \A q \in rows : Ref(q) # Ref(InsertRow(ctx, table, id, entries))
          /\ outcome.db = rows \cup {InsertRow(ctx, table, id, entries)}
    BY <1>1, CreateOwn
  <2>2. RowOK(InsertRow(ctx, table, id, entries))
    BY <2>1, InsertedTyped
  <2>3. IsFiniteSet(outcome.db)
    BY <2>1, FS_AddElement DEF RowsOK
  <2> QED BY <2>1, <2>2, <2>3 DEF RowsOK
<1>2. CASE outcome.refused # "no"
  <2>1. \E records, why, d : outcome = Found(records, d) \/ outcome = Refused(why, rows)
    BY DEF CreateOutcomes
  <2> QED BY <1>2, <2>1, FoundIs, RefusedIs
<1> QED BY <1>1, <1>2

(* They do when some are updated: none changes its key. *)
LEMMA UpdateTyped ==
  ASSUME NEW ctx, NEW rows, RowsOK(rows), NEW table \in Tables, NEW set, DataOK(set), NEW where,
         NEW outcome \in UpdateOutcomes(ctx, rows, table, set, where)
  PROVE  RowsOK(outcome.db)
<1> DEFINE entries == MutationEntries(table, set)
           old == TableRows(ctx, rows, table, where)
           new == {UpdateRow(r, entries) : r \in old}
<1>1. CASE \E why : outcome = Refused(why, rows)
  BY <1>1, RefusedIs
<1>2. CASE ~\E why : outcome = Refused(why, rows)
  <2>1. ~MutationInvalid(table, set) /\ "id" \notin DOMAIN set
    BY <1>2 DEF UpdateOutcomes, UpdateInvalid
  <2>2. PICK one : outcome = Found(one, (rows \ old) \cup new)
    BY <1>2 DEF UpdateOutcomes
  <2>3. old \subseteq rows /\ \A r \in old : r.table = table
    BY DEF TableRows, Rows
  <2>4. ASSUME NEW r \in old
        PROVE  RowOK(UpdateRow(r, entries)) /\ Ref(UpdateRow(r, entries)) = Ref(r)
    <3>1. RowOK(r) /\ r.table = table
      BY <2>3 DEF RowsOK
    <3> QED BY <2>1, <3>1, UpdatedTyped
  <2>5. outcome.db = (rows \ old) \cup new
    BY <2>2, FoundIs
  <2> HIDE DEF old, entries
  <2>6. \A r \in outcome.db : RowOK(r)
    BY <2>4, <2>5 DEF RowsOK
  <2>7. ASSUME NEW r \in outcome.db
        PROVE  \E o \in rows : /\ Ref(o) = Ref(r)
                              /\ r = IF o \in old THEN UpdateRow(o, entries) ELSE o
    BY <2>3, <2>4, <2>5
  <2>8. ASSUME NEW r \in outcome.db, NEW q \in outcome.db, Ref(q) = Ref(r) PROVE q = r
    <3>1. PICK o \in rows : Ref(o) = Ref(r) /\ r = IF o \in old THEN UpdateRow(o, entries) ELSE o
      BY <2>7
    <3>2. PICK p \in rows : Ref(p) = Ref(q) /\ q = IF p \in old THEN UpdateRow(p, entries) ELSE p
      BY <2>7
    <3>3. p = o
      BY <2>8, <3>1, <3>2 DEF RowsOK
    <3> QED BY <3>1, <3>2, <3>3
  <2>9. IsFiniteSet(outcome.db)
    <3> DEFINE f == [r \in old |-> UpdateRow(r, entries)]
    <3>1. IsFiniteSet(rows \ old) /\ IsFiniteSet(old)
      BY <2>3, FS_Subset DEF RowsOK
    <3>2. {f[r] : r \in old} = new
      OBVIOUS
    <3>3. DOMAIN f = old /\ f = [r \in old |-> f[r]]
      OBVIOUS
    <3> HIDE DEF f
    <3>4. IsFiniteSet(new)
      BY <3>1, <3>2, <3>3, ImageFinite
    <3> HIDE DEF new
    <3> QED BY <2>5, <3>1, <3>4, FS_Union
  <2> QED BY <2>6, <2>8, <2>9 DEF RowsOK
<1> QED BY <1>1, <1>2

(* They do whatever comes of any operation. *)
LEMMA OutcomeTyped ==
  ASSUME NEW ctx, IdentityOK(ctx.identity), NEW rows, RowsOK(rows), NEW req \in Requests,
         NEW outcome \in Outcomes(ctx, rows, req)
  PROVE  RowsOK(outcome.db)
<1>1. "posts" \notin Tables
  BY SchemaAssumption DEF Tables
<1>2. CASE req.op \in {"findOne", "findMany", "count", "findById", "raw"}
  <2> DEFINE one == req.op = "findOne"
  <2>1. \/ Outcomes(ctx, rows, req) = FindOutcomes(ctx, rows, req.on, req.args, one)
        \/ Outcomes(ctx, rows, req) = UnionFindOutcomes(ctx, rows, req.args, one)
        \/ Outcomes(ctx, rows, req) = CountOutcomes(ctx, rows, req.on, req.args.where)
        \/ Outcomes(ctx, rows, req) = UnionCountOutcomes(ctx, rows, req.args.where)
        \/ Outcomes(ctx, rows, req) = FindByIdOutcomes(ctx, rows, req.id)
        \/ Outcomes(ctx, rows, req) = RawOutcomes(ctx, rows)
    BY <1>1, <1>2, RequestsAssumption DEF Outcomes
  <2> HIDE DEF one
  <2>2. Keeps(Outcomes(ctx, rows, req), rows)
    BY <2>1, FindKeeps, UnionFindKeeps, CountKeeps, UnionCountKeeps, FindByIdKeeps, RawKeeps
  <2> QED BY <2>2 DEF Keeps
<1>3. CASE req.op = "create"
  <2>1. req.on \in Tables /\ DataOK(req.data)
    BY <1>3, RequestsAssumption
  <2>2. Outcomes(ctx, rows, req) = CreateOutcomes(ctx, rows, req.on, req.data)
    BY <1>3 DEF Outcomes
  <2> QED BY <2>1, <2>2, CreateTyped
<1>4. CASE req.op = "update"
  <2>1. req.on \in Tables /\ DataOK(req.data)
    BY <1>4, RequestsAssumption
  <2>2. Outcomes(ctx, rows, req) = UpdateOutcomes(ctx, rows, req.on, req.data, req.args.where)
    BY <1>4 DEF Outcomes
  <2> QED BY <2>1, <2>2, UpdateTyped
<1>5. CASE req.op = "delete"
  <2>1. Outcomes(ctx, rows, req) = DeleteOutcomes(ctx, rows, req.on, req.args.where)
    BY <1>5 DEF Outcomes
  <2>2. \E why, one, old : outcome = Refused(why, rows) \/ outcome = Found(one, rows \ old)
    BY <2>1 DEF DeleteOutcomes
  <2>3. outcome.db \subseteq rows
    BY <2>2, RefusedIs, FoundIs
  <2> QED BY <2>3, FS_Subset DEF RowsOK
<1> QED BY <1>2, <1>3, <1>4, <1>5, RequestsAssumption

(* And when another client renames one. *)
LEMMA RenameTyped ==
  ASSUME TypeOK, NEW r \in db, NEW name, OtherRename(r, name) PROVE RowsOK(db')
<1> DEFINE q == [r EXCEPT !.name = name]
<1>1. RowOK(r) /\ r.table # "entries"
  BY DEF TypeOK, RowsOK, OtherRename
<1>2. "name" \in Columns(r.table)
  BY <1>1 DEF Columns
<1>3. DOMAIN q = DOMAIN r /\ \A f \in DOMAIN r : f # "name" => q[f] = r[f]
  BY <1>1 DEF RowOK, AllColumns
<1> HIDE DEF q
<1>4. Scopes[r.table] \subseteq {"org", "team"} /\ DOMAIN r = AllColumns \cup {"table"}
  BY <1>1, ScopesAre DEF RowOK
<1>5. q.table = r.table /\ q.id = r.id /\ q.kind = r.kind /\ q.postId = r.postId
  BY <1>3, <1>4 DEF AllColumns
<1>6. \A f \in AllColumns : f \notin Columns(q.table) => q[f] = Null
  BY <1>1, <1>2, <1>3, <1>4, <1>5 DEF RowOK
<1>7. \A claim \in Scopes[q.table] : q[claim] \in Orgs \cup Teams
  BY <1>1, <1>3, <1>4, <1>5 DEF RowOK, AllColumns
<1>8. RowOK(q) /\ Ref(q) = Ref(r)
  BY <1>1, <1>3, <1>5, <1>6, <1>7 DEF RowOK, Ref
<1>9. db' = (db \ {r}) \cup {q}
  BY DEF OtherRename, Write, q
<1>10. IsFiniteSet(db')
  BY <1>9, FS_Subset, FS_AddElement DEF TypeOK, RowsOK
<1> QED BY <1>8, <1>9, <1>10 DEF TypeOK, RowsOK

(***************************************************************************)
(* TypeOK holds in every reachable state, whatever is asked: a row keeps   *)
(* the columns of its table and no other's, its claims are never empty,    *)
(* its ids are unwrapped, a discriminator names a member, and an identity  *)
(* carries the schema's claims and none given as nothing.                  *)
(***************************************************************************)
THEOREM ClientTyped == Spec => []TypeOK
<1>1. ASSUME TypeOK, [Next]_vars PROVE TypeOK'
  <2>1. CASE \E req \in Requests : Ask(req)
    <3>1. PICK req \in Requests : Ask(req)
      BY <2>1
    <3>2. PICK outcome \in Outcomes(client, db, req) : db' = outcome.db
      BY <3>1 DEF Ask
    <3>3. RowsOK(db')
      BY <1>1, <3>2, OutcomeTyped, ClaimsTyped DEF TypeOK
    <3> QED BY <1>1, <3>1, <3>3, BoundsAssumption DEF Ask, Asked, TypeOK, ListIdle
  <2>2. CASE \E claims \in Given : Derive(claims)
    <3>1. PICK claims \in Given : Derive(claims)
      BY <2>2
    <3>2. IdentityOK(client'.identity)
      BY <1>1, <3>1, DeriveTyped
    <3> QED BY <1>1, <3>1, <3>2 DEF Derive, TypeOK, IdentityOK, ListIdle
  <2>3. CASE \E gids \in Lists : StartList(gids)
    <3>1. PICK gids \in Lists : StartList(gids)
      BY <2>3
    <3>2. listing' = Null \/ listing'.stayed = db
      BY <3>1 DEF StartList
    <3> QED BY <1>1, <3>1, <3>2, BoundsAssumption DEF StartList, Asked, TypeOK, ListIdle
  <2>4. CASE \E node \in Tables : RunGroup(node)
    <3>1. PICK node \in Tables : RunGroup(node)
      BY <2>4
    <3>2. ~ListIdle
      BY <3>1 DEF RunGroup
    <3>3. listing.stayed \subseteq db
      BY <1>1, <3>2 DEF TypeOK
    <3>4. listing'.stayed = listing.stayed
      BY <3>1 DEF RunGroup
    <3> QED BY <1>1, <3>1, <3>3, <3>4 DEF RunGroup, TypeOK, ListIdle
  <2>5. CASE FinishList
    BY <1>1, <2>5 DEF FinishList, TypeOK, ListIdle
  <2>6. CASE \E r \in db : OtherDelete(r)
    <3>1. PICK r \in db : OtherDelete(r)
      BY <2>6
    <3>2. listing'.stayed \subseteq db' /\ RowsOK(db')
      BY <1>1, <3>1, FS_Subset DEF OtherDelete, Write, TypeOK, RowsOK
    <3> QED BY <1>1, <3>1, <3>2, BoundsAssumption DEF OtherDelete, Write, TypeOK, ListIdle
  <2>7. CASE \E r \in db, name \in Names : OtherRename(r, name)
    <3>1. PICK r \in db, name \in Names : OtherRename(r, name)
      BY <2>7
    <3>2. RowsOK(db')
      BY <1>1, <3>1, RenameTyped
    <3>3. listing'.stayed \subseteq db'
      BY <3>1 DEF OtherRename, Write
    <3> QED BY <1>1, <3>1, <3>2, <3>3, BoundsAssumption DEF OtherRename, Write, TypeOK, ListIdle
  <2>8. CASE UNCHANGED vars
    BY <1>1, <2>8 DEF vars, TypeOK, ListIdle
  <2> QED BY <1>1, <2>1, <2>2, <2>3, <2>4, <2>5, <2>6, <2>7, <2>8 DEF Next
<1> QED BY <1>1, InitTyped, PTL DEF Spec

(***************************************************************************)
(* StaysPrivate holds of every step. What comes of a read, an update or a  *)
(* delete is what would come of it on a database that has no rows out of   *)
(* reach: the boundary of every level selects, of the rows it is asked of, *)
(* those in reach (WhereIsOwn), so the nodes a record is made of are the   *)
(* same on both databases, level by level (NodesOwn), and so the records.  *)
(* No mutation writes a claim column (EntriesWritten), and an insert's     *)
(* come from the identity (InsertedReached).                               *)
(***************************************************************************)
THEOREM ClientStaysPrivate == Spec => StaysPrivate
<1> DEFINE Private ==
      last' # last /\ Answered(last') =>
        LET own == {r \in db : Reach(client, r)}
            others == db \ own
            outcome == last'.outcome
        IN /\ \/ [outcome EXCEPT !.db = @ \ others] \in Outcomes(Unscoped, own, last'.request)
              \/ last'.request.op = "create"
              \/ last'.request.op = "raw" /\ client.identity = Null
           /\ others \subseteq outcome.db
           /\ client.identity # Null => \A r \in outcome.db \ db : Reach(client, r)
<1>1. ASSUME TypeOK, [Next]_vars PROVE Private
  <2>1. ASSUME last' # last, Answered(last')
        PROVE  \E req \in Requests : Ask(req)
    <3>1. ASSUME NEW gids \in Lists, StartList(gids) PROVE FALSE
      BY <2>1, <3>1 DEF StartList, Answered
    <3>2. ASSUME FinishList PROVE FALSE
      BY <2>1, <3>2 DEF FinishList, Answered
    <3> QED BY <1>1, <2>1, <3>1, <3>2
      DEF Next, vars, Derive, RunGroup, OtherDelete, OtherRename, Write
  <2>2. SUFFICES ASSUME last' # last, Answered(last'), NEW req \in Requests, Ask(req) PROVE Private
    BY <2>1
  <2>3. PICK outcome \in Outcomes(client, db, req) : last' = [request |-> req, outcome |-> outcome]
    BY <2>2 DEF Ask
  <2>4. outcome.refused = "no"
    BY <2>2, <2>3 DEF Answered
  <2>5. IsPrivate(client, db, outcome, req)
    BY <1>1, <2>3, <2>4, OutcomeIsPrivate, ClaimsTyped DEF TypeOK
  <2> QED BY <2>3, <2>5 DEF IsPrivate, Own, Others, Without
<1>2. TypeOK /\ [Next]_vars => [Private]_vars
  BY <1>1
<1> QED BY <1>2, ClientTyped, PTL DEF Spec, StaysPrivate

----------------------------------------------------------------------------
(* A where of columns' filters alone holds no where, so its condition is its own tests'. *)
LEMMA PlainBuild ==
  ASSUME NEW where, \A e \in where : IsField(e) /\ ~IsKey(e), NEW r
  PROVE  Build(where, r) = Together(UNION {Conditions(e, r, <<>>) : e \in where})
<1> DEFINE values == [p \in Parts(where) |-> ValueOf("build", r, p)]
<1>1. Parts(where) = {} /\ Keyless(where)
  BY DEF Parts, Keyless
<1>2. Nested(where, 0 + 1) /\ TableWhere(where, 0 + 1)
  BY <1>1, PartsNested, TableWhereParts
<1>3. Build(where, r) = Computed("build", r, 0, where, values)
  BY <1>2, ValuesAre, ValueUnfolds DEF OfWheres
<1> HIDE DEF values
<1>4. Build(where, r) = Together(UNION {Conditions(e, r, values) : e \in where})
  BY <1>3 DEF Computed
<1>5. \A e \in where : \A inner : Conditions(e, r, inner) = Conditions(e, r, <<>>)
  BY DEF Conditions
<1>6. {Conditions(e, r, values) : e \in where} = {Conditions(e, r, <<>>) : e \in where}
  BY <1>5
<1> QED BY <1>4, <1>6

(* What $listByGlobalId's statement for a node selects: the rows whose     *)
(* id it was given.                                                        *)
LEMMA ByKeysSelects ==
  ASSUME NEW gids, NEW r, r.id \in Ids
  PROVE  Selects(ByKeys(gids).where, r) <=> \E gid \in gids : r.id = Raw(gid)
<1> DEFINE bare == {<<"", Raw(gid)>> : gid \in gids}
           t == <<"in", bare>>
           e == Field("id", {t})
           equal == [v \in bare |-> Equals(r, "id", v)]
<1>1. ByKeys(gids).where = {e}
  BY DEF ByKeys, Whole
<1>2. IsField(e) /\ ~IsKey(e) /\ e.field = "id" /\ e.test = {t}
  BY DEF IsField, IsKey, Field
<1>3. Operands(t) = bare
  BY DEF Operands
<1>4. Compare(r, "id", t, equal) = Any3(Range(equal))
  BY DEF Compare
<1>5. Any3(Range(equal)) = "true" <=> \E gid \in gids : r.id = Raw(gid)
  <2>1. \A v \in bare : equal[v] = Eq3(r.id, v[2])
    BY DEF Equals, Dynamic, Raw
  <2>2. \A x : Eq3(r.id, x) = "true" <=> r.id = x
    BY IdsAssumption DEF Eq3, AsTruth
  <2>3. "true" \in Range(equal) <=> \E v \in bare : equal[v] = "true"
    BY DEF Range
  <2>4. (\E v \in bare : equal[v] = "true") <=> \E v \in bare : r.id = v[2]
    <3> HIDE DEF bare, equal
    <3> QED BY <2>1, <2>2
  <2>5. (\E v \in bare : r.id = v[2]) <=> \E gid \in gids : r.id = Raw(gid)
    <3>1. ASSUME NEW gid \in gids PROVE <<"", Raw(gid)>> \in bare /\ <<"", Raw(gid)>>[2] = Raw(gid)
      OBVIOUS
    <3>2. ASSUME NEW v \in bare PROVE \E gid \in gids : v[2] = Raw(gid)
      <4> HIDE DEF t, e, equal
      <4>1. PICK gid \in gids : v = <<"", Raw(gid)>>
        OBVIOUS
      <4>2. v[2] = Raw(gid)
        BY <4>1
      <4> QED BY <4>2
    <3> HIDE DEF bare
    <3> QED BY <3>1, <3>2
  <2> HIDE DEF bare, equal
  <2>6. Any3(Range(equal)) = "true" <=> "true" \in Range(equal)
    BY DEF Any3
  <2> QED BY <2>3, <2>4, <2>5, <2>6
<1>6. Conditions(e, r, <<>>) = {Any3(Range(equal))}
  <2>1. Conditions(e, r, <<>>)
        = {Compare(r, e.field, x, [v \in Operands(x) |-> Equals(r, e.field, v)]) : x \in e.test}
    BY <1>2 DEF Conditions
  <2>2. [v \in Operands(t) |-> Equals(r, e.field, v)] = equal
    BY <1>2, <1>3
  <2> HIDE DEF e, t, equal
  <2> QED BY <1>2, <1>4, <2>1, <2>2
<1> HIDE DEF equal, t
<1>7. Build({e}, r) = Together(UNION {Conditions(f, r, <<>>) : f \in {e}})
  <2>1. \A f \in {e} : IsField(f) /\ ~IsKey(f)
    BY <1>2
  <2> HIDE DEF e
  <2> QED BY <2>1, PlainBuild
<1>8. UNION {Conditions(f, r, <<>>) : f \in {e}} = {Any3(Range(equal))}
  <2> HIDE DEF e
  <2> QED BY <1>6
<1>9. Build({e}, r) = All3({Any3(Range(equal))})
  BY <1>7, <1>8 DEF Together
<1>10. Any3(Range(equal)) \in {"true", "false", "unknown"}
  BY DEF Any3
<1>11. All3({Any3(Range(equal))}) = Any3(Range(equal))
  BY <1>10 DEF All3
<1> HIDE DEF e
<1> QED BY <1>1, <1>5, <1>9, <1>10, <1>11 DEF Selects, None

(* A node that joins nothing reads its own columns, its id as the global   *)
(* id of its row.                                                          *)
LEMMA PlainReading ==
  ASSUME NEW ctx, NEW rows, NEW node, JoinOf(node) = {}, NEW inner
  PROVE  /\ Reading(ctx, rows, node, inner) = Reading(ctx, rows, node, <<>>)
         /\ Reading(ctx, rows, node, inner).row = Ref(node.row)
         /\ Reading(ctx, rows, node, inner).key = node.key
         /\ "id" \in ReadColumns(node.row.table, node.args)
            => Reading(ctx, rows, node, inner).fields.id = Ref(node.row)
<1> DEFINE columns == ReadColumns(node.row.table, node.args)
<1>1. JoinNames(JoinOf(node)) = {}
  BY DEF JoinNames
<1>2. \A x : Reading(ctx, rows, node, x)
             = [row |-> Ref(node.row), key |-> node.key,
                fields |-> [f \in columns |-> ReadField(node, f, {})]]
  BY <1>1 DEF Reading
<1>3. "id" \in columns => ReadField(node, "id", {}) = Ref(node.row)
  BY DEF ReadField, ReadColumn, Ref
<1> HIDE DEF columns
<1> QED BY <1>2, <1>3 DEF columns

(* A node that joins nothing is a record of its own columns. *)
LEMMA PlainRecord ==
  ASSUME NEW ctx, NEW rows, NEW node, JoinOf(node) = {}
  PROVE  Record(ctx, rows, node) = Reading(ctx, rows, node, <<>>)
<1> DEFINE levels == NodeLevels(ctx, rows, node)
<1>1. NodesFrom(node, ctx, rows, levels)
  BY NodesHeld
<1>2. \A m \in Nat : levels[m] = {} => levels[m + 1] = {}
  BY <1>1 DEF NodesFrom
<1>3. JoiningAll(ctx, rows, node) = {}
  BY DEF JoiningAll, JoinNames
<1> HIDE DEF levels
<1>4. levels[0] = {node} /\ levels[0 + 1] = UNION {JoiningAll(ctx, rows, x) : x \in levels[0]}
  BY <1>1 DEF NodesFrom
<1>5. EmptyFrom(levels, 1)
  BY <1>2, <1>3, <1>4, EmptyBelow
<1>6. PICK f : Computes(f, levels, "node", ctx, rows) /\ Record(ctx, rows, node) = f[0][node]
  BY <1>5, RecordComputed DEF levels
<1>7. f[0] = [x \in levels[0] |-> Computed("node", ctx, rows, x, f[0 + 1])]
  BY <1>6 DEF Computes
<1> QED BY <1>4, <1>6, <1>7, PlainReading DEF Computed

\* A record of a list, read from a row.
ReadFrom(record, r) == record.row = Ref(r) /\ record.fields.id = Ref(r)

(* A group reads rows of its node, each under its own id, and every one    *)
(* in reach that it was asked for.                                         *)
LEMMA ListedRecords ==
  ASSUME NEW ctx, NEW rows, RowsOK(rows), NEW table, NEW gids
  PROVE  LET records == TableRecords(ctx, rows, table, ByKeys(gids)) IN
         /\ \A record \in records : /\ DOMAIN record = {"row", "key", "fields"}
                                    /\ \E r \in rows : r.table = table /\ ReadFrom(record, r)
         /\ \A r \in rows : r.table = table /\ TenantPredicate(ctx, r) /\ Ref(r) \in gids
                            => \E record \in records : ReadFrom(record, r)
<1> DEFINE args == ByKeys(gids)
           nodes == TableNodes(ctx, Rows(rows, table), args)
           records == TableRecords(ctx, rows, table, args)
<1>1. args.select = {} /\ args.join = {}
  BY DEF ByKeys, Whole
<1>2. ASSUME NEW r, r.table = table
      PROVE  LET record == Record(ctx, rows, Node(r, args, Null)) IN
             ReadFrom(record, r) /\ DOMAIN record = {"row", "key", "fields"}
  <2> DEFINE node == Node(r, args, Null)
  <2>1. node.row = r /\ node.args = args
    BY DEF Node
  <2>2. JoinOf(node) = {}
    BY <1>1, <2>1 DEF JoinOf, ReadJoin, Picked
  <2>3. "id" \in ReadColumns(r.table, args)
    BY <1>1 DEF ReadColumns, Picked, Columns
  <2> HIDE DEF node, args
  <2>4. Record(ctx, rows, node) = Reading(ctx, rows, node, <<>>)
    BY <2>2, PlainRecord
  <2>5. ReadFrom(Reading(ctx, rows, node, <<>>), r)
    BY <2>1, <2>2, <2>3, PlainReading DEF ReadFrom
  <2>6. DOMAIN Reading(ctx, rows, node, <<>>) = {"row", "key", "fields"}
    BY DEF Reading
  <2> QED BY <2>4, <2>5, <2>6 DEF node, args
<1>3. records = {Record(ctx, rows, node) : node \in nodes}
  BY DEF TableRecords
<1>4. nodes = {Node(r, args, Null) : r \in {r \in Rows(rows, table) : Where(ctx, args.where, r)}}
  BY DEF TableNodes
<1>5. ASSUME NEW record \in records
      PROVE  /\ DOMAIN record = {"row", "key", "fields"}
             /\ \E r \in rows : r.table = table /\ ReadFrom(record, r)
  <2>1. PICK r \in Rows(rows, table) : record = Record(ctx, rows, Node(r, args, Null))
    <3> HIDE DEF records, nodes, args
    <3> QED BY <1>3, <1>4
  <2>2. r \in rows /\ r.table = table
    BY DEF Rows
  <2> HIDE DEF records, nodes, args
  <2> QED BY <1>2, <2>1, <2>2 DEF args
<1>6. ASSUME NEW r \in rows, r.table = table, TenantPredicate(ctx, r), Ref(r) \in gids
      PROVE  \E record \in records : ReadFrom(record, r)
  <2>1. r.id \in Ids /\ Raw(Ref(r)) = r.id
    BY DEF RowsOK, RowOK, Raw, Ref
  <2>2. Selects(args.where, r)
    BY <1>6, <2>1, ByKeysSelects
  <2> HIDE DEF args, records
  <2>3. Node(r, args, Null) \in nodes
    BY <1>4, <1>6, <2>2 DEF Rows, Where
  <2> HIDE DEF nodes
  <2>4. Record(ctx, rows, Node(r, args, Null)) \in records
    BY <1>3, <2>3
  <2> QED BY <1>2, <1>6, <2>4 DEF args
<1> QED BY <1>5, <1>6

(***************************************************************************)
(* What holds of a list under way and of a list answered. Every node asked *)
(* is open to the client; what was read under an id is that id's row; a    *)
(* row in reach that stayed was read, unless its group has yet to run. A   *)
(* client that had no identity may have derived one since: it reaches no   *)
(* row that it did not reach then.                                         *)
(***************************************************************************)
ClientOK == client = [identity |-> client.identity, enforce |-> client.enforce]

ListingOK ==
  ~ListIdle =>
    /\ listing = [gids |-> listing.gids, pending |-> listing.pending, rows |-> listing.rows,
                  stayed |-> listing.stayed]
    /\ \A gid \in Range(listing.gids) : ~TenantRefused(client, KeyOf(gid))
    /\ \A p \in listing.rows : p[2].row = p[1] /\ p[2].key = KeyOf(p[1])
    /\ \A r \in listing.stayed :
         Ref(r) \in Range(listing.gids) /\ Reach(client, r) /\ r.table \notin listing.pending
         => \E p \in listing.rows : p[1] = Ref(r)

HasList == last # Null /\ "list" \in DOMAIN last

AnsweredOpen ==
  HasList /\ client.identity = Null =>
    \A i \in DOMAIN last.gids : \A r \in last.stayed :
      Ref(r) = last.gids[i] => Scopes[r.table] = {} \/ ~client.enforce

ListInv == TypeOK /\ ClientOK /\ ListingOK /\ AnsweredOpen /\ ListsIds

(* Initially no list is under way and none has been answered. *)
LEMMA InitLists == Init => ListInv
BY InitTyped DEF Init, ListInv, ClientOK, ListingOK, ListIdle, AnsweredOpen, HasList, ListsIds

(* A list starts with nothing read, all of its groups pending and open     *)
(* to the client.                                                          *)
LEMMA StartListLists ==
  ASSUME ListInv, NEW gids \in Lists, StartList(gids)
  PROVE  ClientOK' /\ ListingOK' /\ AnsweredOpen' /\ ListsIds'
<1>1. last' = Null /\ client' = client
  BY DEF StartList
<1>2. ClientOK' /\ AnsweredOpen' /\ ListsIds'
  BY <1>1 DEF ListInv, ClientOK, AnsweredOpen, HasList, ListsIds
<1>3. CASE ListRefused(gids)
  BY <1>2, <1>3 DEF StartList, ListingOK, ListIdle
<1>4. CASE ~ListRefused(gids)
  <2>1. listing' = [gids |-> gids, pending |-> Groups(gids), rows |-> {}, stayed |-> db]
    BY <1>4 DEF StartList
  <2>2. ASSUME NEW gid \in Range(gids) PROVE ~TenantRefused(client, KeyOf(gid))
    <3>1. ~LevelRefused(client, KeyOf(gid), ByKeys({gid}))
      BY <1>4 DEF ListRefused
    <3> QED BY <3>1, LevelOpen
  <2>3. ASSUME NEW r, Ref(r) \in Range(gids) PROVE r.table \in Groups(gids)
    <3>1. KeyOf(Ref(r)) = r.table
      BY DEF KeyOf, Ref
    <3> QED BY <2>3, <3>1 DEF Groups
  <2>4. /\ listing' = [gids |-> listing'.gids, pending |-> listing'.pending, rows |-> listing'.rows,
                       stayed |-> listing'.stayed]
        /\ listing'.gids = gids /\ listing'.pending = Groups(gids) /\ listing'.rows = {}
    BY <2>1
  <2> QED BY <1>1, <1>2, <2>2, <2>3, <2>4 DEF ListingOK
<1> QED BY <1>3, <1>4

(* A group that runs reads every row in reach that stayed and that it      *)
(* was asked for.                                                          *)
LEMMA RunGroupLists ==
  ASSUME ListInv, NEW node \in Tables, RunGroup(node)
  PROVE  ClientOK' /\ ListingOK' /\ AnsweredOpen' /\ ListsIds'
<1>1. last' = last /\ client' = client /\ db' = db
  BY DEF RunGroup
<1>2. ClientOK' /\ AnsweredOpen' /\ ListsIds'
  BY <1>1 DEF ListInv, ClientOK, AnsweredOpen, HasList, ListsIds
<1> DEFINE gids == GroupOf(listing.gids, node)
           found == TableRecords(client, db, node, ByKeys(gids))
           tagged == {[record EXCEPT !.key = node] : record \in found}
           read == {<<MatchKey(r.fields.id), r>> : r \in tagged}
<1>3. listing' = [listing EXCEPT !.pending = @ \ {node}, !.rows = @ \cup read]
  BY DEF RunGroup
<1>4. ~ListIdle /\ node \in listing.pending
  BY DEF RunGroup
<1>5. /\ listing = [gids |-> listing.gids, pending |-> listing.pending, rows |-> listing.rows,
                    stayed |-> listing.stayed]
      /\ \A gid \in Range(listing.gids) : ~TenantRefused(client, KeyOf(gid))
      /\ \A p \in listing.rows : p[2].row = p[1] /\ p[2].key = KeyOf(p[1])
      /\ \A r \in listing.stayed :
           Ref(r) \in Range(listing.gids) /\ Reach(client, r) /\ r.table \notin listing.pending
           => \E p \in listing.rows : p[1] = Ref(r)
  BY <1>4 DEF ListInv, ListingOK
<1> HIDE DEF read
<1>6. /\ listing'.gids = listing.gids /\ listing'.stayed = listing.stayed
      /\ listing'.pending = listing.pending \ {node} /\ listing'.rows = listing.rows \cup read
      /\ listing' = [gids |-> listing'.gids, pending |-> listing'.pending, rows |-> listing'.rows,
                     stayed |-> listing'.stayed]
  BY <1>3, <1>5
<1>7. /\ RowsOK(db) /\ listing.stayed \subseteq db
  BY <1>4 DEF ListInv, TypeOK
<1>8. /\ \A record \in found : /\ DOMAIN record = {"row", "key", "fields"}
                               /\ \E r \in db : r.table = node /\ ReadFrom(record, r)
      /\ \A r \in db : r.table = node /\ TenantPredicate(client, r) /\ Ref(r) \in gids
                       => \E record \in found : ReadFrom(record, r)
  <2> HIDE DEF gids
  <2> QED BY <1>7, ListedRecords
<1> HIDE DEF found, gids
<1>9. ASSUME NEW record \in found
      PROVE  LET r == [record EXCEPT !.key = node] IN
             r.row = record.row /\ r.fields = record.fields /\ r.key = node
  BY <1>8
<1>10. ASSUME NEW p \in read PROVE p[2].row = p[1] /\ p[2].key = KeyOf(p[1])
  <2>1. PICK record \in found :
          p = <<MatchKey([record EXCEPT !.key = node].fields.id), [record EXCEPT !.key = node]>>
    BY DEF read
  <2> DEFINE q == [record EXCEPT !.key = node]
  <2>2. q.row = record.row /\ q.fields = record.fields /\ q.key = node
    BY <1>9
  <2>3. PICK r \in db : r.table = node /\ ReadFrom(record, r)
    BY <1>8
  <2>4. p[1] = q.fields.id /\ p[2] = q
    BY <2>1 DEF MatchKey
  <2> HIDE DEF q
  <2> QED BY <2>2, <2>3, <2>4 DEF ReadFrom, KeyOf, Ref
<1>11. ASSUME NEW r \in listing.stayed, Ref(r) \in Range(listing.gids), Reach(client, r), r.table = node
       PROVE  \E p \in read : p[1] = Ref(r)
  <2>1. KeyOf(Ref(r)) = node
    BY <1>11 DEF KeyOf, Ref
  <2>2. Ref(r) \in gids
    BY <1>11, <2>1 DEF gids, GroupOf
  <2>3. ~TenantRefused(client, r.table)
    BY <1>5, <1>11, <2>1
  <2>4. TenantPredicate(client, r)
    BY <1>11, <2>3, BoundaryIsReach
  <2>5. PICK record \in found : ReadFrom(record, r)
    BY <1>7, <1>8, <1>11, <2>2, <2>4
  <2> DEFINE q == [record EXCEPT !.key = node]
  <2>6. <<MatchKey(q.fields.id), q>> \in read
    BY DEF read
  <2>7. q.fields.id = Ref(r)
    BY <1>9, <2>5 DEF ReadFrom
  <2> HIDE DEF q
  <2> QED BY <2>6, <2>7 DEF MatchKey
<1>12. \A gid \in Range(listing'.gids) : ~TenantRefused(client', KeyOf(gid))
  BY <1>1, <1>5, <1>6
<1>13. \A p \in listing'.rows : p[2].row = p[1] /\ p[2].key = KeyOf(p[1])
  BY <1>5, <1>6, <1>10
<1>14. ASSUME NEW r \in listing'.stayed, Ref(r) \in Range(listing'.gids), Reach(client', r),
              r.table \notin listing'.pending
       PROVE  \E p \in listing'.rows : p[1] = Ref(r)
  <2>1. CASE r.table = node
    BY <1>1, <1>6, <1>11, <1>14, <2>1
  <2>2. CASE r.table # node
    BY <1>1, <1>5, <1>6, <1>14, <2>2
  <2> QED BY <2>1, <2>2
<1>15. ListingOK'
  BY <1>6, <1>12, <1>13, <1>14 DEF ListingOK
<1> QED BY <1>2, <1>15

(* With no group pending, every id in reach that stayed has its record. *)
LEMMA FinishListLists ==
  ASSUME ListInv, FinishList
  PROVE  ClientOK' /\ ListingOK' /\ AnsweredOpen' /\ ListsIds'
<1> DEFINE matched(gid) == {pair[2] : pair \in {p \in listing.rows : p[1] = MatchKey(gid)}}
           answer(gid) == IF matched(gid) = {} THEN {} ELSE {CHOOSE record \in matched(gid) : TRUE}
           list == [i \in DOMAIN listing.gids |-> answer(listing.gids[i])]
<1>1. /\ last' = [list |-> list, gids |-> listing.gids, stayed |-> listing.stayed]
      /\ listing' = Null /\ client' = client /\ ~ListIdle /\ listing.pending = {}
  BY DEF FinishList
<1>2. /\ \A gid \in Range(listing.gids) : ~TenantRefused(client, KeyOf(gid))
      /\ \A p \in listing.rows : p[2].row = p[1] /\ p[2].key = KeyOf(p[1])
      /\ \A r \in listing.stayed :
           Ref(r) \in Range(listing.gids) /\ Reach(client, r) /\ r.table \notin listing.pending
           => \E p \in listing.rows : p[1] = Ref(r)
  BY <1>1 DEF ListInv, ListingOK
<1>3. ASSUME NEW gid
      PROVE  /\ \A record \in answer(gid) : record.row = gid /\ record.key = KeyOf(gid)
             /\ (\E p \in listing.rows : p[1] = gid) => answer(gid) # {}
  <2>1. \A record \in matched(gid) : record.row = gid /\ record.key = KeyOf(gid)
    BY <1>2 DEF MatchKey
  <2>2. (\E p \in listing.rows : p[1] = gid) => matched(gid) # {}
    BY DEF MatchKey
  <2> HIDE DEF matched
  <2> QED BY <2>1, <2>2
<1> HIDE DEF answer
<1>4. /\ last'.gids = listing.gids /\ last'.stayed = listing.stayed
      /\ \A i \in DOMAIN listing.gids : last'.list[i] = answer(listing.gids[i])
  BY <1>1
<1>5. ASSUME NEW i \in DOMAIN listing.gids, NEW r \in listing.stayed, Ref(r) = listing.gids[i]
      PROVE  ~TenantRefused(client, r.table) /\ Ref(r) \in Range(listing.gids)
  <2>1. Ref(r) \in Range(listing.gids) /\ KeyOf(Ref(r)) = r.table
    BY <1>5 DEF Range, KeyOf, Ref
  <2> QED BY <1>2, <2>1
<1>6. ListsIds'
  <2>1. ASSUME NEW i \in DOMAIN listing.gids, NEW r \in listing.stayed, Ref(r) = listing.gids[i],
               Reach(client, r)
        PROVE  answer(listing.gids[i]) # {}
    <3>1. Ref(r) \in Range(listing.gids)
      BY <1>5, <2>1
    <3>2. \E p \in listing.rows : p[1] = Ref(r)
      BY <1>1, <1>2, <2>1, <3>1
    <3> QED BY <1>3, <2>1, <3>2
  <2>2. \A i \in DOMAIN last'.gids :
           /\ \A record \in last'.list[i] : record.row = last'.gids[i] /\ record.key = KeyOf(last'.gids[i])
           /\ (\E r \in last'.stayed : Ref(r) = last'.gids[i] /\ Reach(client', r)) => last'.list[i] # {}
    BY <1>1, <1>3, <1>4, <2>1
  <2> QED BY <2>2 DEF ListsIds
<1>7. AnsweredOpen'
  <2>1. ASSUME NEW i \in DOMAIN listing.gids, NEW r \in listing.stayed, Ref(r) = listing.gids[i],
               client.identity = Null
        PROVE  Scopes[r.table] = {} \/ ~client.enforce
    BY <1>5, <2>1 DEF TenantRefused
  <2> QED BY <1>1, <1>4, <2>1 DEF AnsweredOpen
<1>8. ListingOK' /\ ClientOK'
  BY <1>1 DEF ListInv, ListingOK, ListIdle, ClientOK
<1> QED BY <1>6, <1>7, <1>8

(* An identity derived afterwards reaches no row the client did not        *)
(* reach before.                                                           *)
LEMMA DeriveLists ==
  ASSUME ListInv, NEW claims \in Given, Derive(claims)
  PROVE  ClientOK' /\ ListingOK' /\ AnsweredOpen' /\ ListsIds'
<1>1. last' = last /\ listing' = listing /\ ListIdle
  BY DEF Derive
<1>2. CASE client' = client
  BY <1>1, <1>2 DEF ListInv, ClientOK, ListingOK, ListIdle, AnsweredOpen, HasList, ListsIds
<1>3. CASE client' # client
  <2>1. /\ client.identity = Null
        /\ client' = [client EXCEPT !.identity = {pair \in claims : pair[1] \in Claims}]
    BY <1>3 DEF Derive, DeriveRefused
  <2>2. client'.enforce = client.enforce /\ ClientOK'
    BY <2>1 DEF ListInv, ClientOK
  <2>3. ListingOK'
    BY <1>1 DEF ListingOK, ListIdle
  <2>4. HasList => \A i \in DOMAIN last.gids : \A r \in last.stayed :
          Ref(r) = last.gids[i] => (Scopes[r.table] = {} \/ ~client.enforce) /\ Reach(client, r)
    BY <2>1 DEF ListInv, AnsweredOpen, Reach
  <2>5. AnsweredOpen'
    BY <1>1, <2>2, <2>4 DEF AnsweredOpen, HasList
  <2>6. ListsIds'
    BY <1>1, <2>4 DEF ListInv, ListsIds, HasList
  <2> QED BY <2>2, <2>3, <2>5, <2>6
<1> QED BY <1>2, <1>3

(* A row that another client writes is none that stayed; nothing read      *)
(* changes.                                                                *)
LEMMA WriteLists ==
  ASSUME ListInv, NEW new, Write(new)
  PROVE  ClientOK' /\ ListingOK' /\ AnsweredOpen' /\ ListsIds'
<1>1. /\ last' = last /\ client' = client /\ ~ListIdle
      /\ listing' = [listing EXCEPT !.stayed = @ \cap new]
  BY DEF Write
<1>2. ClientOK' /\ AnsweredOpen' /\ ListsIds'
  BY <1>1 DEF ListInv, ClientOK, AnsweredOpen, HasList, ListsIds
<1>3. /\ listing = [gids |-> listing.gids, pending |-> listing.pending, rows |-> listing.rows,
                    stayed |-> listing.stayed]
  BY <1>1 DEF ListInv, ListingOK
<1>4. /\ listing'.gids = listing.gids /\ listing'.stayed \subseteq listing.stayed
      /\ listing'.pending = listing.pending /\ listing'.rows = listing.rows
      /\ listing' = [gids |-> listing'.gids, pending |-> listing'.pending, rows |-> listing'.rows,
                     stayed |-> listing'.stayed]
  BY <1>1, <1>3
<1>5. ListingOK'
  BY <1>1, <1>4 DEF ListInv, ListingOK
<1> QED BY <1>2, <1>5

(***************************************************************************)
(* $listByGlobalId answers every id in its place with the row it names,    *)
(* and with one whenever a row in reach stayed there while its statements  *)
(* ran beside the writes of others: for every list and every number of     *)
(* nodes, whatever the order their statements ran in.                      *)
(***************************************************************************)
THEOREM ClientListsIds == Spec => []ListsIds
<1>1. Init => ListInv
  BY InitLists
<1>2. ASSUME ListInv, TypeOK', [Next]_vars PROVE ListInv'
  <2>1. ASSUME NEW req \in Requests, Ask(req) PROVE ClientOK' /\ ListingOK' /\ AnsweredOpen' /\ ListsIds'
    <3>1. /\ client' = client /\ listing' = listing /\ ListIdle
          /\ \E outcome : last' = [request |-> req, outcome |-> outcome]
      BY <2>1 DEF Ask
    <3>2. "list" \notin DOMAIN last'
      BY <3>1
    <3> QED BY <1>2, <3>1, <3>2
      DEF ListInv, ClientOK, ListingOK, ListIdle, AnsweredOpen, HasList, ListsIds
  <2>2. ASSUME UNCHANGED vars PROVE ClientOK' /\ ListingOK' /\ AnsweredOpen' /\ ListsIds'
    BY <1>2, <2>2 DEF vars, ListInv, ClientOK, ListingOK, ListIdle, AnsweredOpen, HasList, ListsIds
  <2>3. ClientOK' /\ ListingOK' /\ AnsweredOpen' /\ ListsIds'
    BY <1>2, <2>1, <2>2, DeriveLists, StartListLists, RunGroupLists, FinishListLists, WriteLists
      DEF Next, OtherDelete, OtherRename
  <2> QED BY <1>2, <2>3 DEF ListInv
<1>3. ListInv => ListsIds
  BY DEF ListInv
<1> QED BY <1>1, <1>2, <1>3, ClientTyped, PTL DEF Spec

----------------------------------------------------------------------------
(* AND is false where one of its conditions is, and unknown where none is false but one unknown. *)
LEMMA All3Is ==
  ASSUME NEW S
  PROVE  /\ All3(S) = "false" <=> "false" \in S
         /\ All3(S) = "unknown" <=> "false" \notin S /\ "unknown" \in S
         /\ All3(S) \in Truth /\ All3(S) # None
BY DEF All3, Truth, None

(* OR is true where one of its conditions is, and unknown where none is true but one unknown. *)
LEMMA Any3Is ==
  ASSUME NEW S
  PROVE  /\ Any3(S) = "true" <=> "true" \in S
         /\ Any3(S) = "unknown" <=> "true" \notin S /\ "unknown" \in S
         /\ Any3(S) \in Truth /\ Any3(S) # None
BY DEF Any3, Truth, None

\* What a condition selects: one that is missing, every row.
Selected(c) == IF c = None THEN "true" ELSE c

(* The conditions of a level AND-ed select what they do together, and are missing if there is none. *)
LEMMA TogetherIs ==
  ASSUME NEW S
  PROVE  /\ Selected(Together(S)) = All3(S)
         /\ Together(S) = None <=> S = {}
         /\ Together(S) \in Truth \cup {None}
<1>1. All3({}) = "true"
  BY DEF All3
<1>2. All3(S) # None /\ All3(S) \in Truth
  BY All3Is
<1> QED BY <1>1, <1>2 DEF Together, Selected

\* The conditions of one entry, and of a level, on a row.
OnRow(e, r) == Conditions(e, r, [p \in Parts({e}) |-> Build(p, r)])
ConditionsOf(where, r) == UNION {OnRow(e, r) : e \in where}

(* A table's where comes to the conditions of its entries, AND-ed. *)
LEMMA BuildIs ==
  ASSUME NEW where, NEW k \in Nat, TableWhere(where, k + 1), NEW r
  PROVE  Build(where, r) = Together(ConditionsOf(where, r))
<1> DEFINE values == [p \in Parts(where) |-> ValueOf("build", r, p)]
<1>1. Nested(where, k + 1) /\ Keyless(where)
  BY TableWhereParts DEF TableWhere
<1>2. Build(where, r) = Computed("build", r, 0, where, values)
  BY <1>1, ValuesAre, ValueUnfolds DEF OfWheres
<1>3. \A p \in Parts(where) : values[p] = Build(p, r)
  BY ValuesAre
<1> HIDE DEF values
<1>4. Build(where, r) = Together(UNION {Conditions(e, r, values) : e \in where})
  BY <1>2 DEF Computed
<1>5. ASSUME NEW e \in where PROVE Conditions(e, r, values) = OnRow(e, r)
  <2> DEFINE own == [p \in Parts({e}) |-> Build(p, r)]
  <2>1. Parts({e}) \subseteq Parts(where)
    BY DEF Parts
  <2>2. \A p \in Parts({e}) : values[p] = own[p]
    BY <1>3, <2>1
  <2>3. ~IsField(e) => Parts({e}) = IF IsGroup(e) THEN e.of ELSE {e.negated}
    BY <1>1 DEF Keyless, Parts
  <2> HIDE DEF own
  <2>4. ~IsField(e) /\ IsGroup(e) => {values[w] : w \in e.of} = {own[w] : w \in e.of}
    BY <2>2, <2>3
  <2>5. ~IsField(e) /\ ~IsGroup(e) => values[e.negated] = own[e.negated]
    BY <2>2, <2>3
  <2>6. Conditions(e, r, values) = Conditions(e, r, own)
    BY <2>4, <2>5 DEF Conditions
  <2> QED BY <2>6 DEF OnRow, own
<1>6. {Conditions(e, r, values) : e \in where} = {OnRow(e, r) : e \in where}
  BY <1>5
<1> QED BY <1>4, <1>6 DEF ConditionsOf

(***************************************************************************)
(* What is left of a where for a member selects of the member's rows what  *)
(* the where means: nothing is left when it is false, and none is left of  *)
(* one that constrains nothing. EntryKept says so of one entry's terms.    *)
(***************************************************************************)
Kept(k, left, meaning, r) ==
  /\ left = Nothing => meaning = "false"
  /\ \A where \in left : /\ left = {where}
                         /\ TableWhere(where, k)
                         /\ Selected(Build(where, r)) = Selected(meaning)
                         /\ where # {} => Build(where, r) # None
  /\ meaning = None => left = {{}}
  /\ meaning \in Truth \cup {None}

EntryKept(k, left, terms, r) ==
  /\ left = Nothing => "false" \in terms
  /\ \A where \in left : /\ left = {where}
                         /\ Keyless(where) /\ \A p \in Parts(where) : TableWhere(p, k)
                         /\ All3(ConditionsOf(where, r)) = All3(terms)
                         /\ where # {} => ConditionsOf(where, r) # {}
  /\ terms = {} => left = {{}}
  /\ terms \subseteq Truth

(* A level keeps its meaning when its entries keep theirs. *)
LEMMA LevelKept ==
  ASSUME NEW where, NEW alias, NEW r, NEW inner, NEW means, NEW k \in Nat,
         \A e \in where : EntryKept(k, FoldEntry(e, alias, inner), Terms(e, r, means), r)
  PROVE  Kept(k + 1, AllOf({FoldEntry(e, alias, inner) : e \in where}),
                     Together(UNION {Terms(e, r, means) : e \in where}), r)
<1> DEFINE left(e) == FoldEntry(e, alias, inner)
           terms(e) == Terms(e, r, means)
           lefts == {left(e) : e \in where}
           all == UNION {terms(e) : e \in where}
<1>1. \A e \in where : EntryKept(k, left(e), terms(e), r)
  OBVIOUS
<1> HIDE DEF left, terms
<1> SUFFICES Kept(k + 1, AllOf(lefts), Together(all), r)
  BY DEF left, terms
<1>2. all \subseteq Truth
  BY <1>1 DEF EntryKept
<1>3. Together(all) \in Truth \cup {None} /\ (Together(all) = None <=> all = {})
  BY TogetherIs
<1>4. CASE Nothing \in lefts
  <2>1. PICK e \in where : left(e) = Nothing
    BY <1>4
  <2>2. "false" \in all
    BY <1>1, <2>1 DEF EntryKept
  <2>3. Selected(Together(all)) = "false" /\ Together(all) # None
    BY <1>3, <2>2, All3Is, TogetherIs
  <2>4. Together(all) = "false"
    BY <2>3 DEF Selected
  <2>5. AllOf(lefts) = Nothing
    BY <1>4 DEF AllOf
  <2> HIDE DEF lefts, all
  <2> QED BY <2>3, <2>4, <2>5, <1>3 DEF Kept, Nothing
<1>5. CASE Nothing \notin lefts
  <2> DEFINE whole == UNION UNION lefts
  <2>1. AllOf(lefts) = {whole}
    BY <1>5 DEF AllOf
  <2>2. \A e \in where : \E one : left(e) = {one}
    <3>1. \A e \in where : left(e) # Nothing
      BY <1>5
    <3> QED BY <1>1, <3>1 DEF EntryKept, Nothing
  <2>3. PICK one : one = [e \in where |-> CHOOSE x : left(e) = {x}]
    OBVIOUS
  <2>4. \A e \in where : left(e) = {one[e]}
    BY <2>2, <2>3
  <2>5. whole = UNION {one[e] : e \in where}
    <3>1. UNION lefts = {one[e] : e \in where}
      BY <2>4
    <3> QED BY <3>1
  <2>6. \A e \in where : /\ Keyless(one[e]) /\ \A p \in Parts(one[e]) : TableWhere(p, k)
                         /\ All3(ConditionsOf(one[e], r)) = All3(terms(e))
                         /\ one[e] # {} => ConditionsOf(one[e], r) # {}
                         /\ terms(e) = {} => one[e] = {}
    BY <1>1, <2>4 DEF EntryKept
  <2> HIDE DEF whole, lefts
  <2>7. Keyless(whole) /\ \A p \in Parts(whole) : TableWhere(p, k)
    <3>1. Keyless(whole)
      BY <2>5, <2>6 DEF Keyless
    <3>2. ASSUME NEW p \in Parts(whole) PROVE \E e \in where : p \in Parts(one[e])
      BY <2>5 DEF Parts
    <3> QED BY <2>6, <3>1, <3>2
  <2>8. TableWhere(whole, k + 1)
    BY <2>7, TableWhereParts
  <2>9. Build(whole, r) = Together(ConditionsOf(whole, r))
    BY <2>8, BuildIs
  <2>10. ConditionsOf(whole, r) = UNION {ConditionsOf(one[e], r) : e \in where}
    BY <2>5 DEF ConditionsOf
  <2>11. All3(ConditionsOf(whole, r)) = All3(all)
    <3> DEFINE conds(e) == ConditionsOf(one[e], r)
               every == UNION {conds(e) : e \in where}
    <3>1. \A e \in where : All3(conds(e)) = All3(terms(e))
      BY <2>6
    <3> HIDE DEF conds
    <3>2. "false" \in every <=> "false" \in all
      <4>1. \A e \in where : "false" \in conds(e) <=> "false" \in terms(e)
        BY <3>1, All3Is
      <4> QED BY <4>1
    <3>3. "false" \notin all => ("unknown" \in every <=> "unknown" \in all)
      <4>1. ASSUME "false" \notin all, NEW e \in where PROVE "unknown" \in conds(e) <=> "unknown" \in terms(e)
        <5>1. "false" \notin terms(e) /\ "false" \notin conds(e)
          BY <3>2, <4>1
        <5> QED BY <3>1, <5>1, All3Is
      <4> QED BY <4>1
    <3> HIDE DEF every, all
    <3>4. All3(every) = All3(all)
      BY <3>2, <3>3 DEF All3
    <3> QED BY <2>10, <3>4 DEF every, conds
  <2>12. Selected(Build(whole, r)) = Selected(Together(all))
    BY <2>9, <2>11, TogetherIs
  <2>13. whole # {} => Build(whole, r) # None
    <3>1. whole # {} => \E e \in where : one[e] # {}
      BY <2>5
    <3>2. whole # {} => ConditionsOf(whole, r) # {}
      BY <2>6, <2>10, <3>1
    <3> QED BY <2>9, <3>2, TogetherIs
  <2>14. Together(all) = None => whole = {}
    <3>1. Together(all) = None => \A e \in where : terms(e) = {}
      BY <1>3
    <3> QED BY <2>5, <2>6, <3>1
  <2> HIDE DEF all
  <2> QED BY <1>3, <2>1, <2>8, <2>12, <2>13, <2>14 DEF Kept, Nothing
<1> QED BY <1>4, <1>5

(* An entry of which the member's rows all match is kept as none. *)
LEMMA WholeKept ==
  ASSUME NEW k, NEW terms, terms \subseteq {"true"}, NEW r
  PROVE  EntryKept(k, {{}}, terms, r)
<1>1. ConditionsOf({}, r) = {} /\ Keyless({}) /\ Parts({}) = {}
  BY DEF ConditionsOf, Keyless, Parts
<1>2. All3({}) = "true" /\ All3(terms) = "true" /\ terms \subseteq Truth
  BY DEF All3, Truth
<1> QED BY <1>1, <1>2 DEF EntryKept, Nothing

(* An entry of which none of them does is kept as nothing. *)
LEMMA NothingKept ==
  ASSUME NEW k, NEW terms, terms \subseteq Truth, "false" \in terms, NEW r
  PROVE  EntryKept(k, Nothing, terms, r)
BY DEF EntryKept, Nothing

(* A where of one entry is its entry's conditions. *)
LEMMA OneKept ==
  ASSUME NEW k, NEW e, ~IsKey(e), \A p \in Parts({e}) : TableWhere(p, k), NEW r,
         NEW terms, terms \subseteq Truth, terms # {}, OnRow(e, r) # {}, All3(OnRow(e, r)) = All3(terms)
  PROVE  EntryKept(k, {{e}}, terms, r)
<1>1. ConditionsOf({e}, r) = OnRow(e, r) /\ Keyless({e})
  BY DEF ConditionsOf, Keyless
<1> QED BY <1>1 DEF EntryKept, Nothing

(* $$key is decided by the member: all of its rows match, or none. *)
LEMMA KeyKept ==
  ASSUME NEW e, IsKey(e), NEW r, NEW inner, NEW means, NEW k \in Nat
  PROVE  EntryKept(k, FoldEntry(e, r.table, inner), Terms(e, r, means), r)
<1> DEFINE terms == {AsTruth(KeyTest(t, r.table)) : t \in e.member}
<1>1. Terms(e, r, means) = terms
  BY DEF Terms
<1>2. terms \subseteq Truth
  BY DEF AsTruth, Truth
<1>3. CASE \A t \in e.member : KeyTest(t, r.table)
  <2>1. FoldEntry(e, r.table, inner) = {{}}
    BY <1>3 DEF FoldEntry
  <2>2. terms \subseteq {"true"}
    BY <1>3 DEF AsTruth
  <2> HIDE DEF terms
  <2>3. EntryKept(k, {{}}, terms, r)
    BY <2>2, WholeKept
  <2> QED BY <1>1, <2>1, <2>3
<1>4. CASE ~\A t \in e.member : KeyTest(t, r.table)
  <2>1. FoldEntry(e, r.table, inner) = Nothing
    BY <1>4 DEF FoldEntry
  <2>2. "false" \in terms
    BY <1>4 DEF AsTruth
  <2> HIDE DEF terms
  <2> QED BY <1>1, <1>2, <2>1, <2>2, NothingKept
<1> QED BY <1>3, <1>4

(* A test's condition is a truth value, of any column of a row. *)
LEMMA CompareTruth ==
  ASSUME NEW r, NEW f, NEW t, t[1] \in Comparisons, NEW equal, \A v \in Operands(t) : equal[v] \in Truth
  PROVE  Compare(r, f, t, equal) \in Truth
<1>1. /\ \A a, b : Lt3(a, b) \in Truth /\ Gt3(a, b) \in Truth
      /\ \A a : IsNull3(a) \in Truth /\ Not3(a) \in Truth
      /\ \A S : Any3(S) \in Truth /\ All3(S) \in Truth
  BY DEF Lt3, Gt3, IsNull3, Not3, Any3, All3, AsTruth, Truth
<1>2. t[1] = "eq" => equal[t[2]] \in Truth
  BY DEF Operands
<1> QED BY <1>1, <1>2 DEF Compare, Comparisons

(* What a column is compared with by a test for equality is all that depends on `equal`. *)
LEMMA CompareOf ==
  ASSUME NEW r, NEW f, NEW t, t[1] \in Comparisons, NEW equal, NEW other,
         t[1] \in {"eq", "neq"} => equal[t[2]] = other[t[2]],
         t[1] = "in" => (Any3(Range(equal)) = Any3(Range(other)))
  PROVE  Compare(r, f, t, equal) = Compare(r, f, t, other)
BY DEF Compare, Comparisons

(* Whether a column equals a value, or a row is the one a value names, is a truth value. *)
LEMMA EqualsTruth ==
  ASSUME NEW r, NEW f, NEW v
  PROVE  Equals(r, f, v) \in Truth /\ NamesRow(r, f, v) \in Truth
<1>1. \A a, b : Eq3(a, b) \in Truth
  BY DEF Eq3, AsTruth, Truth
<1>2. \A S : All3(S) \in Truth
  BY All3Is
<1> QED BY <1>1, <1>2 DEF Equals, NamesRow

Conds(r, f, test) == {Compare(r, f, t, [v \in Operands(t) |-> Equals(r, f, v)]) : t \in test}
Means(r, f, test) == {Compare(r, f, t, [v \in Operands(t) |-> NamesRow(r, f, v)]) : t \in test}

(* A column's filter on a row is its tests' conditions. *)
LEMMA FieldOnRow ==
  ASSUME NEW r, NEW f, NEW test
  PROVE  /\ OnRow(Field(f, test), r) = Conds(r, f, test)
         /\ ~IsKey(Field(f, test)) /\ Parts({Field(f, test)}) = {}
<1>1. IsField(Field(f, test)) /\ ~IsKey(Field(f, test))
      /\ Field(f, test).field = f /\ Field(f, test).test = test
  BY DEF IsField, IsKey, Field
<1>2. OnRow(Field(f, test), r) = Conds(r, f, test)
  BY <1>1 DEF OnRow, Conditions, Conds
<1> QED BY <1>1, <1>2 DEF Parts

(* So it is kept when what is left of its tests comes to what they mean. *)
LEMMA TestsKept ==
  ASSUME NEW k, NEW r, NEW f, NEW test, NEW terms, terms \subseteq Truth,
         Conds(r, f, test) = terms
  PROVE  EntryKept(k, {IF test = {} THEN {} ELSE {Field(f, test)}}, terms, r)
<1>1. test = {} <=> terms = {}
  BY DEF Conds
<1>2. CASE test = {}
  BY <1>1, <1>2, WholeKept
<1>3. CASE test # {}
  BY <1>1, <1>3, FieldOnRow, OneKept
<1> QED BY <1>2, <1>3

(* A column every member has is compared alike on all of them, unless it is the id. *)
LEMMA ColumnKept ==
  ASSUME NEW e, ~IsKey(e), IsField(e), ~IsGuid(e.field), \A t \in e.test : t[1] \in Comparisons,
         NEW r, NEW inner, NEW means, NEW k \in Nat
  PROVE  EntryKept(k, FoldEntry(e, r.table, inner), Terms(e, r, means), r)
<1> DEFINE f == e.field
           terms == Means(r, f, e.test)
<1>1. Terms(e, r, means) = terms
  BY DEF Terms, Means
<1>2. FoldEntry(e, r.table, inner) = {IF e.test = {} THEN {} ELSE {Field(f, e.test)}}
  BY DEF FoldEntry
<1>3. \A v : NamesRow(r, f, v) = Equals(r, f, v)
  BY DEF NamesRow, IsGuid
<1>4. Conds(r, f, e.test) = terms
  BY <1>3 DEF Conds, Means
<1>5. terms \subseteq Truth
  <2>1. ASSUME NEW t \in e.test
        PROVE  Compare(r, f, t, [v \in Operands(t) |-> NamesRow(r, f, v)]) \in Truth
    BY EqualsTruth, CompareTruth
  <2> QED BY <2>1 DEF Means
<1> HIDE DEF terms, f
<1> QED BY <1>1, <1>2, <1>4, <1>5, TestsKept

(***************************************************************************)
(* A test on the shared id: an id that names another member's row is       *)
(* decided by the fold, and what is left asks of the column what the test  *)
(* means.                                                                  *)
(***************************************************************************)
Foreign(v, alias) == IsGlobalId(v) /\ KeyOf(v) # alias

Means1(r, t) == Compare(r, "id", t, [v \in Operands(t) |-> NamesRow(r, "id", v)])
Cond1(r, t) == Compare(r, "id", t, [v \in Operands(t) |-> Equals(r, "id", v)])

(* No row of the member is the one an id of another names; any other id is asked of the column. *)
LEMMA ForeignNames ==
  ASSUME NEW r, NEW v
  PROVE  /\ Foreign(v, r.table) => NamesRow(r, "id", v) = "false"
         /\ ~Foreign(v, r.table) => NamesRow(r, "id", v) = Equals(r, "id", v)
<1>1. \A S : "false" \in S => All3(S) = "false"
  BY All3Is
<1>2. \A x : AsTruth(r.table = x) = IF r.table = x THEN "true" ELSE "false"
  BY DEF AsTruth
<1>3. \A x : All3({"true", Eq3(r.id, x)}) = Eq3(r.id, x)
  BY DEF All3, Eq3, AsTruth
<1>4. Equals(r, "id", v) = Eq3(r.id, Raw(v))
  BY DEF Equals, Dynamic
<1> QED BY <1>1, <1>2, <1>3, <1>4 DEF NamesRow, Foreign

\* What the fold makes of a test: an `in` without the other members' ids.
OwnTest(t, alias) == IF t[1] = "in" THEN <<"in", {v \in t[2] : ~Foreign(v, alias)}>> ELSE t

(* Unless it is a test for another member's id, a test is left one that means the same. *)
LEMMA OwnTestMeans ==
  ASSUME NEW r, NEW t, t[1] \in Comparisons, ~(t[1] \in {"eq", "neq"} /\ Foreign(t[2], r.table))
  PROVE  Cond1(r, OwnTest(t, r.table)) = Means1(r, t)
<1> DEFINE own == OwnTest(t, r.table)
           names == [v \in Operands(t) |-> NamesRow(r, "id", v)]
           equals == [v \in Operands(own) |-> Equals(r, "id", v)]
<1>1. CASE t[1] = "in"
  <2>1. own = <<"in", {v \in t[2] : ~Foreign(v, r.table)}>>
    BY <1>1 DEF OwnTest
  <2>2. Operands(t) = t[2] /\ Operands(own) = {v \in t[2] : ~Foreign(v, r.table)}
    BY <1>1, <2>1 DEF Operands
  <2>3. Cond1(r, own) = Any3(Range(equals)) /\ Means1(r, t) = Any3(Range(names))
    BY <1>1, <2>1 DEF Cond1, Means1, Compare
  <2>4. Range(names) = {NamesRow(r, "id", v) : v \in t[2]}
    BY <2>2 DEF Range
  <2>5. Range(equals) = {Equals(r, "id", v) : v \in {v \in t[2] : ~Foreign(v, r.table)}}
    BY <2>2 DEF Range
  <2> DEFINE all == {NamesRow(r, "id", v) : v \in t[2]}
             kept == {Equals(r, "id", v) : v \in {v \in t[2] : ~Foreign(v, r.table)}}
  <2>6. kept \subseteq all
    BY ForeignNames
  <2>7. \A x \in all : x \in kept \/ x = "false"
    BY ForeignNames
  <2> HIDE DEF own, names, equals, all, kept
  <2>8. Any3(all) = Any3(kept)
    BY <2>6, <2>7 DEF Any3
  <2> QED BY <2>3, <2>4, <2>5, <2>8 DEF all, kept, own
<1>2. CASE t[1] # "in"
  <2>1. own = t
    BY <1>2 DEF OwnTest
  <2>2. ASSUME t[1] \in {"eq", "neq"} PROVE names[t[2]] = equals[t[2]]
    <3>1. Operands(t) = {t[2]}
      BY <2>2 DEF Operands
    <3>2. NamesRow(r, "id", t[2]) = Equals(r, "id", t[2])
      BY <2>2, ForeignNames
    <3> QED BY <2>1, <3>1, <3>2
  <2> HIDE DEF names, equals
  <2>3. Compare(r, "id", t, names) = Compare(r, "id", t, equals)
    BY <1>2, <2>2, CompareOf
  <2> HIDE DEF own
  <2> QED BY <2>1, <2>3 DEF Cond1, Means1, names, equals, own
<1> QED BY <1>1, <1>2

(* A filter on the shared id keeps its meaning. *)
LEMMA IdKept ==
  ASSUME NEW e, ~IsKey(e), IsField(e), e.field = "id", \A t \in e.test : t[1] \in Comparisons,
         NEW r, r.id \in Ids, NEW inner, NEW means, NEW k \in Nat
  PROVE  EntryKept(k, FoldEntry(e, r.table, inner), Terms(e, r, means), r)
<1> DEFINE alias == r.table
           test == e.test
           own == {OwnTest(t, alias) : t \in test}
           neq == {t \in test : t[1] = "neq" /\ Foreign(t[2], alias)}
           rest == (own \ neq) \cup (IF neq = {} THEN {} ELSE {<<"exists", TRUE>>})
           None1 == \/ \E t \in test : t[1] = "eq" /\ Foreign(t[2], alias)
                    \/ <<"in", {}>> \in own
                    \/ neq # {} /\ <<"exists", FALSE>> \in test
           terms == {Means1(r, t) : t \in test}
<1>1. Terms(e, r, means) = terms
  BY DEF Terms, Means1
<1>2. FoldGlobalIds(alias, test) = IF None1 THEN Nothing ELSE {rest}
  BY DEF FoldGlobalIds, Foreign, OwnTest
<1>3. FoldEntry(e, alias, inner)
      = {IF x = {} THEN {} ELSE {Field("id", x)} : x \in FoldGlobalIds(alias, test)}
  BY DEF FoldEntry, IsGuid
<1>4. terms \subseteq Truth
  <2>1. ASSUME NEW t \in test PROVE Means1(r, t) \in Truth
    BY EqualsTruth, CompareTruth DEF Means1
  <2> QED BY <2>1
<1>5. IsNull3(r.id) = "false" /\ Not3(IsNull3(r.id)) = "true"
  BY IdsAssumption DEF IsNull3, Not3, AsTruth
<1>6. \A t \in test : t[1] = "eq" => Means1(r, t) = NamesRow(r, "id", t[2])
  BY DEF Means1, Compare, Operands
<1>7. \A t \in test : t[1] = "neq" => Means1(r, t) = Not3(NamesRow(r, "id", t[2]))
  BY DEF Means1, Compare, Operands
<1>8. CASE None1
  <2>1. ASSUME NEW t \in test, t[1] = "eq", Foreign(t[2], alias) PROVE "false" \in terms
    BY <1>6, <2>1, ForeignNames
  <2>2. ASSUME <<"in", {}>> \in own PROVE "false" \in terms
    <3>1. PICK t \in test : OwnTest(t, alias) = <<"in", {}>>
      BY <2>2
    <3>2. t[1] = "in"
      BY <3>1 DEF OwnTest
    <3>3. {v \in t[2] : ~Foreign(v, alias)} = {}
      BY <3>1, <3>2 DEF OwnTest
    <3>4. Means1(r, t) = Any3(Range([v \in t[2] |-> NamesRow(r, "id", v)]))
      BY <3>2 DEF Means1, Compare, Operands
    <3>5. Range([v \in t[2] |-> NamesRow(r, "id", v)]) \subseteq {"false"}
      BY <3>3, ForeignNames DEF Range
    <3>6. \A S : S \subseteq {"false"} => Any3(S) = "false"
      BY DEF Any3
    <3> QED BY <3>4, <3>5, <3>6
  <2>3. ASSUME <<"exists", FALSE>> \in test PROVE "false" \in terms
    <3>1. Means1(r, <<"exists", FALSE>>) = IsNull3(r.id)
      BY DEF Means1, Compare
    <3> QED BY <1>5, <2>3, <3>1
  <2>4. "false" \in terms
    BY <1>8, <2>1, <2>2, <2>3
  <2>5. FoldEntry(e, alias, inner) = Nothing
    <3> HIDE DEF rest, None1
    <3> QED BY <1>2, <1>3, <1>8 DEF Nothing
  <2> HIDE DEF terms
  <2>6. EntryKept(k, Nothing, terms, r)
    BY <1>4, <2>4, NothingKept
  <2> QED BY <1>1, <2>5, <2>6
<1>9. CASE ~None1
  <2>1. FoldEntry(e, alias, inner) = {IF rest = {} THEN {} ELSE {Field("id", rest)}}
    <3> HIDE DEF rest, None1
    <3> QED BY <1>2, <1>3, <1>9
  <2>2. ASSUME NEW t \in test, t \notin neq PROVE Cond1(r, OwnTest(t, alias)) = Means1(r, t)
    BY <1>9, <2>2, OwnTestMeans
  <2>3. ASSUME NEW t \in neq PROVE Means1(r, t) = "true" /\ OwnTest(t, alias) = t
    <3>1. NamesRow(r, "id", t[2]) = "false"
      BY ForeignNames
    <3>2. Not3("false") = "true"
      BY DEF Not3
    <3> QED BY <1>7, <3>1, <3>2 DEF OwnTest
  <2>4. ASSUME NEW t \in test, OwnTest(t, alias) \in neq PROVE t \in neq
    <3>1. t[1] # "in"
      <4>1. t[1] = "in" => OwnTest(t, alias)[1] = "in"
        BY DEF OwnTest
      <4> QED BY <2>4, <4>1
    <3> QED BY <2>4, <3>1 DEF OwnTest
  <2>5. Cond1(r, <<"exists", TRUE>>) = "true"
    BY <1>5 DEF Cond1, Compare
  <2>6. {Cond1(r, t) : t \in rest} = terms
    <3>1. ASSUME NEW t \in rest PROVE Cond1(r, t) \in terms
      <4>1. CASE t \in own \ neq
        <5>1. PICK s \in test : t = OwnTest(s, alias)
          BY <4>1
        <5>2. s \notin neq
          BY <2>3, <4>1, <5>1
        <5> QED BY <2>2, <5>1, <5>2
      <4>2. CASE t \notin own \ neq
        <5>1. neq # {} /\ t = <<"exists", TRUE>>
          BY <3>1, <4>2
        <5>2. PICK s \in neq : TRUE
          BY <5>1
        <5> QED BY <2>3, <2>5, <5>1, <5>2
      <4> QED BY <4>1, <4>2
    <3>2. ASSUME NEW s \in test PROVE \E t \in rest : Cond1(r, t) = Means1(r, s)
      <4>1. CASE s \in neq
        <5>1. <<"exists", TRUE>> \in rest
          BY <4>1
        <5> QED BY <2>3, <2>5, <4>1, <5>1
      <4>2. CASE s \notin neq
        <5>1. OwnTest(s, alias) \in own \ neq
          BY <2>4, <4>2
        <5> HIDE DEF own, neq
        <5> QED BY <2>2, <4>2, <5>1
      <4> QED BY <4>1, <4>2
    <3> HIDE DEF rest
    <3> QED BY <3>1, <3>2
  <2>7. Conds(r, "id", rest) = terms
    BY <2>6 DEF Conds, Cond1
  <2> HIDE DEF rest, terms
  <2>8. EntryKept(k, {IF rest = {} THEN {} ELSE {Field("id", rest)}}, terms, r)
    BY <1>4, <2>7, TestsKept
  <2> QED BY <1>1, <2>1, <2>8
<1> QED BY <1>8, <1>9

(* A group of wheres on a row. *)
LEMMA GroupOnRow ==
  ASSUME NEW S, NEW r
  PROVE  /\ ~IsKey(And(S)) /\ Parts({And(S)}) = S
         /\ OnRow(And(S), r) = GroupConditions("and", {Build(p, r) : p \in S})
         /\ ~IsKey(Or(S)) /\ Parts({Or(S)}) = S
         /\ OnRow(Or(S), r) = GroupConditions("or", {Build(p, r) : p \in S})
<1>1. ASSUME NEW e, ~IsKey(e), ~IsField(e), IsGroup(e), e.of = S
      PROVE  /\ Parts({e}) = S
             /\ OnRow(e, r) = GroupConditions(e.group, {Build(p, r) : p \in S})
  <2>1. Parts({e}) = S
    BY <1>1 DEF Parts
  <2> QED BY <1>1, <2>1 DEF OnRow, Conditions
<1>2. /\ ~IsKey(And(S)) /\ ~IsField(And(S)) /\ IsGroup(And(S)) /\ And(S).of = S /\ And(S).group = "and"
      /\ ~IsKey(Or(S)) /\ ~IsField(Or(S)) /\ IsGroup(Or(S)) /\ Or(S).of = S /\ Or(S).group = "or"
  BY DEF IsKey, IsField, IsGroup, And, Or
<1> QED BY <1>1, <1>2

(* A negated where on a row. *)
LEMMA NotOnRow ==
  ASSUME NEW where, NEW r
  PROVE  /\ ~IsKey(Not(where)) /\ Parts({Not(where)}) = {where}
         /\ OnRow(Not(where), r) = {Not3(c) : c \in {Build(where, r)} \ {None}}
<1> DEFINE e == Not(where)
<1>1. ~IsKey(e) /\ ~IsField(e) /\ ~IsGroup(e) /\ e.negated = where
  BY DEF IsKey, IsField, IsGroup, Not
<1> HIDE DEF e
<1>2. Parts({e}) = {where}
  BY <1>1 DEF Parts
<1>3. OnRow(e, r) = {Not3(c) : c \in {Build(where, r)} \ {None}}
  BY <1>1, <1>2 DEF OnRow, Conditions
<1> QED BY <1>1, <1>2, <1>3 DEF e

(* What is left of a child is nothing, or a where that selects what the child means. *)
ChildOK(k, left, meaning, r) ==
  /\ left = {} => meaning = "false"
  /\ left # {} => \E where : left = {where}
  /\ \A where \in left : /\ left = {where} /\ TableWhere(where, k)
                         /\ where = {} => meaning = None \/ meaning = "true"
                         /\ where # {} => meaning # None /\ Build(where, r) = meaning
  /\ meaning = None => left = {{}}
  /\ meaning \in Truth \cup {None}

(* It is, when the child is kept. *)
LEMMA ChildKept ==
  ASSUME NEW k \in Nat, NEW left, NEW meaning, NEW r, Kept(k + 1, left, meaning, r)
  PROVE  ChildOK(k + 1, left, meaning, r)
<1>1. ASSUME NEW where \in left
      PROVE  /\ left = {where} /\ TableWhere(where, k + 1)
             /\ where = {} => meaning = None \/ meaning = "true"
             /\ where # {} => meaning # None /\ Build(where, r) = meaning
  <2>1. /\ left = {where} /\ TableWhere(where, k + 1)
        /\ Selected(Build(where, r)) = Selected(meaning)
        /\ where # {} => Build(where, r) # None
        /\ meaning = None => left = {{}}
    BY <1>1 DEF Kept
  <2>2. where = {} => Build(where, r) = None
    <3>1. ConditionsOf({}, r) = {}
      BY DEF ConditionsOf
    <3>2. where = {} => Build(where, r) = Together({})
      BY <2>1, <3>1, BuildIs
    <3> QED BY <3>2, TogetherIs
  <2> QED BY <2>1, <2>2 DEF Selected
<1> QED BY <1>1 DEF Kept, Nothing, ChildOK

(* A group keeps its meaning when the wheres in it keep theirs. *)
LEMMA GroupKept ==
  ASSUME NEW e, ~IsKey(e), ~IsField(e), IsGroup(e), NEW alias, NEW r, NEW inner, NEW means, NEW k \in Nat,
         \A w \in e.of : Kept(k + 1, inner[w], means[w], r)
  PROVE  EntryKept(k + 1, FoldEntry(e, alias, inner), Terms(e, r, means), r)
<1> DEFINE of == e.of
           group == e.group
           children == {inner[w] : w \in of}
           values == {means[w] : w \in of}
           left == UNION children
           terms == GroupConditions(group, values)
           built(S) == {Build(p, r) : p \in S}
<1>1. FoldEntry(e, alias, inner) = FoldGroup(group, of, children) /\ Terms(e, r, means) = terms
  BY DEF FoldEntry, Terms
<1>2. \A w \in of : ChildOK(k + 1, inner[w], means[w], r)
  BY ChildKept
<1>3. terms \subseteq Truth
  BY All3Is, Any3Is DEF GroupConditions
<1>4. ASSUME NEW p \in left
      PROVE  /\ TableWhere(p, k + 1)
             /\ p # {} => Build(p, r) # None /\ Build(p, r) \in values
             /\ p = {} => None \in values \/ "true" \in values
  <2>1. PICK w \in of : p \in inner[w]
    OBVIOUS
  <2> QED BY <1>2, <2>1 DEF ChildOK
<1>5. k + 1 \in Nat
  OBVIOUS
<1> SUFFICES EntryKept(k + 1, FoldGroup(group, of, children), terms, r)
  BY <1>1
<1>6. CASE of = {}
  <2>1. FoldGroup(group, of, children) = {{}}
    BY <1>6 DEF FoldGroup
  <2>2. terms = {}
    BY <1>6 DEF GroupConditions
  <2> HIDE DEF terms
  <2>3. EntryKept(k + 1, {{}}, terms, r)
    BY <2>2, WholeKept
  <2> QED BY <2>1, <2>3
<1>7. CASE of # {} /\ group = "and"
  <2> DEFINE rest == left \ {{}}
             constrained == values \ {None}
  <2>1. FoldGroup(group, of, children)
        = IF Nothing \in children THEN Nothing ELSE IF left \subseteq {{}} THEN {{}} ELSE {{And(rest)}}
    <3> HIDE DEF children, of
    <3> QED BY <1>7 DEF FoldGroup
  <2>2. terms = IF values \subseteq {None} THEN {} ELSE {All3(constrained)}
    BY <1>7 DEF GroupConditions
  <2>3. CASE Nothing \in children
    <3>1. PICK w \in of : inner[w] = {}
      BY <2>3 DEF Nothing
    <3>2. "false" \in constrained /\ ~(values \subseteq {None})
      BY <1>2, <3>1 DEF None, ChildOK
    <3> HIDE DEF constrained, values
    <3>3. "false" \in terms
      BY <2>2, <3>2, All3Is
    <3> HIDE DEF terms, children, of
    <3> QED BY <1>3, <1>5, <2>1, <2>3, <3>3, NothingKept
  <2>4. ASSUME Nothing \notin children, NEW w \in of
        PROVE  \E p \in left : inner[w] = {p} /\ p \in inner[w]
    BY <1>2, <2>4 DEF Nothing, ChildOK
  <2>5. CASE Nothing \notin children /\ left \subseteq {{}}
    <3>1. \A w \in of : means[w] = None \/ means[w] = "true"
      BY <1>2, <2>4, <2>5 DEF ChildOK
    <3>2. constrained \subseteq {"true"}
      BY <3>1
    <3>3. All3(constrained) = "true"
      BY <3>2 DEF All3
    <3> HIDE DEF constrained, values
    <3>4. terms \subseteq {"true"}
      BY <2>2, <3>3
    <3> HIDE DEF terms, children, of, left
    <3>9. EntryKept(k + 1, {{}}, terms, r)
      BY <3>4, WholeKept
    <3> QED BY <2>1, <2>5, <3>9
  <2>6. CASE Nothing \notin children /\ ~(left \subseteq {{}})
    <3>1. rest # {} /\ None \notin built(rest) /\ built(rest) \subseteq constrained
      BY <1>4, <2>6
    <3>2. constrained \subseteq built(rest) \cup {"true"}
      <4>1. ASSUME NEW w \in of, means[w] # None PROVE means[w] \in built(rest) \cup {"true"}
        <5>1. PICK p \in left : inner[w] = {p} /\ p \in inner[w]
          BY <2>4, <2>6
        <5>2. p = {} => means[w] = "true"
          BY <1>2, <4>1, <5>1 DEF ChildOK
        <5>3. p # {} => Build(p, r) = means[w] /\ p \in rest
          BY <1>2, <5>1 DEF ChildOK
        <5> QED BY <5>2, <5>3
      <4> QED BY <4>1
    <3>3. built(rest) # {}
      BY <3>1
    <3>4. OnRow(And(rest), r) = {All3(built(rest))}
      <4> HIDE DEF rest
      <4>1. OnRow(And(rest), r) = GroupConditions("and", built(rest))
        BY GroupOnRow
      <4> HIDE DEF built
      <4>2. ~(built(rest) \subseteq {None}) /\ built(rest) \ {None} = built(rest)
        BY <3>1, <3>3
      <4> QED BY <4>1, <4>2 DEF GroupConditions
    <3>5. terms = {All3(constrained)}
      BY <2>2, <3>1, <3>3
    <3>6. All3(built(rest)) = All3(constrained)
      <4> HIDE DEF built, rest, constrained
      <4> QED BY <3>1, <3>2 DEF All3
    <3>7. \A p \in Parts({And(rest)}) : TableWhere(p, k + 1)
      <4>1. Parts({And(rest)}) = rest
        BY GroupOnRow
      <4> QED BY <1>4, <4>1
    <3>8. FoldGroup(group, of, children) = {{And(rest)}}
      <4> HIDE DEF rest, left, children, of
      <4> QED BY <2>1, <2>6
    <3>9. ~IsKey(And(rest))
      BY GroupOnRow
    <3>10. terms # {} /\ OnRow(And(rest), r) # {} /\ All3(OnRow(And(rest), r)) = All3(terms)
      BY <3>4, <3>5, <3>6
    <3> HIDE DEF rest, terms
    <3>11. EntryKept(k + 1, {{And(rest)}}, terms, r)
      BY <1>3, <1>5, <3>7, <3>9, <3>10, OneKept
    <3> QED BY <3>8, <3>11
  <2> QED BY <2>3, <2>5, <2>6
<1>8. CASE of # {} /\ group # "and"
  <2>1. FoldGroup(group, of, children)
        = IF {} \in left THEN {{}} ELSE IF left = {} THEN Nothing ELSE {{Or(left)}}
    <3> HIDE DEF children, of
    <3> QED BY <1>8 DEF FoldGroup
  <2>2. terms = IF values = {} \/ None \in values THEN {} ELSE {Any3(values)}
    BY <1>8 DEF GroupConditions
  <2>3. CASE {} \in left
    <3>1. None \in values \/ "true" \in values
      BY <1>4, <2>3
    <3> HIDE DEF values
    <3>2. terms \subseteq {"true"}
      BY <2>2, <3>1, Any3Is
    <3> HIDE DEF terms, children, of, left
    <3>9. EntryKept(k + 1, {{}}, terms, r)
      BY <3>2, WholeKept
    <3> QED BY <2>1, <2>3, <3>9
  <2>4. CASE left = {}
    <3>1. \A w \in of : means[w] = "false"
      BY <1>2, <2>4 DEF ChildOK
    <3>2. values = {"false"}
      BY <1>8, <3>1
    <3>3. Any3({"false"}) = "false"
      BY DEF Any3
    <3> HIDE DEF values
    <3>4. "false" \in terms
      BY <2>2, <3>2, <3>3 DEF None
    <3>5. FoldGroup(group, of, children) = Nothing
      <4> HIDE DEF left, children, of
      <4> QED BY <2>1, <2>4
    <3> HIDE DEF terms
    <3>6. EntryKept(k + 1, Nothing, terms, r)
      BY <1>3, <1>5, <3>4, NothingKept
    <3> QED BY <3>5, <3>6
  <2>5. CASE {} \notin left /\ left # {}
    <3>1. None \notin values
      BY <1>2, <2>5 DEF ChildOK
    <3>2. None \notin built(left) /\ built(left) \subseteq values /\ built(left) # {}
      <4>1. \A p \in left : Build(p, r) # None /\ Build(p, r) \in values
        BY <1>4, <2>5
      <4> HIDE DEF left, values
      <4> QED BY <2>5, <4>1
    <3>3. values \subseteq built(left) \cup {"false"}
      <4>1. ASSUME NEW w \in of PROVE means[w] \in built(left) \cup {"false"}
        <5>1. CASE inner[w] = {}
          BY <1>2, <5>1 DEF ChildOK
        <5>2. CASE inner[w] # {}
          <6>1. PICK p \in inner[w] : TRUE
            BY <5>2
          <6>2. p \in left /\ p # {}
            BY <2>5
          <6> QED BY <1>2, <6>2 DEF ChildOK
        <5> QED BY <5>1, <5>2
      <4> QED BY <4>1
    <3>4. OnRow(Or(left), r) = {Any3(built(left))}
      <4> HIDE DEF left
      <4>1. OnRow(Or(left), r) = GroupConditions("or", built(left))
        BY GroupOnRow
      <4> HIDE DEF built
      <4> QED BY <3>2, <4>1 DEF GroupConditions
    <3>5. terms = {Any3(values)}
      BY <2>2, <3>1, <3>2
    <3>6. Any3(built(left)) = Any3(values)
      <4> HIDE DEF built, left, values
      <4> QED BY <3>2, <3>3 DEF Any3
    <3>7. \A p \in Parts({Or(left)}) : TableWhere(p, k + 1)
      <4>1. Parts({Or(left)}) = left
        BY GroupOnRow
      <4> QED BY <1>4, <4>1
    <3>8. FoldGroup(group, of, children) = {{Or(left)}}
      <4> HIDE DEF left, children, of
      <4> QED BY <2>1, <2>5
    <3>9. ~IsKey(Or(left))
      BY GroupOnRow
    <3>10. terms # {} /\ OnRow(Or(left), r) # {} /\ All3(OnRow(Or(left), r)) = All3(terms)
      BY <3>4, <3>5, <3>6
    <3> HIDE DEF left, terms
    <3>11. EntryKept(k + 1, {{Or(left)}}, terms, r)
      BY <1>3, <1>5, <3>7, <3>9, <3>10, OneKept
    <3> QED BY <3>8, <3>11
  <2> QED BY <2>3, <2>4, <2>5
<1> QED BY <1>6, <1>7, <1>8

(* So does what is negated, when it constrains something. *)
LEMMA NotKept ==
  ASSUME NEW e, ~IsKey(e), ~IsField(e), ~IsGroup(e), e.negated # {},
         NEW alias, NEW r, NEW inner, NEW means, NEW k \in Nat,
         Kept(k + 1, inner[e.negated], means[e.negated], r), means[e.negated] # None
  PROVE  EntryKept(k + 1, FoldEntry(e, alias, inner), Terms(e, r, means), r)
<1> DEFINE left == inner[e.negated]
           meaning == means[e.negated]
           terms == {Not3(meaning)}
<1>1. FoldEntry(e, alias, inner) = FoldNot(e.negated, left)
  BY DEF FoldEntry
<1>2. Terms(e, r, means) = terms
  BY DEF Terms
<1>3. terms \subseteq Truth
  BY DEF Not3, Truth
<1>4. /\ left = {} => meaning = "false"
      /\ left # {} => \E where : left = {where}
      /\ \A where \in left :
           /\ left = {where} /\ TableWhere(where, k + 1)
           /\ where = {} => meaning = "true"
           /\ where # {} => meaning # None /\ Build(where, r) = meaning
  <2>1. ChildOK(k + 1, left, meaning, r) /\ meaning # None
    BY ChildKept
  <2> HIDE DEF left, meaning
  <2> QED BY <2>1 DEF ChildOK
<1>5. meaning # None /\ k + 1 \in Nat
  OBVIOUS
<1> HIDE DEF left, meaning
<1>6. CASE left = {}
  <2>1. FoldNot(e.negated, left) = {{}}
    BY <1>6 DEF FoldNot, Nothing
  <2>2. terms \subseteq {"true"}
    BY <1>4, <1>6 DEF Not3
  <2> HIDE DEF terms
  <2>3. EntryKept(k + 1, {{}}, terms, r)
    BY <1>5, <2>2, WholeKept
  <2> QED BY <1>1, <1>2, <2>1, <2>3
<1>7. CASE left = {{}}
  <2>1. FoldNot(e.negated, left) = Nothing
    BY <1>7 DEF FoldNot, Nothing
  <2>2. "false" \in terms
    BY <1>4, <1>7 DEF Not3
  <2> HIDE DEF terms
  <2>3. EntryKept(k + 1, Nothing, terms, r)
    BY <1>3, <1>5, <2>2, NothingKept
  <2> QED BY <1>1, <1>2, <2>1, <2>3
<1>8. CASE left # {} /\ left # {{}}
  <2>1. PICK where : left = {where} /\ where # {}
    BY <1>4, <1>8
  <2>2. TableWhere(where, k + 1) /\ Build(where, r) = meaning
    BY <1>4, <2>1
  <2>3. FoldNot(e.negated, left) = {{Not(where)}}
    BY <1>8, <2>1 DEF FoldNot, Nothing
  <2>4. /\ ~IsKey(Not(where)) /\ Parts({Not(where)}) = {where}
        /\ OnRow(Not(where), r) = {Not3(c) : c \in {Build(where, r)} \ {None}}
    BY NotOnRow
  <2>5. OnRow(Not(where), r) = terms
    BY <1>5, <2>2, <2>4
  <2>6. terms # {}
    OBVIOUS
  <2> HIDE DEF terms
  <2>7. EntryKept(k + 1, {{Not(where)}}, terms, r)
    BY <1>3, <2>2, <2>4, <2>5, <2>6, OneKept
  <2> QED BY <1>1, <1>2, <2>3, <2>7
<1> QED BY <1>6, <1>7, <1>8

(***************************************************************************)
(* What a shared where may ask for its meaning to be kept: operators of    *)
(* the language, and `not` of a where that constrains the row. A `not` of  *)
(* one that does not is where the code and the guide part.                 *)
(***************************************************************************)
Asks(e, r) ==
  /\ IsField(e) => \A t \in e.test : t[1] \in Comparisons
  /\ ~IsKey(e) /\ ~IsField(e) /\ ~IsGroup(e) => Meaning(e.negated, r) # None
WellAsked(where, r) == \A n \in Nat : \A w \in Wheres(where)[n] : \A e \in w : Asks(e, r)

\* And where assertShared lets it pass: the columns shared are no ids but the row's own.
Folds(e, r) == Asks(e, r) /\ (IsField(e) => e.field = "id" \/ ~IsGuid(e.field))
WellPut(where, r) == \A n \in Nat : \A w \in Wheres(where)[n] : \A e \in w : Folds(e, r)

(* What is put well at every depth is made of what is. *)
LEMMA WellPutParts ==
  ASSUME NEW where, NEW r, WellPut(where, r)
  PROVE  /\ \A e \in where : Folds(e, r)
         /\ \A p \in Parts(where) : WellPut(p, r)
<1> DEFINE At(x, m) == Wheres(x)[m]
<1>1. \A n \in Nat : At(where, n + 1) = UNION {At(p, n) : p \in Parts(where)}
  BY PartsLevels
<1>2. At(where, 0) = {where}
  BY PartsHeld
<1>3. \A n \in Nat : \A w \in At(where, n) : \A e \in w : Folds(e, r)
  BY DEF WellPut
<1> HIDE DEF At
<1>4. ASSUME NEW p \in Parts(where), NEW n \in Nat, NEW w \in At(p, n), NEW e \in w PROVE Folds(e, r)
  <2>1. n + 1 \in Nat /\ w \in At(where, n + 1)
    BY <1>1
  <2> QED BY <1>3, <2>1
<1> QED BY <1>2, <1>3, <1>4 DEF WellPut, At

(* Of a where without entries nothing is meant. *)
LEMMA NothingMeant == ASSUME NEW r PROVE Meaning({}, r) = None
<1>1. Parts({}) = {}
  BY DEF Parts
<1>2. Nested({}, 0 + 1)
  BY <1>1, PartsNested
<1>3. Meaning({}, r) = Computed("meaning", r, 0, {}, [p \in Parts({}) |-> ValueOf("meaning", r, p)])
  BY <1>2, ValuesAre, ValueUnfolds DEF OfWheres
<1> QED BY <1>3 DEF Computed, Together

(* The fold keeps what a where means: at every depth, by what it keeps of the wheres it holds. *)
LEMMA FoldKept ==
  ASSUME NEW r, r.id \in Ids, NEW k \in Nat, NEW where, Nested(where, k), WellPut(where, r)
  PROVE  Kept(k, FoldKey(where, r.table), Meaning(where, r), r)
<1> DEFINE P(w, j) == Nested(w, j) /\ WellPut(w, r) => Kept(j, FoldKey(w, r.table), Meaning(w, r), r)
           S == {j \in Nat : \A w : P(w, j)}
<1>1. 0 \in S
  BY PartsNested
<1>2. ASSUME NEW j \in Nat, j \in S PROVE j + 1 \in S
  <2> SUFFICES ASSUME NEW w, Nested(w, j + 1), WellPut(w, r)
               PROVE  Kept(j + 1, FoldKey(w, r.table), Meaning(w, r), r)
    OBVIOUS
  <2> DEFINE inner == [p \in Parts(w) |-> ValueOf("fold", r.table, p)]
             means == [p \in Parts(w) |-> ValueOf("meaning", r, p)]
  <2>1. FoldKey(w, r.table) = AllOf({FoldEntry(e, r.table, inner) : e \in w})
    <3>1. ValueOf("fold", r.table, w) = Computed("fold", r.table, 0, w, inner)
      BY ValueUnfolds DEF OfWheres
    <3> HIDE DEF inner
    <3> QED BY <3>1, ValuesAre DEF Computed
  <2>2. Meaning(w, r) = Together(UNION {Terms(e, r, means) : e \in w})
    <3>1. ValueOf("meaning", r, w) = Computed("meaning", r, 0, w, means)
      BY ValueUnfolds DEF OfWheres
    <3> HIDE DEF means
    <3> QED BY <3>1, ValuesAre DEF Computed
  <2>3. ASSUME NEW p \in Parts(w)
        PROVE  /\ Nested(p, j) /\ Kept(j, inner[p], means[p], r) /\ means[p] = Meaning(p, r)
    <3>1. Nested(p, j) /\ WellPut(p, r)
      BY PartsNested, WellPutParts
    <3>2. inner[p] = FoldKey(p, r.table) /\ means[p] = Meaning(p, r)
      BY ValuesAre
    <3>3. P(p, j)
      BY <1>2
    <3> HIDE DEF inner, means
    <3> QED BY <3>1, <3>2, <3>3
  <2>4. \A e \in w : Folds(e, r)
    BY WellPutParts
  <2> HIDE DEF inner, means
  <2>5. ASSUME NEW e \in w
        PROVE  EntryKept(j, FoldEntry(e, r.table, inner), Terms(e, r, means), r)
    <3>1. CASE IsKey(e)
      BY <3>1, KeyKept
    <3>2. CASE ~IsKey(e) /\ IsField(e)
      <4>1. (e.field = "id" \/ ~IsGuid(e.field)) /\ \A t \in e.test : t[1] \in Comparisons
        BY <2>4, <3>2 DEF Folds, Asks
      <4>2. CASE e.field = "id"
        BY <3>2, <4>1, <4>2, IdKept
      <4>3. CASE ~IsGuid(e.field)
        BY <3>2, <4>1, <4>3, ColumnKept
      <4> QED BY <4>1, <4>2, <4>3
    <3>3. CASE ~IsKey(e) /\ ~IsField(e) /\ IsGroup(e)
      <4>1. e.of \subseteq Parts(w)
        BY <3>3 DEF Parts
      <4>2. CASE e.of = {}
        <5>1. FoldEntry(e, r.table, inner) = {{}}
          BY <3>3, <4>2 DEF FoldEntry, FoldGroup
        <5>2. Terms(e, r, means) = {}
          BY <3>3, <4>2 DEF Terms, GroupConditions
        <5>3. EntryKept(j, {{}}, {}, r)
          BY WholeKept
        <5> QED BY <5>1, <5>2, <5>3
      <4>3. CASE e.of # {}
        <5>1. j - 1 \in Nat /\ (j - 1) + 1 = j
          <6>1. PICK p \in Parts(w) : TRUE
            BY <4>1, <4>3
          <6>2. Nested(p, j)
            BY <2>3
          <6>3. j # 0
            BY <6>2, PartsNested
          <6> QED BY <6>3
        <5>2. \A v \in e.of : Kept((j - 1) + 1, inner[v], means[v], r)
          BY <2>3, <4>1, <5>1
        <5>3. EntryKept((j - 1) + 1, FoldEntry(e, r.table, inner), Terms(e, r, means), r)
          BY <3>3, <5>1, <5>2, GroupKept
        <5> QED BY <5>1, <5>3
      <4> QED BY <4>2, <4>3
    <3>4. CASE ~IsKey(e) /\ ~IsField(e) /\ ~IsGroup(e)
      <4>1. e.negated \in Parts(w)
        BY <3>4 DEF Parts
      <4>2. Meaning(e.negated, r) # None /\ e.negated # {}
        BY <2>4, <3>4, NothingMeant DEF Folds, Asks
      <4>3. Nested(e.negated, j) /\ Kept(j, inner[e.negated], means[e.negated], r)
            /\ means[e.negated] # None
        BY <2>3, <4>1, <4>2
      <4>4. j - 1 \in Nat /\ (j - 1) + 1 = j
        <5>1. j # 0
          BY <4>3, PartsNested
        <5> QED BY <5>1
      <4>5. EntryKept((j - 1) + 1, FoldEntry(e, r.table, inner), Terms(e, r, means), r)
        <5>1. Kept((j - 1) + 1, inner[e.negated], means[e.negated], r)
          BY <4>3, <4>4
        <5> QED BY <3>4, <4>2, <4>3, <4>4, <5>1, NotKept
      <4> QED BY <4>4, <4>5
    <3> QED BY <3>1, <3>2, <3>3, <3>4
  <2>6. Kept(j + 1, AllOf({FoldEntry(e, r.table, inner) : e \in w}),
                    Together(UNION {Terms(e, r, means) : e \in w}), r)
    BY <2>5, LevelKept
  <2> QED BY <2>1, <2>2, <2>6
<1>3. Nat \subseteq S
  <2> HIDE DEF S
  <2> QED BY <1>1, <1>2, NatSetInduction
<1> HIDE DEF Nested, WellPut, Kept
<1> QED BY <1>3

(* Every where of a where is among those its checks go through. *)
LEMMA WithinHolds ==
  ASSUME NEW where, NEW n \in Nat
  PROVE  Wheres(where)[n] \subseteq Within(where, Parts)
<1> DEFINE levels == Wheres(where)
           below == CHOOSE below : WithinIs(below, levels)
<1>1. \A m \in Nat : levels[m + 1] = UNION {Parts(x) : x \in levels[m]}
  BY PartsHeld
<1>2. Within(where, Parts) = below[0]
  BY DEF Wheres, Within, WithinIs
<1> HIDE DEF levels
<1>3. WithinIs(below, levels)
  BY BelowExists
<1> HIDE DEF below
<1>4. \A m \in Nat : levels[m] = {} => levels[m + 1] = {}
  BY <1>1
<1>5. levels[n] \subseteq below[0]
  BY <1>3, <1>4, BelowHoldsLevels
<1> QED BY <1>2, <1>5 DEF levels

(* A where that a table accepts is a table's. *)
LEMMA ValidIsTableWhere ==
  ASSUME NEW table, NEW where, ~Invalid(table, where), NEW k \in Nat, Nested(where, k)
  PROVE  TableWhere(where, k)
<1>1. \A e \in UNION Within(where, Parts) : ~IsKey(e)
  BY DEF Invalid
<1>2. ASSUME NEW n \in Nat, NEW w \in Wheres(where)[n] PROVE Keyless(w)
  <2>1. w \in Within(where, Parts)
    BY WithinHolds
  <2> QED BY <1>1, <2>1 DEF Keyless
<1> QED BY <1>2 DEF TableWhere

(* A column that every member has is no id but the row's own. *)
LEMMA SharedColumns == ASSUME NEW f \in Shared PROVE f = "id" \/ ~IsGuid(f)
<1>1. PICK m \in Aliases : f \in Columns(m)
  BY DEF Shared
<1>2. m # "entries" /\ Scopes[m] \subseteq {"org", "team"}
  <2>1. m \in Tables
    BY DEF Tables
  <2> QED BY <2>1, ScopesAre, SchemaAssumption
<1> QED BY <1>1, <1>2 DEF Columns, IsGuid

(* A shared where that is accepted is put well. *)
LEMMA AcceptedPut ==
  ASSUME NEW where, NEW r, WellAsked(where, r), ~SharedInvalid(where) PROVE WellPut(where, r)
<1>1. ASSUME NEW n \in Nat, NEW w \in Wheres(where)[n], NEW e \in w PROVE Folds(e, r)
  <2>1. w \in Within(where, Parts)
    BY WithinHolds
  <2>2. IsField(e) => e.field \in Shared
    BY <2>1 DEF SharedInvalid
  <2>3. Asks(e, r)
    BY DEF WellAsked
  <2> QED BY <2>2, <2>3, SharedColumns DEF Folds
<1> QED BY <1>1 DEF WellPut

\* A where of finite depth, as any a caller sends.
Bounded(where) == \E k \in Nat : Nested(where, k)

(* What is nested no deeper than j is nested no deeper than any k above. *)
LEMMA NestedFurther ==
  ASSUME NEW where, NEW j \in Nat, Nested(where, j), NEW k \in Nat, j <= k PROVE Nested(where, k)
BY DEF Nested, EmptyFrom

(* Two conditions AND-ed hold where both do, or are missing. *)
LEMMA BothSelect ==
  ASSUME NEW a \in Truth \cup {None}, NEW b \in Truth \cup {None}
  PROVE  Together(GroupConditions("and", {a, b})) \in {None, "true"} <=> a \in {None, "true"} /\ b \in {None, "true"}
BY DEF GroupConditions, Together, All3, Truth, None

(* A member's where selects, of its rows, those its own where selects of those the shared one means. *)
LEMMA BranchSelects ==
  ASSUME NEW args, NEW r, r.id \in Ids, r.table \in Branches(args), ~SharedInvalid(args.where),
         ~Invalid(r.table, BranchArgs(args, r.table).where), WellAsked(args.where, r),
         Bounded(args.where), Bounded(OwnArgs(args, r.table).where)
  PROVE  Selects(BranchArgs(args, r.table).where, r)
         <=> Meaning(args.where, r) \in {None, "true"} /\ Selects(OwnArgs(args, r.table).where, r)
<1> DEFINE own == OwnArgs(args, r.table).where
           folded == FoldKey(args.where, r.table)
           meaning == Meaning(args.where, r)
           where == BranchArgs(args, r.table).where
<1>1. PICK i \in Nat : Nested(args.where, i)
  BY DEF Bounded
<1>2. PICK j \in Nat : Nested(own, j)
  BY DEF Bounded
<1> DEFINE k == i + j
<1>3. k \in Nat /\ Nested(args.where, k) /\ Nested(own, k)
  <2>1. k \in Nat /\ i <= k /\ j <= k
    OBVIOUS
  <2> HIDE DEF k, own
  <2> QED BY <1>1, <1>2, <2>1, NestedFurther
<1> HIDE DEF k
<1>4. Kept(k, folded, meaning, r)
  BY <1>3, AcceptedPut, FoldKept
<1>5. folded # Nothing /\ where = {And(folded \cup {own})}
  BY DEF Branches, BranchArgs
<1> HIDE DEF own, folded, meaning, where
<1>6. PICK left : folded = {left} /\ TableWhere(left, k) /\ Selected(Build(left, r)) = Selected(meaning)
  BY <1>4, <1>5 DEF Kept, Nothing
<1> DEFINE both == {left, own}
<1>7. where = {And(both)}
  BY <1>5, <1>6
<1> HIDE DEF both
<1>8. Parts(where) = both /\ ConditionsOf(where, r) = GroupConditions("and", {Build(p, r) : p \in both})
  <2>1. ConditionsOf(where, r) = OnRow(And(both), r)
    BY <1>7 DEF ConditionsOf
  <2> QED BY <1>7, <2>1, GroupOnRow
<1>9. TableWhere(where, k + 1)
  <2>1. Nested(left, k)
    BY <1>6 DEF TableWhere
  <2>2. Nested(where, k + 1)
    BY <1>3, <1>8, <2>1, PartsNested DEF both
  <2>3. k + 1 \in Nat /\ ~Invalid(r.table, where)
    BY <1>3 DEF where
  <2> QED BY <2>2, <2>3, ValidIsTableWhere
<1>10. ASSUME NEW p \in both PROVE Build(p, r) \in Truth \cup {None}
  <2>1. TableWhere(p, k)
    BY <1>3, <1>8, <1>9, TableWhereParts
  <2>2. k - 1 \in Nat /\ (k - 1) + 1 = k
    <3>1. k # 0
      BY <2>1, PartsNested DEF TableWhere
    <3> QED BY <1>3, <3>1
  <2>3. Build(p, r) = Together(ConditionsOf(p, r))
    BY <2>1, <2>2, BuildIs
  <2> QED BY <2>3, TogetherIs
<1>11. Build(where, r) = Together(GroupConditions("and", {Build(left, r), Build(own, r)}))
  <2>1. Build(where, r) = Together(ConditionsOf(where, r))
    BY <1>3, <1>9, BuildIs
  <2>2. {Build(p, r) : p \in both} = {Build(left, r), Build(own, r)}
    BY DEF both
  <2> QED BY <1>8, <2>1, <2>2
<1>12. Build(left, r) \in Truth \cup {None} /\ Build(own, r) \in Truth \cup {None}
  BY <1>10 DEF both
<1>13. Build(left, r) \in {None, "true"} <=> meaning \in {None, "true"}
  <2>1. \A c : Selected(c) = "true" <=> c \in {None, "true"}
    BY DEF Selected
  <2> QED BY <1>6, <2>1
<1>14. Selects(where, r) <=> Build(left, r) \in {None, "true"} /\ Build(own, r) \in {None, "true"}
  BY <1>11, <1>12, BothSelect DEF Selects
<1> QED BY <1>13, <1>14 DEF Selects, own, meaning, where

(* A member the fold decides away has no row the shared where is true of. *)
LEMMA FoldedAway ==
  ASSUME NEW where, NEW r, r.id \in Ids, ~SharedInvalid(where), WellAsked(where, r), Bounded(where),
         FoldKey(where, r.table) = Nothing
  PROVE  Meaning(where, r) = "false"
<1>1. PICK k \in Nat : Nested(where, k)
  BY DEF Bounded
<1>2. Kept(k, FoldKey(where, r.table), Meaning(where, r), r)
  BY <1>1, AcceptedPut, FoldKept
<1> QED BY <1>2 DEF Kept

----------------------------------------------------------------------------
\* The rows a read of the union is meant to answer.
IsMeant(ctx, args, r) ==
  /\ r.table \in Aliases /\ OwnArgs(args, r.table) # Null
  /\ Reach(ctx, r)
  /\ Meaning(args.where, r) \in {None, "true"}
  /\ Selects(OwnArgs(args, r.table).where, r)
MeantRows(ctx, rows, args) == {r \in rows : IsMeant(ctx, args, r)}

\* A read whose joins end, as those of any request.
ReadsDown(table, args) == \E d \in Nat : Levels(<<table, args>>, Sublevels)[d] = {}

(***************************************************************************)
(* A request of the union as callers make them: its wheres and joins are   *)
(* of finite depth, its operators those of the language, and what it       *)
(* negates constrains every row.                                           *)
(***************************************************************************)
Understood(args) ==
  /\ Bounded(args.where)
  /\ \A alias \in Branches(args) : /\ Bounded(OwnArgs(args, alias).where)
                                   /\ ReadsDown(alias, BranchArgs(args, alias))
  /\ \A r : RowOK(r) => WellAsked(args.where, r)

(* The rows of the union's branches are those meant. *)
LEMMA UnionSelects ==
  ASSUME NEW ctx, NEW args, Understood(args), ~UnionArgsInvalid(args),
         \A alias \in Branches(args) : ~TenantRefused(ctx, alias), NEW r, RowOK(r)
  PROVE  r.table \in Branches(args) /\ Where(ctx, BranchArgs(args, r.table).where, r)
         <=> IsMeant(ctx, args, r)
<1>1. r.id \in Ids /\ WellAsked(args.where, r) /\ Bounded(args.where) /\ ~SharedInvalid(args.where)
  BY DEF RowOK, Understood, UnionArgsInvalid, SharedArgsInvalid
<1>2. CASE r.table \in Branches(args)
  <2> DEFINE alias == r.table
             level == <<alias, BranchArgs(args, alias)>>
  <2>1. Bounded(OwnArgs(args, alias).where) /\ ~ArgsInvalid(alias, BranchArgs(args, alias))
    BY <1>2 DEF Understood, UnionArgsInvalid
  <2>2. level \in LevelsOf(alias, BranchArgs(args, alias))
    <3>1. level \in Levels(level, Sublevels)[0]
      BY SublevelsHeld
    <3>2. Levels(level, Sublevels)[0] \subseteq LevelsOf(alias, BranchArgs(args, alias))
      BY LevelsOfHeld
    <3> QED BY <3>1, <3>2
  <2>3. ~Invalid(alias, BranchArgs(args, alias).where)
    BY <2>1, <2>2 DEF ArgsInvalid
  <2>4. Selects(BranchArgs(args, alias).where, r)
        <=> Meaning(args.where, r) \in {None, "true"} /\ Selects(OwnArgs(args, alias).where, r)
    BY <1>1, <1>2, <2>1, <2>3, BranchSelects
  <2>5. alias \in Aliases /\ OwnArgs(args, alias) # Null
    BY <1>2 DEF Branches
  <2>6. TenantPredicate(ctx, r) <=> Reach(ctx, r)
    BY <1>2, BoundaryIsReach
  <2> QED BY <1>2, <2>4, <2>5, <2>6 DEF IsMeant, Where
<1>3. CASE r.table \notin Branches(args)
  <2>1. IsMeant(ctx, args, r) => FoldKey(args.where, r.table) = Nothing
    BY <1>3 DEF IsMeant, Branches
  <2>2. FoldKey(args.where, r.table) = Nothing => Meaning(args.where, r) = "false"
    BY <1>1, FoldedAway
  <2> QED BY <1>3, <2>1, <2>2 DEF IsMeant, None
<1> QED BY <1>2, <1>3

(* A record is read from the row it answers. *)
LEMMA RecordRow ==
  ASSUME NEW ctx, NEW rows, NEW node, ReadsDown(node.row.table, node.args)
  PROVE  Record(ctx, rows, node).row = Ref(node.row)
<1> DEFINE g == NodeLevels(ctx, rows, node)
           levels == Levels(LevelOf(node), Sublevels)
<1>1. NodesFrom(node, ctx, rows, g)
  BY NodesHeld
<1>2. PICK d \in Nat : levels[d] = {}
  BY DEF ReadsDown, LevelOf
<1>3. \A n \in Nat : \A x \in g[n] : LevelOf(x) \in levels[n]
  BY <1>1, NodesHaveLevels
<1> HIDE DEF g, levels
<1>4. g[d] = {}
  BY <1>2, <1>3
<1>5. \A n \in Nat : g[n] = {} => g[n + 1] = {}
  BY <1>1 DEF NodesFrom
<1>6. EmptyFrom(g, d)
  BY <1>2, <1>4, <1>5, EmptyBelow
<1>7. PICK f : Computes(f, g, "node", ctx, rows) /\ Record(ctx, rows, node) = f[0][node]
  BY <1>2, <1>6, RecordComputed DEF g
<1>8. f[0][node] = Computed("node", ctx, rows, node, f[0 + 1])
  BY <1>1, <1>7 DEF Computes, NodesFrom
<1>9. Record(ctx, rows, node) = Reading(ctx, rows, node, f[0 + 1])
  BY <1>7, <1>8 DEF Computed
<1> QED BY <1>9 DEF Reading

(* The records of a read of the union are of the rows meant. *)
LEMMA UnionReads ==
  ASSUME NEW ctx, NEW rows, \A r \in rows : RowOK(r), NEW args, Understood(args),
         ~UnionArgsInvalid(args), \A alias \in Branches(args) : ~TenantRefused(ctx, alias)
  PROVE  {record.row : record \in UnionRecords(ctx, rows, args)} = {Ref(r) : r \in MeantRows(ctx, rows, args)}
<1> DEFINE meant == MeantRows(ctx, rows, args)
           nodes == UnionNodes(ctx, rows, args)
           tagged(r) == Node(r, BranchArgs(args, r.table), r.table)
<1>1. nodes = {tagged(r) : r \in meant}
  <2>1. {r \in rows : r.table \in Branches(args) /\ Where(ctx, BranchArgs(args, r.table).where, r)} = meant
    BY UnionSelects DEF MeantRows
  <2> HIDE DEF meant
  <2> QED BY <2>1 DEF UnionNodes
<1>2. ASSUME NEW r \in meant PROVE Record(ctx, rows, tagged(r)).row = Ref(r)
  <2>1. r.table \in Branches(args)
    BY UnionSelects DEF MeantRows
  <2>2. tagged(r).row = r /\ tagged(r).args = BranchArgs(args, r.table)
    BY DEF Node
  <2> HIDE DEF tagged
  <2>3. ReadsDown(tagged(r).row.table, tagged(r).args)
    BY <2>1, <2>2 DEF Understood
  <2> QED BY <2>2, <2>3, RecordRow
<1> HIDE DEF meant, nodes, tagged
<1>3. {record.row : record \in UnionRecords(ctx, rows, args)} = {Record(ctx, rows, node).row : node \in nodes}
  BY DEF UnionRecords, nodes
<1>4. {Record(ctx, rows, node).row : node \in nodes} = {Record(ctx, rows, tagged(r)).row : r \in meant}
  BY <1>1
<1> QED BY <1>2, <1>3, <1>4 DEF meant

(* What a read of the union answers is the rows meant, and one of them when one is asked for. *)
LEMMA UnionFindMeant ==
  ASSUME NEW ctx, NEW rows, \A r \in rows : RowOK(r), NEW args, Understood(args), NEW one \in BOOLEAN,
         NEW outcome \in UnionFindOutcomes(ctx, rows, args, one), outcome.refused = "no"
  PROVE  LET read == {record.row : record \in outcome.records}
             meant == {Ref(r) : r \in MeantRows(ctx, rows, args)}
         IN IF one THEN read \subseteq meant /\ (read = {} <=> meant = {}) ELSE read = meant
<1> DEFINE records == UnionRecords(ctx, rows, args)
           founds == IF one THEN OneOf(records) ELSE {records}
           meant == {Ref(r) : r \in MeantRows(ctx, rows, args)}
<1>1. /\ ~UnionArgsInvalid(args)
      /\ \A alias \in Branches(args) : ~LevelRefused(ctx, alias, BranchArgs(args, alias))
  <2>1. \A why \in {"invalid", "tenancy"} : outcome # Refused(why, rows)
    BY RefusedIs
  <2> HIDE DEF records, founds
  <2> QED BY <2>1 DEF UnionFindOutcomes
<1>2. PICK found \in founds : outcome = Found(found, rows)
  <2>1. \A why \in {"invalid", "tenancy"} : outcome # Refused(why, rows)
    BY RefusedIs
  <2> QED BY <2>1 DEF UnionFindOutcomes
<1>3. \A alias \in Branches(args) : ~TenantRefused(ctx, alias)
  BY <1>1, LevelOpen
<1>4. {record.row : record \in records} = meant
  BY <1>1, <1>3, UnionReads
<1>5. outcome.records = found
  BY <1>2, FoundIs
<1> HIDE DEF records, meant
<1>6. CASE one
  <2>1. found \in OneOf(records)
    BY <1>2, <1>6
  <2>2. found \subseteq records /\ (found = {} <=> records = {})
    BY <2>1 DEF OneOf
  <2> DEFINE read == {record.row : record \in found}
             all == {record.row : record \in records}
  <2>3. read \subseteq all /\ (read = {} <=> all = {})
    BY <2>2
  <2> HIDE DEF read, all
  <2>4. read \subseteq meant /\ (read = {} <=> meant = {})
    BY <1>4, <2>3 DEF all
  <2> QED BY <1>5, <1>6, <2>4 DEF meant, read
<1>7. CASE ~one
  BY <1>2, <1>4, <1>5, <1>7 DEF meant
<1> QED BY <1>6, <1>7

----------------------------------------------------------------------------
\* A sum, member by member, of the rows of each.
RowsOf(rows, table) == {r \in rows : r.table = table}
Sums(g, members, rows) ==
  g = [s \in SUBSET members |->
         IF s = {} THEN 0
         ELSE Cardinality(RowsOf(rows, CHOOSE x \in s : TRUE)) + g[s \ {CHOOSE x \in s : TRUE}]]

(* Counted member by member, rows are counted once each. *)
LEMMA SumsAre ==
  ASSUME NEW members, IsFiniteSet(members), NEW rows, IsFiniteSet(rows), \A r \in rows : r.table \in members
  PROVE  /\ \E g : Sums(g, members, rows)
         /\ \A g : Sums(g, members, rows) => g[members] = Cardinality(rows)
<1> DEFINE Among(s) == {r \in rows : r.table \in s}
<1>1. ASSUME NEW s
      PROVE  IsFiniteSet(Among(s)) /\ Cardinality(Among(s)) \in Nat
  BY FS_Subset, FS_CardinalityType
<1>2. Cardinality(Among({})) = 0
  <2>1. Among({}) = {}
    OBVIOUS
  <2> QED BY <2>1, FS_EmptySet
<1>3. ASSUME NEW s, NEW x \in s
      PROVE  Cardinality(Among(s)) = Cardinality(RowsOf(rows, x)) + Cardinality(Among(s \ {x}))
  <2>1. Among({x}) = RowsOf(rows, x)
    BY DEF RowsOf
  <2>2. Among(s) = Among({x}) \cup Among(s \ {x}) /\ Among({x}) \cap Among(s \ {x}) = {}
    OBVIOUS
  <2>3. /\ IsFiniteSet(Among({x})) /\ Cardinality(Among({x})) \in Nat
        /\ IsFiniteSet(Among(s \ {x})) /\ Cardinality(Among(s \ {x})) \in Nat
    BY <1>1
  <2> HIDE DEF Among
  <2>4. Cardinality(Among(s)) = Cardinality(Among({x})) + Cardinality(Among(s \ {x})) - Cardinality({})
    BY <2>2, <2>3, FS_Union
  <2> QED BY <2>1, <2>3, <2>4, FS_EmptySet
<1>4. Among(members) = rows
  OBVIOUS
<1> HIDE DEF Among
<1>5. \E g : Sums(g, members, rows)
  <2> DEFINE g == [s \in SUBSET members |-> Cardinality(Among(s))]
             Sum(s, h) == IF s = {} THEN 0
                          ELSE Cardinality(RowsOf(rows, CHOOSE x \in s : TRUE)) + h[s \ {CHOOSE x \in s : TRUE}]
  <2>1. ASSUME NEW s \in SUBSET members PROVE g[s] = Sum(s, g)
    <3>1. CASE s = {}
      BY <1>2, <3>1
    <3>2. CASE s # {}
      <4>1. PICK x \in s : x = CHOOSE y \in s : TRUE
        BY <3>2
      <4>2. s \ {x} \in SUBSET members
        OBVIOUS
      <4>3. g[s \ {x}] = Cardinality(Among(s \ {x})) /\ g[s] = Cardinality(Among(s))
        BY <4>2
      <4> HIDE DEF g
      <4> QED BY <1>3, <3>2, <4>1, <4>3
    <3> QED BY <3>1, <3>2
  <2>2. g = [s \in SUBSET members |-> g[s]]
    OBVIOUS
  <2> HIDE DEF g, Sum
  <2>3. g = [s \in SUBSET members |-> Sum(s, g)]
    BY <2>1, <2>2
  <2> QED BY <2>3 DEF Sums, Sum
<1>6. ASSUME NEW g, Sums(g, members, rows) PROVE g[members] = Cardinality(rows)
  <2> DEFINE S == {n \in Nat : \A s \in SUBSET members : Cardinality(s) = n => g[s] = Cardinality(Among(s))}
  <2>1. \A s \in SUBSET members : IsFiniteSet(s) /\ Cardinality(s) \in Nat
    BY FS_Subset, FS_CardinalityType
  <2>2. 0 \in S
    <3>1. ASSUME NEW s \in SUBSET members, Cardinality(s) = 0 PROVE g[s] = Cardinality(Among(s))
      <4>1. s = {}
        BY <2>1, <3>1, FS_EmptySet
      <4> QED BY <1>2, <1>6, <4>1 DEF Sums
    <3> QED BY <3>1
  <2>3. ASSUME NEW n \in Nat, n \in S PROVE n + 1 \in S
    <3>1. ASSUME NEW s \in SUBSET members, Cardinality(s) = n + 1 PROVE g[s] = Cardinality(Among(s))
      <4>1. s # {}
        BY <3>1, FS_EmptySet
      <4>2. PICK x \in s : x = CHOOSE y \in s : TRUE
        BY <4>1
      <4>3. s \ {x} \in SUBSET members /\ Cardinality(s \ {x}) = n
        <5>1. IsFiniteSet(s)
          BY <2>1
        <5>2. Cardinality(s \ {x}) = Cardinality(s) - 1
          BY <5>1, FS_RemoveElement
        <5> QED BY <3>1, <5>2
      <4>4. g[s \ {x}] = Cardinality(Among(s \ {x}))
        BY <2>3, <4>3
      <4>5. g[s] = Cardinality(RowsOf(rows, x)) + g[s \ {x}]
        BY <1>6, <4>1, <4>2 DEF Sums
      <4> QED BY <1>3, <4>4, <4>5
    <3> QED BY <3>1
  <2>4. Nat \subseteq S
    <3> HIDE DEF S
    <3> QED BY <2>2, <2>3, NatSetInduction
  <2>5. members \in SUBSET members /\ Cardinality(members) \in Nat
    BY <2>1
  <2> QED BY <1>4, <2>4, <2>5
<1> QED BY <1>5, <1>6

(* A count of the union is of the rows meant. *)
LEMMA UnionCountMeant ==
  ASSUME NEW ctx, NEW rows, RowsOK(rows), NEW where, Understood([WholeUnion EXCEPT !.where = where]),
         NEW outcome \in UnionCountOutcomes(ctx, rows, where), outcome.refused = "no"
  PROVE  outcome.count = Cardinality(MeantRows(ctx, rows, [WholeUnion EXCEPT !.where = where]))
<1> DEFINE args == [WholeUnion EXCEPT !.where = where]
           meant == MeantRows(ctx, rows, args)
           S == Branches(args)
           count(alias) == Cardinality(TableRows(ctx, rows, alias, BranchArgs(args, alias).where))
           sum == MapThenSumSet(LAMBDA alias : count(alias), Branches(args))
<1>1. /\ ~UnionArgsInvalid(args)
      /\ \A alias \in S : ~TenantRefused(ctx, alias)
      /\ outcome = Counted(sum, rows)
  <2>1. \A why \in {"invalid", "tenancy"} : outcome # Refused(why, rows)
    BY RefusedIs
  <2>2. UnionCountOutcomes(ctx, rows, where)
        = IF UnionArgsInvalid(args) THEN {Refused("invalid", rows)}
          ELSE IF \E alias \in Branches(args) : TenantRefused(ctx, alias)
          THEN {Refused("tenancy", rows)} ELSE {Counted(sum, rows)}
    BY DEF UnionCountOutcomes
  <2> HIDE DEF sum, args
  <2> QED BY <2>1, <2>2
<1>2. ASSUME NEW r \in rows
      PROVE  r.table \in S /\ Where(ctx, BranchArgs(args, r.table).where, r) <=> r \in meant
  <2>1. RowOK(r)
    BY DEF RowsOK
  <2> HIDE DEF args
  <2> QED BY <1>1, <2>1, UnionSelects DEF MeantRows, args
<1> HIDE DEF args
<1>3. \A alias \in S : TableRows(ctx, rows, alias, BranchArgs(args, alias).where) = RowsOf(meant, alias)
  <2>1. meant \subseteq rows
    BY DEF MeantRows
  <2> HIDE DEF meant
  <2> QED BY <1>2, <2>1 DEF TableRows, Rows, RowsOf
<1>4. IsFiniteSet(meant) /\ \A r \in meant : r.table \in S
  <2>1. meant \subseteq rows
    BY DEF MeantRows
  <2> HIDE DEF meant
  <2> QED BY <1>2, <2>1, FS_Subset DEF RowsOK
<1>5. IsFiniteSet(S)
  <2>1. IsFiniteSet(Aliases)
    <3>1. IsFiniteSet(DOMAIN Members) /\ Members = [i \in DOMAIN Members |-> Members[i]]
      <4>1. Members \in Seq(STRING)
        BY SchemaAssumption
      <4>2. Len(Members) \in Nat /\ DOMAIN Members = 1..Len(Members)
            /\ Members = [i \in 1..Len(Members) |-> Members[i]]
        BY <4>1
      <4> DEFINE n == Len(Members)
      <4>3. IsFiniteSet(1..n)
        <5>1. 1 \in Int /\ n \in Int
          BY <4>2
        <5> HIDE DEF n
        <5> QED BY <5>1, FS_Interval
      <4> QED BY <4>2, <4>3
    <3>2. IsFiniteSet({Members[i] : i \in DOMAIN Members})
      BY <3>1, ImageFinite
    <3> QED BY <3>2 DEF Aliases, Range
  <2> QED BY <2>1, FS_Subset DEF Branches
<1> DEFINE Counts(g) ==
      g = [s \in SUBSET S |->
             IF s = {} THEN 0
             ELSE count(CHOOSE x \in s : TRUE) + g[s \ {CHOOSE x \in s : TRUE}]]
<1>6. sum = (CHOOSE g : Counts(g))[S]
  BY DEF MapThenSumSet, MapThenFoldSet
<1>7. \A alias \in S : count(alias) = Cardinality(RowsOf(meant, alias))
  BY <1>3
<1> HIDE DEF count, S, meant
<1>8. ASSUME NEW g PROVE Counts(g) <=> Sums(g, S, meant)
  <2>1. ASSUME NEW s \in SUBSET S, s # {}
        PROVE  count(CHOOSE x \in s : TRUE) = Cardinality(RowsOf(meant, CHOOSE x \in s : TRUE))
    <3>1. (CHOOSE x \in s : TRUE) \in S
      BY <2>1
    <3> QED BY <1>7, <3>1
  <2> QED BY <2>1 DEF Sums
<1>9. (CHOOSE g : Counts(g)) = CHOOSE g : Sums(g, S, meant)
  BY <1>8
<1> HIDE DEF sum, Counts
<1>10. sum = Cardinality(meant)
  <2> DEFINE g == CHOOSE g : Sums(g, S, meant)
  <2>1. Sums(g, S, meant)
    BY <1>4, <1>5, SumsAre
  <2> HIDE DEF g
  <2>2. g[S] = Cardinality(meant)
    BY <1>4, <1>5, <2>1, SumsAre
  <2> QED BY <1>6, <1>9, <2>2 DEF g
<1> QED BY <1>1, <1>10 DEF Counted, meant, args

\* An outcome of the union's that answers the rows meant.
AnswersMeant(ctx, rows, req, outcome) ==
  LET read == {record.row : record \in outcome.records}
      meant == {Ref(r) : r \in MeantRows(ctx, rows, req.args)}
  IN /\ req.op \in {"findOne", "findMany", "count"}
     /\ req.op = "findMany" => read = meant
     /\ req.op = "findOne" => read \subseteq meant /\ (read = {} <=> meant = {})
     /\ req.op = "count" => outcome.count = Cardinality(MeantRows(ctx, rows, req.args))

(* So is whatever comes of a request of the union that is not refused. *)
LEMMA OutcomeMeant ==
  ASSUME NEW ctx, NEW rows, RowsOK(rows), NEW req \in Requests, req.on = "posts", Understood(req.args),
         NEW outcome \in Outcomes(ctx, rows, req), outcome.refused = "no"
  PROVE  AnswersMeant(ctx, rows, req, outcome)
<1>1. req.op \in {"findOne", "findMany", "count"} /\ req.on \notin Tables
  BY RequestsAssumption, SchemaAssumption DEF Tables
<1>2. \A r \in rows : RowOK(r)
  BY DEF RowsOK
<1>3. CASE req.op = "findMany"
  <2>1. outcome \in UnionFindOutcomes(ctx, rows, req.args, FALSE)
    BY <1>1, <1>3 DEF Outcomes
  <2>2. {record.row : record \in outcome.records} = {Ref(r) : r \in MeantRows(ctx, rows, req.args)}
    BY <1>2, <2>1, UnionFindMeant
  <2> QED BY <1>3, <2>2 DEF AnswersMeant
<1>4. CASE req.op = "findOne"
  <2>1. outcome \in UnionFindOutcomes(ctx, rows, req.args, TRUE)
    BY <1>1, <1>4 DEF Outcomes
  <2> DEFINE read == {record.row : record \in outcome.records}
             meant == {Ref(r) : r \in MeantRows(ctx, rows, req.args)}
  <2>2. read \subseteq meant /\ (read = {} <=> meant = {})
    BY <1>2, <2>1, UnionFindMeant
  <2> QED BY <1>4, <2>2 DEF AnswersMeant
<1>5. CASE req.op = "count"
  <2> DEFINE args == [WholeUnion EXCEPT !.where = req.args.where]
  <2>1. req.args = args
    BY <1>5, RequestsAssumption
  <2>2. outcome \in UnionCountOutcomes(ctx, rows, req.args.where)
    BY <1>1, <1>5 DEF Outcomes
  <2>3. Understood(args)
    BY <2>1
  <2>4. outcome.count = Cardinality(MeantRows(ctx, rows, args))
    BY <2>2, <2>3, UnionCountMeant
  <2> QED BY <1>5, <2>1, <2>4 DEF AnswersMeant
<1> QED BY <1>1, <1>3, <1>4, <1>5 DEF AnswersMeant

(***************************************************************************)
(* MeansWhere holds of every step when the union's requests are understood *)
(* (Understood): of a shared where each member is left one that selects,   *)
(* of its rows, those the where is true of (FoldKept), by what is left of  *)
(* its entries: a $$key is decided by the member (KeyKept), a test on the  *)
(* id by the node its ids name (IdKept), a group and a `not` by what is    *)
(* left of the wheres in them (GroupKept, NotKept). The member's own where *)
(* and the boundary are AND-ed to it (UnionSelects), so the rows read are  *)
(* those meant and a count adds them up once each (SumsAre).               *)
(***************************************************************************)
THEOREM ClientMeansWhere ==
  ASSUME \A req \in Requests : req.on = "posts" => Understood(req.args)
  PROVE  Spec => MeansWhere
<1> DEFINE AsMeant ==
      last' # last /\ Answered(last') /\ last'.request.on = "posts" =>
        LET meant == Meant(last'.request.args)
            read == {record.row : record \in last'.outcome.records}
        IN CASE last'.request.op = "count" -> last'.outcome.count = Cardinality(meant)
             [] last'.request.op = "findMany" -> read = {Ref(r) : r \in meant}
             [] last'.request.op = "findOne" ->
                    read \subseteq {Ref(r) : r \in meant} /\ (read = {} <=> meant = {})
<1>1. ASSUME TypeOK, [Next]_vars PROVE AsMeant
  <2>1. SUFFICES ASSUME last' # last, Answered(last'), last'.request.on = "posts" PROVE AsMeant
    OBVIOUS
  <2>2. PICK req \in Requests : Ask(req)
    <3>1. ASSUME NEW gids \in Lists, StartList(gids) PROVE FALSE
      BY <2>1, <3>1 DEF StartList, Answered
    <3>2. ASSUME FinishList PROVE FALSE
      BY <2>1, <3>2 DEF FinishList, Answered
    <3> QED BY <1>1, <2>1, <3>1, <3>2
      DEF Next, vars, Derive, RunGroup, OtherDelete, OtherRename, Write
  <2>3. PICK outcome \in Outcomes(client, db, req) : last' = [request |-> req, outcome |-> outcome]
    BY <2>2 DEF Ask
  <2>4. outcome.refused = "no" /\ last'.request = req /\ last'.outcome = outcome
    BY <2>1, <2>3 DEF Answered
  <2>5. req.on = "posts" /\ Understood(req.args) /\ RowsOK(db)
    BY <1>1, <2>1, <2>4 DEF TypeOK
  <2> DEFINE read == {record.row : record \in outcome.records}
             meant == MeantRows(client, db, req.args)
  <2>6. /\ req.op \in {"findOne", "findMany", "count"}
        /\ req.op = "findMany" => read = {Ref(r) : r \in meant}
        /\ req.op = "findOne" => /\ read \subseteq {Ref(r) : r \in meant}
                                 /\ read = {} <=> {Ref(r) : r \in meant} = {}
        /\ req.op = "count" => outcome.count = Cardinality(meant)
    <3>1. AnswersMeant(client, db, req, outcome)
      BY <2>3, <2>4, <2>5, OutcomeMeant
    <3> QED BY <3>1 DEF AnswersMeant
  <2>7. Meant(req.args) = meant
    BY DEF Meant, MeantRows, IsMeant
  <2> HIDE DEF read, meant
  <2>8. {Ref(r) : r \in meant} = {} <=> meant = {}
    OBVIOUS
  <2>9. CASE req.op = "findMany"
    BY <2>4, <2>6, <2>7, <2>9 DEF read
  <2>10. CASE req.op = "findOne"
    BY <2>4, <2>6, <2>7, <2>8, <2>10 DEF read
  <2>11. CASE req.op = "count"
    BY <2>4, <2>6, <2>7, <2>11
  <2> QED BY <2>6, <2>9, <2>10, <2>11
<1>2. TypeOK /\ [Next]_vars => [AsMeant]_vars
  BY <1>1
<1> QED BY <1>2, ClientTyped, PTL DEF Spec, MeansWhere

----------------------------------------------------------------------------
RecordLevels(record) == Levels(record, JoinedRecords)

(* A record's levels: itself, and from one to the next what is joined. *)
LEMMA RecordsHeld ==
  ASSUME NEW root
  PROVE  /\ RecordLevels(root)[0] = {root}
         /\ \A n \in Nat : RecordLevels(root)[n + 1] = UNION {JoinedRecords(x) : x \in RecordLevels(root)[n]}
<1> DEFINE Made(g) == g = [n \in Nat |-> IF n = 0 THEN {root} ELSE UNION {JoinedRecords(x) : x \in g[n - 1]}]
           levels == CHOOSE g : Made(g)
<1>1. \A g : Made(g) <=> Nests(g, root, "record", 0, 0)
  BY DEF Nests, Under
<1>2. \E g : Made(g)
  <2> HIDE DEF Made
  <2> QED BY <1>1, LevelsExist
<1>3. RecordLevels(root) = levels
  BY DEF RecordLevels, Levels
<1>4. Nests(levels, root, "record", 0, 0)
  <2> HIDE DEF Made
  <2> QED BY <1>1, <1>2
<1> HIDE DEF levels
<1>5. levels[0] = {root} /\ \A n \in Nat : levels[n + 1] = UNION {Under("record", 0, 0, x) : x \in levels[n]}
  BY <1>4, LevelsUnfold
<1> QED BY <1>3, <1>5 DEF Under

(* Where the nesting ends, what lies within is of one of the levels. *)
LEMMA BelowIsLevels ==
  ASSUME NEW levels, NEW d \in Nat, EmptyFrom(levels, d), NEW below, WithinIs(below, levels),
         NEW x \in below[0]
  PROVE  \E n \in Nat : x \in levels[n]
<1> DEFINE S == {k \in Nat : \A n \in Nat : n + k >= d => \A y \in below[n] : \E m \in Nat : y \in levels[m]}
<1>1. \A n \in Nat : below[n] = IF levels[n] = {} THEN {} ELSE levels[n] \cup below[n + 1]
  BY DEF WithinIs
<1>2. 0 \in S
  <2>1. ASSUME NEW n \in Nat, n + 0 >= d PROVE below[n] = {}
    <3>1. levels[n] = {}
      BY <2>1 DEF EmptyFrom
    <3> QED BY <1>1, <3>1
  <2> QED BY <2>1
<1>3. ASSUME NEW k \in Nat, k \in S PROVE k + 1 \in S
  <2>1. ASSUME NEW n \in Nat, n + (k + 1) >= d, NEW y \in below[n] PROVE \E m \in Nat : y \in levels[m]
    <3>1. n + 1 \in Nat /\ (n + 1) + k >= d
      BY <2>1
    <3>2. y \in levels[n] \/ y \in below[n + 1]
      BY <1>1, <2>1
    <3> QED BY <1>3, <3>1, <3>2
  <2> QED BY <2>1
<1>4. d \in S
  <2> HIDE DEF S
  <2> QED BY <1>2, <1>3, NatSetInduction
<1>5. 0 + d >= d
  OBVIOUS
<1> QED BY <1>4, <1>5

(* A relation is no column. *)
LEMMA RelationsApart == ASSUME NEW table \in Tables
  PROVE  {"post", "entries", "postId"} \cap Columns(table) \subseteq {"postId"}
         /\ ("postId" \in Columns(table) => table = "entries")
BY ScopesAre DEF Columns

\* A node of a valid read: of a row of the database, joining relations of its table.
NodeOK(rows, node) ==
  /\ node.row \in rows /\ RowOK(node.row)
  /\ JoinNames(JoinOf(node)) \subseteq Relations(node.row.table)

(* What a node's record joins are the records of the nodes it joins. *)
LEMMA JoinedAreJoining ==
  ASSUME NEW ctx, NEW rows, NEW node, NodeOK(rows, node), NEW inner,
         NEW z \in JoinedRecords(Reading(ctx, rows, node, inner))
  PROVE  \E y \in JoiningAll(ctx, rows, node) : z = inner[y]
<1> DEFINE columns == ReadColumns(node.row.table, node.args)
           joins == JoinNames(JoinOf(node))
           read(f) == IF f \in joins THEN {inner[y] : y \in Joining(ctx, rows, node, f)} ELSE {}
           fields == [f \in columns \cup joins |-> ReadField(node, f, read(f))]
<1>1. Reading(ctx, rows, node, inner).fields = fields
  BY DEF Reading
<1>2. PICK f \in (columns \cup joins) \cap {"post", "entries"} : z \in fields[f]
  BY <1>1 DEF JoinedRecords
<1>3. f \notin columns
  <2>1. node.row.table \in Tables
    BY DEF NodeOK, RowOK
  <2> QED BY <1>2, <2>1, RelationsApart DEF ReadColumns
<1> HIDE DEF columns
<1>4. fields[f] = ReadField(node, f, read(f))
  BY <1>2
<1> HIDE DEF fields, joins
<1>5. fields[f] \subseteq read(f)
  <2> HIDE DEF read
  <2> QED BY <1>3, <1>4 DEF ReadField, First, columns
<1>6. PICK y \in Joining(ctx, rows, node, f) : z = inner[y]
  BY <1>2, <1>5
<1> QED BY <1>2, <1>3, <1>6 DEF JoiningAll, joins

(* The nodes of a valid read are valid ones, however deep. *)
LEMMA NodesAreOK ==
  ASSUME NEW ctx, NEW rows, \A r \in rows : RowOK(r), NEW node, node.row \in rows,
         ~ArgsInvalid(node.row.table, node.args), NEW g, NodesFrom(node, ctx, rows, g),
         NEW n \in Nat, NEW x \in g[n]
  PROVE  NodeOK(rows, x) /\ LevelOf(x) \in LevelsOf(node.row.table, node.args)
<1> DEFINE S == {m \in Nat : \A y \in g[m] : y.row \in rows}
<1>1. 0 \in S
  BY DEF NodesFrom
<1>2. ASSUME NEW m \in Nat, m \in S PROVE m + 1 \in S
  <2>1. ASSUME NEW z \in g[m + 1] PROVE z.row \in rows
    <3>1. PICK y \in g[m] : z \in JoiningAll(ctx, rows, y)
      <4>1. g[m + 1] = UNION {JoiningAll(ctx, rows, y) : y \in g[m]}
        BY DEF NodesFrom
      <4> QED BY <4>1
    <3>2. PICK f : z \in Joining(ctx, rows, y, f)
      BY <3>1 DEF JoiningAll
    <3>3. Correlated(y.row, f, rows) \subseteq rows
      BY DEF Correlated
    <3> QED BY <3>2, <3>3 DEF Joining, UnionNodes, TableNodes, Node
  <2> QED BY <2>1
<1>3. n \in S
  <2> HIDE DEF S
  <2> QED BY <1>1, <1>2, NatSetInduction
<1>4. LevelOf(x) \in LevelsOf(node.row.table, node.args)
  <2>1. LevelOf(x) \in Levels(LevelOf(node), Sublevels)[n]
    BY NodesHaveLevels
  <2>2. Levels(LevelOf(node), Sublevels)[n] \subseteq LevelsOf(node.row.table, node.args)
    BY LevelsOfHeld DEF LevelOf
  <2> QED BY <2>1, <2>2
<1>5. JoinNames(JoinOf(x)) \subseteq Relations(x.row.table)
  <2>1. ~SelectInvalid(x.row.table, x.args)
    BY <1>4 DEF ArgsInvalid, LevelOf
  <2>2. JoinNames(JoinOf(x)) = JoinNames(x.args.join) \cup Picked(x.row.table, x.args)
    <3> DEFINE picked == Picked(x.row.table, x.args)
               added == {<<f, Everything(f)>> : f \in picked}
    <3> HIDE DEF picked
    <3>1. {entry[1] : entry \in added} = picked
      <4>1. ASSUME NEW f \in picked PROVE f \in {entry[1] : entry \in added}
        <5>1. <<f, Everything(f)>> \in added /\ <<f, Everything(f)>>[1] = f
          OBVIOUS
        <5> HIDE DEF added
        <5> QED BY <5>1
      <4>2. ASSUME NEW entry \in added PROVE entry[1] \in picked
        OBVIOUS
      <4> HIDE DEF added
      <4> QED BY <4>1, <4>2
    <3>2. JoinOf(x) = x.args.join \cup added
      BY DEF JoinOf, ReadJoin, picked
    <3> HIDE DEF added
    <3> QED BY <3>1, <3>2 DEF JoinNames, picked
  <2> QED BY <2>1, <2>2 DEF SelectInvalid, Picked
<1> QED BY <1>3, <1>4, <1>5 DEF NodeOK

\* What is read of a node, each of the nodes joined read from its own row.
ReadOf(ctx, rows, z, y) ==
  \E inner : /\ z = Reading(ctx, rows, y, inner)
             /\ \A w \in JoiningAll(ctx, rows, y) : inner[w].row = Ref(w.row) /\ inner[w].key = w.key

(* Every record within a record is read of a node of it. *)
LEMMA RecordsAreRead ==
  ASSUME NEW ctx, NEW rows, \A r \in rows : RowOK(r), NEW node, node.row \in rows,
         ~ArgsInvalid(node.row.table, node.args), ReadsDown(node.row.table, node.args),
         NEW z \in Records(Record(ctx, rows, node))
  PROVE  \E n \in Nat : \E y \in NodeLevels(ctx, rows, node)[n] : ReadOf(ctx, rows, z, y)
<1> DEFINE g == NodeLevels(ctx, rows, node)
           levels == Levels(LevelOf(node), Sublevels)
           record == Record(ctx, rows, node)
           below == CHOOSE below : WithinIs(below, RecordLevels(record))
<1>1. NodesFrom(node, ctx, rows, g)
  BY NodesHeld
<1>2. PICK d \in Nat : levels[d] = {}
  BY DEF ReadsDown, LevelOf
<1>3. \A n \in Nat : \A x \in g[n] : LevelOf(x) \in levels[n]
  BY <1>1, NodesHaveLevels
<1> HIDE DEF g, levels
<1>4. g[d] = {}
  BY <1>2, <1>3
<1>5. \A n \in Nat : g[n] = {} => g[n + 1] = {}
  BY <1>1 DEF NodesFrom
<1>6. EmptyFrom(g, d)
  BY <1>2, <1>4, <1>5, EmptyBelow
<1>7. PICK f : Computes(f, g, "node", ctx, rows) /\ record = f[0][node]
  BY <1>2, <1>6, RecordComputed DEF g
<1> HIDE DEF record
<1>8. \A n \in Nat : \A y \in g[n] : f[n][y] = Reading(ctx, rows, y, f[n + 1])
  BY <1>7 DEF Computes, Computed
<1> DEFINE At(n) == RecordLevels(record)[n]
           S == {n \in Nat : \A x \in At(n) : \E y \in g[n] : x = f[n][y]}
<1>9. At(0) = {record} /\ \A n \in Nat : At(n + 1) = UNION {JoinedRecords(x) : x \in At(n)}
  BY RecordsHeld
<1> HIDE DEF At
<1>10. 0 \in S
  BY <1>1, <1>7, <1>9 DEF NodesFrom
<1>11. ASSUME NEW n \in Nat, n \in S PROVE n + 1 \in S
  <2>1. ASSUME NEW x \in At(n + 1) PROVE \E w \in g[n + 1] : x = f[n + 1][w]
    <3>1. PICK v \in At(n) : x \in JoinedRecords(v)
      BY <1>9
    <3>2. PICK y \in g[n] : v = f[n][y]
      BY <1>11
    <3> DEFINE inner == f[n + 1]
    <3>3. v = Reading(ctx, rows, y, inner)
      BY <1>8, <3>2
    <3>4. NodeOK(rows, y)
      BY <1>1, NodesAreOK
    <3> HIDE DEF inner
    <3>5. PICK w \in JoiningAll(ctx, rows, y) : x = inner[w]
      <4>1. x \in JoinedRecords(Reading(ctx, rows, y, inner))
        BY <3>1, <3>3
      <4> HIDE DEF S, below
      <4>2. \A u \in JoinedRecords(Reading(ctx, rows, y, inner)) :
              \E w \in JoiningAll(ctx, rows, y) : u = inner[w]
        BY <3>4, JoinedAreJoining
      <4> QED BY <4>1, <4>2
    <3>6. w \in g[n + 1]
      BY <1>1 DEF NodesFrom
    <3> QED BY <3>5, <3>6 DEF inner
  <2> QED BY <2>1
<1>12. Nat \subseteq S
  <2> HIDE DEF S
  <2> QED BY <1>10, <1>11, NatSetInduction
<1>13. EmptyFrom(RecordLevels(record), d)
  BY <1>6, <1>12 DEF EmptyFrom, At
<1>14. z \in below[0] /\ WithinIs(below, RecordLevels(record))
  <2>1. Records(record) = below[0]
    BY DEF Records, Within, WithinIs, RecordLevels
  <2>2. \E b : WithinIs(b, RecordLevels(record))
    BY BelowExists
  <2> QED BY <2>1, <2>2 DEF record
<1> HIDE DEF below
<1>15. PICK n \in Nat : z \in At(n)
  BY <1>2, <1>13, <1>14, BelowIsLevels DEF At
<1>16. PICK y \in g[n] : z = f[n][y]
  BY <1>12, <1>15
<1>17. ASSUME NEW w \in JoiningAll(ctx, rows, y)
       PROVE  f[n + 1][w].row = Ref(w.row) /\ f[n + 1][w].key = w.key
  <2>1. n + 1 \in Nat /\ w \in g[n + 1]
    BY <1>1, <1>16 DEF NodesFrom
  <2>2. f[n + 1][w] = Reading(ctx, rows, w, f[(n + 1) + 1])
    BY <1>8, <2>1
  <2> QED BY <2>2 DEF Reading
<1> QED BY <1>8, <1>16, <1>17 DEF ReadOf, g

----------------------------------------------------------------------------
\* A read of the union that leaves out no member, and no row of any.
Unnarrowed(args) ==
  /\ args.where = {}
  /\ \A alias \in Aliases : OwnArgs(args, alias) # Null /\ OwnArgs(args, alias).where = {}

(* An empty where leaves every member its rows: it folds to itself, and with a member's own that  *)
(* is empty too, it selects everything.                                                           *)
LEMMA UnnarrowedReads ==
  ASSUME NEW args, Unnarrowed(args), NEW alias \in Aliases
  PROVE  alias \in Branches(args) /\ \A r : Selects(BranchArgs(args, alias).where, r)
<1> DEFINE where == {And({{}})}
<1>1. Parts({}) = {} /\ Keyless({})
  BY DEF Parts, Keyless
<1>2. Nested({}, 0 + 1) /\ TableWhere({}, 0 + 1)
  BY <1>1, PartsNested, TableWhereParts
<1>3. FoldKey({}, alias) = {{}}
  <2>1. FoldKey({}, alias) = Computed("fold", alias, 0, {}, [p \in Parts({}) |-> ValueOf("fold", alias, p)])
    BY <1>2, ValuesAre, ValueUnfolds DEF OfWheres
  <2> QED BY <2>1 DEF Computed, AllOf, Nothing
<1>4. BranchArgs(args, alias).where = where
  BY <1>3 DEF BranchArgs, Unnarrowed
<1>5. alias \in Branches(args)
  BY <1>3 DEF Branches, Unnarrowed, Nothing
<1>6. ASSUME NEW r PROVE Build(where, r) = None
  <2>1. Parts(where) = {{}} /\ Keyless(where)
    BY DEF Parts, Keyless, And, IsKey, IsField, IsGroup
  <2>2. TableWhere(where, 1 + 1)
    <3>1. TableWhere({}, 1)
      <4>1. 0 + 1 = 1
        OBVIOUS
      <4> QED BY <1>2, <4>1
    <3> HIDE DEF where
    <3>2. \A p \in Parts(where) : TableWhere(p, 1)
      BY <2>1, <3>1
    <3> QED BY <2>1, <3>2, TableWhereParts
  <2>3. Build({}, r) = None
    <3>1. Build({}, r) = Together(ConditionsOf({}, r))
      BY <1>2, BuildIs
    <3> QED BY <3>1 DEF ConditionsOf, Together
  <2>4. OnRow(And({{}}), r) = GroupConditions("and", {Build(p, r) : p \in {{}}})
    <3> DEFINE of == {{}}
    <3> HIDE DEF of
    <3>1. OnRow(And(of), r) = GroupConditions("and", {Build(p, r) : p \in of})
      BY GroupOnRow
    <3> QED BY <3>1 DEF of
  <2>5. OnRow(And({{}}), r) = {}
    BY <2>3, <2>4 DEF GroupConditions
  <2>6. ConditionsOf(where, r) = {}
    BY <2>5 DEF ConditionsOf
  <2>7. Build(where, r) = Together(ConditionsOf(where, r))
    <3> HIDE DEF where
    <3> QED BY <2>2, BuildIs
  <2> QED BY <2>6, <2>7 DEF Together
<1> HIDE DEF where
<1> QED BY <1>4, <1>5, <1>6 DEF Selects

(* A row in reach satisfies the boundary's predicate, whatever the client. *)
LEMMA ReachedIsBounded ==
  ASSUME NEW ctx, NEW r, Reach(ctx, r) PROVE TenantPredicate(ctx, r)
BY DEF Reach, TenantPredicate

\* A record's post is the row its postId names, and there is one if that row is the client's.
Named(ctx, rows, record) ==
  {"post", "postId"} \subseteq DOMAIN record.fields =>
    LET posts == record.fields.post
        id == record.fields.postId
    IN /\ \A post \in posts : id = post.row /\ KeyOf(id) = post.key
       /\ id # Null /\ (\E r \in rows : Ref(r) = id /\ TenantPredicate(ctx, r)) => posts # {}

\* What an entry's postId reads as, its discriminator read with it.
ReadPostId(r) ==
  IF r.postId = Null THEN Null ELSE IF r.kind \in Aliases THEN <<r.kind, r.postId>> ELSE <<"", r.postId>>

(* A record that reads both its post and its postId: an entry's. *)
LEMMA BothRead ==
  ASSUME NEW ctx, NEW rows, NEW node, NodeOK(rows, node), NEW inner,
         {"post", "postId"} \subseteq DOMAIN Reading(ctx, rows, node, inner).fields
  PROVE  /\ "post" \in JoinNames(JoinOf(node))
         /\ Reading(ctx, rows, node, inner).fields.postId = ReadPostId(node.row)
         /\ Reading(ctx, rows, node, inner).fields.post
              = First({inner[y] : y \in Joining(ctx, rows, node, "post")})
<1> DEFINE columns == ReadColumns(node.row.table, node.args)
           joins == JoinNames(JoinOf(node))
           read(f) == IF f \in joins THEN {inner[y] : y \in Joining(ctx, rows, node, f)} ELSE {}
           fields == [f \in columns \cup joins |-> ReadField(node, f, read(f))]
<1>1. Reading(ctx, rows, node, inner).fields = fields
  BY DEF Reading
<1>2. joins \subseteq {"post", "entries"}
  BY DEF NodeOK, Relations
<1>3. columns \subseteq Columns(node.row.table) /\ node.row.table \in Tables
  BY DEF ReadColumns, NodeOK, RowOK
<1>4. {"post", "postId"} \subseteq columns \cup joins
  BY <1>1
<1>5. "post" \notin columns /\ "post" \in joins /\ "postId" \in columns
  <2> HIDE DEF columns, joins
  <2> QED BY <1>2, <1>3, <1>4, RelationsApart
<1>6. fields["postId"] = ReadField(node, "postId", read("postId"))
  BY <1>4
<1>7. fields["post"] = ReadField(node, "post", read("post"))
  BY <1>4
<1> HIDE DEF fields, read
<1>8. fields["postId"] = ReadColumn(node.row, "postId", Projected(columns))
  BY <1>5, <1>6 DEF ReadField, columns
<1>9. Discriminator \in Projected(columns)
  <2> HIDE DEF columns
  <2> QED BY <1>5 DEF Projected
<1>10. ReadColumn(node.row, "postId", Projected(columns)) = ReadPostId(node.row)
  <2> HIDE DEF columns
  <2> QED BY <1>9 DEF ReadColumn, ReadPostId
<1>11. fields["post"] = First(read("post"))
  BY <1>5, <1>7 DEF ReadField, columns
<1> QED BY <1>1, <1>5, <1>8, <1>10, <1>11 DEF read

(* A post that is joined is the row the id names. *)
LEMMA JoinedIsNamed ==
  ASSUME NEW ctx, NEW rows, NEW node, NEW y \in Joining(ctx, rows, node, "post")
  PROVE  ReadPostId(node.row) = Ref(y.row) /\ y.key = y.row.table
<1>1. PICK r \in Correlated(node.row, "post", rows) : y.row = r /\ y.key = r.table
  BY DEF Joining, UnionNodes, Node
<1>2. r.table \in Aliases /\ Eq3(r.id, node.row.postId) = "true" /\ Eq3(node.row.kind, r.table) = "true"
  BY DEF Correlated, Discriminator
<1>3. /\ node.row.postId # Null /\ node.row.postId = r.id
      /\ node.row.kind = r.table
  BY <1>2 DEF Eq3, AsTruth
<1> QED BY <1>1, <1>2, <1>3 DEF ReadPostId, Ref

(* The row the id names is joined, if it is the client's and the join leaves none out. *)
LEMMA NamedIsJoined ==
  ASSUME NEW ctx, NEW rows, NEW node, Unnarrowed(Joined(JoinOf(node), "post")),
         NEW r \in rows, RowOK(r), TenantPredicate(ctx, r),
         ReadPostId(node.row) # Null, Ref(r) = ReadPostId(node.row)
  PROVE  Joining(ctx, rows, node, "post") # {}
<1> DEFINE args == Joined(JoinOf(node), "post")
<1>1. r.table \in Tables /\ r.table # "" /\ r.id # Null
  BY SchemaAssumption, IdsAssumption DEF RowOK, Tables
<1>2. node.row.postId # Null
  BY DEF ReadPostId
<1>3. /\ node.row.kind \in Aliases
      /\ node.row.kind = r.table /\ node.row.postId = r.id
  BY <1>1, <1>2 DEF ReadPostId, Ref
<1>4. Null \notin Aliases
  BY SchemaAssumption
<1>5. r \in Correlated(node.row, "post", rows)
  BY <1>1, <1>3, <1>4 DEF Correlated, Eq3, AsTruth, Discriminator
<1> HIDE DEF args
<1>6. r.table \in Branches(args) /\ Selects(BranchArgs(args, r.table).where, r)
  BY <1>3, UnnarrowedReads DEF args
<1>7. Node(r, BranchArgs(args, r.table), r.table) \in UnionNodes(ctx, Correlated(node.row, "post", rows), args)
  BY <1>5, <1>6 DEF UnionNodes, Where
<1> QED BY <1>7 DEF Joining, args

(* So what is read of an entry names its post. *)
LEMMA NodeNamed ==
  ASSUME NEW ctx, NEW rows, \A r \in rows : RowOK(r), NEW node, NodeOK(rows, node),
         \A entry \in JoinOf(node) : entry[1] = "post" => Unnarrowed(entry[2]),
         NEW z, ReadOf(ctx, rows, z, node)
  PROVE  Named(ctx, rows, z)
<1> SUFFICES ASSUME {"post", "postId"} \subseteq DOMAIN z.fields
             PROVE  /\ \A post \in z.fields.post : z.fields.postId = post.row
                                                   /\ KeyOf(z.fields.postId) = post.key
                    /\ z.fields.postId # Null
                       /\ (\E r \in rows : Ref(r) = z.fields.postId /\ TenantPredicate(ctx, r))
                       => z.fields.post # {}
  BY DEF Named
<1>1. PICK inner : /\ z = Reading(ctx, rows, node, inner)
                   /\ \A w \in JoiningAll(ctx, rows, node) : inner[w].row = Ref(w.row) /\ inner[w].key = w.key
  BY DEF ReadOf
<1> DEFINE joining == Joining(ctx, rows, node, "post")
           records == {inner[y] : y \in joining}
<1>2. /\ "post" \in JoinNames(JoinOf(node))
      /\ z.fields.postId = ReadPostId(node.row)
      /\ z.fields.post = First(records)
  BY <1>1, BothRead
<1>3. First(records) \subseteq records /\ (records # {} => First(records) # {})
  <2> HIDE DEF records
  <2> QED BY DEF First
<1>4. joining \subseteq JoiningAll(ctx, rows, node)
  BY <1>2 DEF JoiningAll
<1>5. ASSUME NEW post \in z.fields.post
      PROVE  z.fields.postId = post.row /\ KeyOf(z.fields.postId) = post.key
  <2>1. PICK y \in joining : post = inner[y]
    BY <1>2, <1>3
  <2>2. post.row = Ref(y.row) /\ post.key = y.key
    BY <1>1, <1>4, <2>1
  <2>3. ReadPostId(node.row) = Ref(y.row) /\ y.key = y.row.table
    BY <2>1, JoinedIsNamed
  <2> QED BY <1>2, <2>2, <2>3 DEF KeyOf, Ref
<1>6. ASSUME z.fields.postId # Null, NEW r \in rows, Ref(r) = z.fields.postId, TenantPredicate(ctx, r)
      PROVE  z.fields.post # {}
  <2>1. PICK entry \in JoinOf(node) : entry[1] = "post" /\ entry[2] = Joined(JoinOf(node), "post")
    BY <1>2, JoinedArgs
  <2>2. joining # {}
    BY <1>2, <1>6, <2>1, NamedIsJoined
  <2> HIDE DEF joining
  <2>3. records # {}
    BY <2>2
  <2> QED BY <1>2, <1>3, <2>3
<1> QED BY <1>5, <1>6

----------------------------------------------------------------------------
RecordsNamed(ctx, rows, records) == \A record \in records : \A z \in Records(record) : Named(ctx, rows, z)

\* A read whose joins end somewhere, no posts joined left out by a where.
WholeJoins(table, args) == \A entry \in ReadJoin(table, args) : entry[1] = "post" => Unnarrowed(entry[2])
ReadsWhole(table, args) ==
  ReadsDown(table, args) /\ \A level \in LevelsOf(table, args) : WholeJoins(level[1], level[2])

(* Every record of a read names its post, at any depth. *)
LEMMA RecordNamed ==
  ASSUME NEW ctx, NEW rows, \A r \in rows : RowOK(r), NEW node, node.row \in rows,
         ~ArgsInvalid(node.row.table, node.args), ReadsWhole(node.row.table, node.args),
         NEW z \in Records(Record(ctx, rows, node))
  PROVE  Named(ctx, rows, z)
<1>1. PICK n \in Nat : \E y \in NodeLevels(ctx, rows, node)[n] : ReadOf(ctx, rows, z, y)
  BY RecordsAreRead DEF ReadsWhole
<1>2. PICK y \in NodeLevels(ctx, rows, node)[n] : ReadOf(ctx, rows, z, y)
  BY <1>1
<1>3. NodesFrom(node, ctx, rows, NodeLevels(ctx, rows, node))
  BY NodesHeld
<1>4. NodeOK(rows, y) /\ LevelOf(y) \in LevelsOf(node.row.table, node.args)
  BY <1>2, <1>3, NodesAreOK
<1>5. \A entry \in JoinOf(y) : entry[1] = "post" => Unnarrowed(entry[2])
  BY <1>4 DEF ReadsWhole, WholeJoins, LevelOf, JoinOf
<1> QED BY <1>2, <1>4, <1>5, NodeNamed

(* Those a table's read answers. *)
LEMMA TableRecordsNamed ==
  ASSUME NEW ctx, NEW rows, \A r \in rows : RowOK(r), NEW table, NEW args,
         ~ArgsInvalid(table, args), ReadsWhole(table, args)
  PROVE  RecordsNamed(ctx, rows, TableRecords(ctx, rows, table, args))
<1>1. ASSUME NEW record \in TableRecords(ctx, rows, table, args), NEW z \in Records(record)
      PROVE  Named(ctx, rows, z)
  <2>1. PICK node \in TableNodes(ctx, Rows(rows, table), args) : record = Record(ctx, rows, node)
    BY DEF TableRecords
  <2>2. node.row \in rows /\ node.row.table = table /\ node.args = args
    BY DEF TableNodes, Node, Rows
  <2> QED BY <1>1, <2>1, <2>2, RecordNamed
<1> QED BY <1>1 DEF RecordsNamed

(* Those a union's read answers. *)
LEMMA UnionRecordsNamed ==
  ASSUME NEW ctx, NEW rows, \A r \in rows : RowOK(r), NEW args,
         \A alias \in Branches(args) : /\ ~ArgsInvalid(alias, BranchArgs(args, alias))
                                       /\ ReadsWhole(alias, BranchArgs(args, alias))
  PROVE  RecordsNamed(ctx, rows, UnionRecords(ctx, rows, args))
<1>1. ASSUME NEW record \in UnionRecords(ctx, rows, args), NEW z \in Records(record)
      PROVE  Named(ctx, rows, z)
  <2>1. PICK node \in UnionNodes(ctx, rows, args) : record = Record(ctx, rows, node)
    BY DEF UnionRecords
  <2>2. /\ node.row \in rows /\ node.row.table \in Branches(args)
        /\ node.args = BranchArgs(args, node.row.table)
    BY DEF UnionNodes, Node
  <2>3. ~ArgsInvalid(node.row.table, node.args) /\ ReadsWhole(node.row.table, node.args)
    BY <2>2
  <2> QED BY <1>1, <2>1, <2>2, <2>3, RecordNamed
<1> QED BY <1>1 DEF RecordsNamed

(* A record that reads no relation holds no other, and joins no post to disagree with. *)
LEMMA PlainNamed ==
  ASSUME NEW ctx, NEW rows, NEW record, {"post", "entries"} \cap DOMAIN record.fields = {},
         NEW z \in Records(record)
  PROVE  Named(ctx, rows, z)
<1> DEFINE levels == RecordLevels(record)
           below == CHOOSE below : WithinIs(below, levels)
<1>1. levels[0] = {record} /\ \A n \in Nat : levels[n + 1] = UNION {JoinedRecords(x) : x \in levels[n]}
  BY RecordsHeld
<1>2. \E b : WithinIs(b, levels)
  BY BelowExists
<1>3. Records(record) = below[0]
  BY DEF Records, Within, WithinIs, RecordLevels
<1> HIDE DEF levels
<1>4. WithinIs(below, levels)
  BY <1>2
<1> HIDE DEF below
<1>5. JoinedRecords(record) = {}
  BY DEF JoinedRecords
<1>6. levels[1] = {}
  <2>1. 0 + 1 = 1 /\ levels[0 + 1] = UNION {JoinedRecords(x) : x \in levels[0]}
    BY <1>1
  <2> QED BY <1>1, <1>5, <2>1
<1>7. EmptyFrom(levels, 1)
  BY <1>1, <1>6, EmptyBelow
<1>8. PICK n \in Nat : z \in levels[n]
  BY <1>3, <1>4, <1>7, BelowIsLevels
<1>9. n = 0
  BY <1>7, <1>8 DEF EmptyFrom
<1>10. z = record
  BY <1>1, <1>8, <1>9
<1> QED BY <1>10 DEF Named

(* What a write returns reads columns alone. *)
LEMMA ReturnedNamed ==
  ASSUME NEW ctx, NEW rows, NEW table \in Tables, NEW S
  PROVE  RecordsNamed(ctx, rows, Returned(table, S))
<1>1. ASSUME NEW record \in Returned(table, S) PROVE {"post", "entries"} \cap DOMAIN record.fields = {}
  <2>1. DOMAIN record.fields = Columns(table)
    BY DEF Returned, ReadFields
  <2> QED BY <2>1, RelationsApart
<1> QED BY <1>1, PlainNamed DEF RecordsNamed

(* One of the records named is named. *)
LEMMA OneNamed ==
  ASSUME NEW ctx, NEW rows, NEW records, RecordsNamed(ctx, rows, records), NEW one \in OneOf(records)
  PROVE  RecordsNamed(ctx, rows, one) /\ one \subseteq records
BY DEF OneOf, RecordsNamed

(* A refusal or a count has no records. *)
LEMMA NothingNamed ==
  ASSUME NEW ctx, NEW rows, NEW outcome, outcome.records = {}
  PROVE  RecordsNamed(ctx, rows, outcome.records)
BY DEF RecordsNamed

----------------------------------------------------------------------------
(* findOne and findMany on a table. *)
LEMMA FindNamed ==
  ASSUME NEW ctx, NEW rows, \A r \in rows : RowOK(r), NEW table, NEW args, ReadsWhole(table, args),
         NEW one \in BOOLEAN, NEW outcome \in FindOutcomes(ctx, rows, table, args, one)
  PROVE  RecordsNamed(ctx, rows, outcome.records)
<1> DEFINE records == TableRecords(ctx, rows, table, args)
           founds == IF one THEN OneOf(records) ELSE {records}
<1>1. CASE \E why : outcome = Refused(why, rows)
  <2>1. outcome.records = {}
    BY <1>1 DEF Refused
  <2> QED BY <2>1, NothingNamed
<1>2. CASE ~\E why : outcome = Refused(why, rows)
  <2>1. ~ArgsInvalid(table, args) /\ \E found \in founds : outcome = Found(found, rows)
    <3> HIDE DEF records
    <3> QED BY <1>2 DEF FindOutcomes, records
  <2>2. PICK found \in founds : outcome = Found(found, rows)
    BY <2>1
  <2>3. RecordsNamed(ctx, rows, records)
    BY <2>1, TableRecordsNamed
  <2>4. outcome.records = found
    BY <2>2 DEF Found
  <2> HIDE DEF records
  <2> QED BY <2>2, <2>3, <2>4, OneNamed
<1> QED BY <1>1, <1>2

(* On the union. *)
LEMMA UnionFindNamed ==
  ASSUME NEW ctx, NEW rows, \A r \in rows : RowOK(r), NEW args,
         \A alias \in Branches(args) : ReadsWhole(alias, BranchArgs(args, alias)),
         NEW one \in BOOLEAN, NEW outcome \in UnionFindOutcomes(ctx, rows, args, one)
  PROVE  RecordsNamed(ctx, rows, outcome.records)
<1> DEFINE records == UnionRecords(ctx, rows, args)
           founds == IF one THEN OneOf(records) ELSE {records}
<1>1. CASE \E why : outcome = Refused(why, rows)
  <2>1. outcome.records = {}
    BY <1>1 DEF Refused
  <2> QED BY <2>1, NothingNamed
<1>2. CASE ~\E why : outcome = Refused(why, rows)
  <2>1. ~UnionArgsInvalid(args) /\ \E found \in founds : outcome = Found(found, rows)
    <3> HIDE DEF records
    <3> QED BY <1>2 DEF UnionFindOutcomes, records
  <2>2. PICK found \in founds : outcome = Found(found, rows)
    BY <2>1
  <2>3. \A alias \in Branches(args) : ~ArgsInvalid(alias, BranchArgs(args, alias))
    BY <2>1 DEF UnionArgsInvalid
  <2>4. RecordsNamed(ctx, rows, records)
    BY <2>3, UnionRecordsNamed
  <2>5. outcome.records = found
    BY <2>2 DEF Found
  <2> HIDE DEF records
  <2> QED BY <2>2, <2>4, <2>5, OneNamed
<1> QED BY <1>1, <1>2

(* By a global id: a row's own columns, tagged. *)
LEMMA FindByIdNamed ==
  ASSUME NEW ctx, NEW rows, NEW gid, NEW outcome \in FindByIdOutcomes(ctx, rows, gid)
  PROVE  RecordsNamed(ctx, rows, outcome.records)
<1> DEFINE table == KeyOf(gid)
           args == ByKeys({gid})
           records == TableRecords(ctx, rows, table, args)
<1>1. CASE outcome = Refused("invalid", rows)
  <2>1. outcome.records = {}
    BY <1>1 DEF Refused
  <2> QED BY <2>1, NothingNamed
<1>2. CASE outcome # Refused("invalid", rows)
  <2>1. table \in Tables
    BY <1>2 DEF FindByIdOutcomes, GlobalIdInvalid
  <2>2. PICK found \in FindOutcomes(ctx, rows, table, args, TRUE) : outcome = Tag(found, table)
    BY <1>2 DEF FindByIdOutcomes
  <2>3. /\ \/ \E why : found = Refused(why, rows)
           \/ \E some \in OneOf(records) : found = Found(some, rows)
    <3> HIDE DEF table, args
    <3> QED BY <2>2 DEF FindOutcomes
  <2>4. /\ found.records = {} \/ \E some \in OneOf(records) : found.records = some
        /\ outcome.records = {[record EXCEPT !.key = table] : record \in found.records}
    <3>1. \E some, why : found = [records |-> some, count |-> 0, refused |-> why, db |-> rows]
      BY <2>3 DEF Found, Refused
    <3>2. outcome.records = {[record EXCEPT !.key = table] : record \in found.records}
      <4> HIDE DEF table, args, records
      <4> QED BY <2>2, <3>1 DEF Tag
    <3>3. found.records = {} \/ \E some \in OneOf(records) : found.records = some
      <4> HIDE DEF table, args, records
      <4> QED BY <2>3 DEF Found, Refused
    <3> QED BY <3>2, <3>3
  <2>5. found.records \subseteq records
    <3> HIDE DEF records
    <3> QED BY <2>4 DEF OneOf
  <2>6. ASSUME NEW record \in records
        PROVE  /\ DOMAIN record = {"row", "key", "fields"}
               /\ {"post", "entries"} \cap DOMAIN record.fields = {}
    <3>1. PICK node \in TableNodes(ctx, Rows(rows, table), args) : record = Record(ctx, rows, node)
      BY DEF TableRecords
    <3>2. node.row.table = table /\ node.args = args
      BY DEF TableNodes, Node, Rows
    <3>3. args.select = {} /\ args.join = {}
      BY DEF ByKeys, Whole
    <3>4. JoinOf(node) = {}
      BY <3>2, <3>3 DEF JoinOf, ReadJoin, Picked
    <3> HIDE DEF table, args
    <3>5. record = Reading(ctx, rows, node, <<>>)
      BY <3>1, <3>4, PlainRecord
    <3>6. DOMAIN record = {"row", "key", "fields"} /\ DOMAIN record.fields = ReadColumns(table, args)
      BY <3>2, <3>4, <3>5 DEF Reading, JoinNames
    <3>7. ReadColumns(table, args) \subseteq Columns(table)
      BY DEF ReadColumns
    <3> QED BY <2>1, <3>6, <3>7, RelationsApart
  <2>7. ASSUME NEW z \in outcome.records PROVE {"post", "entries"} \cap DOMAIN z.fields = {}
    <3>1. PICK record \in found.records : z = [record EXCEPT !.key = table]
      BY <2>4
    <3>2. z.fields = record.fields
      BY <2>5, <2>6, <3>1
    <3> QED BY <2>5, <2>6, <3>1, <3>2
  <2> QED BY <2>7, PlainNamed DEF RecordsNamed
<1> QED BY <1>1, <1>2

(* A global id is stored as its key and its row's id, and reads back as they do. *)
LEMMA StoredReadsBack ==
  ASSUME NEW table \in Tables, NEW data, DataOK(data), ~MutationInvalid(table, data), NamesMember(data),
         NEW r, LET entries == MutationEntries(table, data)
                IN r.kind = entries.kind /\ r.postId = entries.postId
  PROVE  ReadFields(r, Columns(table)).postId = data.postId
<1> DEFINE entries == MutationEntries(table, data)
           columns == Columns(table)
<1>1. "postId" \in DOMAIN data /\ DOMAIN data \subseteq columns /\ data.postId # Null
  BY DEF NamesMember, MutationInvalid
<1>2. table = "entries" /\ "postId" \in columns
  BY <1>1, RelationsApart
<1>3. data.postId \in STRING \X Ids
  BY <1>1 DEF DataOK
<1>4. KeyOf(data.postId) \in Aliases
  BY <1>1 DEF NamesMember, MutationInvalid, DecodeThrows, IsGuid, NodesOf, Dynamic
<1>5. "postId" \notin ReadOnly(table)
  BY ScopesAre DEF ReadOnly
<1>6. entries.kind = KeyOf(data.postId) /\ entries.postId = Raw(data.postId)
  BY <1>1, <1>5 DEF MutationEntries, Discriminator, Stored, IsGuid
<1>7. Raw(data.postId) \in Ids /\ data.postId = <<KeyOf(data.postId), Raw(data.postId)>>
  BY <1>3 DEF Raw, KeyOf
<1>8. r.kind \in Aliases /\ r.postId # Null
  BY <1>4, <1>6, <1>7, IdsAssumption
<1> HIDE DEF entries
<1>9. Discriminator \in Projected(columns)
  <2> HIDE DEF columns
  <2> QED BY <1>2 DEF Projected
<1>10. ReadFields(r, columns).postId = ReadColumn(r, "postId", Projected(columns))
  <2> HIDE DEF columns
  <2> QED BY <1>2 DEF ReadFields
<1>11. ReadColumn(r, "postId", Projected(columns)) = <<r.kind, r.postId>>
  <2> HIDE DEF columns
  <2> QED BY <1>8, <1>9 DEF ReadColumn
<1> QED BY <1>6, <1>7, <1>10, <1>11 DEF entries

\* What is written reads back.
ReadsBack(data, records) ==
  \A record \in records : data # Null /\ NamesMember(data) => record.fields.postId = data.postId

(* What create returns. *)
LEMMA CreateNamed ==
  ASSUME NEW ctx, NEW rows, NEW table \in Tables, NEW data, DataOK(data),
         NEW outcome \in CreateOutcomes(ctx, rows, table, data)
  PROVE  ReadsBack(data, outcome.records) /\ RecordsNamed(ctx, outcome.db, outcome.records)
<1> DEFINE entries == MutationEntries(table, data)
           row(id) == InsertRow(ctx, table, id, entries)
<1>1. CASE \E why : outcome = Refused(why, rows)
  <2>1. outcome.records = {}
    BY <1>1 DEF Refused
  <2> QED BY <2>1, NothingNamed DEF ReadsBack
<1>2. CASE ~\E why : outcome = Refused(why, rows)
  <2>1. ~MutationInvalid(table, data)
    BY <1>2 DEF CreateOutcomes
  <2>2. \E id : outcome = Found(Returned(table, {row(id)}), rows \cup {row(id)})
    <3> HIDE DEF row
    <3> QED BY <1>2 DEF CreateOutcomes, row
  <2>3. PICK id : outcome = Found(Returned(table, {row(id)}), rows \cup {row(id)})
    BY <2>2
  <2>4. outcome.records = Returned(table, {row(id)})
    <3> HIDE DEF row
    <3> QED BY <2>3 DEF Found
  <2>5. ASSUME NamesMember(data) PROVE row(id).kind = entries.kind /\ row(id).postId = entries.postId
    <3>1. DOMAIN entries \subseteq Columns(table) \ Scopes[table] /\ {"kind", "postId"} \subseteq DOMAIN entries
      <4>1. DOMAIN entries \subseteq Columns(table) \ Scopes[table]
        BY <2>1, EntriesWritten
      <4>2. "postId" \notin ReadOnly(table)
        BY ScopesAre DEF ReadOnly
      <4>3. {"kind", "postId"} \subseteq DOMAIN entries
        BY <2>5, <4>2 DEF MutationEntries, NamesMember, Discriminator
      <4> QED BY <4>1, <4>3
    <3> HIDE DEF entries
    <3> QED BY <3>1 DEF InsertRow, AllColumns
  <2> HIDE DEF row
  <2>6. ASSUME NamesMember(data), NEW record \in outcome.records PROVE record.fields.postId = data.postId
    <3>1. record.fields = ReadFields(row(id), Columns(table))
      BY <2>4, <2>6 DEF Returned
    <3> QED BY <2>1, <2>5, <2>6, <3>1, StoredReadsBack
  <2> QED BY <2>4, <2>6, ReturnedNamed DEF ReadsBack
<1> QED BY <1>1, <1>2

(* What update returns. *)
LEMMA UpdateNamed ==
  ASSUME NEW ctx, NEW rows, \A r \in rows : RowOK(r), NEW table \in Tables, NEW data, DataOK(data),
         NEW where, NEW outcome \in UpdateOutcomes(ctx, rows, table, data, where)
  PROVE  ReadsBack(data, outcome.records) /\ RecordsNamed(ctx, outcome.db, outcome.records)
<1> DEFINE entries == MutationEntries(table, data)
           old == TableRows(ctx, rows, table, where)
           new == {UpdateRow(r, entries) : r \in old}
           all == Returned(table, new)
<1>1. CASE \E why : outcome = Refused(why, rows)
  <2>1. outcome.records = {}
    BY <1>1 DEF Refused
  <2> QED BY <2>1, NothingNamed DEF ReadsBack
<1>2. CASE ~\E why : outcome = Refused(why, rows)
  <2>1. ~MutationInvalid(table, data)
    BY <1>2 DEF UpdateOutcomes, UpdateInvalid
  <2>2. \E one \in OneOf(all) : outcome = Found(one, (rows \ old) \cup new)
    <3> HIDE DEF old
    <3> QED BY <1>2 DEF UpdateOutcomes, old
  <2>3. PICK one \in OneOf(all) : outcome.records = one
    <3> HIDE DEF all, old, new
    <3> QED BY <2>2, FoundIs
  <2>4. ASSUME NamesMember(data), NEW record \in all PROVE record.fields.postId = data.postId
    <3>1. PICK r \in old : record.fields = ReadFields(UpdateRow(r, entries), Columns(table))
      BY DEF Returned
    <3>2. DOMAIN r = AllColumns \cup {"table"}
      BY DEF TableRows, Rows, RowOK
    <3>3. {"kind", "postId"} \subseteq DOMAIN entries
      <4>1. "postId" \notin ReadOnly(table)
        BY ScopesAre DEF ReadOnly
      <4> QED BY <2>4, <4>1 DEF MutationEntries, NamesMember, Discriminator
    <3> HIDE DEF entries
    <3>4. /\ UpdateRow(r, entries).kind = entries.kind
          /\ UpdateRow(r, entries).postId = entries.postId
      BY <3>2, <3>3 DEF UpdateRow, AllColumns
    <3> QED BY <2>1, <2>4, <3>1, <3>4, StoredReadsBack DEF entries
  <2>5. RecordsNamed(ctx, outcome.db, all)
    <3> HIDE DEF new
    <3> QED BY ReturnedNamed
  <2> HIDE DEF all
  <2> QED BY <2>3, <2>4, <2>5, OneNamed DEF ReadsBack
<1> QED BY <1>1, <1>2

(* What delete returns. *)
LEMMA DeleteNamed ==
  ASSUME NEW ctx, NEW rows, NEW table \in Tables, NEW where,
         NEW outcome \in DeleteOutcomes(ctx, rows, table, where)
  PROVE  RecordsNamed(ctx, outcome.db, outcome.records)
<1> DEFINE old == TableRows(ctx, rows, table, where)
           all == Returned(table, old)
<1>1. CASE \E why : outcome = Refused(why, rows)
  <2>1. outcome.records = {}
    BY <1>1 DEF Refused
  <2> QED BY <2>1, NothingNamed
<1>2. CASE ~\E why : outcome = Refused(why, rows)
  <2>1. \E one \in OneOf(all) : outcome = Found(one, rows \ old)
    <3> HIDE DEF old
    <3> QED BY <1>2 DEF DeleteOutcomes, old
  <2>2. PICK one \in OneOf(all) : outcome.records = one
    BY <2>1 DEF Found
  <2>3. RecordsNamed(ctx, outcome.db, all)
    BY ReturnedNamed
  <2> HIDE DEF all
  <2> QED BY <2>2, <2>3, OneNamed
<1> QED BY <1>1, <1>2

\* Requests whose reads are whole.
WholeRequest(req) ==
  req.op \in {"findOne", "findMany"} =>
    IF req.on = "posts"
    THEN \A alias \in Branches(req.args) : ReadsWhole(alias, BranchArgs(req.args, alias))
    ELSE ReadsWhole(req.on, req.args)

(* Whatever is asked, what comes of it names its posts, and what it wrote reads back. *)
LEMMA OutcomeNamed ==
  ASSUME NEW ctx, NEW rows, RowsOK(rows), NEW req \in Requests, WholeRequest(req),
         NEW outcome \in Outcomes(ctx, rows, req)
  PROVE  ReadsBack(req.data, outcome.records) /\ RecordsNamed(ctx, outcome.db, outcome.records)
<1>1. "posts" \notin Tables
  BY SchemaAssumption DEF Tables
<1>2. \A r \in rows : RowOK(r)
  BY DEF RowsOK
<1>3. req.op \notin {"create", "update"} => req.data = Null
  BY RequestsAssumption
<1>4. ASSUME req.op \notin {"create", "update"} PROVE ReadsBack(req.data, outcome.records)
  BY <1>3, <1>4 DEF ReadsBack
<1> DEFINE one == req.op = "findOne"
<1>5. one \in BOOLEAN
  OBVIOUS
<1>6. CASE req.op \in {"findOne", "findMany"} /\ req.on \in Tables
  <2>1. Outcomes(ctx, rows, req) = FindOutcomes(ctx, rows, req.on, req.args, one)
    BY <1>1, <1>6 DEF Outcomes
  <2>2. ReadsWhole(req.on, req.args)
    BY <1>1, <1>6 DEF WholeRequest
  <2> HIDE DEF one
  <2>3. RecordsNamed(ctx, rows, outcome.records) /\ outcome.db = rows
    BY <1>2, <1>5, <2>1, <2>2, FindNamed, FindKeeps DEF Keeps
  <2> QED BY <1>4, <1>6, <2>3
<1>7. CASE req.op \in {"findOne", "findMany"} /\ req.on = "posts"
  <2>1. Outcomes(ctx, rows, req) = UnionFindOutcomes(ctx, rows, req.args, one)
    BY <1>1, <1>7 DEF Outcomes
  <2>2. \A alias \in Branches(req.args) : ReadsWhole(alias, BranchArgs(req.args, alias))
    BY <1>7 DEF WholeRequest
  <2> HIDE DEF one
  <2>3. RecordsNamed(ctx, rows, outcome.records) /\ outcome.db = rows
    BY <1>2, <1>5, <2>1, <2>2, UnionFindNamed, UnionFindKeeps DEF Keeps
  <2> QED BY <1>4, <1>7, <2>3
<1>8. CASE req.op \in {"count", "raw"}
  <2>1. \/ outcome \in CountOutcomes(ctx, rows, req.on, req.args.where)
        \/ outcome \in UnionCountOutcomes(ctx, rows, req.args.where)
        \/ outcome \in RawOutcomes(ctx, rows)
    BY <1>1, <1>8, RequestsAssumption DEF Outcomes
  <2>2. \E n, why : outcome = Counted(n, rows) \/ outcome = Refused(why, rows)
    BY <2>1 DEF CountOutcomes, UnionCountOutcomes, RawOutcomes
  <2>3. outcome.records = {}
    BY <2>2 DEF Counted, Refused
  <2> QED BY <1>4, <1>8, <2>3, NothingNamed
<1>9. CASE req.op = "create"
  <2>1. req.on \in Tables /\ DataOK(req.data)
    BY <1>9, RequestsAssumption
  <2>2. Outcomes(ctx, rows, req) = CreateOutcomes(ctx, rows, req.on, req.data)
    BY <1>9 DEF Outcomes
  <2> QED BY <2>1, <2>2, CreateNamed
<1>10. CASE req.op = "update"
  <2>1. req.on \in Tables /\ DataOK(req.data)
    BY <1>10, RequestsAssumption
  <2>2. Outcomes(ctx, rows, req) = UpdateOutcomes(ctx, rows, req.on, req.data, req.args.where)
    BY <1>10 DEF Outcomes
  <2> QED BY <1>2, <2>1, <2>2, UpdateNamed
<1>11. CASE req.op = "delete"
  <2>1. req.on \in Tables
    BY <1>11, RequestsAssumption
  <2>2. Outcomes(ctx, rows, req) = DeleteOutcomes(ctx, rows, req.on, req.args.where)
    BY <1>11 DEF Outcomes
  <2> QED BY <1>4, <1>11, <2>1, <2>2, DeleteNamed
<1>12. CASE req.op = "findById"
  <2>1. Outcomes(ctx, rows, req) = FindByIdOutcomes(ctx, rows, req.id)
    BY <1>12 DEF Outcomes
  <2>2. RecordsNamed(ctx, rows, outcome.records) /\ outcome.db = rows
    BY <2>1, FindByIdNamed, FindByIdKeeps DEF Keeps
  <2> QED BY <1>4, <1>12, <2>2
<1> QED
  BY <1>6, <1>7, <1>8, <1>9, <1>10, <1>11, <1>12, RequestsAssumption

\* What was answered last, to the claims the client had then or to those it derived since.
NamedInv ==
  Answered(last) => /\ ReadsBack(last.request.data, last.outcome.records)
                    /\ RecordsNamed(client, last.outcome.db, last.outcome.records)

(* NamesItsPost reads of it: a row in reach is within the boundary. *)
LEMMA NamedIsNamesItsPost == NamedInv => NamesItsPost
<1> SUFFICES ASSUME NamedInv, Answered(last) PROVE NamesItsPost
  BY DEF NamesItsPost
<1>1. ASSUME NEW record \in last.outcome.records, NEW z \in Records(record),
             {"post", "postId"} \subseteq DOMAIN z.fields
      PROVE  /\ \A post \in z.fields.post : z.fields.postId = post.row /\ KeyOf(z.fields.postId) = post.key
             /\ z.fields.postId # Null
                /\ (\E r \in last.outcome.db : Ref(r) = z.fields.postId /\ Reach(client, r))
                => z.fields.post # {}
  <2>1. Named(client, last.outcome.db, z)
    BY DEF NamedInv, RecordsNamed
  <2> QED BY <1>1, <2>1, ReachedIsBounded DEF Named
<1>2. ASSUME NEW z \in UNION {Records(record) : record \in last.outcome.records}
      PROVE  \E record \in last.outcome.records : z \in Records(record)
  OBVIOUS
<1> QED BY <1>1, <1>2 DEF NamesItsPost, NamedInv, ReadsBack

(* A client derives an identity once, from none: what it read without one it read whole. *)
LEMMA DeriveNamed ==
  ASSUME NEW claims, Derive(claims), NEW rows, NEW records, RecordsNamed(client, rows, records)
  PROVE  RecordsNamed(client', rows, records)
<1>1. \A r : TenantPredicate(client', r) => TenantPredicate(client, r)
  BY DEF Derive, DeriveRefused, TenantPredicate
<1> QED BY <1>1 DEF RecordsNamed, Named

(***************************************************************************)
(* NamesItsPost holds in every reachable state, for requests whose reads   *)
(* end somewhere and join posts without narrowing them; a join narrowed by *)
(* a where of its own is free to leave the post out. What reads both an    *)
(* entry's postId and its post reads them of one row: the join's two       *)
(* correlations are what the id is made of, so a post joined is the row    *)
(* named (JoinedIsNamed), and the row named is joined when the boundary of *)
(* its member lets the client see it (NamedIsJoined). Every record within  *)
(* an answer, however deep, is such a reading (RecordsAreRead).            *)
(***************************************************************************)
THEOREM ClientNamesItsPost ==
  ASSUME \A req \in Requests : WholeRequest(req) PROVE Spec => []NamesItsPost
<1>1. Init => NamedInv
  BY DEF Init, NamedInv, Answered
<1>2. ASSUME TypeOK, NamedInv, [Next]_vars PROVE NamedInv'
  <2>1. CASE \E req \in Requests : Ask(req)
    <3>1. PICK req \in Requests : Ask(req)
      BY <2>1
    <3>2. PICK outcome \in Outcomes(client, db, req) : last' = [request |-> req, outcome |-> outcome]
      BY <3>1 DEF Ask
    <3>3. /\ ReadsBack(req.data, outcome.records)
          /\ RecordsNamed(client, outcome.db, outcome.records)
      BY <1>2, <3>2, OutcomeNamed DEF TypeOK
    <3>4. client' = client
      BY <3>1 DEF Ask
    <3> QED BY <3>2, <3>3, <3>4 DEF NamedInv
  <2>2. CASE \E claims \in Given : Derive(claims)
    <3>1. PICK claims \in Given : Derive(claims)
      BY <2>2
    <3>2. last' = last
      BY <3>1 DEF Derive
    <3> QED BY <1>2, <3>1, <3>2, DeriveNamed DEF NamedInv, Answered
  <2>3. CASE \E gids \in Lists : StartList(gids)
    BY <2>3 DEF StartList, NamedInv, Answered
  <2>4. CASE FinishList
    <3>1. "outcome" \notin DOMAIN last'
      BY <2>4 DEF FinishList
    <3> QED BY <3>1 DEF NamedInv, Answered
  <2>5. CASE UNCHANGED <<client, last>>
    BY <1>2, <2>5 DEF NamedInv, Answered
  <2>6. (\E node \in Tables : RunGroup(node)) \/ (\E r \in db : OtherDelete(r))
        \/ (\E r \in db, name \in Names : OtherRename(r, name)) \/ UNCHANGED vars
        => UNCHANGED <<client, last>>
    BY DEF RunGroup, OtherDelete, OtherRename, Write, vars
  <2> QED BY <1>2, <2>1, <2>2, <2>3, <2>4, <2>5, <2>6 DEF Next
<1>3. Spec => []NamedInv
  BY <1>1, <1>2, ClientTyped, PTL DEF Spec
<1> QED BY <1>3, NamedIsNamesItsPost, PTL
=============================================================================
