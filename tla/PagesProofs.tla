---------------------------- MODULE PagesProofs ----------------------------
(***************************************************************************)
(* Pages does what it promises, for any tables, keys, requests and bounds. *)
(* Each theorem follows from the invariant Inv at the end, which says      *)
(* three things of a step: a cursor that is not refused is one taken on a  *)
(* row of its source (the row may be gone), the page a request has read is *)
(* of one state of the tables, and the reader that goes on holds exactly   *)
(* the rows that stayed and that it has passed.                            *)
(*                                                                         *)
(* On the way to it: sql.keyset's condition is ORDER BY's order, for any   *)
(* list of keys; the order the code builds, and the one a branch of a      *)
(* union keeps, are the documented one; what ORDER BY and LIMIT return are *)
(* the nearest rows, of a union too, whose branches each keep the nearest  *)
(* of their own.                                                           *)
(***************************************************************************)
EXTENDS Pages, ListProofs

Keys == [field : OrderFields, dir : OrderDirs, nullable : BOOLEAN]

(* The term a page that is read that way orders by, for one key.           *)
TermOf(key, bound) ==
    Render(IF bound = "before" THEN [key EXCEPT !.dir = Flip(@)] ELSE key)

\* What sql.keyset does not throw on, and what a column that is NOT NULL holds.
Holdable(key, v) == key.nullable \/ v # Null

-----------------------------------------------------------------------------
(* A disjunction is true when one of its members is.                       *)
LEMMA AnyTrue ==
    ASSUME NEW S
    PROVE  Any3(S) = "true" <=> "true" \in S
BY DEF Any3

(* A conjunction of two truth values is true when both are.                *)
LEMMA BothTrue ==
    ASSUME NEW a \in Truth, NEW b \in Truth
    PROVE  All3({a, b}) = "true" <=> a = "true" /\ b = "true"
BY DEF All3, Truth

(* A disjunction has a truth value.                                        *)
LEMMA AnyTyped == ASSUME NEW S PROVE Any3(S) \in Truth
BY DEF Any3, Truth

(* A tie of two values has a truth value.                                  *)
LEMMA TieTyped ==
    ASSUME NEW value \in Value, NEW v \in Value
    PROVE  Tie(value, v) \in Truth
BY DEF Tie, Eq3, IsNull3, AsTruth, Truth

(* A row ties with the cursor when it has its value, or NULL as it has.    *)
LEMMA TieIsEquality ==
    ASSUME NEW value \in Value, NEW v \in Value
    PROVE  Tie(value, v) = "true" <=> v = value
BY DEF Tie, Eq3, IsNull3, AsTruth

-----------------------------------------------------------------------------
(* The conditions sql.keyset writes for one key are true of exactly the    *)
(* rows that ORDER BY puts past the cursor on it (tag.ts: the table of the *)
(* directions and nulls).                                                  *)
THEOREM PastIsBefore ==
    ASSUME NEW key \in Keys, NEW bound \in {"after", "before"},
           NEW value \in Value, NEW v \in Value,
           Holdable(key, value), Holdable(key, v)
    PROVE  "true" \in PastTerms(key, bound, value, v)
              <=> TermBefore(TermOf(key, bound), value, v)
<1> DEFINE term == TermOf(key, bound)
           ascending == (key.dir = "asc") <=> (bound = "after")
<1>1. /\ term.dir = IF ascending THEN "asc" ELSE "desc"
      /\ term.nulls = IF ascending THEN "last" ELSE "first"
  BY DEF TermOf, Render, Flip, Keys, OrderDirs
<1>2. CASE value = Null
  BY <1>1, <1>2 DEF PastTerms, TermBefore, IsNull3, Not3, AsTruth
<1>3. CASE value # Null /\ v = Null
  BY <1>1, <1>3 DEF PastTerms, TermBefore, IsNull3, Lt3, Gt3, AsTruth, Holdable
<1>4. CASE value # Null /\ v # Null
  <2>1. value \in Nat /\ v \in Nat
    BY <1>4 DEF Value
  <2>2. CASE ascending
    BY <1>1, <1>4, <2>1, <2>2 DEF PastTerms, TermBefore, IsNull3, Lt3, Gt3, AsTruth
  <2>3. CASE ~ ascending
    BY <1>1, <1>4, <2>1, <2>3 DEF PastTerms, TermBefore, Lt3, AsTruth
  <2> QED
    BY <2>2, <2>3
<1> QED
  BY <1>2, <1>3, <1>4

(* A level of the predicate over the conditions T of the keys after it: a  *)
(* row is past on this key, or tied on it and past on those. It is the     *)
(* step by which KeysetCondition, from the last key outwards, becomes      *)
(* OrderedBefore; a level without conditions is one no row can satisfy.    *)
THEOREM LevelIsLexicographic ==
    ASSUME NEW key \in Keys, NEW bound \in {"after", "before"},
           NEW value \in Value, NEW v \in Value,
           Holdable(key, value), Holdable(key, v),
           NEW T
    PROVE  Any3(PastTerms(key, bound, value, v)
                \cup IF T = {} THEN {} ELSE {All3({Tie(value, v), Any3(T)})}) = "true"
              <=> \/ TermBefore(TermOf(key, bound), value, v)
                  \/ v = value /\ Any3(T) = "true"
<1> DEFINE past  == PastTerms(key, bound, value, v)
           inner == IF T = {} THEN {} ELSE {All3({Tie(value, v), Any3(T)})}
<1>1. "true" \in inner <=> v = value /\ Any3(T) = "true"
  <2>1. CASE T = {}
    BY <2>1, AnyTrue
  <2>2. CASE T # {}
    BY <2>2, AnyTyped, TieTyped, TieIsEquality, BothTrue
  <2> QED
    BY <2>1, <2>2
<1>2. Any3(past \cup inner) = "true" <=> "true" \in past \/ "true" \in inner
  BY AnyTrue
<1> QED
  BY <1>1, <1>2, PastIsBefore

-----------------------------------------------------------------------------
(* The predicate on any list of keys.                                      *)

(* The conditions of the levels from the last m of n keys outwards.        *)
LevelsTo(keys, bound, values, row, m, f) ==
    f = [i \in (Len(keys) + 1 - m) .. Len(keys) + 1 |->
            IF i = Len(keys) + 1 THEN {}
            ELSE PastTerms(keys[i], bound, values[i], row[i])
                 \cup IF f[i + 1] = {} THEN {}
                      ELSE {All3({Tie(values[i], row[i]), Any3(f[i + 1])})}]

(* The levels built from the last m keys outwards go one key further.      *)
LEMMA LevelFurther ==
    ASSUME NEW keys, NEW bound, NEW values, NEW row, Len(keys) \in Nat,
           NEW m \in Nat, NEW g, LevelsTo(keys, bound, values, row, m, g)
    PROVE  \E h : LevelsTo(keys, bound, values, row, m + 1, h)
<1> DEFINE n == Len(keys)
           level(i, rest) == IF i = n + 1 THEN {}
              ELSE PastTerms(keys[i], bound, values[i], row[i])
                   \cup IF rest = {} THEN {}
                        ELSE {All3({Tie(values[i], row[i]), Any3(rest)})}
           low == n + 1 - (m + 1)
           h == [i \in low .. n + 1 |-> IF i = low THEN level(i, g[i + 1]) ELSE g[i]]
<1>1. \A i \in low .. n + 1 : i \in (n + 1 - m) .. n + 1 \/ i = low
  OBVIOUS
<1>2. low + 1 = n + 1 - m /\ low + 1 # low /\ low # n + 1
  OBVIOUS
<1>3. \A i \in (n + 1 - m) .. n + 1 : g[i] = level(i, g[i + 1])
  <2> SUFFICES ASSUME NEW i \in (n + 1 - m) .. n + 1 PROVE g[i] = level(i, g[i + 1])
    OBVIOUS
  <2> DEFINE G == [j \in (n + 1 - m) .. n + 1 |-> level(j, g[j + 1])]
  <2>1. g = G
    BY DEF LevelsTo
  <2>2. G[i] = level(i, g[i + 1])
    OBVIOUS
  <2> HIDE DEF G, level
  <2> QED BY <2>1, <2>2
<1>9. \A i \in (n + 1 - m) .. n + 1 : i # low /\ i + 1 # low /\ i \in low .. n + 1
  OBVIOUS
<1>4. ASSUME NEW i \in low .. n + 1 PROVE h[i] = level(i, h[i + 1])
  <2>1. CASE i = low
    <3>1. h[i] = level(i, g[i + 1])
      BY <2>1
    <3>2. h[i + 1] = g[i + 1]
      BY <1>2, <2>1
    <3> QED BY <3>1, <3>2
  <2>2. CASE i # low
    <3>1. i \in (n + 1 - m) .. n + 1 /\ h[i] = g[i]
      BY <1>1, <2>2
    <3>2. i # n + 1 => h[i + 1] = g[i + 1]
      BY <1>1, <1>9, <3>1
    <3>3. g[i] = level(i, g[i + 1])
      BY <1>3, <3>1
    <3> QED BY <3>1, <3>2, <3>3
  <2> QED BY <2>1, <2>2
<1>5. h = [i \in low .. n + 1 |-> h[i]]
  OBVIOUS
<1> HIDE DEF h
<1>6. h = [i \in low .. n + 1 |-> level(i, h[i + 1])]
  BY <1>4, <1>5
<1> QED BY <1>6 DEF LevelsTo

(* The levels of all keys exist, and the condition is that of the          *)
(* outermost (KeysetCondition picks them by CHOOSE).                       *)
LEMMA LevelsExist ==
    ASSUME NEW keys, NEW bound, NEW values, NEW row, Len(keys) \in Nat
    PROVE  \E f : /\ LevelsTo(keys, bound, values, row, Len(keys), f)
                  /\ KeysetCondition(keys, bound, values, row) = Any3(f[1])
<1> DEFINE S == {m \in Nat : \E f : LevelsTo(keys, bound, values, row, m, f)}
<1>1. 0 \in S
  <2>1. LevelsTo(keys, bound, values, row, 0, [i \in Len(keys) + 1 .. Len(keys) + 1 |-> {}])
    BY DEF LevelsTo
  <2> QED BY <2>1
<1>2. \A m \in Nat : m \in S => m + 1 \in S
  BY LevelFurther
<1>3. Nat \subseteq S
  <2> HIDE DEF S
  <2> QED BY <1>1, <1>2, NatSetInduction
<1>4. \E f : LevelsTo(keys, bound, values, row, Len(keys), f)
  BY <1>3
<1> DEFINE F == CHOOSE f : LevelsTo(keys, bound, values, row, Len(keys), f)
<1>5. LevelsTo(keys, bound, values, row, Len(keys), F)
  BY <1>4
<1>6. (Len(keys) + 1 - Len(keys)) .. Len(keys) + 1 = 1 .. Len(keys) + 1
  OBVIOUS
<1>7. KeysetCondition(keys, bound, values, row) = Any3(F[1])
  BY <1>6 DEF KeysetCondition, LevelsTo
<1> QED BY <1>5, <1>7

(* The conditions of one level, over those of the keys after it.           *)
LevelTerms(key, bound, value, v, T) ==
    PastTerms(key, bound, value, v)
    \cup (IF T = {} THEN {} ELSE {All3({Tie(value, v), Any3(T)})})

(* A level decides for a row that is past on its key, or tied there and    *)
(* past on the keys after it.                                              *)
LEMMA LevelDecides ==
    ASSUME NEW key \in Keys, NEW bound \in {"after", "before"},
           NEW value \in Value, NEW v \in Value,
           Holdable(key, value), Holdable(key, v), NEW T
    PROVE  Any3(LevelTerms(key, bound, value, v, T)) = "true"
              <=> TermBefore(TermOf(key, bound), value, v) \/ (v = value /\ Any3(T) = "true")
BY LevelIsLexicographic, SMT DEF LevelTerms

(* The condition sql.keyset builds of any list of keys is true of exactly  *)
(* the rows that ORDER BY on those keys puts past the cursor, as long as a *)
(* key that is not nullable has no NULL.                                   *)
THEOREM KeysetIsOrder ==
    ASSUME NEW keys \in Seq(Keys), NEW bound \in {"after", "before"}, NEW values, NEW row,
           \A i \in DOMAIN keys : /\ values[i] \in Value /\ Holdable(keys[i], values[i])
                                  /\ row[i] \in Value /\ Holdable(keys[i], row[i])
    PROVE  KeysetCondition(keys, bound, values, row) = "true"
              <=> OrderedBefore([i \in DOMAIN keys |-> TermOf(keys[i], bound)], values, row)
<1> DEFINE n == Len(keys)
<1>1. n \in Nat /\ DOMAIN keys = 1..n
  OBVIOUS
<1>2. PICK f : /\ LevelsTo(keys, bound, values, row, n, f)
               /\ KeysetCondition(keys, bound, values, row) = Any3(f[1])
  BY <1>1, LevelsExist
<1> DEFINE Past(i) == TermBefore(TermOf(keys[i], bound), values[i], row[i])
           From1(k) == \E i \in k..n : Past(i) /\ \A j \in k..(i - 1) : values[j] = row[j]
           S == {m \in Nat : m <= n => (Any3(f[n + 1 - m]) = "true" <=> From1(n + 1 - m))}
<1>3. ASSUME NEW i \in 1..n + 1
      PROVE  f[i] = IF i = n + 1 THEN {}
                    ELSE PastTerms(keys[i], bound, values[i], row[i])
                         \cup IF f[i + 1] = {} THEN {}
                              ELSE {All3({Tie(values[i], row[i]), Any3(f[i + 1])})}
  <2>1. (n + 1 - n)..n + 1 = 1..n + 1
    BY <1>1
  <2> HIDE DEF n
  <2> QED BY <1>2, <2>1 DEF LevelsTo, n
<1>4. 0 \in S
  <2>1. f[n + 1] = {}
    <3>1. n + 1 \in 1..n + 1
      BY <1>1
    <3> HIDE DEF n
    <3> QED BY <1>3, <3>1
  <2>2. ~ From1(n + 1)
    BY <1>1
  <2>3. Any3({}) # "true"
    BY AnyTrue
  <2>4. n + 1 - 0 = n + 1
    BY <1>1
  <2> QED BY <2>1, <2>2, <2>3, <2>4
<1>5. ASSUME NEW m \in Nat, m \in S PROVE m + 1 \in S
  <2> SUFFICES ASSUME m + 1 <= n
               PROVE  Any3(f[n + 1 - (m + 1)]) = "true" <=> From1(n + 1 - (m + 1))
    OBVIOUS
  <2> DEFINE k == n + 1 - (m + 1)
  <2>1. k \in 1..n /\ k + 1 = n + 1 - m /\ k # n + 1 /\ k \in 1..n + 1
    BY <1>1
  <2>2. Any3(f[k + 1]) = "true" <=> From1(k + 1)
    BY <1>1, <1>5, <2>1
  <2> HIDE DEF k, n
  <2>3. Any3(f[k]) = "true" <=> Past(k) \/ (row[k] = values[k] /\ Any3(f[k + 1]) = "true")
    <3>1. f[k] = LevelTerms(keys[k], bound, values[k], row[k], f[k + 1])
      BY <1>3, <2>1 DEF LevelTerms
    <3>2. /\ keys[k] \in Keys /\ values[k] \in Value /\ row[k] \in Value
          /\ Holdable(keys[k], values[k]) /\ Holdable(keys[k], row[k])
      BY <1>1, <2>1
    <3>3. Any3(LevelTerms(keys[k], bound, values[k], row[k], f[k + 1])) = "true"
            <=> Past(k) \/ (row[k] = values[k] /\ Any3(f[k + 1]) = "true")
      BY <3>2, LevelDecides
    <3> QED BY <3>1, <3>3
  <2>4. From1(k) <=> Past(k) \/ (row[k] = values[k] /\ From1(k + 1))
    <3> HIDE DEF Past
    <3>1. k \in Int /\ n \in Int /\ k <= n
      BY <1>1, <2>1
    <3>2. ASSUME From1(k) PROVE Past(k) \/ (row[k] = values[k] /\ From1(k + 1))
      <4>1. PICK i \in k..n : Past(i) /\ \A j \in k..(i - 1) : values[j] = row[j]
        BY <3>2
      <4>2. CASE i = k
        BY <4>1, <4>2
      <4>3. CASE i # k
        <5>1. i \in k + 1..n /\ k \in k..(i - 1) /\ \A j \in (k + 1)..(i - 1) : j \in k..(i - 1)
          BY <3>1, <4>3
        <5> QED BY <4>1, <5>1
      <4> QED BY <4>2, <4>3
    <3>3. ASSUME Past(k) PROVE From1(k)
      <4>1. k \in k..n /\ k..(k - 1) = {}
        BY <3>1
      <4> QED BY <3>3, <4>1
    <3>4. ASSUME row[k] = values[k], From1(k + 1) PROVE From1(k)
      <4>1. PICK i \in k + 1..n : Past(i) /\ \A j \in k + 1..(i - 1) : values[j] = row[j]
        BY <3>4
      <4>2. i \in k..n /\ \A j \in k..(i - 1) : j = k \/ j \in k + 1..(i - 1)
        BY <3>1
      <4> QED BY <3>4, <4>1, <4>2
    <3> QED BY <3>2, <3>3, <3>4
  <2>5. Any3(f[k]) = "true" <=> From1(k)
    <3> HIDE DEF From1, Past
    <3> QED BY <2>2, <2>3, <2>4
  <2> QED BY <2>5 DEF k
<1>6. n \in S
  <2> HIDE DEF S
  <2> QED BY <1>1, <1>4, <1>5, NatSetInduction
<1>7. Any3(f[1]) = "true" <=> From1(1)
  <2>1. n + 1 - n = 1 /\ n <= n
    BY <1>1
  <2> HIDE DEF From1, n
  <2> QED BY <1>6, <2>1
<1>8. From1(1) <=> OrderedBefore([i \in DOMAIN keys |-> TermOf(keys[i], bound)], values, row)
  <2> DEFINE terms == [i \in DOMAIN keys |-> TermOf(keys[i], bound)]
  <2>1. DOMAIN terms = 1..n /\ \A i \in 1..n : terms[i] = TermOf(keys[i], bound)
    BY <1>1
  <2> HIDE DEF terms
  <2>2. From1(1) <=> OrderedBefore(terms, values, row)
    BY <2>1 DEF OrderedBefore
  <2> QED BY <2>2 DEF terms
<1> QED BY <1>2, <1>7, <1>8

-----------------------------------------------------------------------------
(* The documented order, key by key and then over lists of keys.           *)

(* a comes before b on one key.                                            *)
RowBefore(key, a, b) ==
    IF key.dir = "asc" THEN Lower(FieldOf(key.field, a), FieldOf(key.field, b))
    ELSE Lower(FieldOf(key.field, b), FieldOf(key.field, a))

(* They tie on it.                                                         *)
Ties(key, a, b) == FieldOf(key.field, a) = FieldOf(key.field, b)

(* They tie on every key of a list,                                        *)
Same(keys, a, b) == \A i \in DOMAIN keys : Ties(keys[i], a, b)

(* or the first key they do not tie on puts a before b.                    *)
Lex(keys, a, b) ==
    \E i \in DOMAIN keys : RowBefore(keys[i], a, b) /\ \A j \in 1 .. (i - 1) : Ties(keys[j], a, b)

(* A list of such keys.                                                    *)
OrderList(keys) ==
    /\ List(keys)
    /\ \A i \in DOMAIN keys : keys[i].field \in OrderFields /\ keys[i].dir \in OrderDirs

(* Every field of a row holds a value or NULL.                             *)
LEMMA FieldTyped ==
    ASSUME NEW r \in Rows, NEW field \in OrderFields
    PROVE  FieldOf(field, r) \in Value
BY DataAssumption DEF FieldOf, OrderFields, Rows, Value

(* Values and NULL, lowest first, are in a strict total order.             *)
LEMMA LowerOrder ==
    ASSUME NEW x \in Value, NEW y \in Value, NEW z \in Value
    PROVE  /\ ~ Lower(x, x)
           /\ Lower(x, y) => ~ Lower(y, x)
           /\ x # y => Lower(x, y) \/ Lower(y, x)
           /\ Lower(x, z) => Lower(x, y) \/ Lower(y, z)
<1>1. \A v \in Value : v = Null \/ v \in Nat
  BY DEF Value
<1> QED BY <1>1, NullAssumption DEF Lower

(* So are rows on one key, but for those that tie.                         *)
LEMMA BeforeOrder ==
    ASSUME NEW key, key.field \in OrderFields,
           NEW a \in Rows, NEW b \in Rows, NEW c \in Rows
    PROVE  /\ RowBefore(key, a, b) => ~ Ties(key, a, b) /\ ~ RowBefore(key, b, a)
           /\ ~ Ties(key, a, b) => RowBefore(key, a, b) \/ RowBefore(key, b, a)
           /\ RowBefore(key, a, c) => RowBefore(key, a, b) \/ RowBefore(key, b, c)
           /\ Ties(key, a, b) => /\ RowBefore(key, a, c) <=> RowBefore(key, b, c)
                                 /\ RowBefore(key, c, a) <=> RowBefore(key, c, b)
<1> DEFINE x == FieldOf(key.field, a)
           y == FieldOf(key.field, b)
           z == FieldOf(key.field, c)
<1>1. x \in Value /\ y \in Value /\ z \in Value
  BY FieldTyped
<1>2. /\ RowBefore(key, a, b) = IF key.dir = "asc" THEN Lower(x, y) ELSE Lower(y, x)
      /\ RowBefore(key, b, a) = IF key.dir = "asc" THEN Lower(y, x) ELSE Lower(x, y)
      /\ RowBefore(key, a, c) = IF key.dir = "asc" THEN Lower(x, z) ELSE Lower(z, x)
      /\ RowBefore(key, c, a) = IF key.dir = "asc" THEN Lower(z, x) ELSE Lower(x, z)
      /\ RowBefore(key, b, c) = IF key.dir = "asc" THEN Lower(y, z) ELSE Lower(z, y)
      /\ RowBefore(key, c, b) = IF key.dir = "asc" THEN Lower(z, y) ELSE Lower(y, z)
      /\ Ties(key, a, b) = (x = y)
  BY DEF RowBefore, Ties
<1> HIDE DEF x, y, z
<1>3. /\ Lower(x, y) => ~ Lower(y, x) /\ x # y
      /\ Lower(y, x) => ~ Lower(x, y) /\ x # y
      /\ x # y => Lower(x, y) \/ Lower(y, x)
      /\ Lower(x, z) => Lower(x, y) \/ Lower(y, z)
      /\ Lower(z, x) => Lower(z, y) \/ Lower(y, x)
  BY <1>1, LowerOrder
<1> QED BY <1>2, <1>3

(* Lists of keys: no row is before one it is the same as, or before one    *)
(* that is before it; two that differ are one before the other; and what   *)
(* lies between two rows is after the one or before the other.             *)
LEMMA LexOrder ==
    ASSUME NEW keys, OrderList(keys), NEW a \in Rows, NEW b \in Rows, NEW c \in Rows
    PROVE  /\ Lex(keys, a, b) => ~ Same(keys, a, b) /\ ~ Lex(keys, b, a)
           /\ ~ Same(keys, a, b) => Lex(keys, a, b) \/ Lex(keys, b, a)
           /\ Lex(keys, a, c) => Lex(keys, a, b) \/ Lex(keys, b, c)
           /\ Same(keys, a, b) => /\ Lex(keys, a, c) <=> Lex(keys, b, c)
                                  /\ Lex(keys, c, a) <=> Lex(keys, c, b)
<1>1. DOMAIN keys = 1..Len(keys) /\ Len(keys) \in Nat
  BY ListProperties DEF OrderList
<1>2. \A i \in DOMAIN keys : keys[i].field \in OrderFields
  BY DEF OrderList
<1>3. \A i \in DOMAIN keys :
        /\ RowBefore(keys[i], a, b) => ~ Ties(keys[i], a, b) /\ ~ RowBefore(keys[i], b, a)
        /\ RowBefore(keys[i], b, a) => ~ Ties(keys[i], a, b)
        /\ ~ Ties(keys[i], a, b) => RowBefore(keys[i], a, b) \/ RowBefore(keys[i], b, a)
        /\ RowBefore(keys[i], a, c) => RowBefore(keys[i], a, b) \/ RowBefore(keys[i], b, c)
        /\ RowBefore(keys[i], a, c) => ~ Ties(keys[i], a, c)
        /\ Ties(keys[i], a, b) => /\ RowBefore(keys[i], a, c) <=> RowBefore(keys[i], b, c)
                                  /\ RowBefore(keys[i], c, a) <=> RowBefore(keys[i], c, b)
  <2> SUFFICES ASSUME NEW i \in DOMAIN keys
               PROVE  /\ RowBefore(keys[i], a, b) => ~ Ties(keys[i], a, b) /\ ~ RowBefore(keys[i], b, a)
                      /\ RowBefore(keys[i], b, a) => ~ Ties(keys[i], a, b)
                      /\ ~ Ties(keys[i], a, b) => RowBefore(keys[i], a, b) \/ RowBefore(keys[i], b, a)
                      /\ RowBefore(keys[i], a, c) => RowBefore(keys[i], a, b) \/ RowBefore(keys[i], b, c)
                      /\ RowBefore(keys[i], a, c) => ~ Ties(keys[i], a, c)
                      /\ Ties(keys[i], a, b) => /\ RowBefore(keys[i], a, c) <=> RowBefore(keys[i], b, c)
                                                /\ RowBefore(keys[i], c, a) <=> RowBefore(keys[i], c, b)
    OBVIOUS
  <2>1. keys[i].field \in OrderFields
    BY <1>2
  <2>2. /\ RowBefore(keys[i], a, b) => ~ Ties(keys[i], a, b) /\ ~ RowBefore(keys[i], b, a)
        /\ ~ Ties(keys[i], a, b) => RowBefore(keys[i], a, b) \/ RowBefore(keys[i], b, a)
        /\ RowBefore(keys[i], a, c) => RowBefore(keys[i], a, b) \/ RowBefore(keys[i], b, c)
        /\ Ties(keys[i], a, b) => /\ RowBefore(keys[i], a, c) <=> RowBefore(keys[i], b, c)
                                  /\ RowBefore(keys[i], c, a) <=> RowBefore(keys[i], c, b)
    BY <2>1, BeforeOrder
  <2>3. RowBefore(keys[i], b, a) => ~ Ties(keys[i], b, a)
    BY <2>1, BeforeOrder
  <2>4. RowBefore(keys[i], a, c) => ~ Ties(keys[i], a, c)
    BY <2>1, BeforeOrder
  <2>5. Ties(keys[i], b, a) <=> Ties(keys[i], a, b)
    BY DEF Ties
  <2> QED BY <2>2, <2>3, <2>4, <2>5
<1>4. \A i \in DOMAIN keys :
        /\ Ties(keys[i], a, b) <=> Ties(keys[i], b, a)
        /\ Ties(keys[i], a, b) => (Ties(keys[i], a, c) <=> Ties(keys[i], b, c))
        /\ Ties(keys[i], a, b) => (Ties(keys[i], c, a) <=> Ties(keys[i], c, b))
  BY DEF Ties
<1>5. ASSUME Lex(keys, a, b) PROVE ~ Same(keys, a, b) /\ ~ Lex(keys, b, a)
  <2>1. PICK i \in DOMAIN keys : /\ RowBefore(keys[i], a, b)
                                 /\ \A j \in 1 .. (i - 1) : Ties(keys[j], a, b)
    BY <1>5 DEF Lex
  <2>2. ~ Same(keys, a, b)
    BY <1>3, <2>1 DEF Same
  <2>3. ASSUME NEW k \in DOMAIN keys, RowBefore(keys[k], b, a),
               \A j \in 1 .. (k - 1) : Ties(keys[j], b, a)
        PROVE  FALSE
    <3>1. i < k => i \in 1 .. (k - 1)
      BY <1>1
    <3>2. k < i => k \in 1 .. (i - 1)
      BY <1>1
    <3>3. i < k \/ k < i \/ i = k
      BY <1>1
    <3>4. i # k
      BY <1>3, <2>1, <2>3
    <3>5. ~ (k < i)
      BY <1>3, <2>1, <2>3, <3>2
    <3>6. ~ (i < k)
      BY <1>3, <1>4, <2>1, <2>3, <3>1
    <3> QED BY <3>3, <3>4, <3>5, <3>6
  <2> QED BY <2>2, <2>3 DEF Lex
<1>6. ASSUME ~ Same(keys, a, b) PROVE Lex(keys, a, b) \/ Lex(keys, b, a)
  <2> DEFINE D == {i \in DOMAIN keys : ~ Ties(keys[i], a, b)}
  <2>1. D \subseteq Nat /\ D # {}
    BY <1>1, <1>6 DEF Same
  <2>2. PICK i \in D : \A j \in D : i <= j
    BY <2>1, NatSetMinimum
  <2>3. i \in DOMAIN keys /\ \A j \in 1 .. (i - 1) : j \in DOMAIN keys /\ j \notin D
    <3>1. \A j \in 1 .. (i - 1) : j \in DOMAIN keys /\ ~ (i <= j)
      BY <1>1, <2>2
    <3> QED BY <2>2, <3>1
  <2>4. \A j \in 1 .. (i - 1) : Ties(keys[j], a, b) /\ Ties(keys[j], b, a)
    BY <1>4, <2>3
  <2>5. RowBefore(keys[i], a, b) \/ RowBefore(keys[i], b, a)
    BY <1>3, <2>2
  <2> QED BY <2>3, <2>4, <2>5 DEF Lex
<1>7. ASSUME Lex(keys, a, c) PROVE Lex(keys, a, b) \/ Lex(keys, b, c)
  <2>1. PICK i \in DOMAIN keys : /\ RowBefore(keys[i], a, c)
                                 /\ \A j \in 1 .. (i - 1) : Ties(keys[j], a, c)
    BY <1>7 DEF Lex
  <2> DEFINE D == {k \in DOMAIN keys : k <= i /\ ~ (Ties(keys[k], a, b) /\ Ties(keys[k], b, c))}
  <2>2. i \in D
    <3>1. i <= i
      BY <1>1
    <3>2. ~ (Ties(keys[i], a, b) /\ Ties(keys[i], b, c))
      BY <1>3, <1>4, <2>1
    <3> QED BY <3>1, <3>2
  <2>3. D \subseteq Nat
    BY <1>1
  <2>4. PICK k \in D : \A l \in D : k <= l
    BY <2>2, <2>3, NatSetMinimum
  <2>5. k \in DOMAIN keys /\ k <= i /\ ~ (Ties(keys[k], a, b) /\ Ties(keys[k], b, c))
    OBVIOUS
  <2>6. \A l \in 1 .. (k - 1) : l \in DOMAIN keys /\ l <= i /\ l \notin D
    <3>1. \A l \in 1 .. (k - 1) : l \in DOMAIN keys /\ l <= i /\ ~ (k <= l)
      BY <1>1, <2>5
    <3> QED BY <2>4, <3>1
  <2>7. \A l \in 1 .. (k - 1) : Ties(keys[l], a, b) /\ Ties(keys[l], b, c)
    BY <2>6
  <2>8. RowBefore(keys[k], a, b) \/ RowBefore(keys[k], b, c)
    <3>1. CASE k = i
      BY <1>3, <2>1, <3>1
    <3>2. CASE k # i
      <4>1. k \in 1 .. (i - 1)
        BY <1>1, <2>5, <3>2
      <4>2. Ties(keys[k], a, c)
        BY <2>1, <4>1
      <4>3. Ties(keys[k], c, a) /\ keys[k].field \in OrderFields
        BY <1>2, <2>5, <4>2 DEF Ties
      <4>4. ~ Ties(keys[k], a, b)
        BY <1>4, <2>5, <4>2
      <4>5. RowBefore(keys[k], a, b) \/ RowBefore(keys[k], b, a)
        BY <1>3, <2>5, <4>4
      <4>6. RowBefore(keys[k], b, a) <=> RowBefore(keys[k], b, c)
        BY <4>2, <4>3, BeforeOrder
      <4> QED BY <4>5, <4>6
    <3> QED BY <3>1, <3>2
  <2> QED BY <2>5, <2>7, <2>8 DEF Lex
<1>8. ASSUME Same(keys, a, b)
      PROVE  /\ Lex(keys, a, c) <=> Lex(keys, b, c)
             /\ Lex(keys, c, a) <=> Lex(keys, c, b)
  <2>1. \A i \in DOMAIN keys : \A j \in 1 .. (i - 1) : j \in DOMAIN keys
    BY <1>1
  <2>2. \A i \in DOMAIN keys : /\ RowBefore(keys[i], a, c) <=> RowBefore(keys[i], b, c)
                               /\ RowBefore(keys[i], c, a) <=> RowBefore(keys[i], c, b)
                               /\ Ties(keys[i], a, c) <=> Ties(keys[i], b, c)
                               /\ Ties(keys[i], c, a) <=> Ties(keys[i], c, b)
    BY <1>3, <1>4, <1>8 DEF Same
  <2> QED BY <2>1, <2>2 DEF Lex
<1> QED BY <1>5, <1>6, <1>7, <1>8

-----------------------------------------------------------------------------
(* The keys of a page, and the documented order.                           *)

(* One key more decides where all before it tie.                           *)
LEMMA LexSnoc ==
    ASSUME NEW S, NEW keys \in Seq(S), NEW key \in S, NEW a, NEW b
    PROVE  /\ Lex(keys \o <<key>>, a, b)
                <=> Lex(keys, a, b) \/ (Same(keys, a, b) /\ RowBefore(key, a, b))
           /\ Same(keys \o <<key>>, a, b) <=> Same(keys, a, b) /\ Ties(key, a, b)
<1> DEFINE n == Len(keys)
           longer == keys \o <<key>>
<1>1. /\ n \in Nat /\ DOMAIN keys = 1..n /\ DOMAIN longer = 1..n + 1
      /\ \A i \in 1..n : longer[i] = keys[i]
      /\ longer[n + 1] = key
  <2>1. <<key>> \in Seq(S) /\ Len(<<key>>) = 1 /\ <<key>>[1] = key
    OBVIOUS
  <2>2. /\ longer \in Seq(S) /\ Len(longer) = n + 1
        /\ \A i \in 1..n + 1 : longer[i] = IF i <= n THEN keys[i] ELSE <<key>>[i - n]
    BY <2>1, ConcatProperties
  <2> HIDE DEF longer
  <2>3. n \in Nat /\ n + 1 \in 1..n + 1 /\ ~ (n + 1 <= n) /\ n + 1 - n = 1
    OBVIOUS
  <2>4. \A i \in 1..n : i <= n /\ i \in 1..n + 1
    OBVIOUS
  <2> QED BY <2>1, <2>2, <2>3, <2>4
<1> HIDE DEF n, longer
<1>2. /\ \A i \in 1..n : i \in 1..n + 1 /\ \A j \in 1..(i - 1) : j \in 1..n
      /\ \A i \in 1..n + 1 : i \in 1..n \/ i = n + 1
      /\ n + 1 - 1 = n /\ n + 1 \in 1..n + 1
  BY <1>1
<1>3. Same(longer, a, b) <=> Same(keys, a, b) /\ Ties(key, a, b)
  BY <1>1, <1>2 DEF Same
<1>4. ASSUME Lex(longer, a, b) PROVE Lex(keys, a, b) \/ (Same(keys, a, b) /\ RowBefore(key, a, b))
  <2>1. PICK i \in 1..n + 1 : /\ RowBefore(longer[i], a, b)
                              /\ \A j \in 1..(i - 1) : Ties(longer[j], a, b)
    BY <1>1, <1>4 DEF Lex
  <2>2. CASE i \in 1..n
    BY <1>1, <1>2, <2>1, <2>2 DEF Lex
  <2>3. CASE i = n + 1
    BY <1>1, <1>2, <2>1, <2>3 DEF Same
  <2> QED BY <1>2, <2>2, <2>3
<1>5. ASSUME Lex(keys, a, b) PROVE Lex(longer, a, b)
  <2>1. PICK i \in 1..n : /\ RowBefore(keys[i], a, b)
                          /\ \A j \in 1..(i - 1) : Ties(keys[j], a, b)
    BY <1>1, <1>5 DEF Lex
  <2> QED BY <1>1, <1>2, <2>1 DEF Lex
<1>6. ASSUME Same(keys, a, b), RowBefore(key, a, b) PROVE Lex(longer, a, b)
  BY <1>1, <1>2, <1>6 DEF Lex, Same
<1> QED BY <1>3, <1>4, <1>5, <1>6 DEF longer

(* Two lists of one are a list of two.                                     *)
LEMMA PairConcat == ASSUME NEW x, NEW y PROVE <<x>> \o <<y>> = <<x, y>>
<1> DEFINE s == <<x>> \o <<y>>
           t == <<x, y>>
           S == {x, y}
<1>1. <<x>> \in Seq(S) /\ <<y>> \in Seq(S) /\ Len(<<x>>) = 1 /\ Len(<<y>>) = 1
      /\ <<x>>[1] = x /\ <<y>>[1] = y
  OBVIOUS
<1>2. /\ s \in Seq(S) /\ Len(s) = 2
      /\ \A i \in 1 .. 2 : s[i] = IF i <= 1 THEN <<x>>[i] ELSE <<y>>[i - 1]
  BY <1>1, ConcatProperties
<1>3. s[1] = x /\ s[2] = y
  BY <1>1, <1>2
<1>4. t \in Seq(S) /\ Len(t) = 2 /\ t[1] = x /\ t[2] = y
  OBVIOUS
<1> HIDE DEF s, t, S
<1>5. s = [i \in 1..2 |-> s[i]] /\ t = [i \in 1..2 |-> t[i]]
  BY <1>2, <1>4
<1>6. \A i \in 1..2 : s[i] = t[i]
  BY <1>3, <1>4
<1> QED BY <1>5, <1>6 DEF s, t

(* What a caller may order a source by: a union's member only on a union.  *)
Orderable(source, orderBy) ==
    /\ source \in Source /\ orderBy \in Seq(OrderBy)
    /\ source # Union => ~ Named(orderBy, "$$key")

(* The key that a field is appended as.                                    *)
Tail1(orderBy, field) == [field |-> field, dir |-> LastDir(orderBy)]

(* The appended keys follow the direction of the caller's last.            *)
LEMMA LastDirTyped == ASSUME NEW orderBy \in Seq(OrderBy) PROVE LastDir(orderBy) \in OrderDirs
<1>1. CASE orderBy = <<>>
  BY <1>1 DEF LastDir, OrderDirs
<1>2. CASE orderBy # <<>>
  <2>1. Len(orderBy) \in DOMAIN orderBy
    BY <1>2
  <2>2. Last(orderBy) \in OrderBy
    BY <2>1 DEF Last
  <2> QED BY <1>2, <2>2 DEF LastDir, OrderBy
<1> QED BY <1>1, <1>2

(* The caller's keys order as what the caller wrote.                       *)
LEMMA OrderKeysSame ==
    ASSUME NEW orderBy \in Seq(OrderBy), NEW a, NEW b
    PROVE  /\ OrderKeys(orderBy) \in Seq(Keys)
           /\ Len(OrderKeys(orderBy)) = Len(orderBy)
           /\ \A i \in DOMAIN orderBy :
                OrderKeys(orderBy)[i] = Key(orderBy[i].field, orderBy[i].dir)
           /\ Lex(OrderKeys(orderBy), a, b) <=> Lex(orderBy, a, b)
           /\ Same(OrderKeys(orderBy), a, b) <=> Same(orderBy, a, b)
<1> DEFINE keys == OrderKeys(orderBy)
           n == Len(orderBy)
<1>1. n \in Nat /\ DOMAIN orderBy = 1..n /\ \A i \in 1..n : orderBy[i] \in OrderBy
  OBVIOUS
<1>2. keys = [i \in 1..n |-> Key(orderBy[i].field, orderBy[i].dir)]
  BY <1>1 DEF OrderKeys
<1>3. \A i \in 1..n : /\ Key(orderBy[i].field, orderBy[i].dir) \in Keys
                      /\ Key(orderBy[i].field, orderBy[i].dir).field = orderBy[i].field
                      /\ Key(orderBy[i].field, orderBy[i].dir).dir = orderBy[i].dir
  BY <1>1 DEF Key, Keys, OrderBy
<1>4. keys \in Seq(Keys) /\ Len(keys) = n
  <2>1. keys \in [1..n -> Keys]
    BY <1>2, <1>3
  <2> HIDE DEF keys
  <2> QED BY <1>1, <2>1
<1> HIDE DEF keys, n
<1>5. DOMAIN keys = 1..n /\ \A i \in 1..n : /\ keys[i] = Key(orderBy[i].field, orderBy[i].dir)
                                           /\ keys[i].field = orderBy[i].field
                                           /\ keys[i].dir = orderBy[i].dir
  BY <1>2, <1>3
<1>6. \A i \in 1..n : /\ RowBefore(keys[i], a, b) <=> RowBefore(orderBy[i], a, b)
                      /\ Ties(keys[i], a, b) <=> Ties(orderBy[i], a, b)
  BY <1>5 DEF RowBefore, Ties
<1>7. \A i \in 1..n : \A j \in 1..(i - 1) : j \in 1..n
  BY <1>1
<1>8. Lex(keys, a, b) <=> Lex(orderBy, a, b)
  BY <1>1, <1>5, <1>6, <1>7 DEF Lex
<1>9. Same(keys, a, b) <=> Same(orderBy, a, b)
  BY <1>1, <1>5, <1>6 DEF Same
<1> QED BY <1>1, <1>4, <1>5, <1>8, <1>9 DEF keys, n

(* The documented keys: the caller's, the member and the primary key.      *)
LEMMA DocumentedLex ==
    ASSUME NEW orderBy \in Seq(OrderBy), NEW a, NEW b
    PROVE  /\ DocumentedKeys(orderBy) \in Seq(OrderBy)
           /\ Lex(DocumentedKeys(orderBy), a, b)
                <=> \/ Lex(orderBy, a, b)
                    \/ /\ Same(orderBy, a, b)
                       /\ \/ RowBefore(Tail1(orderBy, "$$key"), a, b)
                          \/ /\ Ties(Tail1(orderBy, "$$key"), a, b)
                             /\ RowBefore(Tail1(orderBy, "id"), a, b)
           /\ Same(DocumentedKeys(orderBy), a, b)
                <=> /\ Same(orderBy, a, b) /\ Ties(Tail1(orderBy, "$$key"), a, b)
                    /\ Ties(Tail1(orderBy, "id"), a, b)
<1> DEFINE x == Tail1(orderBy, "$$key")
           y == Tail1(orderBy, "id")
<1>1. x \in OrderBy /\ y \in OrderBy
  BY LastDirTyped DEF Tail1, OrderBy, OrderFields
<1>2. DocumentedKeys(orderBy) = orderBy \o <<x, y>>
  BY DEF DocumentedKeys, Tail1
<1> HIDE DEF x, y
<1>3. <<x>> \in Seq(OrderBy) /\ <<y>> \in Seq(OrderBy)
  BY <1>1
<1>4. <<x>> \o <<y>> = <<x, y>>
  BY PairConcat
<1>5. DocumentedKeys(orderBy) = (orderBy \o <<x>>) \o <<y>>
  <2>1. (orderBy \o <<x>>) \o <<y>> = orderBy \o (<<x>> \o <<y>>)
    BY <1>3, ConcatAssociative
  <2> QED BY <1>2, <1>4, <2>1
<1>6. orderBy \o <<x>> \in Seq(OrderBy) /\ (orderBy \o <<x>>) \o <<y>> \in Seq(OrderBy)
  BY <1>3, ConcatProperties
<1>7. /\ Lex((orderBy \o <<x>>) \o <<y>>, a, b)
           <=> \/ Lex(orderBy \o <<x>>, a, b)
               \/ Same(orderBy \o <<x>>, a, b) /\ RowBefore(y, a, b)
      /\ Same((orderBy \o <<x>>) \o <<y>>, a, b)
           <=> Same(orderBy \o <<x>>, a, b) /\ Ties(y, a, b)
  BY <1>1, <1>6, LexSnoc
<1>8. /\ Lex(orderBy \o <<x>>, a, b) <=> Lex(orderBy, a, b) \/ (Same(orderBy, a, b) /\ RowBefore(x, a, b))
      /\ Same(orderBy \o <<x>>, a, b) <=> Same(orderBy, a, b) /\ Ties(x, a, b)
  BY <1>1, LexSnoc
<1> QED BY <1>5, <1>6, <1>7, <1>8 DEF x, y

(* Precedes is the order of these keys.                                    *)
LEMMA PrecedesIsLex ==
    ASSUME NEW orderBy \in Seq(OrderBy), NEW a, NEW b
    PROVE  Precedes(orderBy, a, b) <=> Lex(DocumentedKeys(orderBy), a, b)
BY DEF Precedes, Lex, RowBefore, Ties

(* The keys a table is read by, and those a union is read by.              *)
LEMMA KeysetLists ==
    ASSUME NEW orderBy \in Seq(OrderBy), NEW a, NEW b
    PROVE  LET id == RowBefore(Tail1(orderBy, "id"), a, b)
               key == RowBefore(Tail1(orderBy, "$$key"), a, b)
               sameId == Ties(Tail1(orderBy, "id"), a, b)
               sameKey == Ties(Tail1(orderBy, "$$key"), a, b)
           IN /\ TableOrder(orderBy) \in Seq(Keys) /\ UnionOrder(orderBy) \in Seq(Keys)
              /\ Lex(TableOrder(orderBy), a, b)
                   <=> \/ Lex(orderBy, a, b)
                       \/ ~ Named(orderBy, "id") /\ Same(orderBy, a, b) /\ id
              /\ Same(TableOrder(orderBy), a, b)
                   <=> Same(orderBy, a, b) /\ (~ Named(orderBy, "id") => sameId)
              /\ Lex(UnionOrder(orderBy), a, b)
                   <=> \/ Lex(orderBy, a, b)
                       \/ ~ Named(orderBy, "$$key") /\ Same(orderBy, a, b) /\ key
                       \/ /\ Same(orderBy, a, b) /\ (~ Named(orderBy, "$$key") => sameKey)
                          /\ id
              /\ Same(UnionOrder(orderBy), a, b)
                   <=> Same(orderBy, a, b) /\ (~ Named(orderBy, "$$key") => sameKey) /\ sameId
<1> DEFINE o == OrderKeys(orderBy)
           i == Key("id", LastDir(orderBy))
           k == Key("$$key", LastDir(orderBy))
           u == o \o (IF Named(orderBy, "$$key") THEN <<>> ELSE <<k>>)
<1>1. /\ o \in Seq(Keys)
      /\ Lex(o, a, b) <=> Lex(orderBy, a, b)
      /\ Same(o, a, b) <=> Same(orderBy, a, b)
  BY OrderKeysSame
<1>2. i \in Keys /\ k \in Keys
  BY LastDirTyped DEF Key, Keys, OrderFields
<1>3. /\ RowBefore(i, a, b) <=> RowBefore(Tail1(orderBy, "id"), a, b)
      /\ Ties(i, a, b) <=> Ties(Tail1(orderBy, "id"), a, b)
      /\ RowBefore(k, a, b) <=> RowBefore(Tail1(orderBy, "$$key"), a, b)
      /\ Ties(k, a, b) <=> Ties(Tail1(orderBy, "$$key"), a, b)
  BY DEF Key, Tail1, RowBefore, Ties
<1>4. /\ TableOrder(orderBy) = o \o (IF Named(orderBy, "id") THEN <<>> ELSE <<i>>)
      /\ UnionOrder(orderBy) = u \o <<i>>
  BY DEF TableOrder, UnionOrder
<1> HIDE DEF o, i, k
<1>5. o \o <<>> = o
  BY <1>1, ConcatEmptySeq
<1>6. /\ Lex(o \o <<i>>, a, b) <=> Lex(o, a, b) \/ (Same(o, a, b) /\ RowBefore(i, a, b))
      /\ Same(o \o <<i>>, a, b) <=> Same(o, a, b) /\ Ties(i, a, b)
      /\ Lex(o \o <<k>>, a, b) <=> Lex(o, a, b) \/ (Same(o, a, b) /\ RowBefore(k, a, b))
      /\ Same(o \o <<k>>, a, b) <=> Same(o, a, b) /\ Ties(k, a, b)
  BY <1>1, <1>2, LexSnoc
<1>7. /\ <<i>> \in Seq(Keys) /\ <<k>> \in Seq(Keys)
      /\ o \o <<i>> \in Seq(Keys) /\ o \o <<k>> \in Seq(Keys)
  <2>1. <<i>> \in Seq(Keys) /\ <<k>> \in Seq(Keys)
    BY <1>2
  <2> QED BY <1>1, <2>1, ConcatProperties
<1>8. u = IF Named(orderBy, "$$key") THEN o ELSE o \o <<k>>
  BY <1>5
<1> HIDE DEF u
<1>9. u \in Seq(Keys)
  BY <1>1, <1>7, <1>8
<1>10. /\ Lex(u \o <<i>>, a, b) <=> Lex(u, a, b) \/ (Same(u, a, b) /\ RowBefore(i, a, b))
       /\ Same(u \o <<i>>, a, b) <=> Same(u, a, b) /\ Ties(i, a, b)
  BY <1>2, <1>9, LexSnoc
<1>11. u \o <<i>> \in Seq(Keys)
  BY <1>7, <1>9, ConcatProperties
<1>12. TableOrder(orderBy) = IF Named(orderBy, "id") THEN o ELSE o \o <<i>>
  BY <1>4, <1>5
<1>13. TableOrder(orderBy) \in Seq(Keys) /\ UnionOrder(orderBy) \in Seq(Keys)
  BY <1>1, <1>4, <1>7, <1>11, <1>12
<1>14. /\ Lex(TableOrder(orderBy), a, b)
            <=> \/ Lex(orderBy, a, b)
                \/ ~ Named(orderBy, "id") /\ Same(orderBy, a, b) /\ RowBefore(i, a, b)
       /\ Same(TableOrder(orderBy), a, b)
            <=> Same(orderBy, a, b) /\ (~ Named(orderBy, "id") => Ties(i, a, b))
  BY <1>1, <1>6, <1>12
<1>15. /\ Lex(u, a, b) <=> \/ Lex(orderBy, a, b)
                           \/ ~ Named(orderBy, "$$key") /\ Same(orderBy, a, b) /\ RowBefore(k, a, b)
       /\ Same(u, a, b) <=> Same(orderBy, a, b) /\ (~ Named(orderBy, "$$key") => Ties(k, a, b))
  BY <1>1, <1>6, <1>8
<1> QED BY <1>3, <1>4, <1>10, <1>13, <1>14, <1>15

(* Rows that tie on the caller's keys tie on every field named in them.    *)
LEMMA NamedTies ==
    ASSUME NEW orderBy, NEW field, NEW a, NEW b, Named(orderBy, field), Same(orderBy, a, b)
    PROVE  FieldOf(field, a) = FieldOf(field, b)
BY DEF Named, Same, Ties

(* The keys a page of a source is read by order its rows as documented,    *)
(* and tell any two of them apart.                                         *)
LEMMA KeysetIsDocumented ==
    ASSUME NEW source, NEW orderBy, Orderable(source, orderBy),
           NEW a \in RowsOf(source, Rows), NEW b \in RowsOf(source, Rows)
    PROVE  /\ KeysetOrder(source, orderBy) \in Seq(Keys)
           /\ Lex(KeysetOrder(source, orderBy), a, b) <=> Precedes(orderBy, a, b)
           /\ Same(KeysetOrder(source, orderBy), a, b)
                <=> /\ Same(orderBy, a, b)
                    /\ a.member = b.member /\ a.id = b.id
<1> DEFINE id == RowBefore(Tail1(orderBy, "id"), a, b)
           key == RowBefore(Tail1(orderBy, "$$key"), a, b)
           sameId == Ties(Tail1(orderBy, "id"), a, b)
           sameKey == Ties(Tail1(orderBy, "$$key"), a, b)
<1>1. orderBy \in Seq(OrderBy) /\ source \in Source /\ (source # Union => ~ Named(orderBy, "$$key"))
  BY DEF Orderable
<1>2. a \in Rows /\ b \in Rows /\ (source # Union => a.member = b.member)
  BY DEF RowsOf
<1>3. Precedes(orderBy, a, b)
        <=> \/ Lex(orderBy, a, b)
            \/ Same(orderBy, a, b) /\ (key \/ (sameKey /\ id))
  BY <1>1, DocumentedLex, PrecedesIsLex
<1>4. /\ sameId <=> a.id = b.id
      /\ sameKey <=> a.member = b.member
  BY DEF Ties, Tail1, FieldOf
<1>5. (key => ~ sameKey) /\ (id => ~ sameId)
  <2>1. Tail1(orderBy, "id").field \in OrderFields /\ Tail1(orderBy, "$$key").field \in OrderFields
    BY DEF Tail1, OrderFields
  <2> QED BY <1>2, <2>1, BeforeOrder
<1>6. /\ Named(orderBy, "id") /\ Same(orderBy, a, b) => a.id = b.id
      /\ Named(orderBy, "$$key") /\ Same(orderBy, a, b) => a.member = b.member
  BY NamedTies DEF FieldOf
<1>7. /\ TableOrder(orderBy) \in Seq(Keys) /\ UnionOrder(orderBy) \in Seq(Keys)
      /\ Lex(TableOrder(orderBy), a, b)
           <=> \/ Lex(orderBy, a, b)
               \/ ~ Named(orderBy, "id") /\ Same(orderBy, a, b) /\ id
      /\ Same(TableOrder(orderBy), a, b)
           <=> Same(orderBy, a, b) /\ (~ Named(orderBy, "id") => sameId)
      /\ Lex(UnionOrder(orderBy), a, b)
           <=> \/ Lex(orderBy, a, b)
               \/ ~ Named(orderBy, "$$key") /\ Same(orderBy, a, b) /\ key
               \/ Same(orderBy, a, b) /\ (~ Named(orderBy, "$$key") => sameKey) /\ id
      /\ Same(UnionOrder(orderBy), a, b)
           <=> Same(orderBy, a, b) /\ (~ Named(orderBy, "$$key") => sameKey) /\ sameId
  BY <1>1, KeysetLists
<1>8. KeysetOrder(source, orderBy) = IF source = Union THEN UnionOrder(orderBy) ELSE TableOrder(orderBy)
  BY DEF KeysetOrder
<1> HIDE DEF id, key, sameId, sameKey
<1>9. CASE source = Union
  BY <1>3, <1>4, <1>5, <1>6, <1>7, <1>8, <1>9
<1>10. CASE source # Union
  BY <1>1, <1>2, <1>3, <1>4, <1>5, <1>6, <1>7, <1>8, <1>10
<1> QED BY <1>9, <1>10

-----------------------------------------------------------------------------
(* A branch leaves the key out that tells the members apart: on the rows   *)
(* of one member it decides nothing.                                       *)
LEMMA BranchOrderSame ==
    ASSUME NEW keys \in Seq(Keys), keys # <<>>, NEW a, NEW b, a.member = b.member,
           a \in Rows, b \in Rows
    PROVE  /\ BranchOrder(keys) \in Seq(Keys)
           /\ Lex(BranchOrder(keys), a, b) <=> Lex(keys, a, b)
<1> DEFINE n == Len(keys)
           ss == [i \in DOMAIN keys |-> IF keys[i].field = "$$key" THEN <<>> ELSE <<keys[i]>>]
           LexTo(m) == \E i \in 1..m : /\ RowBefore(keys[i], a, b)
                                       /\ \A j \in 1..(i - 1) : Ties(keys[j], a, b)
           SameTo(m) == \A i \in 1..m : Ties(keys[i], a, b)
<1>1. n \in Nat \ {0} /\ DOMAIN keys = 1..n /\ \A i \in 1..n : keys[i] \in Keys
  OBVIOUS
<1>2. ss = [i \in 1..n |-> ss[i]]
  BY <1>1
<1>3. \A i \in 1..n : ss[i] = IF keys[i].field = "$$key" THEN <<>> ELSE <<keys[i]>>
  BY <1>1
<1>4. BranchOrder(keys) = FlattenSeq(ss)
  BY DEF BranchOrder
<1> HIDE DEF ss, n
<1>5. List(ss) /\ Len(ss) = n
  BY <1>1, <1>2, FunctionIsList
<1>6. ss # <<>>
  BY <1>1, <1>5
<1>7. PICK f : ChainedTo(ss, n, f) /\ FlattenSeq(ss) = f[n]
  BY <1>5, <1>6, FlattenIsChained
<1>8. \A i \in 1..n : f[i] = IF i = 1 THEN ss[i] ELSE f[i - 1] \o ss[i]
  BY <1>1, <1>7 DEF ChainedTo
<1>9. \A i \in 1..n : keys[i].field = "$$key" => Ties(keys[i], a, b) /\ ~ RowBefore(keys[i], a, b)
  <2> SUFFICES ASSUME NEW i \in 1..n, keys[i].field = "$$key"
               PROVE  Ties(keys[i], a, b) /\ ~ RowBefore(keys[i], a, b)
    OBVIOUS
  <2>1. Ties(keys[i], a, b)
    BY DEF Ties, FieldOf
  <2>2. keys[i].field \in OrderFields
    BY DEF OrderFields
  <2> QED BY <2>1, <2>2, BeforeOrder
<1>10. ASSUME NEW m \in Nat, m + 1 <= n
       PROVE  /\ LexTo(m + 1) <=> LexTo(m) \/ (SameTo(m) /\ RowBefore(keys[m + 1], a, b))
              /\ SameTo(m + 1) <=> SameTo(m) /\ Ties(keys[m + 1], a, b)
  <2>1. /\ \A i \in 1..(m + 1) : i \in 1..m \/ i = m + 1
        /\ \A i \in 1..m : i \in 1..(m + 1)
        /\ m + 1 \in 1..(m + 1) /\ m + 1 - 1 = m
    OBVIOUS
  <2> QED BY <2>1
<1> DEFINE Good(m) == /\ f[m] \in Seq(Keys)
                      /\ Lex(f[m], a, b) <=> LexTo(m)
                      /\ Same(f[m], a, b) <=> SameTo(m)
           S == {m \in Nat : m + 1 <= n => Good(m + 1)}
<1>11. /\ ~ Lex(<<>>, a, b) /\ Same(<<>>, a, b) /\ <<>> \in Seq(Keys)
       /\ ~ LexTo(0) /\ SameTo(0)
  <2>1. DOMAIN <<>> = {}
    OBVIOUS
  <2> QED BY <2>1 DEF Lex, Same
<1>12. ASSUME NEW m \in Nat, m + 1 <= n, NEW g \in Seq(Keys),
              Lex(g, a, b) <=> LexTo(m), Same(g, a, b) <=> SameTo(m),
              f[m + 1] = g \o ss[m + 1]
       PROVE  Good(m + 1)
  <2>1. m + 1 \in 1..n /\ keys[m + 1] \in Keys
    BY <1>1, <1>12
  <2>2. CASE keys[m + 1].field = "$$key"
    <3>1. f[m + 1] = g
      BY <1>3, <1>12, <2>1, <2>2, ConcatEmptySeq
    <3>2. Ties(keys[m + 1], a, b) /\ ~ RowBefore(keys[m + 1], a, b)
      BY <1>9, <2>1, <2>2
    <3>3. (LexTo(m + 1) <=> LexTo(m)) /\ (SameTo(m + 1) <=> SameTo(m))
      <4> HIDE DEF LexTo, SameTo
      <4> QED BY <1>10, <1>12, <3>2
    <3> HIDE DEF LexTo, SameTo
    <3> QED BY <1>12, <3>1, <3>3
  <2>3. CASE keys[m + 1].field # "$$key"
    <3>1. f[m + 1] = g \o <<keys[m + 1]>>
      BY <1>3, <1>12, <2>1, <2>3
    <3>2. /\ Lex(f[m + 1], a, b) <=> Lex(g, a, b) \/ (Same(g, a, b) /\ RowBefore(keys[m + 1], a, b))
          /\ Same(f[m + 1], a, b) <=> Same(g, a, b) /\ Ties(keys[m + 1], a, b)
      BY <2>1, <3>1, LexSnoc
    <3>3. f[m + 1] \in Seq(Keys)
      <4>1. <<keys[m + 1]>> \in Seq(Keys)
        BY <2>1
      <4> QED BY <3>1, <4>1, ConcatProperties
    <3> HIDE DEF LexTo, SameTo
    <3> QED BY <1>10, <1>12, <3>2, <3>3
  <2> QED BY <2>2, <2>3
<1>13. 0 \in S
  <2>1. f[0 + 1] = <<>> \o ss[0 + 1]
    <3>1. 0 + 1 = 1 /\ 1 \in 1..n
      BY <1>1
    <3>2. f[1] = ss[1]
      BY <1>8, <3>1
    <3>3. ss[1] \in Seq(Keys)
      <4>1. keys[1] \in Keys
        BY <1>1, <3>1
      <4>2. <<>> \in Seq(Keys) /\ <<keys[1]>> \in Seq(Keys)
        BY <4>1
      <4> QED BY <1>3, <3>1, <4>2
    <3>4. <<>> \o ss[1] = ss[1]
      BY <3>3, ConcatEmptySeq
    <3> QED BY <3>1, <3>2, <3>4
  <2> HIDE DEF Good, LexTo, SameTo
  <2> QED BY <1>11, <1>12, <2>1
<1>14. ASSUME NEW m \in Nat, m \in S PROVE m + 1 \in S
  <2> SUFFICES ASSUME m + 1 + 1 <= n PROVE Good(m + 1 + 1)
    OBVIOUS
  <2>1. m + 1 <= n /\ m + 1 \in Nat /\ m + 1 + 1 \in 1..n /\ m + 1 + 1 # 1 /\ m + 1 + 1 - 1 = m + 1
    BY <1>1
  <2>2. Good(m + 1)
    BY <1>14, <2>1
  <2>3. f[m + 1 + 1] = f[m + 1] \o ss[m + 1 + 1]
    <3> DEFINE p == m + 1 + 1
    <3>1. p \in 1..n /\ p # 1 /\ p - 1 = m + 1
      BY <2>1
    <3> HIDE DEF p
    <3>2. f[p] = f[p - 1] \o ss[p]
      BY <1>8, <3>1
    <3> QED BY <3>1, <3>2 DEF p
  <2>4. /\ f[m + 1] \in Seq(Keys)
        /\ Lex(f[m + 1], a, b) <=> LexTo(m + 1)
        /\ Same(f[m + 1], a, b) <=> SameTo(m + 1)
    BY <2>2
  <2> HIDE DEF Good, LexTo, SameTo
  <2> QED BY <1>12, <2>1, <2>3, <2>4
<1>15. Good(n)
  <2>1. n - 1 \in Nat /\ n - 1 + 1 = n /\ n <= n
    BY <1>1
  <2>2. n - 1 \in S
    <3> HIDE DEF S
    <3> QED BY <1>13, <1>14, <2>1, NatSetInduction
  <2> HIDE DEF Good
  <2> QED BY <2>1, <2>2
<1>16. LexTo(n) <=> Lex(keys, a, b)
  BY <1>1 DEF Lex
<1> HIDE DEF LexTo
<1> QED BY <1>4, <1>7, <1>15, <1>16

(* The order of travel: backward, what comes last is nearest.              *)
Near(keys, bound, a, b) == IF bound = "after" THEN Lex(keys, a, b) ELSE Lex(keys, b, a)

(* The terms a page orders by put a row before another one as its keys do. *)
LEMMA TermsAreKeys ==
    ASSUME NEW keys \in Seq(Keys), NEW bound \in {"after", "before"},
           NEW a \in Rows, NEW b \in Rows
    PROVE  OrderedBefore([i \in DOMAIN keys |-> TermOf(keys[i], bound)],
                         ValuesOf(keys, a), ValuesOf(keys, b))
             <=> Near(keys, bound, a, b)
<1> DEFINE n == Len(keys)
           terms == [i \in DOMAIN keys |-> TermOf(keys[i], bound)]
           x == ValuesOf(keys, a)
           y == ValuesOf(keys, b)
<1>1. n \in Nat /\ DOMAIN keys = 1..n /\ \A i \in 1..n : keys[i] \in Keys
  OBVIOUS
<1>2. /\ DOMAIN terms = 1..n /\ \A i \in 1..n : terms[i] = TermOf(keys[i], bound)
      /\ \A i \in 1..n : x[i] = FieldOf(keys[i].field, a) /\ y[i] = FieldOf(keys[i].field, b)
  BY <1>1 DEF ValuesOf
<1> HIDE DEF n, terms, x, y
<1>3. \A i \in 1..n : x[i] = y[i] <=> Ties(keys[i], a, b) /\ Ties(keys[i], b, a)
  BY <1>2 DEF Ties
<1>4. ASSUME NEW i \in 1..n
      PROVE  TermBefore(terms[i], x[i], y[i])
               <=> IF bound = "after" THEN RowBefore(keys[i], a, b) ELSE RowBefore(keys[i], b, a)
  <2> DEFINE key == keys[i]
  <2>1. key \in Keys
    BY <1>1
  <2> HIDE DEF key
  <2>2. key.field \in OrderFields /\ key.dir \in {"asc", "desc"}
    BY <2>1 DEF Keys, OrderDirs
  <2>3. terms[i] = TermOf(key, bound) /\ x[i] = FieldOf(key.field, a) /\ y[i] = FieldOf(key.field, b)
    BY <1>2 DEF key
  <2>4. x[i] \in Value /\ y[i] \in Value
    BY <2>2, <2>3, FieldTyped
  <2>5. x[i] \in Nat \cup {Null} /\ y[i] \in Nat \cup {Null}
    BY <2>4 DEF Value
  <2>6. /\ TermOf(key, bound).dir = IF (key.dir = "asc") <=> (bound = "after") THEN "asc" ELSE "desc"
        /\ TermOf(key, bound).nulls = IF (key.dir = "asc") <=> (bound = "after") THEN "last" ELSE "first"
    BY <2>1 DEF TermOf, Render, Flip, Keys, OrderDirs
  <2>7. /\ RowBefore(key, a, b) <=> IF key.dir = "asc" THEN Lower(x[i], y[i]) ELSE Lower(y[i], x[i])
        /\ RowBefore(key, b, a) <=> IF key.dir = "asc" THEN Lower(y[i], x[i]) ELSE Lower(x[i], y[i])
    BY <2>3 DEF RowBefore
  <2>8. /\ ~ Lower(x[i], x[i]) /\ (Lower(x[i], y[i]) => ~ Lower(y[i], x[i]))
    BY <2>4, LowerOrder
  <2>9. TermBefore(terms[i], x[i], y[i])
          <=> IF (key.dir = "asc") <=> (bound = "after") THEN Lower(x[i], y[i]) ELSE Lower(y[i], x[i])
    <3> DEFINE term == terms[i]
               u == x[i]
               v == y[i]
    <3>1. /\ term.dir = IF (key.dir = "asc") <=> (bound = "after") THEN "asc" ELSE "desc"
          /\ term.nulls = IF (key.dir = "asc") <=> (bound = "after") THEN "last" ELSE "first"
      BY <2>3, <2>6
    <3>2. u \in Nat \cup {Null} /\ v \in Nat \cup {Null}
      BY <2>5
    <3> HIDE DEF term, u, v
    <3>3. TermBefore(term, u, v)
            <=> IF (key.dir = "asc") <=> (bound = "after") THEN Lower(u, v) ELSE Lower(v, u)
      BY <3>1, <3>2, NullAssumption DEF TermBefore, Lower
    <3> QED BY <3>3 DEF term, u, v
  <2> QED BY <2>2, <2>7, <2>9 DEF key
<1>5. \A i \in 1..n : \A j \in 1..(i - 1) : j \in 1..n
  BY <1>1
<1>6. CASE bound = "after"
  <2>1. OrderedBefore(terms, x, y) <=> Lex(keys, a, b)
    BY <1>1, <1>2, <1>3, <1>4, <1>5, <1>6 DEF OrderedBefore, Lex, Ties
  <2> QED BY <1>6, <2>1 DEF Near, terms, x, y
<1>7. CASE bound # "after"
  <2>1. OrderedBefore(terms, x, y) <=> Lex(keys, b, a)
    BY <1>1, <1>2, <1>3, <1>4, <1>5, <1>7 DEF OrderedBefore, Lex, Ties
  <2> QED BY <1>7, <2>1 DEF Near, terms, x, y
<1> QED BY <1>6, <1>7

-----------------------------------------------------------------------------
(* Finite sets in a strict order, R a set of pairs: how many are below an  *)
(* element, the nearest n, and lists of them in order.                     *)
Strict(R, S) ==
    /\ \A x \in S : <<x, x>> \notin R
    /\ \A x, y, z \in S : <<x, y>> \in R /\ <<y, z>> \in R => <<x, z>> \in R
    /\ \A x, y \in S : x = y \/ <<x, y>> \in R \/ <<y, x>> \in R

Below(R, S, x) == {y \in S : <<y, x>> \in R}
Nearest(R, S, n) == {x \in S : Cardinality(Below(R, S, x)) < n}

Increases(R, s) == \A i, j \in DOMAIN s : i < j => <<s[i], s[j]>> \in R

(* The list of the n nearest.                                              *)
ListsNearest(s, R, S, n) == List(s) /\ ToSet(s) = Nearest(R, S, n) /\ Increases(R, s)

(* Fewer are below an element than there are,                              *)
LEMMA BelowCounted ==
    ASSUME NEW R, NEW S, IsFiniteSet(S), Strict(R, S), NEW x \in S
    PROVE  /\ IsFiniteSet(Below(R, S, x))
           /\ Cardinality(S) \in Nat
           /\ Cardinality(Below(R, S, x)) \in 0..(Cardinality(S) - 1)
<1> DEFINE B == Below(R, S, x)
<1>1. B \in SUBSET (S \ {x})
  BY DEF Below, Strict
<1>2. /\ IsFiniteSet(S \ {x}) /\ Cardinality(S \ {x}) = Cardinality(S) - 1
      /\ Cardinality(S) \in Nat
  BY FS_RemoveElement, FS_CardinalityType
<1> HIDE DEF B
<1>3. /\ IsFiniteSet(B) /\ Cardinality(B) <= Cardinality(S \ {x})
      /\ Cardinality(B) \in Nat
  BY <1>1, <1>2, FS_Subset, FS_CardinalityType
<1> QED BY <1>2, <1>3 DEF B

(* and fewer than below an element above it.                               *)
LEMMA BelowGrows ==
    ASSUME NEW R, NEW S, IsFiniteSet(S), Strict(R, S), NEW x \in S, NEW y \in S, <<x, y>> \in R
    PROVE  Cardinality(Below(R, S, x)) < Cardinality(Below(R, S, y))
<1> DEFINE B == Below(R, S, x)
           C == Below(R, S, y)
<1>1. IsFiniteSet(B) /\ IsFiniteSet(C) /\ Cardinality(B) \in Nat /\ Cardinality(C) \in Nat
  BY BelowCounted
<1>2. B \cup {x} \in SUBSET C /\ x \notin B
  BY DEF Below, Strict
<1> HIDE DEF B, C
<1>3. Cardinality(B \cup {x}) = Cardinality(B) + 1
  BY <1>1, <1>2, FS_AddElement
<1>4. Cardinality(B \cup {x}) <= Cardinality(C)
  BY <1>1, <1>2, FS_Subset
<1> QED BY <1>1, <1>3, <1>4 DEF B, C

(* Elements in order have no one twice, so a list has as many elements as  *)
(* it is long.                                                             *)
LEMMA IncreasingCounted ==
    ASSUME NEW R, NEW s, List(s), Increases(R, s), \A x \in ToSet(s) : <<x, x>> \notin R
    PROVE  /\ \A i, j \in DOMAIN s : s[i] = s[j] => i = j
           /\ IsFiniteSet(ToSet(s)) /\ Cardinality(ToSet(s)) = Len(s)
<1>1. Len(s) \in Nat /\ DOMAIN s = 1..Len(s) /\ s = [k \in 1..Len(s) |-> s[k]]
  BY ListProperties
<1>2. \A i \in DOMAIN s : s[i] \in ToSet(s)
  BY DEF ToSet
<1>3. ASSUME NEW i \in DOMAIN s, NEW j \in DOMAIN s, s[i] = s[j] PROVE i = j
  <2>1. i < j \/ j < i \/ i = j
    BY <1>1
  <2>2. ~ (i < j) /\ ~ (j < i)
    BY <1>2, <1>3 DEF Increases
  <2> QED BY <2>1, <2>2
<1>4. s \in [1..Len(s) -> ToSet(s)]
  BY <1>1, <1>2
<1>5. s \in Bijection(1..Len(s), ToSet(s))
  <2>1. \A x \in ToSet(s) : \E i \in 1..Len(s) : s[i] = x
    BY <1>1 DEF ToSet
  <2> QED BY <1>1, <1>3, <1>4, <2>1 DEF Bijection, Injection, Surjection, IsInjective
<1>6. IsFiniteSet(1..Len(s)) /\ Cardinality(1..Len(s)) = Len(s)
  BY <1>1, FS_Interval
<1>7. ExistsBijection(1..Len(s), ToSet(s))
  BY <1>5 DEF ExistsBijection
<1>8. IsFiniteSet(ToSet(s)) /\ Cardinality(ToSet(s)) = Len(s)
  BY <1>6, <1>7, FS_Bijection
<1> QED BY <1>3, <1>8

(* A finite set in a strict order can be listed in it: each element has a  *)
(* rank of its own.                                                        *)
LEMMA SortExists ==
    ASSUME NEW R, NEW S, IsFiniteSet(S), Strict(R, S)
    PROVE  \E s \in SetToSeqs(S) : Increases(R, s)
<1> DEFINE n == Cardinality(S)
           rank == [x \in S |-> Cardinality(Below(R, S, x)) + 1]
           s == [k \in 1..n |-> CHOOSE x \in S : rank[x] = k]
<1>1. n \in Nat /\ IsFiniteSet(1..n) /\ Cardinality(1..n) = n
  BY FS_CardinalityType, FS_Interval
<1>2. \A x \in S : rank[x] \in 1..n
  <2> SUFFICES ASSUME NEW x \in S PROVE rank[x] \in 1..n
    OBVIOUS
  <2>1. Cardinality(Below(R, S, x)) \in 0..(n - 1)
    BY BelowCounted
  <2> QED BY <1>1, <2>1
<1>3. \A x, y \in S : <<x, y>> \in R => rank[x] < rank[y]
  <2> SUFFICES ASSUME NEW x \in S, NEW y \in S, <<x, y>> \in R PROVE rank[x] < rank[y]
    OBVIOUS
  <2>1. Cardinality(Below(R, S, x)) < Cardinality(Below(R, S, y))
    BY BelowGrows
  <2>2. Cardinality(Below(R, S, x)) \in 0..(n - 1) /\ Cardinality(Below(R, S, y)) \in 0..(n - 1)
    BY BelowCounted
  <2> QED BY <1>1, <2>1, <2>2
<1>4. rank = [x \in S |-> rank[x]]
  OBVIOUS
<1> HIDE DEF rank
<1>5. \A x, y \in S : rank[x] = rank[y] => x = y
  <2> SUFFICES ASSUME NEW x \in S, NEW y \in S, rank[x] = rank[y], x # y PROVE FALSE
    OBVIOUS
  <2>1. <<x, y>> \in R \/ <<y, x>> \in R
    BY DEF Strict
  <2>2. rank[x] \in Int /\ rank[y] \in Int
    BY <1>2
  <2> QED BY <1>3, <2>1, <2>2
<1>6. rank \in Injection(S, 1..n)
  BY <1>2, <1>4, <1>5 DEF Injection, IsInjective
<1>7. rank \in Surjection(S, 1..n)
  <2> HIDE DEF n
  <2> QED BY <1>1, <1>6, FS_Injection DEF n
<1>8. \A k \in 1..n : \E x \in S : rank[x] = k
  BY <1>7 DEF Surjection
<1>9. \A k \in 1..n : s[k] \in S /\ rank[s[k]] = k
  <2> SUFFICES ASSUME NEW k \in 1..n PROVE s[k] \in S /\ rank[s[k]] = k
    OBVIOUS
  <2>1. s[k] = CHOOSE x \in S : rank[x] = k
    OBVIOUS
  <2> HIDE DEF s
  <2> QED BY <1>8, <2>1
<1>10. DOMAIN s = 1..n /\ s = [k \in 1..n |-> s[k]]
  OBVIOUS
<1> HIDE DEF s
<1>11. s \in SetToSeqs(S)
  BY <1>9, <1>10 DEF SetToSeqs
<1>12. Increases(R, s)
  <2> SUFFICES ASSUME NEW i \in 1..n, NEW j \in 1..n, i < j PROVE <<s[i], s[j]>> \in R
    BY <1>10 DEF Increases
  <2>1. s[i] \in S /\ s[j] \in S /\ rank[s[i]] = i /\ rank[s[j]] = j
    BY <1>9
  <2>2. s[i] # s[j]
    BY <2>1
  <2>3. ~ (<<s[j], s[i]>> \in R)
    BY <1>3, <2>1
  <2> QED BY <2>1, <2>2, <2>3 DEF Strict
<1> QED BY <1>11, <1>12

(* A sequence of a set that increases lists all of the set.                *)
LEMMA SortedLists ==
    ASSUME NEW R, NEW S, IsFiniteSet(S), Strict(R, S), NEW s \in SetToSeqs(S), Increases(R, s),
           NEW n \in Nat, Cardinality(S) <= n
    PROVE  ListsNearest(s, R, S, n) /\ ToSet(s) = S /\ Len(s) = Cardinality(S)
<1> DEFINE m == Cardinality(S)
<1>1. m \in Nat /\ IsFiniteSet(1..m) /\ Cardinality(1..m) = m
  BY FS_CardinalityType, FS_Interval
<1>2. s \in [1..m -> S] /\ \A i, j \in 1..m : i # j => s[i] # s[j]
  BY DEF SetToSeqs
<1>3. s = [k \in 1..m |-> s[k]]
  BY <1>2
<1> HIDE DEF m
<1>4. List(s) /\ Len(s) = m
  BY <1>1, <1>3, FunctionIsList
<1>5. ToSet(s) = S
  <2>1. s \in Injection(1..m, S)
    BY <1>2 DEF Injection, IsInjective
  <2>2. s \in Surjection(1..m, S)
    BY <1>1, <2>1, FS_Injection DEF m
  <2> QED BY <1>2, <2>2 DEF Surjection, ToSet
<1>6. Nearest(R, S, n) = S
  <2> SUFFICES ASSUME NEW x \in S PROVE Cardinality(Below(R, S, x)) < n
    BY DEF Nearest
  <2>1. Cardinality(Below(R, S, x)) \in 0..(m - 1)
    BY BelowCounted DEF m
  <2> QED BY <1>1, <2>1 DEF m
<1> QED BY <1>4, <1>5, <1>6 DEF ListsNearest, m

(* In a list of the nearest, each has those before it below it.            *)
LEMMA RankInList ==
    ASSUME NEW R, NEW S, IsFiniteSet(S), Strict(R, S), NEW n \in Nat,
           NEW s, ListsNearest(s, R, S, n), NEW k \in DOMAIN s
    PROVE  Cardinality(Below(R, S, s[k])) = k - 1
<1>1. /\ List(s) /\ Len(s) \in Nat /\ DOMAIN s = 1..Len(s)
      /\ \A i \in DOMAIN s : s[i] \in Nearest(R, S, n)
      /\ \A x \in Nearest(R, S, n) : \E i \in DOMAIN s : x = s[i]
      /\ Increases(R, s)
  BY ListProperties DEF ListsNearest
<1>2. Nearest(R, S, n) \subseteq S
  BY DEF Nearest
<1>3. Below(R, S, s[k]) = {s[i] : i \in 1..(k - 1)}
  <2>1. ASSUME NEW y \in Below(R, S, s[k]) PROVE y \in {s[i] : i \in 1..(k - 1)}
    <3>1. y \in S /\ <<y, s[k]>> \in R /\ s[k] \in S
      BY <1>1, <1>2, <2>1 DEF Below
    <3>2. Cardinality(Below(R, S, y)) < Cardinality(Below(R, S, s[k]))
      BY <3>1, BelowGrows
    <3>3. Cardinality(Below(R, S, s[k])) < n
      BY <1>1 DEF Nearest
    <3>4. Cardinality(Below(R, S, y)) \in Int /\ Cardinality(Below(R, S, s[k])) \in Int
      BY <3>1, BelowCounted
    <3>5. y \in Nearest(R, S, n)
      BY <3>1, <3>2, <3>3, <3>4 DEF Nearest
    <3>6. PICK i \in DOMAIN s : y = s[i]
      BY <1>1, <3>5
    <3>7. i # k
      BY <3>1, <3>6 DEF Strict
    <3>8. ~ (k < i)
      <4> SUFFICES ASSUME k < i PROVE FALSE
        OBVIOUS
      <4>1. <<s[k], s[i]>> \in R
        BY <1>1 DEF Increases
      <4> QED BY <3>1, <3>6, <4>1 DEF Strict
    <3>9. i \in 1..(k - 1)
      BY <1>1, <3>7, <3>8
    <3> QED BY <3>6, <3>9
  <2>2. ASSUME NEW i \in 1..(k - 1) PROVE s[i] \in Below(R, S, s[k])
    <3>1. i \in DOMAIN s /\ i < k
      BY <1>1
    <3>2. <<s[i], s[k]>> \in R
      BY <1>1, <3>1 DEF Increases
    <3> QED BY <1>1, <1>2, <3>1, <3>2 DEF Below
  <2> QED BY <2>1, <2>2
<1>4. Cardinality({s[i] : i \in 1..(k - 1)}) = k - 1
  <2> DEFINE t == [i \in 1..(k - 1) |-> s[i]]
  <2>1. k - 1 \in Nat /\ t = [i \in 1..(k - 1) |-> t[i]]
    BY <1>1
  <2>2. \A i \in 1..(k - 1) : t[i] = s[i] /\ i \in DOMAIN s
    BY <1>1
  <2> HIDE DEF t
  <2>3. List(t) /\ Len(t) = k - 1
    BY <2>1, FunctionIsList
  <2>4. DOMAIN t = 1..(k - 1)
    BY <2>1
  <2>5. ToSet(t) = {s[i] : i \in 1..(k - 1)}
    BY <2>2, <2>4 DEF ToSet
  <2>6. Increases(R, t)
    BY <1>1, <2>2, <2>4 DEF Increases
  <2>7. \A x \in ToSet(t) : <<x, x>> \notin R
    <3>1. \A i \in 1..(k - 1) : s[i] \in S
      BY <1>1, <1>2, <2>2
    <3> QED BY <2>5, <3>1 DEF Strict
  <2>8. Cardinality(ToSet(t)) = Len(t)
    BY <2>3, <2>6, <2>7, IncreasingCounted
  <2> QED BY <2>3, <2>5, <2>8
<1> QED BY <1>3, <1>4

(* The first m of them are the m nearest.                                  *)
LEMMA FirstAreNearest ==
    ASSUME NEW R, NEW S, IsFiniteSet(S), Strict(R, S), NEW n \in Nat, NEW m \in Nat, m <= n,
           NEW s, ListsNearest(s, R, S, n)
    PROVE  /\ ListsNearest(FirstOf(m, s), R, S, m)
           /\ Len(s) < m => Len(FirstOf(m, s)) = Len(s)
           /\ ~ (Len(s) < m) => Len(FirstOf(m, s)) = m
<1> DEFINE l == IF Len(s) < m THEN Len(s) ELSE m
           t == FirstOf(m, s)
<1>1. /\ List(s) /\ Len(s) \in Nat /\ DOMAIN s = 1..Len(s)
      /\ ToSet(s) = Nearest(R, S, n) /\ Increases(R, s)
      /\ \A x : x \in Nearest(R, S, n) <=> \E i \in 1..Len(s) : x = s[i]
  BY ListProperties DEF ListsNearest
<1>2. l \in Nat /\ l <= m /\ \A i \in 1..Len(s) : i <= l <=> i <= m
  BY <1>1
<1>3. /\ t \in Seq(ToSet(s)) /\ Len(t) = l /\ \A i \in 1..l : t[i] = s[i] /\ i \in 1..Len(s)
  <2>1. t = SubSeq(s, 1, l)
    BY DEF FirstOf
  <2>2. \A i \in 1..l : i \in 1..Len(s)
    BY <1>1
  <2>3. \A i \in 1..l : s[i] \in ToSet(s)
    BY <1>1, <2>2 DEF ToSet
  <2> HIDE DEF l, t
  <2>4. /\ SubSeq(s, 1, l) \in Seq(ToSet(s))
        /\ Len(SubSeq(s, 1, l)) = IF 1 <= l THEN l - 1 + 1 ELSE 0
        /\ \A i \in 1..(l - 1 + 1) : SubSeq(s, 1, l)[i] = s[1 + i - 1]
    BY <1>2, <2>3, SubSeqProperties
  <2>5. (IF 1 <= l THEN l - 1 + 1 ELSE 0) = l /\ l - 1 + 1 = l
    BY <1>2
  <2>6. \A i \in 1..l : 1 + i - 1 = i
    OBVIOUS
  <2> QED BY <2>1, <2>2, <2>4, <2>5, <2>6
<1> HIDE DEF t, l
<1>4. List(t) /\ DOMAIN t = 1..l
  BY <1>2, <1>3, SeqIsList
<1>5. Increases(R, t)
  BY <1>1, <1>3, <1>4 DEF Increases
<1>6. ToSet(t) = Nearest(R, S, m)
  <2>1. ASSUME NEW x \in ToSet(t) PROVE x \in Nearest(R, S, m)
    <3>1. PICK i \in 1..l : x = s[i] /\ i \in DOMAIN s
      BY <1>1, <1>3, <1>4 DEF ToSet
    <3>2. Cardinality(Below(R, S, s[i])) = i - 1
      BY <3>1, RankInList
    <3>3. i - 1 < m
      BY <1>2
    <3>4. s[i] \in Nearest(R, S, n)
      BY <1>1, <3>1
    <3> QED BY <3>1, <3>2, <3>3, <3>4 DEF Nearest
  <2>2. ASSUME NEW x \in Nearest(R, S, m) PROVE x \in ToSet(t)
    <3>1. x \in S /\ Cardinality(Below(R, S, x)) < m
      BY <2>2 DEF Nearest
    <3>2. Cardinality(Below(R, S, x)) \in Int
      BY <3>1, BelowCounted
    <3>3. x \in Nearest(R, S, n)
      BY <3>1, <3>2 DEF Nearest
    <3>4. PICK i \in 1..Len(s) : x = s[i]
      BY <1>1, <3>3
    <3>5. Cardinality(Below(R, S, s[i])) = i - 1
      BY <1>1, <3>4, RankInList
    <3>6. i <= m
      BY <3>1, <3>4, <3>5
    <3>7. i \in 1..l
      BY <1>2, <3>6
    <3> QED BY <1>3, <1>4, <3>4, <3>7 DEF ToSet
  <2> QED BY <2>1, <2>2
<1> QED BY <1>3, <1>4, <1>5, <1>6 DEF ListsNearest, t, l

(* A list of the n nearest exists; and any is as long as it can be.        *)
LEMMA NearestListed ==
    ASSUME NEW R, NEW S, IsFiniteSet(S), Strict(R, S), NEW n \in Nat
    PROVE  /\ \E s : ListsNearest(s, R, S, n)
           /\ \A s : ListsNearest(s, R, S, n) =>
                /\ Len(s) \in Nat /\ Cardinality(ToSet(s)) = Len(s)
                /\ Len(s) = IF Cardinality(S) < n THEN Cardinality(S) ELSE n
<1> DEFINE c == Cardinality(S)
<1>1. c \in Nat
  BY FS_CardinalityType
<1>2. PICK q \in SetToSeqs(S) : Increases(R, q)
  BY SortExists
<1> HIDE DEF c
<1>3. PICK N \in Nat : c <= N /\ n <= N
  <2>1. c + n \in Nat /\ c <= c + n /\ n <= c + n
    BY <1>1
  <2> QED BY <2>1
<1>4. ListsNearest(q, R, S, N) /\ Len(q) = c
  BY <1>2, <1>3, SortedLists DEF c
<1> DEFINE t == FirstOf(n, q)
<1>5. ListsNearest(t, R, S, n) /\ Len(t) = IF c < n THEN c ELSE n
  <2>1. IsFiniteSet(S) /\ Strict(R, S) /\ N \in Nat /\ n \in Nat /\ n <= N
    BY <1>3
  <2>2. ListsNearest(q, R, S, N)
    BY <1>4
  <2>3. ListsNearest(FirstOf(n, q), R, S, n)
    BY <2>1, <2>2, FirstAreNearest
  <2>4. /\ Len(q) < n => Len(FirstOf(n, q)) = Len(q)
        /\ ~ (Len(q) < n) => Len(FirstOf(n, q)) = n
    BY <2>1, <2>2, FirstAreNearest
  <2> QED BY <1>4, <2>3, <2>4
<1> HIDE DEF t
<1>6. ASSUME NEW s, ListsNearest(s, R, S, n) PROVE Len(s) \in Nat /\ Cardinality(ToSet(s)) = Len(s)
  <2>1. \A x \in ToSet(s) : <<x, x>> \notin R
    BY <1>6 DEF ListsNearest, Nearest, Strict
  <2> QED BY <1>6, <2>1, IncreasingCounted, ListProperties DEF ListsNearest
<1>7. \A s : ListsNearest(s, R, S, n) => ToSet(s) = ToSet(t)
  BY <1>5 DEF ListsNearest
<1>8. ASSUME NEW s, ListsNearest(s, R, S, n) PROVE Len(s) = IF c < n THEN c ELSE n
  BY <1>5, <1>6, <1>7, <1>8
<1> QED BY <1>5, <1>6, <1>8 DEF c

(* The nearest of a part that has the nearest of all are those.            *)
LEMMA NearestOfPart ==
    ASSUME NEW R, NEW S, IsFiniteSet(S), Strict(R, S), NEW n \in Nat,
           NEW U, Nearest(R, S, n) \subseteq U, U \subseteq S
    PROVE  IsFiniteSet(U) /\ Strict(R, U) /\ Nearest(R, U, n) = Nearest(R, S, n)
<1>1. IsFiniteSet(U) /\ Strict(R, U)
  BY FS_Subset DEF Strict
<1>2. ASSUME NEW x \in U
      PROVE  /\ Below(R, U, x) \in SUBSET Below(R, S, x)
             /\ IsFiniteSet(Below(R, U, x)) /\ IsFiniteSet(Below(R, S, x))
             /\ Cardinality(Below(R, U, x)) \in Int /\ Cardinality(Below(R, S, x)) \in Int
             /\ Cardinality(Below(R, U, x)) <= Cardinality(Below(R, S, x))
  <2>1. Below(R, U, x) \in SUBSET Below(R, S, x)
    BY DEF Below
  <2>2. /\ IsFiniteSet(Below(R, U, x)) /\ IsFiniteSet(Below(R, S, x))
        /\ Cardinality(Below(R, U, x)) \in Int /\ Cardinality(Below(R, S, x)) \in Int
    BY <1>1, BelowCounted
  <2> QED BY <2>1, <2>2, FS_Subset
<1>3. ASSUME NEW x \in Nearest(R, S, n) PROVE x \in Nearest(R, U, n)
  <2>1. x \in U /\ Cardinality(Below(R, S, x)) < n
    BY <1>3 DEF Nearest
  <2> QED BY <1>2, <2>1 DEF Nearest
<1>4. ASSUME NEW x \in Nearest(R, U, n), x \notin Nearest(R, S, n) PROVE FALSE
  <2>1. x \in U /\ x \in S /\ Cardinality(Below(R, U, x)) < n
    BY <1>4 DEF Nearest
  <2>2. n <= Cardinality(Below(R, S, x))
    BY <1>2, <1>4, <2>1 DEF Nearest
  <2>3. PICK s : ListsNearest(s, R, S, n)
    BY NearestListed
  <2>4. /\ Cardinality(ToSet(s)) = Len(s)
        /\ Len(s) = IF Cardinality(S) < n THEN Cardinality(S) ELSE n
    BY <2>3, NearestListed
  <2>5. Cardinality(Below(R, S, x)) \in 0..(Cardinality(S) - 1) /\ Cardinality(S) \in Nat
    BY <2>1, BelowCounted
  <2>6. Cardinality(ToSet(s)) = n
    BY <2>2, <2>4, <2>5
  <2>7. ToSet(s) \in SUBSET Below(R, U, x)
    <3> SUFFICES ASSUME NEW y \in Nearest(R, S, n) PROVE y \in Below(R, U, x)
      BY <2>3 DEF ListsNearest
    <3>1. y \in U /\ y \in S /\ Cardinality(Below(R, S, y)) < n
      BY DEF Nearest
    <3>2. Cardinality(Below(R, S, y)) \in Int
      BY <1>2, <3>1
    <3>3. y # x
      BY <1>4
    <3>4. <<x, y>> \notin R
      <4> SUFFICES ASSUME <<x, y>> \in R PROVE FALSE
        OBVIOUS
      <4>1. Cardinality(Below(R, S, x)) < Cardinality(Below(R, S, y))
        BY <2>1, <3>1, BelowGrows
      <4> QED BY <2>2, <2>5, <3>1, <3>2, <4>1
    <3>5. <<y, x>> \in R
      BY <2>1, <3>1, <3>3, <3>4 DEF Strict
    <3> QED BY <3>1, <3>5 DEF Below
  <2>8. Cardinality(ToSet(s)) <= Cardinality(Below(R, U, x))
    BY <1>2, <2>1, <2>7, FS_Subset
  <2>9. Cardinality(Below(R, U, x)) \in Int
    BY <1>2, <2>1
  <2> QED BY <2>1, <2>6, <2>8, <2>9
<1> QED BY <1>1, <1>3, <1>4

-----------------------------------------------------------------------------
(* What ORDER BY returns: the rows in the order the page travels in.       *)
LEMMA SortedIncreases ==
    ASSUME NEW keys \in Seq(Keys), NEW bound \in {"after", "before"},
           NEW S, S \subseteq Rows, IsFiniteSet(S), NEW R, Strict(R, S),
           \A a, b \in S : <<a, b>> \in R <=> Near(keys, bound, a, b)
    PROVE  LET s == Sorted(S, Travel(keys, bound))
           IN s \in SetToSeqs(S) /\ Increases(R, s)
<1> DEFINE travel == Travel(keys, bound)
           terms == [i \in DOMAIN keys |-> TermOf(keys[i], bound)]
           Ordered(s) == \A i, j \in DOMAIN s :
                           i < j => ~OrderedBefore(terms, ValuesOf(keys, s[j]), ValuesOf(keys, s[i]))
           seqs == SetToSeqs(S)
<1>1. /\ DOMAIN travel = DOMAIN keys
      /\ \A i \in DOMAIN keys : /\ travel[i].field = keys[i].field
                                /\ Render(travel[i]) = TermOf(keys[i], bound)
  <2>1. \A i \in DOMAIN keys : keys[i] \in Keys
    OBVIOUS
  <2>2. \A key \in Keys : [key EXCEPT !.dir = Flip(@)].field = key.field
    BY DEF Keys
  <2> QED BY <2>1, <2>2 DEF Travel, TermOf
<1> HIDE DEF travel
<1>2. [i \in DOMAIN travel |-> Render(travel[i])] = terms
  BY <1>1
<1>3. \A r : ValuesOf(travel, r) = ValuesOf(keys, r)
  BY <1>1 DEF ValuesOf
<1> DEFINE rendered == [i \in DOMAIN travel |-> Render(travel[i])]
           Listed(s) == \A i, j \in DOMAIN s :
                          i < j => ~OrderedBefore(rendered, ValuesOf(travel, s[j]),
                                                  ValuesOf(travel, s[i]))
<1>4. Sorted(S, travel) = CHOOSE s \in seqs : Listed(s)
  BY DEF Sorted
<1>13. \A s : Listed(s) <=> Ordered(s)
  BY <1>2, <1>3
<1>5. \A a, b \in S : OrderedBefore(terms, ValuesOf(keys, a), ValuesOf(keys, b)) <=> <<a, b>> \in R
  BY TermsAreKeys
<1> HIDE DEF terms, rendered
<1>6. \A s \in seqs : \A i \in DOMAIN s : s[i] \in S
  BY DEF SetToSeqs
<1>7. \A s \in seqs : DOMAIN s \subseteq Int /\ \A i, j \in DOMAIN s : i # j => s[i] # s[j]
  BY DEF SetToSeqs
<1> HIDE DEF seqs
<1>8. \E s \in seqs : Ordered(s)
  <2>1. PICK s \in seqs : Increases(R, s)
    BY SortExists DEF seqs
  <2>2. ASSUME NEW i \in DOMAIN s, NEW j \in DOMAIN s, i < j PROVE <<s[j], s[i]>> \notin R
    <3>1. <<s[i], s[j]>> \in R
      BY <2>1, <2>2 DEF Increases
    <3> QED BY <1>6, <3>1 DEF Strict
  <2>3. Ordered(s)
    BY <1>5, <1>6, <2>2
  <2> QED BY <2>3
<1> DEFINE t == Sorted(S, travel)
<1>9. t \in seqs /\ Ordered(t)
  <2> HIDE DEF Ordered, Listed
  <2> QED BY <1>4, <1>8, <1>13
<1> HIDE DEF t
<1>10. ASSUME NEW i \in DOMAIN t, NEW j \in DOMAIN t, i < j PROVE <<t[i], t[j]>> \in R
  <2>1. <<t[j], t[i]>> \notin R
    BY <1>5, <1>6, <1>9, <1>10
  <2>2. i # j
    BY <1>7, <1>9, <1>10
  <2>3. t[i] # t[j]
    BY <1>7, <1>9, <2>2
  <2> QED BY <1>6, <1>9, <2>1, <2>3 DEF Strict
<1> QED BY <1>9, <1>10 DEF Increases, t, travel, seqs

(* What LIMIT keeps of it: the nearest rows.                               *)
LEMMA FirstSorted ==
    ASSUME NEW keys \in Seq(Keys), NEW bound \in {"after", "before"},
           NEW S, S \subseteq Rows, IsFiniteSet(S), NEW R, Strict(R, S),
           \A a, b \in S : <<a, b>> \in R <=> Near(keys, bound, a, b), NEW n \in Nat
    PROVE  ListsNearest(FirstOf(n, Sorted(S, Travel(keys, bound))), R, S, n)
<1> DEFINE s == Sorted(S, Travel(keys, bound))
           c == Cardinality(S)
<1>1. s \in SetToSeqs(S) /\ Increases(R, s)
  BY SortedIncreases
<1>2. c \in Nat
  BY FS_CardinalityType
<1> HIDE DEF s, c
<1>3. PICK N \in Nat : c <= N /\ n <= N
  <2>1. c + n \in Nat /\ c <= c + n /\ n <= c + n
    BY <1>2
  <2> QED BY <2>1
<1>4. ListsNearest(s, R, S, N)
  BY <1>1, <1>3, SortedLists DEF c
<1>5. ListsNearest(FirstOf(n, s), R, S, n)
  BY <1>3, <1>4, FirstAreNearest
<1> QED BY <1>5 DEF s

-----------------------------------------------------------------------------
(* The rows of a source, in the documented order.                          *)
LEMMA PrecedesOrder ==
    ASSUME NEW source, NEW orderBy, Orderable(source, orderBy),
           NEW a \in RowsOf(source, Rows), NEW b \in RowsOf(source, Rows),
           NEW c \in RowsOf(source, Rows)
    PROVE  /\ ~ Precedes(orderBy, a, a)
           /\ Precedes(orderBy, a, b) => ~ Precedes(orderBy, b, a)
           /\ Precedes(orderBy, a, c) => Precedes(orderBy, a, b) \/ Precedes(orderBy, b, c)
           /\ \/ a.member = b.member /\ a.id = b.id
              \/ Precedes(orderBy, a, b) \/ Precedes(orderBy, b, a)
<1> DEFINE keys == KeysetOrder(source, orderBy)
<1>1. /\ keys \in Seq(Keys)
      /\ Lex(keys, a, a) <=> Precedes(orderBy, a, a)
      /\ Lex(keys, a, b) <=> Precedes(orderBy, a, b)
      /\ Lex(keys, b, a) <=> Precedes(orderBy, b, a)
      /\ Lex(keys, a, c) <=> Precedes(orderBy, a, c)
      /\ Lex(keys, b, c) <=> Precedes(orderBy, b, c)
      /\ Same(keys, a, b) => a.member = b.member /\ a.id = b.id
  BY KeysetIsDocumented
<1> HIDE DEF keys
<1>2. OrderList(keys)
  <2>1. List(keys) /\ \A i \in DOMAIN keys : keys[i] \in Keys
    BY <1>1, SeqIsList
  <2> QED BY <2>1 DEF OrderList, Keys
<1>3. a \in Rows /\ b \in Rows /\ c \in Rows
  BY DEF RowsOf
<1>4. /\ Lex(keys, a, b) => ~ Lex(keys, b, a)
      /\ ~ Same(keys, a, b) => Lex(keys, a, b) \/ Lex(keys, b, a)
      /\ Lex(keys, a, c) => Lex(keys, a, b) \/ Lex(keys, b, c)
  BY <1>2, <1>3, LexOrder
<1>5. Lex(keys, a, a) => ~ Lex(keys, a, a)
  BY <1>2, <1>3, LexOrder
<1> QED BY <1>1, <1>4, <1>5

(* So for a reader going either way.                                       *)
LEMMA NearerOrder ==
    ASSUME NEW source, NEW orderBy, Orderable(source, orderBy), NEW bound,
           NEW a \in RowsOf(source, Rows), NEW b \in RowsOf(source, Rows),
           NEW c \in RowsOf(source, Rows)
    PROVE  /\ ~ Nearer(orderBy, bound, a, a)
           /\ Nearer(orderBy, bound, a, b) => ~ Nearer(orderBy, bound, b, a)
           /\ Nearer(orderBy, bound, a, c)
                => Nearer(orderBy, bound, a, b) \/ Nearer(orderBy, bound, b, c)
           /\ Nearer(orderBy, bound, a, b) /\ Nearer(orderBy, bound, b, c)
                => Nearer(orderBy, bound, a, c)
           /\ \/ a.member = b.member /\ a.id = b.id
              \/ Nearer(orderBy, bound, a, b) \/ Nearer(orderBy, bound, b, a)
<1>1. /\ ~ Precedes(orderBy, a, a)
      /\ Precedes(orderBy, a, b) => ~ Precedes(orderBy, b, a)
      /\ Precedes(orderBy, b, a) => ~ Precedes(orderBy, a, b)
      /\ Precedes(orderBy, b, c) => ~ Precedes(orderBy, c, b)
      /\ Precedes(orderBy, c, b) => ~ Precedes(orderBy, b, c)
      /\ Precedes(orderBy, a, c) => Precedes(orderBy, a, b) \/ Precedes(orderBy, b, c)
      /\ Precedes(orderBy, c, a) => Precedes(orderBy, c, b) \/ Precedes(orderBy, b, a)
      /\ Precedes(orderBy, a, b) => Precedes(orderBy, a, c) \/ Precedes(orderBy, c, b)
      /\ Precedes(orderBy, b, a) => Precedes(orderBy, b, c) \/ Precedes(orderBy, c, a)
      /\ \/ a.member = b.member /\ a.id = b.id
         \/ Precedes(orderBy, a, b) \/ Precedes(orderBy, b, a)
  BY PrecedesOrder
<1> QED BY <1>1 DEF Nearer

(* The rows of a source by pairs, the one that comes nearer first.         *)
Way(source, orderBy, bound) ==
    {p \in RowsOf(source, Rows) \X RowsOf(source, Rows) : Nearer(orderBy, bound, p[1], p[2])}

(* It is a strict order of what the source's tables hold.                  *)
LEMMA WayStrict ==
    ASSUME NEW source, NEW orderBy, Orderable(source, orderBy), NEW bound,
           NEW db, IsData(db), NEW S, S \subseteq RowsOf(source, db)
    PROVE  /\ IsFiniteSet(S) /\ S \subseteq RowsOf(source, Rows) /\ S \subseteq Rows
           /\ Strict(Way(source, orderBy, bound), S)
           /\ \A a, b \in S : <<a, b>> \in Way(source, orderBy, bound) <=> Nearer(orderBy, bound, a, b)
<1>1. S \subseteq db /\ IsFiniteSet(S) /\ S \subseteq RowsOf(source, Rows) /\ S \subseteq Rows
  BY FS_Subset DEF IsData, RowsOf
<1>2. \A a, b \in S : <<a, b>> \in Way(source, orderBy, bound) <=> Nearer(orderBy, bound, a, b)
  BY <1>1 DEF Way
<1>3. ASSUME NEW a \in S, NEW b \in S, NEW c \in S
      PROVE  /\ ~ Nearer(orderBy, bound, a, a)
             /\ Nearer(orderBy, bound, a, b) /\ Nearer(orderBy, bound, b, c)
                  => Nearer(orderBy, bound, a, c)
             /\ a = b \/ Nearer(orderBy, bound, a, b) \/ Nearer(orderBy, bound, b, a)
  <2>1. a.member = b.member /\ a.id = b.id => a = b
    BY <1>1 DEF IsData
  <2>2. a \in RowsOf(source, Rows) /\ b \in RowsOf(source, Rows) /\ c \in RowsOf(source, Rows)
    BY <1>1
  <2> QED BY <2>1, <2>2, NearerOrder
<1>4. Strict(Way(source, orderBy, bound), S)
  BY <1>2, <1>3 DEF Strict
<1> QED BY <1>1, <1>2, <1>4

(* A page's keys order its source that way, and a branch's its member.     *)
LEMMA NearIsNearer ==
    ASSUME NEW source, NEW orderBy, Orderable(source, orderBy), NEW bound \in {"after", "before"},
           NEW a \in RowsOf(source, Rows), NEW b \in RowsOf(source, Rows)
    PROVE  LET keys == KeysetOrder(source, orderBy)
           IN /\ keys \in Seq(Keys)
              /\ Near(keys, bound, a, b) <=> Nearer(orderBy, bound, a, b)
              /\ keys # <<>> /\ a.member = b.member =>
                   /\ BranchOrder(keys) \in Seq(Keys)
                   /\ Near(BranchOrder(keys), bound, a, b) <=> Nearer(orderBy, bound, a, b)
<1> DEFINE keys == KeysetOrder(source, orderBy)
<1>1. /\ keys \in Seq(Keys)
      /\ Lex(keys, a, b) <=> Precedes(orderBy, a, b)
      /\ Lex(keys, b, a) <=> Precedes(orderBy, b, a)
  BY KeysetIsDocumented
<1> HIDE DEF keys
<1>2. a \in Rows /\ b \in Rows
  BY DEF RowsOf
<1>3. ASSUME keys # <<>>, a.member = b.member
      PROVE  /\ BranchOrder(keys) \in Seq(Keys)
             /\ Lex(BranchOrder(keys), a, b) <=> Lex(keys, a, b)
             /\ Lex(BranchOrder(keys), b, a) <=> Lex(keys, b, a)
  <2>1. b.member = a.member
    BY <1>3
  <2> QED BY <1>1, <1>2, <1>3, <2>1, BranchOrderSame
<1> QED BY <1>1, <1>3 DEF Near, Nearer, keys

-----------------------------------------------------------------------------
(* What the code appends to the caller's keys.                             *)
Appended(source, orderBy, tail) ==
    /\ KeysetOrder(source, orderBy) = OrderKeys(orderBy) \o tail
    /\ \A i \in DOMAIN tail :
         /\ tail[i] = Key(tail[i].field, tail[i].dir)
         /\ tail[i].field = "id" \/ (source = Union /\ tail[i].field = "$$key")
    /\ Named(orderBy, "id") \/ \E i \in DOMAIN tail : tail[i].field = "id"
    /\ source = Union =>
         \/ Named(orderBy, "$$key")
         \/ \E i \in DOMAIN tail : tail[i].field = "$$key"

(* The keys of a page are the caller's, and then the appended ones.        *)
LEMMA KeysetParts ==
    ASSUME NEW source, NEW orderBy \in Seq(OrderBy)
    PROVE  \E tail \in Seq(Keys) : Appended(source, orderBy, tail)
<1> DEFINE o == OrderKeys(orderBy)
           i == Key("id", LastDir(orderBy))
           k == Key("$$key", LastDir(orderBy))
<1>1. o \in Seq(Keys)
  BY OrderKeysSame
<1>2. /\ i \in Keys /\ i.field = "id" /\ i = Key(i.field, i.dir)
      /\ k \in Keys /\ k.field = "$$key" /\ k = Key(k.field, k.dir)
  BY LastDirTyped DEF Key, Keys, OrderFields
<1>3. /\ TableOrder(orderBy) = o \o (IF Named(orderBy, "id") THEN <<>> ELSE <<i>>)
      /\ UnionOrder(orderBy) = (o \o (IF Named(orderBy, "$$key") THEN <<>> ELSE <<k>>)) \o <<i>>
  BY DEF TableOrder, UnionOrder
<1> HIDE DEF o, i, k
<1>4. <<>> \in Seq(Keys) /\ <<i>> \in Seq(Keys) /\ <<k>> \in Seq(Keys) /\ <<k, i>> \in Seq(Keys)
  BY <1>2
<1>5. /\ DOMAIN <<>> = {} /\ DOMAIN <<i>> = {1} /\ <<i>>[1] = i
      /\ DOMAIN <<k, i>> = {1, 2} /\ <<k, i>>[1] = k /\ <<k, i>>[2] = i
  OBVIOUS
<1>6. o \o <<>> = o
  BY <1>1, ConcatEmptySeq
<1>7. (o \o <<k>>) \o <<i>> = o \o <<k, i>>
  <2>1. (o \o <<k>>) \o <<i>> = o \o (<<k>> \o <<i>>)
    BY <1>1, <1>4, ConcatAssociative
  <2> QED BY <2>1, PairConcat
<1>8. CASE source # Union
  <2>1. CASE Named(orderBy, "id")
    <3>1. KeysetOrder(source, orderBy) = o \o <<>>
      BY <1>3, <1>8, <2>1 DEF KeysetOrder
    <3> QED BY <1>4, <1>5, <1>8, <2>1, <3>1 DEF o, Appended
  <2>2. CASE ~ Named(orderBy, "id")
    <3>1. KeysetOrder(source, orderBy) = o \o <<i>>
      BY <1>3, <1>8, <2>2 DEF KeysetOrder
    <3>2. \A j \in DOMAIN <<i>> : <<i>>[j] = i
      BY <1>5
    <3>3. \E j \in DOMAIN <<i>> : <<i>>[j].field = "id"
      BY <1>2, <1>5
    <3> QED BY <1>2, <1>4, <1>8, <3>1, <3>2, <3>3 DEF o, Appended
  <2> QED BY <2>1, <2>2
<1>9. CASE source = Union
  <2>1. CASE Named(orderBy, "$$key")
    <3>1. KeysetOrder(source, orderBy) = o \o <<i>>
      BY <1>3, <1>6, <1>9, <2>1 DEF KeysetOrder
    <3>2. \A j \in DOMAIN <<i>> : <<i>>[j] = i
      BY <1>5
    <3>3. \E j \in DOMAIN <<i>> : <<i>>[j].field = "id"
      BY <1>2, <1>5
    <3> QED BY <1>2, <1>4, <2>1, <3>1, <3>2, <3>3 DEF o, Appended
  <2>2. CASE ~ Named(orderBy, "$$key")
    <3>1. KeysetOrder(source, orderBy) = o \o <<k, i>>
      BY <1>3, <1>7, <1>9, <2>2 DEF KeysetOrder
    <3>2. \A j \in DOMAIN <<k, i>> : <<k, i>>[j] = i \/ <<k, i>>[j] = k
      BY <1>5
    <3>3. /\ \E j \in DOMAIN <<k, i>> : <<k, i>>[j].field = "id"
          /\ \E j \in DOMAIN <<k, i>> : <<k, i>>[j].field = "$$key"
      BY <1>2, <1>5
    <3> DEFINE tail == <<k, i>>
    <3> HIDE DEF tail
    <3>4. \A j \in DOMAIN tail : /\ tail[j] = Key(tail[j].field, tail[j].dir)
                                 /\ tail[j].field = "id" \/ tail[j].field = "$$key"
      BY <1>2, <3>2 DEF tail
    <3>5. tail \in Seq(Keys) /\ KeysetOrder(source, orderBy) = OrderKeys(orderBy) \o tail
      BY <1>4, <3>1 DEF tail, o
    <3>6. /\ \E j \in DOMAIN tail : tail[j].field = "id"
          /\ \E j \in DOMAIN tail : tail[j].field = "$$key"
      BY <3>3 DEF tail
    <3> QED BY <1>9, <3>4, <3>5, <3>6 DEF Appended
  <2> QED BY <2>1, <2>2
<1> QED BY <1>8, <1>9

(* orderBy is an object: it names a field once.                            *)
NamesOnce(orderBy) ==
    \A i, j \in DOMAIN orderBy : orderBy[i].field = orderBy[j].field => i = j

(* What the keys of a page are: the primary key is among them, the member  *)
(* is on a union and only there, and the other column where the caller     *)
(* named it, once.                                                         *)
LEMMA KeysetFields ==
    ASSUME NEW source, NEW orderBy, Orderable(source, orderBy)
    PROVE  LET keys == KeysetOrder(source, orderBy)
               Has(field) == \E i \in DOMAIN keys : keys[i].field = field
           IN /\ keys \in Seq(Keys) /\ keys # <<>>
              /\ \A i \in DOMAIN keys : keys[i] = Key(keys[i].field, keys[i].dir)
              /\ Has("id") /\ (Has("$$key") <=> source = Union)
              /\ Has("name") <=> Named(orderBy, "name")
              /\ NamesOnce(orderBy) =>
                   \A i, j \in DOMAIN keys :
                      keys[i].field = "name" /\ keys[j].field = "name" => i = j
<1> DEFINE o == OrderKeys(orderBy)
           keys == KeysetOrder(source, orderBy)
           n == Len(orderBy)
           Has(field) == \E i \in DOMAIN keys : keys[i].field = field
<1>1. orderBy \in Seq(OrderBy) /\ n \in Nat /\ DOMAIN orderBy = 1..n
      /\ (source # Union => ~ Named(orderBy, "$$key"))
  BY DEF Orderable
<1>2. /\ o \in Seq(Keys) /\ Len(o) = n
      /\ \A i \in 1..n : o[i] = Key(orderBy[i].field, orderBy[i].dir)
  BY <1>1, OrderKeysSame
<1>3. PICK tail \in Seq(Keys) : Appended(source, orderBy, tail)
  BY <1>1, KeysetParts
<1>18. /\ keys = o \o tail
       /\ \A i \in DOMAIN tail :
            /\ tail[i] = Key(tail[i].field, tail[i].dir)
            /\ tail[i].field = "id" \/ (source = Union /\ tail[i].field = "$$key")
       /\ Named(orderBy, "id") \/ \E i \in DOMAIN tail : tail[i].field = "id"
       /\ source = Union =>
            \/ Named(orderBy, "$$key")
            \/ \E i \in DOMAIN tail : tail[i].field = "$$key"
  BY <1>3 DEF Appended
<1> DEFINE m == Len(tail)
<1>4. m \in Nat /\ DOMAIN tail = 1..m
  OBVIOUS
<1> HIDE DEF o, keys, n, m
<1>5. /\ keys \in Seq(Keys) /\ Len(keys) = n + m
      /\ \A i \in 1..(n + m) : keys[i] = IF i <= n THEN o[i] ELSE tail[i - n]
  <2>1. /\ o \o tail \in Seq(Keys) /\ Len(o \o tail) = Len(o) + Len(tail)
        /\ \A i \in 1..(Len(o) + Len(tail)) :
             (o \o tail)[i] = IF i <= Len(o) THEN o[i] ELSE tail[i - Len(o)]
    BY <1>2, ConcatProperties
  <2> QED BY <1>2, <1>18, <2>1 DEF m
<1>6. /\ DOMAIN keys = 1..(n + m)
      /\ \A i \in 1..n : i \in DOMAIN keys /\ keys[i] = o[i]
      /\ \A i \in 1..m : n + i \in DOMAIN keys /\ keys[n + i] = tail[i]
      /\ \A i \in DOMAIN keys : i \in 1..n \/ \E j \in 1..m : i = n + j
  <2>1. DOMAIN keys = 1..(n + m)
    BY <1>5
  <2>2. \A i \in 1..n : i \in 1..(n + m) /\ i <= n
    BY <1>1, <1>4
  <2>3. \A i \in 1..m : n + i \in 1..(n + m) /\ ~ (n + i <= n) /\ n + i - n = i
    BY <1>1, <1>4
  <2>4. \A i \in 1..(n + m) : i \in 1..n \/ (i - n \in 1..m /\ i = n + (i - n))
    BY <1>1, <1>4
  <2>5. \A i \in 1..n : i \in DOMAIN keys /\ keys[i] = o[i]
    BY <1>5, <2>1, <2>2
  <2>6. ASSUME NEW i \in 1..m PROVE n + i \in DOMAIN keys /\ keys[n + i] = tail[i]
    <3> DEFINE p == n + i
    <3>1. p \in 1..(n + m) /\ ~ (p <= n) /\ p - n = i
      BY <1>1, <1>4
    <3> HIDE DEF p
    <3>2. keys[p] = tail[p - n]
      BY <1>5, <3>1
    <3> QED BY <2>1, <3>1, <3>2 DEF p
  <2>7. \A i \in DOMAIN keys : i \in 1..n \/ \E j \in 1..m : i = n + j
    BY <2>1, <2>4
  <2> QED BY <2>1, <2>5, <2>6, <2>7
<1>7. \A i \in 1..n : /\ o[i].field = orderBy[i].field
                      /\ o[i] = Key(o[i].field, o[i].dir)
  BY <1>2 DEF Key
<1>8. \A i \in DOMAIN keys : keys[i] = Key(keys[i].field, keys[i].dir)
  <2> SUFFICES ASSUME NEW i \in DOMAIN keys PROVE keys[i] = Key(keys[i].field, keys[i].dir)
    OBVIOUS
  <2>1. CASE i \in 1..n
    BY <1>6, <1>7, <2>1
  <2>2. ASSUME NEW j \in 1..m, i = n + j PROVE keys[i] = Key(keys[i].field, keys[i].dir)
    <3>1. keys[i] = tail[j] /\ j \in DOMAIN tail
      BY <1>4, <1>6, <2>2
    <3> QED BY <1>18, <3>1
  <2> QED BY <1>6, <2>1, <2>2
<1>9. \A field : Named(orderBy, field) <=> \E i \in 1..n : keys[i].field = field
  BY <1>1, <1>6, <1>7 DEF Named
<1>10. \A field : Named(orderBy, field) => Has(field)
  BY <1>6, <1>9
<1>11. \A field : (\E i \in DOMAIN tail : tail[i].field = field) => Has(field)
  BY <1>4, <1>6
<1>12. \A i \in DOMAIN keys : i \in 1..n \/ keys[i].field = "id" \/ (source = Union /\ keys[i].field = "$$key")
  <2> SUFFICES ASSUME NEW i \in DOMAIN keys, i \notin 1..n
               PROVE  keys[i].field = "id" \/ (source = Union /\ keys[i].field = "$$key")
    OBVIOUS
  <2>1. PICK j \in 1..m : i = n + j
    BY <1>6
  <2>2. keys[i] = tail[j] /\ j \in DOMAIN tail
    BY <1>4, <1>6, <2>1
  <2> QED BY <1>18, <2>2
<1>13. Has("id") /\ (source = Union => Has("$$key"))
  <2> HIDE DEF Has
  <2> QED BY <1>18, <1>10, <1>11
<1>14. Has("$$key") => source = Union
  BY <1>1, <1>9, <1>12
<1>15. Has("name") <=> Named(orderBy, "name")
  BY <1>9, <1>10, <1>12
<1>16. keys # <<>>
  BY <1>13
<1>17. ASSUME NamesOnce(orderBy), NEW i \in DOMAIN keys, NEW j \in DOMAIN keys,
              keys[i].field = "name", keys[j].field = "name"
       PROVE  i = j
  <2>1. i \in 1..n /\ j \in 1..n
    BY <1>12, <1>17
  <2>2. orderBy[i].field = orderBy[j].field
    BY <1>6, <1>7, <1>17, <2>1
  <2> QED BY <1>1, <1>17, <2>1, <2>2 DEF NamesOnce
<1> QED BY <1>5, <1>8, <1>13, <1>14, <1>15, <1>16, <1>17 DEF keys

-----------------------------------------------------------------------------
(* A cursor the caller may pass: as if taken on a row of the source, which *)
(* need not be there any more.                                             *)
Taken(source, orderBy, cursor) ==
    \E p \in RowsOf(source, Rows) : cursor = Cursor(source, KeysetOrder(source, orderBy), p)

(* What a cursor holds of its row.                                         *)
LEMMA CursorValues ==
    ASSUME NEW source, NEW orderBy, Orderable(source, orderBy), NEW p \in Rows
    PROVE  LET keys == KeysetOrder(source, orderBy)
               values == ValuesOf(keys, p)
           IN /\ values \in Seq(Value) /\ Len(values) = Len(keys) /\ DOMAIN values = DOMAIN keys
              /\ \A i \in DOMAIN keys : /\ values[i] = FieldOf(keys[i].field, p)
                                        /\ values[i] \in Value /\ Holdable(keys[i], values[i])
<1> DEFINE keys == KeysetOrder(source, orderBy)
           values == ValuesOf(keys, p)
           n == Len(keys)
<1>1. /\ keys \in Seq(Keys)
      /\ \A i \in DOMAIN keys : keys[i] = Key(keys[i].field, keys[i].dir)
  BY KeysetFields
<1> HIDE DEF keys
<1>2. n \in Nat /\ DOMAIN keys = 1..n /\ \A i \in 1..n : keys[i] \in Keys
  BY <1>1
<1>3. values = [i \in 1..n |-> FieldOf(keys[i].field, p)]
  BY <1>2 DEF ValuesOf
<1> HIDE DEF values, n
<1>4. ASSUME NEW i \in 1..n
      PROVE  values[i] = FieldOf(keys[i].field, p) /\ values[i] \in Value /\ Holdable(keys[i], values[i])
  <2>1. values[i] = FieldOf(keys[i].field, p)
    BY <1>3
  <2>2. keys[i].field \in OrderFields
    BY <1>2 DEF Keys
  <2>3. FieldOf(keys[i].field, p) \in Value
    BY <2>2, FieldTyped
  <2>4. keys[i].nullable = (keys[i].field = "name")
    BY <1>1, <1>2 DEF Key
  <2>5. keys[i].field # "name" => FieldOf(keys[i].field, p) # Null
    BY <2>2, DataAssumption, NullAssumption DEF FieldOf, OrderFields, Rows
  <2> QED BY <2>1, <2>3, <2>4, <2>5 DEF Holdable
<1>5. values \in [1..n -> Value]
  BY <1>3, <1>4
<1>6. values \in Seq(Value) /\ Len(values) = n /\ DOMAIN values = 1..n
  BY <1>2, <1>5
<1> QED BY <1>2, <1>4, <1>6 DEF keys, values, n

(* The keyset of a cursor is true of exactly the rows of the source that   *)
(* are farther, in the documented order, than the row it was taken on.     *)
LEMMA KeysetIsNearer ==
    ASSUME NEW source, NEW orderBy, Orderable(source, orderBy), NEW bound \in {"after", "before"},
           NEW p \in RowsOf(source, Rows), NEW r \in RowsOf(source, Rows)
    PROVE  LET keys == KeysetOrder(source, orderBy)
           IN Holds(KeysetCondition(keys, bound, ValuesOf(keys, p), ValuesOf(keys, r)))
                <=> Nearer(orderBy, bound, p, r)
<1> DEFINE keys == KeysetOrder(source, orderBy)
<1>1. p \in Rows /\ r \in Rows
  BY DEF RowsOf
<1>2. keys \in Seq(Keys) /\ (Near(keys, bound, p, r) <=> Nearer(orderBy, bound, p, r))
  BY NearIsNearer
<1>3. /\ \A i \in DOMAIN keys : ValuesOf(keys, p)[i] \in Value /\ Holdable(keys[i], ValuesOf(keys, p)[i])
      /\ \A i \in DOMAIN keys : ValuesOf(keys, r)[i] \in Value /\ Holdable(keys[i], ValuesOf(keys, r)[i])
  BY <1>1, CursorValues
<1> HIDE DEF keys
<1>4. KeysetCondition(keys, bound, ValuesOf(keys, p), ValuesOf(keys, r)) = "true"
        <=> OrderedBefore([i \in DOMAIN keys |-> TermOf(keys[i], bound)],
                          ValuesOf(keys, p), ValuesOf(keys, r))
  BY <1>2, <1>3, KeysetIsOrder
<1>5. OrderedBefore([i \in DOMAIN keys |-> TermOf(keys[i], bound)],
                    ValuesOf(keys, p), ValuesOf(keys, r))
        <=> Near(keys, bound, p, r)
  BY <1>1, <1>2, TermsAreKeys
<1> QED BY <1>2, <1>4, <1>5 DEF keys, Holds

(* What a cursor says of its row is all the documented order asks for.     *)
LEMMA RowAtIsSame ==
    ASSUME NEW source, NEW orderBy, Orderable(source, orderBy), NEW p \in RowsOf(source, Rows)
    PROVE  LET q == RowAt(source, orderBy, Cursor(source, KeysetOrder(source, orderBy), p))
           IN q \in RowsOf(source, Rows) /\ Same(DocumentedKeys(orderBy), q, p)
<1> DEFINE keys == KeysetOrder(source, orderBy)
           cursor == Cursor(source, keys, p)
           Has(field) == \E i \in DOMAIN keys : keys[i].field = field
           value(field, other) ==
              IF Has(field)
              THEN cursor.values[CHOOSE i \in DOMAIN keys : keys[i].field = field] ELSE other
           q == RowAt(source, orderBy, cursor)
<1>1. /\ Has("id") /\ (Has("$$key") <=> source = Union)
      /\ Has("name") <=> Named(orderBy, "name")
  BY KeysetFields
<1>2. p \in Rows /\ (source # Union => p.member = source)
  BY DEF RowsOf
<1>3. \A i \in DOMAIN keys : ValuesOf(keys, p)[i] = FieldOf(keys[i].field, p)
  BY <1>2, CursorValues
<1>4. cursor.values = ValuesOf(keys, p)
  BY DEF Cursor
<1>5. q = [member |-> value("$$key", source), id |-> value("id", Null), name |-> value("name", Null)]
  BY DEF RowAt
<1> HIDE DEF keys, cursor, q
<1>6. ASSUME NEW field, NEW other PROVE value(field, other) = IF Has(field) THEN FieldOf(field, p) ELSE other
  <2>1. CASE Has(field)
    <3> DEFINE i == CHOOSE i \in DOMAIN keys : keys[i].field = field
    <3>1. i \in DOMAIN keys /\ keys[i].field = field
      BY <2>1
    <3> HIDE DEF i
    <3>2. cursor.values[i] = FieldOf(field, p)
      BY <1>3, <1>4, <3>1
    <3> QED BY <2>1, <3>2 DEF i
  <2>2. CASE ~ Has(field)
    BY <2>2
  <2> QED BY <2>1, <2>2
<1> HIDE DEF value, Has
<1>7. /\ q.member = p.member /\ q.id = p.id
      /\ q.name = IF Named(orderBy, "name") THEN p.name ELSE Null
      /\ q = [member |-> q.member, id |-> q.id, name |-> q.name]
  <2>1. /\ value("$$key", source) = p.member
        /\ value("id", Null) = p.id
        /\ value("name", Null) = IF Named(orderBy, "name") THEN p.name ELSE Null
    BY <1>1, <1>2, <1>6 DEF FieldOf
  <2> QED BY <1>5, <2>1
<1>8. q \in Rows
  <2>1. p.member \in Members /\ p.id \in Ids /\ p.name \in Names \cup {Null}
    BY <1>2 DEF Rows
  <2> QED BY <1>7, <2>1 DEF Rows
<1>9. q \in RowsOf(source, Rows)
  BY <1>7, <1>8 DEF RowsOf
<1>10. Same(DocumentedKeys(orderBy), q, p)
  <2>1. orderBy \in Seq(OrderBy)
    BY DEF Orderable
  <2>2. ASSUME NEW i \in DOMAIN orderBy PROVE Ties(orderBy[i], q, p)
    <3>1. orderBy[i].field \in OrderFields
      <4>1. orderBy[i] \in OrderBy
        BY <2>1
      <4> QED BY <4>1 DEF OrderBy
    <3>2. orderBy[i].field = "name" => Named(orderBy, "name")
      BY DEF Named
    <3> QED BY <1>7, <3>1, <3>2 DEF OrderFields, Ties, FieldOf
  <2>3. Ties(Tail1(orderBy, "$$key"), q, p) /\ Ties(Tail1(orderBy, "id"), q, p)
    BY <1>7 DEF Ties, Tail1, FieldOf
  <2>4. Same(orderBy, q, p)
    BY <2>2 DEF Same
  <2> QED BY <2>1, <2>3, <2>4, DocumentedLex
<1> QED BY <1>9, <1>10 DEF q, cursor, keys

(* Beyond a cursor are the rows farther than the one it was taken on.      *)
LEMMA BeyondIsNearer ==
    ASSUME NEW source, NEW orderBy, Orderable(source, orderBy), NEW bound,
           NEW p \in RowsOf(source, Rows), NEW r \in RowsOf(source, Rows),
           NEW cursor, cursor = Cursor(source, KeysetOrder(source, orderBy), p), cursor # Null
    PROVE  Beyond(source, orderBy, bound, cursor, r) <=> Nearer(orderBy, bound, p, r)
<1> DEFINE keys == DocumentedKeys(orderBy)
           q == RowAt(source, orderBy, cursor)
<1>1. q \in RowsOf(source, Rows) /\ Same(keys, q, p)
  BY RowAtIsSame
<1>2. orderBy \in Seq(OrderBy)
  BY DEF Orderable
<1>3. keys \in Seq(OrderBy)
  BY <1>2, DocumentedLex
<1>7. Beyond(source, orderBy, bound, cursor, r) <=> Nearer(orderBy, bound, q, r)
  BY DEF Beyond
<1> HIDE DEF keys, q
<1>4. OrderList(keys)
  <2>1. List(keys) /\ \A i \in DOMAIN keys : keys[i] \in OrderBy
    BY <1>3, SeqIsList
  <2> QED BY <2>1 DEF OrderList, OrderBy
<1>5. q \in Rows /\ p \in Rows /\ r \in Rows
  BY <1>1 DEF RowsOf
<1>6. /\ Lex(keys, q, r) <=> Lex(keys, p, r)
      /\ Lex(keys, r, q) <=> Lex(keys, r, p)
  BY <1>1, <1>4, <1>5, LexOrder
<1>8. /\ Precedes(orderBy, q, r) <=> Precedes(orderBy, p, r)
      /\ Precedes(orderBy, r, q) <=> Precedes(orderBy, r, p)
  BY <1>2, <1>6, PrecedesIsLex DEF keys
<1> QED BY <1>7, <1>8 DEF Nearer

-----------------------------------------------------------------------------
(* The select of a page.                                                   *)

(* What a request that is not refused holds.                               *)
Accepted(req) ==
    /\ Orderable(req.source, req.orderBy) /\ NamesOnce(req.orderBy)
    /\ PageSize(req.limit) \in Nat \ {0}
    /\ req.bound \in {"after", "before"} /\ req.count \in BOOLEAN /\ req.tx \in BOOLEAN
    /\ req.cursor # Null => Taken(req.source, req.orderBy, req.cursor)

(* The rows it may read: those past its cursor.                            *)
Past(req, db) ==
    {r \in RowsOf(req.source, db) : Beyond(req.source, req.orderBy, req.bound, req.cursor, r)}

(* The rows the keyset keeps are those beyond the cursor.                  *)
KeptOf(req, keys, S) ==
    IF req.cursor = Null THEN S
    ELSE {r \in S : Holds(KeysetCondition(keys, req.bound, req.cursor.values, ValuesOf(keys, r)))}

(* So it is for a request that is accepted, on any of its source's rows.   *)
LEMMA KeysetPast ==
    ASSUME NEW req, Accepted(req), NEW S, S \subseteq RowsOf(req.source, Rows)
    PROVE  KeptOf(req, KeysetOrder(req.source, req.orderBy), S)
             = {r \in S : Beyond(req.source, req.orderBy, req.bound, req.cursor, r)}
<1> DEFINE keys == KeysetOrder(req.source, req.orderBy)
<1>1. CASE req.cursor = Null
  BY <1>1 DEF KeptOf, Beyond
<1>2. CASE req.cursor # Null
  <2>1. /\ Orderable(req.source, req.orderBy) /\ req.bound \in {"after", "before"}
        /\ Taken(req.source, req.orderBy, req.cursor)
    BY <1>2 DEF Accepted
  <2>2. PICK p \in RowsOf(req.source, Rows) : req.cursor = Cursor(req.source, keys, p)
    BY <2>1 DEF Taken
  <2>3. req.cursor.values = ValuesOf(keys, p)
    BY <2>2 DEF Cursor
  <2>4. ASSUME NEW r \in S
        PROVE  Holds(KeysetCondition(keys, req.bound, req.cursor.values, ValuesOf(keys, r)))
                 <=> Beyond(req.source, req.orderBy, req.bound, req.cursor, r)
    <3>1. r \in RowsOf(req.source, Rows)
      OBVIOUS
    <3>2. Holds(KeysetCondition(keys, req.bound, ValuesOf(keys, p), ValuesOf(keys, r)))
            <=> Nearer(req.orderBy, req.bound, p, r)
      BY <2>1, <3>1, KeysetIsNearer
    <3>3. Beyond(req.source, req.orderBy, req.bound, req.cursor, r)
            <=> Nearer(req.orderBy, req.bound, p, r)
      BY <1>2, <2>1, <2>2, <3>1, BeyondIsNearer
    <3> QED BY <2>3, <3>2, <3>3
  <2> HIDE DEF keys
  <2>5. KeptOf(req, keys, S)
          = {r \in S : Holds(KeysetCondition(keys, req.bound, req.cursor.values, ValuesOf(keys, r)))}
    BY <1>2 DEF KeptOf
  <2>6. KeptOf(req, keys, S)
          = {r \in S : Beyond(req.source, req.orderBy, req.bound, req.cursor, r)}
    BY <2>4, <2>5
  <2> QED BY <2>6 DEF keys
<1> QED BY <1>1, <1>2

(* A branch reads the nearest of its member's.                             *)
LEMMA BranchNearest ==
    ASSUME NEW req, Accepted(req), req.source = Union, NEW db, IsData(db), NEW m \in Members,
           NEW n \in Nat
    PROVE  Branch(m, db, KeysetOrder(Union, req.orderBy), req, n)
             = Nearest(Way(Union, req.orderBy, req.bound), {r \in Past(req, db) : r.member = m}, n)
<1> DEFINE keys == KeysetOrder(Union, req.orderBy)
           R == Way(Union, req.orderBy, req.bound)
           mine == RowsOf(m, db)
           past == {r \in Past(req, db) : r.member = m}
           branch == BranchOrder(keys)
<1>1. /\ Orderable(Union, req.orderBy) /\ req.bound \in {"after", "before"}
  BY DEF Accepted
<1>2. m # Union
  BY DataAssumption DEF Union
<1>3. mine = {r \in db : r.member = m}
  BY <1>2 DEF RowsOf
<1>4. mine \subseteq RowsOf(Union, db) /\ db \subseteq Rows
  BY <1>3 DEF RowsOf, IsData
<1>5. mine \subseteq RowsOf(req.source, Rows)
  BY <1>3, <1>4 DEF RowsOf
<1>6. KeptOf(req, keys, mine) = past
  <2>1. KeptOf(req, keys, mine)
          = {r \in mine : Beyond(req.source, req.orderBy, req.bound, req.cursor, r)}
    BY <1>5, KeysetPast
  <2> QED BY <1>3, <2>1 DEF Past, RowsOf
<1>7. past \subseteq RowsOf(Union, db)
  BY DEF Past
<1> HIDE DEF keys, mine, past
<1>8. /\ IsFiniteSet(past) /\ past \subseteq RowsOf(Union, Rows) /\ past \subseteq Rows
      /\ Strict(R, past)
      /\ \A a, b \in past : <<a, b>> \in R <=> Nearer(req.orderBy, req.bound, a, b)
  BY <1>1, <1>7, WayStrict
<1> HIDE DEF R
<1>9. \A a \in past : a.member = m
  BY DEF past
<1>10. keys \in Seq(Keys) /\ keys # <<>>
  BY <1>1, KeysetFields DEF keys
<1>11. \A a, b \in past : /\ branch \in Seq(Keys)
                          /\ Near(branch, req.bound, a, b) <=> Nearer(req.orderBy, req.bound, a, b)
  <2> SUFFICES ASSUME NEW a \in past, NEW b \in past
               PROVE  /\ branch \in Seq(Keys)
                      /\ Near(branch, req.bound, a, b) <=> Nearer(req.orderBy, req.bound, a, b)
    OBVIOUS
  <2>1. a \in RowsOf(Union, Rows) /\ b \in RowsOf(Union, Rows) /\ a.member = b.member
    BY <1>8, <1>9
  <2> QED BY <1>1, <1>10, <2>1, NearIsNearer DEF keys
<1>12. Branch(m, db, keys, req, n) = ToSet(FirstOf(n, Sorted(past, Travel(branch, req.bound))))
  BY <1>6 DEF Branch, KeptOf, mine, BranchLimit
<1> HIDE DEF branch
<1>13. CASE past # {}
  <2>1. branch \in Seq(Keys)
    BY <1>11, <1>13
  <2>2. \A a, b \in past : <<a, b>> \in R <=> Near(branch, req.bound, a, b)
    BY <1>8, <1>11
  <2>3. ListsNearest(FirstOf(n, Sorted(past, Travel(branch, req.bound))), R, past, n)
    BY <1>1, <1>8, <2>1, <2>2, FirstSorted
  <2>4. ToSet(FirstOf(n, Sorted(past, Travel(branch, req.bound)))) = Nearest(R, past, n)
    BY <2>3 DEF ListsNearest
  <2> QED BY <1>12, <2>4 DEF keys, R, past
<1>14. CASE past = {}
  <2>1. Nearest(R, past, n) = {}
    BY <1>14 DEF Nearest
  <2> DEFINE s == Sorted(past, Travel(branch, req.bound))
  <2>2. s = <<>> 
    <3>1. Cardinality(past) = 0
      BY <1>14, FS_EmptySet
    <3>2. SetToSeqs(past) = {<<>>}
      <4>1. 1..Cardinality(past) = {}
        BY <3>1
      <4>2. <<>> \in [{} -> past] /\ \A f \in [{} -> past] : f = <<>>
        OBVIOUS
      <4> QED BY <4>1, <4>2 DEF SetToSeqs
    <3>3. DOMAIN <<>> = {}
      OBVIOUS
    <3> HIDE DEF s
    <3>4. s \in SetToSeqs(past)
      <4> DEFINE Ord(t) == \A i, j \in DOMAIN t :
                     i < j => ~OrderedBefore([k \in DOMAIN Travel(branch, req.bound) |-> Render(Travel(branch, req.bound)[k])],
                                             ValuesOf(Travel(branch, req.bound), t[j]), ValuesOf(Travel(branch, req.bound), t[i]))
      <4>1. s = CHOOSE t \in SetToSeqs(past) : Ord(t)
        BY DEF Sorted, s
      <4>2. Ord(<<>>)
        BY <3>3
      <4> HIDE DEF Ord
      <4> QED BY <3>2, <4>1, <4>2
    <3> QED BY <3>2, <3>4
  <2> HIDE DEF s
  <2>3. ToSet(FirstOf(n, s)) = {}
    <3>1. Len(s) = 0
      BY <2>2
    <3>2. FirstOf(n, s) = SubSeq(s, 1, 0)
      <4>1. (IF Len(s) < n THEN Len(s) ELSE n) = 0
        BY <3>1
      <4> QED BY <4>1 DEF FirstOf
    <3>3. SubSeq(s, 1, 0) = <<>>
      BY <2>2
    <3> QED BY <3>2, <3>3, EmptyList
  <2> QED BY <1>12, <2>1, <2>3 DEF keys, R, past, s
<1> QED BY <1>13, <1>14

(* A select reads the nearest of all the rows past the cursor, from one    *)
(* table or from all the members of a union.                               *)
THEOREM SelectNearest ==
    ASSUME NEW req, Accepted(req), NEW db, IsData(db)
    PROVE  ListsNearest(Select(req, db), Way(req.source, req.orderBy, req.bound), Past(req, db),
                        PageSize(req.limit) + 1)
<1> DEFINE source == req.source
           keys == KeysetOrder(req.source, req.orderBy)
           R == Way(req.source, req.orderBy, req.bound)
           past == Past(req, db)
           n == PageSize(req.limit) + 1
<1>1. /\ Orderable(source, req.orderBy) /\ req.bound \in {"after", "before"}
      /\ PageSize(req.limit) \in Nat \ {0} /\ source \in Source
  BY DEF Accepted, Orderable
<1>2. n \in Nat
  BY <1>1
<1>3. past \subseteq RowsOf(source, db)
  BY DEF Past
<1>4. /\ IsFiniteSet(past) /\ past \subseteq RowsOf(source, Rows) /\ past \subseteq Rows
      /\ Strict(R, past)
  BY <1>1, <1>3, WayStrict
<1>5. keys \in Seq(Keys)
  BY <1>1, KeysetFields
<1>6. ASSUME NEW S, S \subseteq past
      PROVE  /\ IsFiniteSet(S) /\ S \subseteq Rows /\ Strict(R, S)
             /\ \A a, b \in S : <<a, b>> \in R <=> Near(keys, req.bound, a, b)
  <2>1. S \subseteq RowsOf(source, db)
    BY <1>3, <1>6
  <2>2. /\ IsFiniteSet(S) /\ S \subseteq RowsOf(source, Rows) /\ S \subseteq Rows
        /\ Strict(R, S)
        /\ \A a, b \in S : <<a, b>> \in R <=> Nearer(req.orderBy, req.bound, a, b)
    BY <1>1, <2>1, WayStrict
  <2> HIDE DEF R, keys
  <2>3. ASSUME NEW a \in S, NEW b \in S
        PROVE  Near(keys, req.bound, a, b) <=> Nearer(req.orderBy, req.bound, a, b)
    BY <1>1, <2>2, NearIsNearer DEF keys
  <2> QED BY <2>2, <2>3
<1>7. CASE source # Union
  <2>1. RowsOf(source, db) \subseteq RowsOf(source, Rows)
    BY DEF RowsOf, IsData
  <2>2. KeptOf(req, keys, RowsOf(source, db)) = past
    BY <2>1, KeysetPast DEF Past
  <2>3. Select(req, db) = FirstOf(n, Sorted(past, Travel(keys, req.bound)))
    <3>1. Select(req, db) = Level(RowsOf(source, db), keys, req, n)
      BY <1>7 DEF Select
    <3>2. Level(RowsOf(source, db), keys, req, n)
            = FirstOf(n, Sorted(KeptOf(req, keys, RowsOf(source, db)), Travel(keys, req.bound)))
      BY DEF Level, KeptOf
    <3> QED BY <2>2, <3>1, <3>2
  <2> HIDE DEF keys, R, past, n
  <2>4. \A a, b \in past : <<a, b>> \in R <=> Near(keys, req.bound, a, b)
    BY <1>6
  <2>5. ListsNearest(FirstOf(n, Sorted(past, Travel(keys, req.bound))), R, past, n)
    BY <1>1, <1>2, <1>4, <1>5, <2>4, FirstSorted
  <2> QED BY <2>3, <2>5 DEF R, past, n
<1>8. CASE source = Union
  <2> DEFINE of(m) == {r \in past : r.member = m}
             U == UNION {Branch(m, db, keys, req, n) : m \in Members}
  <2>1. ASSUME NEW m \in Members PROVE Branch(m, db, keys, req, n) = Nearest(R, of(m), n)
    <3>1. Branch(m, db, KeysetOrder(Union, req.orderBy), req, n)
            = Nearest(Way(Union, req.orderBy, req.bound), {r \in Past(req, db) : r.member = m}, n)
      <4> HIDE DEF n
      <4> QED BY <1>2, <1>8, BranchNearest
    <3> QED BY <1>8, <3>1
  <2>2. Select(req, db) = FirstOf(n, Sorted(U, Travel(keys, req.bound)))
    BY <1>8 DEF Select, UnionLevel
  <2>3. U = UNION {Nearest(R, of(m), n) : m \in Members}
    <3> HIDE DEF keys, R, n, of
    <3> QED BY <2>1
  <2> HIDE DEF keys, R, past, n, U
  <2>4. U \subseteq past
    BY <2>3 DEF Nearest
  <2>5. Nearest(R, past, n) \subseteq U
    <3> SUFFICES ASSUME NEW r \in Nearest(R, past, n) PROVE r \in U
      OBVIOUS
    <3>1. r \in past /\ Cardinality(Below(R, past, r)) < n
      BY DEF Nearest
    <3>2. r.member \in Members
      BY <1>4, <3>1 DEF Rows
    <3> DEFINE mine == of(r.member)
    <3>3. r \in mine /\ mine \subseteq past
      BY <3>1
    <3> HIDE DEF mine
    <3>4. IsFiniteSet(mine) /\ Strict(R, mine)
      BY <1>6, <3>3
    <3>5. Below(R, mine, r) \in SUBSET Below(R, past, r)
      BY <3>3 DEF Below
    <3>6. /\ IsFiniteSet(Below(R, past, r)) /\ Cardinality(Below(R, past, r)) \in Int
          /\ Cardinality(Below(R, mine, r)) \in Int
      BY <1>4, <3>1, <3>3, <3>4, BelowCounted
    <3>7. Cardinality(Below(R, mine, r)) <= Cardinality(Below(R, past, r))
      BY <3>5, <3>6, FS_Subset
    <3>8. r \in Nearest(R, mine, n)
      BY <1>2, <3>1, <3>3, <3>6, <3>7 DEF Nearest
    <3> QED BY <2>3, <3>2, <3>8 DEF mine
  <2>6. IsFiniteSet(U) /\ Strict(R, U) /\ Nearest(R, U, n) = Nearest(R, past, n)
    BY <1>2, <1>4, <2>4, <2>5, NearestOfPart
  <2>7. U \subseteq Rows /\ \A a, b \in U : <<a, b>> \in R <=> Near(keys, req.bound, a, b)
    BY <1>6, <2>4
  <2>8. ListsNearest(FirstOf(n, Sorted(U, Travel(keys, req.bound))), R, U, n)
    BY <1>1, <1>2, <1>5, <2>6, <2>7, FirstSorted
  <2>9. ListsNearest(FirstOf(n, Sorted(U, Travel(keys, req.bound))), R, past, n)
    BY <2>6, <2>8 DEF ListsNearest
  <2> QED BY <2>2, <2>9 DEF R, past, n
<1> QED BY <1>7, <1>8

-----------------------------------------------------------------------------
(* The page that is shaped of it.                                          *)

(* The rows of a list turned round are those of the list.                  *)
LEMMA ReverseList ==
    ASSUME NEW s, List(s)
    PROVE  /\ List(Reverse(s)) /\ Len(Reverse(s)) = Len(s) /\ ToSet(Reverse(s)) = ToSet(s)
           /\ \A i \in 1..Len(s) : Reverse(s)[i] = s[Len(s) - i + 1] /\ Len(s) - i + 1 \in 1..Len(s)
<1> DEFINE n == Len(s)
           t == Reverse(s)
<1>1. n \in Nat /\ DOMAIN s = 1..n
  BY ListProperties
<1>2. t = [i \in 1..n |-> s[n - i + 1]]
  BY DEF Reverse
<1> HIDE DEF n, t
<1>3. t = [i \in 1..n |-> t[i]] /\ DOMAIN t = 1..n /\ \A i \in 1..n : t[i] = s[n - i + 1]
  BY <1>2
<1>4. List(t) /\ Len(t) = n
  BY <1>1, <1>3, FunctionIsList
<1>5. \A i \in 1..n : n - i + 1 \in 1..n /\ n - (n - i + 1) + 1 = i
  BY <1>1
<1>6. ToSet(t) = ToSet(s)
  <2>1. ASSUME NEW x \in ToSet(t) PROVE x \in ToSet(s)
    <3>1. PICK i \in 1..n : x = t[i]
      BY <1>3 DEF ToSet
    <3> QED BY <1>1, <1>3, <1>5, <3>1 DEF ToSet
  <2>2. ASSUME NEW x \in ToSet(s) PROVE x \in ToSet(t)
    <3>1. PICK i \in 1..n : x = s[i]
      BY <1>1 DEF ToSet
    <3> DEFINE j == n - i + 1
    <3>2. j \in 1..n /\ n - j + 1 = i
      BY <1>5
    <3> HIDE DEF j
    <3>3. x = t[j]
      BY <1>3, <3>1, <3>2
    <3> QED BY <1>3, <3>2, <3>3 DEF ToSet
  <2> QED BY <2>1, <2>2
<1> QED BY <1>3, <1>4, <1>5, <1>6 DEF n, t

(* What a page holds of the rows its select may read: the nearest `take`,  *)
(* in the documented order, whether there are more, and the cursor it goes *)
(* on from, which is the farthest row's.                                   *)
PageHolds(page, req, past) ==
    LET keys == KeysetOrder(req.source, req.orderBy)
        take == PageSize(req.limit)
        s == page.items
    IN /\ page.request = req
       /\ List(s) /\ ToSet(s) = Nearest(Way(req.source, req.orderBy, req.bound), past, take)
       /\ \A i, j \in DOMAIN s : s[i] = s[j] => i = j
       /\ \A i, j \in DOMAIN s : i < j => Precedes(req.orderBy, s[i], s[j])
       /\ Len(s) = IF Cardinality(past) < take THEN Cardinality(past) ELSE take
       /\ More(page) <=> Cardinality(past) > take
       /\ s = <<>> => page.startCursor = Null /\ page.endCursor = Null
       /\ s # <<>> =>
            /\ page.startCursor = Cursor(req.source, keys, s[1])
            /\ page.endCursor = Cursor(req.source, keys, s[Len(s)])
            /\ \E e \in ToSet(s) :
                 /\ Edge(page) = Cursor(req.source, keys, e)
                 /\ \A x \in ToSet(s) : x = e \/ Nearer(req.orderBy, req.bound, x, e)

(* The page shapePage makes of what the select reads is such a page.       *)
LEMMA PageRead ==
    ASSUME NEW req, Accepted(req), NEW db, IsData(db)
    PROVE  PageHolds(ShapePage(req, Select(req, db)), req, Past(req, db))
<1> DEFINE keys == KeysetOrder(req.source, req.orderBy)
           R == Way(req.source, req.orderBy, req.bound)
           past == Past(req, db)
           take == PageSize(req.limit)
           c == Cardinality(past)
           read == Select(req, db)
           kept == FirstOf(take, read)
           page == ShapePage(req, read)
           s == page.items
           backward == req.bound = "before"
<1>1. /\ Orderable(req.source, req.orderBy) /\ req.bound \in {"after", "before"}
      /\ take \in Nat \ {0}
  BY DEF Accepted
<1>2. past \subseteq RowsOf(req.source, db)
  BY DEF Past
<1>3. /\ IsFiniteSet(past) /\ past \subseteq RowsOf(req.source, Rows) /\ Strict(R, past)
      /\ \A a, b \in past : <<a, b>> \in R <=> Nearer(req.orderBy, req.bound, a, b)
  BY <1>1, <1>2, WayStrict
<1>4. ListsNearest(read, R, past, take + 1)
  BY SelectNearest
<1>5. /\ page.request = req /\ s = IF backward THEN Reverse(kept) ELSE kept
      /\ page.startCursor = IF s = <<>> THEN Null ELSE Cursor(req.source, keys, s[1])
      /\ page.endCursor = IF s = <<>> THEN Null ELSE Cursor(req.source, keys, s[Len(s)])
      /\ backward => page.hasPreviousPage = (Len(read) > take)
      /\ ~ backward => page.hasNextPage = (Len(read) > take)
  BY DEF ShapePage, Last
<1> HIDE DEF keys, R, past, take, read, kept, page, backward
<1>6. c \in Nat /\ take \in Nat /\ take + 1 \in Nat /\ take <= take + 1
  BY <1>1, <1>3, FS_CardinalityType
<1> HIDE DEF c
<1>7. PICK N \in Nat : N = take + 1
  BY <1>6
<1>8. Len(read) \in Nat /\ Len(read) = IF c < N THEN c ELSE N
  BY <1>3, <1>4, <1>7, NearestListed DEF c
<1>9. ListsNearest(kept, R, past, take)
  BY <1>3, <1>4, <1>6, <1>7, FirstAreNearest DEF kept
<1>10. Len(kept) \in Nat /\ Len(kept) = IF c < take THEN c ELSE take
  BY <1>3, <1>6, <1>9, NearestListed DEF c
<1>11. /\ List(kept) /\ ToSet(kept) = Nearest(R, past, take) /\ Increases(R, kept)
       /\ DOMAIN kept = 1..Len(kept)
       /\ \A i \in DOMAIN kept : kept[i] \in past /\ kept[i] \in ToSet(kept)
  BY <1>9, ListProperties DEF ListsNearest, Nearest
<1>12. \A i, j \in DOMAIN kept : kept[i] = kept[j] => i = j
  <2>1. \A x \in ToSet(kept) : <<x, x>> \notin R
    BY <1>3, <1>11 DEF Nearest, Strict
  <2> QED BY <1>11, <2>1, IncreasingCounted
<1>13. \A i, j \in DOMAIN kept : i < j => Nearer(req.orderBy, req.bound, kept[i], kept[j])
  BY <1>3, <1>11 DEF Increases
<1>14. /\ List(Reverse(kept)) /\ Len(Reverse(kept)) = Len(kept) /\ ToSet(Reverse(kept)) = ToSet(kept)
       /\ \A i \in 1..Len(kept) : /\ Reverse(kept)[i] = kept[Len(kept) - i + 1]
                                  /\ Len(kept) - i + 1 \in 1..Len(kept)
  BY <1>11, ReverseList
<1> HIDE DEF s
<1>15. /\ List(s) /\ Len(s) = Len(kept) /\ ToSet(s) = ToSet(kept) /\ DOMAIN s = 1..Len(kept)
  <2>1. List(s) /\ Len(s) = Len(kept) /\ ToSet(s) = ToSet(kept)
    BY <1>5, <1>11, <1>14
  <2> QED BY <2>1, ListProperties
<1>16. ASSUME NEW i \in DOMAIN s
       PROVE  \E k \in DOMAIN kept : s[i] = kept[k] /\ k = IF backward THEN Len(kept) - i + 1 ELSE i
  BY <1>5, <1>11, <1>14, <1>15
<1>17. ASSUME NEW i \in DOMAIN s, NEW j \in DOMAIN s, s[i] = s[j] PROVE i = j
  <2>1. PICK k \in DOMAIN kept : s[i] = kept[k] /\ k = IF backward THEN Len(kept) - i + 1 ELSE i
    BY <1>16
  <2>2. PICK l \in DOMAIN kept : s[j] = kept[l] /\ l = IF backward THEN Len(kept) - j + 1 ELSE j
    BY <1>16
  <2>3. k = l
    BY <1>12, <1>17, <2>1, <2>2
  <2> QED BY <1>10, <1>15, <2>1, <2>2, <2>3
<1>18. ASSUME NEW i \in DOMAIN s, NEW j \in DOMAIN s, i < j PROVE Precedes(req.orderBy, s[i], s[j])
  <2>1. PICK k \in DOMAIN kept : s[i] = kept[k] /\ k = IF backward THEN Len(kept) - i + 1 ELSE i
    BY <1>16
  <2>2. PICK l \in DOMAIN kept : s[j] = kept[l] /\ l = IF backward THEN Len(kept) - j + 1 ELSE j
    BY <1>16
  <2>3. CASE backward
    <3>1. l < k
      BY <1>10, <1>15, <1>18, <2>1, <2>2, <2>3
    <3>2. Nearer(req.orderBy, req.bound, kept[l], kept[k])
      BY <1>13, <3>1
    <3> QED BY <1>1, <2>1, <2>2, <2>3, <3>2 DEF Nearer, backward
  <2>4. CASE ~ backward
    <3>1. Nearer(req.orderBy, req.bound, kept[k], kept[l])
      BY <1>13, <1>18, <2>1, <2>2, <2>4
    <3> QED BY <1>1, <2>1, <2>2, <2>4, <3>1 DEF Nearer, backward
  <2> QED BY <2>3, <2>4
<1>19. More(page) <=> c > take
  <2>1. Len(read) > take <=> c > take
    BY <1>6, <1>7, <1>8
  <2> QED BY <1>5, <2>1 DEF More, backward
<1>20. ASSUME s # <<>>
       PROVE  \E e \in ToSet(s) :
                /\ Edge(page) = Cursor(req.source, keys, e)
                /\ \A x \in ToSet(s) : x = e \/ Nearer(req.orderBy, req.bound, x, e)
  <2> DEFINE l == Len(kept)
  <2>1. l # 0
    <3> SUFFICES ASSUME l = 0 PROVE FALSE
      OBVIOUS
    <3>1. s = [i \in 1..Len(s) |-> s[i]]
      BY <1>15, ListProperties
    <3>2. 1..Len(s) = {}
      BY <1>15
    <3> QED BY <1>20, <3>1, <3>2
  <2>2. l \in 1..l /\ 1 \in 1..l
    BY <1>10, <2>1
  <2>3. Edge(page) = Cursor(req.source, keys, kept[l])
    <3>1. CASE backward
      <4>1. s[1] = kept[l]
        <5>1. PICK k \in DOMAIN kept : s[1] = kept[k] /\ k = l - 1 + 1
          BY <1>15, <1>16, <2>2, <3>1
        <5> QED BY <1>10, <5>1
      <4> QED BY <1>5, <1>20, <3>1, <4>1 DEF Edge, backward
    <3>2. CASE ~ backward
      <4>1. s[Len(s)] = kept[l]
        BY <1>5, <1>15, <3>2
      <4> QED BY <1>5, <1>20, <3>2, <4>1 DEF Edge, backward
    <3> QED BY <3>1, <3>2
  <2>4. ASSUME NEW x \in ToSet(kept) PROVE x = kept[l] \/ Nearer(req.orderBy, req.bound, x, kept[l])
    <3>1. PICK i \in 1..l : x = kept[i]
      BY <1>11 DEF ToSet
    <3>2. i = l \/ i < l
      BY <1>10
    <3> QED BY <1>11, <1>13, <2>2, <3>1, <3>2
  <2>5. kept[l] \in ToSet(kept)
    BY <1>11, <2>2
  <2> QED BY <1>15, <2>3, <2>4, <2>5
<1>21. Len(s) = IF c < take THEN c ELSE take
  BY <1>10, <1>15
<1>22. ToSet(s) = Nearest(R, past, take)
  BY <1>11, <1>15
<1>23. /\ s = <<>> => page.startCursor = Null /\ page.endCursor = Null
       /\ s # <<>> => /\ page.startCursor = Cursor(req.source, keys, s[1])
                      /\ page.endCursor = Cursor(req.source, keys, s[Len(s)])
  BY <1>5
<1>24. PageHolds(page, req, past)
  BY <1>5, <1>15, <1>17, <1>18, <1>19, <1>20, <1>21, <1>22, <1>23 DEF PageHolds, c, take, keys, R, s
<1> QED BY <1>24 DEF page, read, past

-----------------------------------------------------------------------------
(* What a page promises, of a page that holds what it should.              *)
LEMMA SliceOfPage ==
    ASSUME NEW req, Accepted(req), NEW db, IsData(db), NEW page,
           PageHolds(page, req, Past(req, db))
    PROVE  IsSlice(page, db)
<1> DEFINE R == Way(req.source, req.orderBy, req.bound)
           past == Past(req, db)
           take == PageSize(req.limit)
           s == page.items
<1>1. Orderable(req.source, req.orderBy)
  BY DEF Accepted
<1>2. past \subseteq RowsOf(req.source, db)
  BY DEF Past
<1>3. /\ IsFiniteSet(past) /\ past \subseteq RowsOf(req.source, Rows) /\ Strict(R, past)
      /\ \A a, b \in past : <<a, b>> \in R <=> Nearer(req.orderBy, req.bound, a, b)
  BY <1>1, <1>2, WayStrict
<1>4. /\ page.request = req
      /\ ToSet(s) = Nearest(R, past, take)
      /\ \A i, j \in DOMAIN s : s[i] = s[j] => i = j
      /\ \A i, j \in DOMAIN s : i < j => Precedes(req.orderBy, s[i], s[j])
      /\ More(page) <=> Cardinality(past) > take
  BY DEF PageHolds
<1> HIDE DEF R, past
<1>5. \A r \in past : Below(R, past, r) = {q \in past : Nearer(req.orderBy, req.bound, q, r)}
  BY <1>3 DEF Below
<1>6. Nearest(R, past, take)
        = {r \in past : Cardinality({q \in past : Nearer(req.orderBy, req.bound, q, r)}) < take}
  BY <1>5 DEF Nearest
<1>7. IsInjective(s)
  BY <1>4 DEF IsInjective
<1>8. past = {r \in RowsOf(req.source, db) :
                Beyond(req.source, req.orderBy, req.bound, req.cursor, r)}
  BY DEF past, Past
<1> HIDE DEF s, take
<1> QED BY <1>4, <1>6, <1>7, <1>8 DEF IsSlice, s, take

(* A page and whether there is more are no more than there are rows, and   *)
(* all of them on a first page after which there are no more.              *)
LEMMA PageCounts ==
    ASSUME NEW req, Accepted(req), NEW db, IsData(db), NEW page,
           PageHolds(page, req, Past(req, db))
    PROVE  LET read == Len(page.items) + IF More(page) THEN 1 ELSE 0
           IN /\ read <= Count(req, db)
              /\ req.cursor = Null /\ ~More(page) => read = Count(req, db)
<1> DEFINE past == Past(req, db)
           all == RowsOf(req.source, db)
           take == PageSize(req.limit)
           c == Cardinality(past)
           d == Cardinality(all)
<1>1. past \in SUBSET all /\ (req.cursor = Null => past = all)
  BY DEF Past, Beyond
<1>2. IsFiniteSet(all)
  BY FS_Subset DEF IsData, RowsOf
<1>3. take \in Nat \ {0}
  BY DEF Accepted
<1>4. /\ Len(page.items) = IF c < take THEN c ELSE take
      /\ More(page) <=> c > take
  BY DEF PageHolds
<1> HIDE DEF past, all, take
<1>5. c \in Nat /\ d \in Nat /\ c <= d /\ (req.cursor = Null => c = d)
  BY <1>1, <1>2, FS_Subset, FS_CardinalityType
<1>6. Count(req, db) = d
  BY DEF Count, all
<1> HIDE DEF c, d
<1> QED BY <1>3, <1>4, <1>5, <1>6

(* The page with its total.                                                *)
Totalled(page, total) == [page EXCEPT !.total = total]

(* The total is all that is added to a page.                               *)
LEMMA TotalOnly ==
    ASSUME NEW req, NEW read, NEW past, NEW total, PageHolds(ShapePage(req, read), req, past)
    PROVE  LET page == Totalled(ShapePage(req, read), total)
           IN PageHolds(page, req, past) /\ page.request = req /\ page.total = total
<1> DEFINE old == ShapePage(req, read)
           page == Totalled(old, total)
<1>1. /\ page.request = old.request /\ page.items = old.items /\ page.total = total
      /\ page.startCursor = old.startCursor /\ page.endCursor = old.endCursor
      /\ page.hasNextPage = old.hasNextPage /\ page.hasPreviousPage = old.hasPreviousPage
      /\ old.request = req
  BY DEF ShapePage, Totalled
<1> HIDE DEF old, page
<1>2. PageHolds(old, req, past)
  BY DEF old
<1>3. More(page) = More(old) /\ Edge(page) = Edge(old)
  BY <1>1 DEF More, Edge
<1>4. PageHolds(page, req, past)
  BY <1>1, <1>2, <1>3 DEF PageHolds
<1> QED BY <1>1, <1>4 DEF page, old

-----------------------------------------------------------------------------
(* The requests that are not refused.                                      *)

(* A cursor is one.                                                        *)
LEMMA TakenTyped ==
    ASSUME NEW source, NEW orderBy, Orderable(source, orderBy), NEW cursor,
           Taken(source, orderBy, cursor)
    PROVE  cursor \in Cursors /\ cursor # Null
<1> DEFINE keys == KeysetOrder(source, orderBy)
           n == Len(keys)
<1>1. PICK p \in RowsOf(source, Rows) : cursor = Cursor(source, keys, p)
  BY DEF Taken
<1>2. keys \in Seq(Keys)
  BY KeysetFields
<1>3. p \in Rows
  BY DEF RowsOf
<1>4. ValuesOf(keys, p) \in Seq(Value)
  BY <1>3, CursorValues
<1> HIDE DEF keys
<1>5. n \in Nat /\ DOMAIN keys = 1..n /\ \A i \in 1..n : keys[i] \in Keys
  BY <1>2
<1> HIDE DEF n
<1>6. [i \in 1..n |-> <<keys[i].field, keys[i].dir>>] \in Seq(OrderFields \X OrderDirs)
  <2>1. \A i \in 1..n : <<keys[i].field, keys[i].dir>> \in OrderFields \X OrderDirs
    BY <1>5 DEF Keys
  <2>2. [i \in 1..n |-> <<keys[i].field, keys[i].dir>>] \in [1..n -> OrderFields \X OrderDirs]
    BY <2>1
  <2> QED BY <1>5, <2>2
<1>7. Signature(source, keys) \in Source \X Seq(OrderFields \X OrderDirs)
  BY <1>5, <1>6 DEF Signature, Orderable
<1>8. cursor \in Cursors
  BY <1>1, <1>4, <1>7 DEF Cursor, Cursors
<1> QED BY <1>8, NothingAssumption

(* What a caller asks for, but for the cursor.                             *)
LEMMA RequestTyped ==
    ASSUME NEW r \in Requests, NEW cursor, NEW bound, Refusal(From(r, cursor, bound)) = "no"
    PROVE  /\ Orderable(r.source, r.orderBy) /\ NamesOnce(r.orderBy)
           /\ PageSize(r.limit) \in Nat \ {0} /\ r.limit \in Int
           /\ r.count \in BOOLEAN /\ r.tx \in BOOLEAN /\ r.join \in BOOLEAN
           /\ cursor = Null \/ CursorError(cursor, r.source, KeysetOrder(r.source, r.orderBy)) = "no"
<1> DEFINE req == From(r, cursor, bound)
<1>1. /\ r \in [source : Source, orderBy : Seq(OrderBy), limit : Int,
                count : BOOLEAN, tx : BOOLEAN, join : BOOLEAN]
      /\ \A i, j \in DOMAIN r.orderBy : r.orderBy[i].field = r.orderBy[j].field => i = j
  BY RequestsAssumption
<1>2. /\ r.source \in Source /\ r.orderBy \in Seq(OrderBy) /\ r.limit \in Int
      /\ r.count \in BOOLEAN /\ r.tx \in BOOLEAN /\ r.join \in BOOLEAN
  BY <1>1
<1>3. req.source = r.source /\ req.orderBy = r.orderBy /\ req.limit = r.limit /\ req.cursor = cursor
  BY DEF From
<1> HIDE DEF req
<1>4. /\ ~ PageSizeRefused(r.limit)
      /\ r.source # Union => ~ Named(r.orderBy, "$$key")
      /\ cursor = Null \/ CursorError(cursor, r.source, KeysetOrder(r.source, r.orderBy)) = "no"
  BY <1>3 DEF Refusal, req
<1>5. PageSize(r.limit) \in Nat \ {0}
  <2>1. PageSize(r.limit) \in Int
    BY <1>2, SizesAssumption DEF PageSize
  <2>2. ~ (PageSize(r.limit) <= 0)
    BY <1>4 DEF PageSizeRefused
  <2> QED BY <2>1, <2>2
<1> QED BY <1>1, <1>2, <1>4, <1>5 DEF Orderable, NamesOnce

(* A cursor is refused of another source or another order: one that is not *)
(* is this one's own.                                                      *)
LEMMA ReusedIsTaken ==
    ASSUME NEW source, NEW orderBy, Orderable(source, orderBy), NEW cursor,
           Taken(source, orderBy, cursor),
           NEW other, NEW otherBy, Orderable(other, otherBy),
           CursorError(cursor, other, KeysetOrder(other, otherBy)) = "no"
    PROVE  Taken(other, otherBy, cursor)
<1> DEFINE keys == KeysetOrder(source, orderBy)
           others == KeysetOrder(other, otherBy)
<1>1. PICK p \in RowsOf(source, Rows) : cursor = Cursor(source, keys, p)
  BY DEF Taken
<1>2. /\ keys \in Seq(Keys) /\ \A i \in DOMAIN keys : keys[i] = Key(keys[i].field, keys[i].dir)
      /\ others \in Seq(Keys) /\ \A i \in DOMAIN others : others[i] = Key(others[i].field, others[i].dir)
  BY KeysetFields
<1> HIDE DEF keys, others
<1>3. cursor.format = "c1" /\ cursor.signature = Signature(source, keys)
  BY <1>1 DEF Cursor
<1>4. cursor.signature = Signature(other, others)
  BY <1>3 DEF CursorError, others
<1>5. /\ source = other
      /\ [i \in DOMAIN keys |-> <<keys[i].field, keys[i].dir>>]
           = [i \in DOMAIN others |-> <<others[i].field, others[i].dir>>]
  BY <1>3, <1>4 DEF Signature
<1>6. DOMAIN keys = DOMAIN others
  BY <1>5
<1>7. \A i \in DOMAIN keys : keys[i].field = others[i].field /\ keys[i].dir = others[i].dir
  <2> SUFFICES ASSUME NEW i \in DOMAIN keys
               PROVE  keys[i].field = others[i].field /\ keys[i].dir = others[i].dir
    OBVIOUS
  <2> DEFINE f == [j \in DOMAIN keys |-> <<keys[j].field, keys[j].dir>>]
             g == [j \in DOMAIN others |-> <<others[j].field, others[j].dir>>]
  <2>1. f[i] = <<keys[i].field, keys[i].dir>> /\ g[i] = <<others[i].field, others[i].dir>>
    BY <1>6
  <2>2. f = g
    BY <1>5
  <2> HIDE DEF f, g
  <2>3. <<keys[i].field, keys[i].dir>> = <<others[i].field, others[i].dir>>
    BY <2>1, <2>2
  <2> QED BY <2>3
<1>8. \A i \in DOMAIN keys : keys[i] = others[i]
  BY <1>2, <1>6, <1>7
<1>9. keys = others
  BY <1>2, <1>6, <1>8
<1> QED BY <1>1, <1>5, <1>9 DEF Taken, others

(* A cursor edited by hand is refused, but where the value put to null is  *)
(* of the nullable column: it is one of a row that has a NULL there.       *)
LEMMA EditedIsTaken ==
    ASSUME NEW source, NEW orderBy, Orderable(source, orderBy), NamesOnce(orderBy), NEW cursor,
           Taken(source, orderBy, cursor), NEW edited \in Edited(cursor), edited # Null,
           CursorError(edited, source, KeysetOrder(source, orderBy)) = "no"
    PROVE  Taken(source, orderBy, edited)
<1> DEFINE keys == KeysetOrder(source, orderBy)
           n == Len(keys)
           values == cursor.values
<1>1. PICK p \in RowsOf(source, Rows) : cursor = Cursor(source, keys, p)
  BY DEF Taken
<1>2. /\ keys \in Seq(Keys) /\ keys # <<>>
      /\ \A i \in DOMAIN keys : keys[i] = Key(keys[i].field, keys[i].dir)
      /\ \A i, j \in DOMAIN keys : keys[i].field = "name" /\ keys[j].field = "name" => i = j
  BY KeysetFields
<1>3. p \in Rows
  BY DEF RowsOf
<1>4. /\ ValuesOf(keys, p) \in Seq(Value) /\ Len(ValuesOf(keys, p)) = Len(keys)
      /\ \A i \in DOMAIN keys : ValuesOf(keys, p)[i] = FieldOf(keys[i].field, p)
  BY <1>3, CursorValues
<1> HIDE DEF keys
<1>5. /\ cursor = [format |-> "c1", signature |-> Signature(source, keys), values |-> ValuesOf(keys, p)]
      /\ values = ValuesOf(keys, p)
  BY <1>1 DEF Cursor
<1>6. n \in Nat \ {0} /\ DOMAIN keys = 1..n
  BY <1>2
<1>7. \/ edited = [cursor EXCEPT !.format = "junk"]
      \/ edited = [cursor EXCEPT !.format = "c2"]
      \/ edited = [cursor EXCEPT !.values = Front(values)]
      \/ edited = [cursor EXCEPT !.values = [values EXCEPT ![Len(values)] = Null]]
  BY <1>5 DEF Edited
<1>8. edited.format = "c1"
  <2>1. edited.format # "junk" /\ edited.format # "c2"
    BY DEF CursorError
  <2> QED BY <1>5, <1>7, <2>1
<1>9. /\ edited.signature = Signature(source, keys) /\ Len(edited.values) = n
      /\ ~ KeysetThrows(keys, edited.values)
  BY <1>8 DEF CursorError, keys
<1>10. edited # [cursor EXCEPT !.format = "junk"] /\ edited # [cursor EXCEPT !.format = "c2"]
  BY <1>5, <1>8
<1>11. edited # [cursor EXCEPT !.values = Front(values)]
  <2>1. Len(Front(values)) = n - 1
    <3>1. values \in Seq(Value) /\ Len(values) = n
      BY <1>4, <1>5
    <3> QED BY <1>6, <3>1 DEF Front
  <2>2. n - 1 # n
    <3> HIDE DEF n
    <3> QED BY <1>6
  <2>3. [cursor EXCEPT !.values = Front(values)].values = Front(values)
    BY <1>5
  <2> QED BY <1>9, <2>1, <2>2, <2>3
<1> DEFINE nulled == [values EXCEPT ![Len(values)] = Null]
<1>12. edited = [format |-> "c1", signature |-> Signature(source, keys), values |-> nulled]
  BY <1>5, <1>7, <1>10, <1>11
<1>13. values \in Seq(Value) /\ Len(values) = n /\ DOMAIN values = 1..n /\ n \in 1..n
  BY <1>4, <1>5, <1>6
<1>14. nulled = [i \in 1..n |-> IF i = n THEN Null ELSE values[i]]
  BY <1>13
<1>15. keys[n].field = "name"
  <2>1. nulled[n] = Null
    BY <1>13, <1>14
  <2>2. edited.values = nulled
    BY <1>12
  <2>3. keys[n].nullable
    BY <1>6, <1>9, <1>13, <2>1, <2>2 DEF KeysetThrows
  <2>4. keys[n] = Key(keys[n].field, keys[n].dir)
    BY <1>2, <1>6, <1>13
  <2>5. keys[n].nullable = (keys[n].field = "name")
    BY <2>4 DEF Key
  <2> QED BY <2>3, <2>5
<1> DEFINE q == [p EXCEPT !.name = Null]
<1>16. /\ q \in RowsOf(source, Rows)
       /\ q.id = p.id /\ q.member = p.member /\ q.name = Null
  BY <1>3 DEF RowsOf, Rows
<1> HIDE DEF q, nulled, n, values
<1>17. ValuesOf(keys, q) = [i \in 1..n |-> FieldOf(keys[i].field, q)]
  BY <1>6 DEF ValuesOf
<1>18. ASSUME NEW i \in 1..n PROVE FieldOf(keys[i].field, q) = IF i = n THEN Null ELSE values[i]
  <2>1. keys[i].field \in OrderFields
    <3>1. keys[i] \in Keys
      BY <1>2, <1>6
    <3> QED BY <3>1 DEF Keys
  <2>2. values[i] = FieldOf(keys[i].field, p)
    BY <1>4, <1>5, <1>6
  <2>3. i # n => keys[i].field # "name"
    BY <1>2, <1>6, <1>13, <1>15
  <2> QED BY <1>15, <1>16, <2>1, <2>2, <2>3 DEF FieldOf, OrderFields
<1>19. ValuesOf(keys, q) = nulled
  BY <1>14, <1>17, <1>18
<1>20. edited = Cursor(source, keys, q)
  BY <1>12, <1>19 DEF Cursor
<1> QED BY <1>16, <1>20 DEF Taken, keys

-----------------------------------------------------------------------------
(* What the reader's requests and pages hold at every step.                *)

(* A page that was returned was read from some data, and its total from    *)
(* the same where it was counted in a transaction.                         *)
Answered(page) ==
    \E db : /\ IsData(db) /\ Accepted(page.request) /\ page.request \in Reads
            /\ PageHolds(page, page.request, Past(page.request, db))
            /\ page.request.count /\ page.request.tx => page.total = Count(page.request, db)

(* The page a request has read, of its snapshot if it has one.             *)
Selected(req, page, view) ==
    \E db : /\ IsData(db) /\ (view # Null => db = view)
            /\ page = ShapePage(req, Select(req, db))

Reasons == {"no", "size", "field", "format", "version", "mismatch", "failed"}

ReadInv ==
    /\ IsData(rows)
    /\ pages \in 0 .. MaxPages /\ writes \in 0 .. MaxWrites /\ refused \in Reasons
    /\ request = Null => snapshot = Null /\ found = Null /\ counted = Null
    /\ request # Null => Accepted(request) /\ request \in Reads /\ (request.tx => snapshot # Null)
    /\ snapshot # Null => IsData(snapshot)
    /\ found # Null => Selected(request, found, snapshot)
    /\ counted # Null /\ snapshot # Null => counted = Count(request, snapshot)
    /\ answer # Null => Answered(answer)

(* The cursors of a page that was returned were taken on its rows.         *)
LEMMA AnswerCursors ==
    ASSUME NEW page, Answered(page)
    PROVE  /\ page.startCursor # Null
                => Taken(page.request.source, page.request.orderBy, page.startCursor)
           /\ page.endCursor # Null
                => Taken(page.request.source, page.request.orderBy, page.endCursor)
<1> DEFINE req == page.request
           s == page.items
           keys == KeysetOrder(req.source, req.orderBy)
<1>1. PICK db : IsData(db) /\ Accepted(req) /\ PageHolds(page, req, Past(req, db))
  BY DEF Answered
<1>2. /\ List(s)
      /\ ToSet(s) = Nearest(Way(req.source, req.orderBy, req.bound), Past(req, db), PageSize(req.limit))
      /\ s = <<>> => page.startCursor = Null /\ page.endCursor = Null
      /\ s # <<>> => /\ page.startCursor = Cursor(req.source, keys, s[1])
                     /\ page.endCursor = Cursor(req.source, keys, s[Len(s)])
  BY <1>1 DEF PageHolds
<1>3. ToSet(s) \subseteq RowsOf(req.source, Rows)
  BY <1>1, <1>2 DEF Nearest, Past, RowsOf, IsData
<1> HIDE DEF req, s, keys
<1>4. Len(s) \in Nat /\ DOMAIN s = 1..Len(s) /\ s = [i \in 1..Len(s) |-> s[i]]
  BY <1>2, ListProperties
<1>5. CASE s = <<>>
  BY <1>2, <1>5
<1>6. CASE s # <<>>
  <2>1. Len(s) # 0
    <3> SUFFICES ASSUME Len(s) = 0 PROVE FALSE
      OBVIOUS
    <3>1. 1..Len(s) = {}
      OBVIOUS
    <3> QED BY <1>4, <1>6, <3>1
  <2>2. 1 \in DOMAIN s /\ Len(s) \in DOMAIN s
    BY <1>4, <2>1
  <2>3. s[1] \in RowsOf(req.source, Rows) /\ s[Len(s)] \in RowsOf(req.source, Rows)
    BY <1>3, <2>2 DEF ToSet
  <2> QED BY <1>2, <1>6, <2>3 DEF Taken, keys, req
<1> QED BY <1>5, <1>6

(* On from a page, or back from it.                                        *)
LEMMA TurnedAccepted ==
    ASSUME NEW req, Accepted(req), req \in Reads, NEW cursor, NEW bound \in {"after", "before"},
           cursor # Null => Taken(req.source, req.orderBy, cursor)
    PROVE  Accepted(From(req, cursor, bound)) /\ From(req, cursor, bound) \in Reads
<1> DEFINE next == From(req, cursor, bound)
<1>1. /\ next.source = req.source /\ next.orderBy = req.orderBy /\ next.limit = req.limit
      /\ next.count = req.count /\ next.tx = req.tx /\ next.join = req.join
      /\ next.cursor = cursor /\ next.bound = bound
  BY DEF From
<1>2. Accepted(next)
  BY <1>1 DEF Accepted
<1>3. cursor \in Cursors \cup {Null}
  BY TakenTyped DEF Accepted
<1>4. next \in Reads
  BY <1>3 DEF From, Reads
<1> QED BY <1>2, <1>4

(* A caller's request, with the cursor it passes.                          *)
LEMMA RequestAccepted ==
    ASSUME NEW r \in Requests, NEW cursor, NEW bound \in {"after", "before"},
           Refusal(From(r, cursor, bound)) = "no",
           cursor # Null => Taken(r.source, r.orderBy, cursor)
    PROVE  Accepted(From(r, cursor, bound)) /\ From(r, cursor, bound) \in Reads
<1> DEFINE next == From(r, cursor, bound)
<1>1. /\ next.source = r.source /\ next.orderBy = r.orderBy /\ next.limit = r.limit
      /\ next.count = r.count /\ next.tx = r.tx /\ next.join = r.join
      /\ next.cursor = cursor /\ next.bound = bound
  BY DEF From
<1>2. /\ Orderable(r.source, r.orderBy) /\ NamesOnce(r.orderBy)
      /\ PageSize(r.limit) \in Nat \ {0} /\ r.limit \in Int
      /\ r.count \in BOOLEAN /\ r.tx \in BOOLEAN /\ r.join \in BOOLEAN
  BY RequestTyped
<1>3. Accepted(next)
  BY <1>1, <1>2 DEF Accepted
<1>4. cursor \in Cursors \cup {Null}
  BY <1>2, TakenTyped
<1>5. r.source \in Source /\ r.orderBy \in Seq(OrderBy)
  BY <1>2 DEF Orderable
<1>6. next \in Reads
  BY <1>2, <1>4, <1>5 DEF From, Reads
<1> QED BY <1>3, <1>6

(* What is asked for and not refused is read: each way of asking.          *)
AskStep == \E req : Ask(req) /\ (Refusal(req) = "no" => Accepted(req) /\ req \in Reads)

(* First, Reuse, Following, Previous and Edit ask so.                      *)
LEMMA AskSteps ==
    ASSUME ReadInv,
           (\E r \in Requests : First(r) \/ Reuse(r)) \/ Following \/ Previous \/ Edit
    PROVE  AskStep
<1>1. answer # Null => Answered(answer)
  BY DEF ReadInv
<1>2. answer # Null => Accepted(answer.request) /\ answer.request \in Reads
  BY <1>1 DEF Answered
<1>3. ASSUME NEW r \in Requests, First(r) PROVE AskStep
  <2>1. Ask(From(r, Null, "after"))
    BY <1>3 DEF First
  <2>2. Refusal(From(r, Null, "after")) = "no"
          => Accepted(From(r, Null, "after")) /\ From(r, Null, "after") \in Reads
    BY RequestAccepted
  <2> QED BY <2>1, <2>2 DEF AskStep
<1>4. ASSUME NEW r \in Requests, Reuse(r) PROVE AskStep
  <2> DEFINE cursor == answer.endCursor
  <2>1. answer # Null /\ cursor # Null /\ Ask(From(r, cursor, "after"))
    BY <1>4 DEF Reuse
  <2>2. Taken(answer.request.source, answer.request.orderBy, cursor)
    BY <1>1, <2>1, AnswerCursors
  <2>3. Orderable(answer.request.source, answer.request.orderBy)
    BY <1>2, <2>1 DEF Accepted
  <2> HIDE DEF cursor
  <2>4. ASSUME Refusal(From(r, cursor, "after")) = "no"
        PROVE  Accepted(From(r, cursor, "after")) /\ From(r, cursor, "after") \in Reads
    <3>1. /\ Orderable(r.source, r.orderBy)
          /\ CursorError(cursor, r.source, KeysetOrder(r.source, r.orderBy)) = "no"
      BY <2>1, <2>4, RequestTyped
    <3>2. Taken(r.source, r.orderBy, cursor)
      BY <2>2, <2>3, <3>1, ReusedIsTaken
    <3> QED BY <2>4, <3>2, RequestAccepted
  <2> QED BY <2>1, <2>4 DEF AskStep
<1>5. ASSUME Following PROVE AskStep
  <2>1. /\ answer # Null /\ answer.endCursor # Null
        /\ Ask(From(answer.request, answer.endCursor, "after"))
    BY <1>5 DEF Following
  <2>2. Taken(answer.request.source, answer.request.orderBy, answer.endCursor)
    BY <1>1, <2>1, AnswerCursors
  <2>3. /\ Accepted(From(answer.request, answer.endCursor, "after"))
        /\ From(answer.request, answer.endCursor, "after") \in Reads
    BY <1>2, <2>1, <2>2, TurnedAccepted
  <2> QED BY <2>1, <2>3 DEF AskStep
<1>6. ASSUME Previous PROVE AskStep
  <2>1. /\ answer # Null /\ answer.startCursor # Null
        /\ Ask(From(answer.request, answer.startCursor, "before"))
    BY <1>6 DEF Previous
  <2>2. Taken(answer.request.source, answer.request.orderBy, answer.startCursor)
    BY <1>1, <2>1, AnswerCursors
  <2>3. /\ Accepted(From(answer.request, answer.startCursor, "before"))
        /\ From(answer.request, answer.startCursor, "before") \in Reads
    BY <1>2, <2>1, <2>2, TurnedAccepted
  <2> QED BY <2>1, <2>3 DEF AskStep
<1>7. ASSUME Edit PROVE AskStep
  <2>1. answer # Null /\ answer.endCursor # Null
    BY <1>7 DEF Edit
  <2>2. PICK edited \in Edited(answer.endCursor) : Ask(From(answer.request, edited, "after"))
    BY <1>7 DEF Edit
  <2>3. Taken(answer.request.source, answer.request.orderBy, answer.endCursor)
    BY <1>1, <2>1, AnswerCursors
  <2> DEFINE req == answer.request
             next == From(req, edited, "after")
  <2>4. Accepted(req) /\ req \in Reads
    BY <1>2, <2>1
  <2>5. Orderable(req.source, req.orderBy) /\ NamesOnce(req.orderBy)
    BY <2>4 DEF Accepted
  <2>6. ASSUME Refusal(next) = "no" PROVE Accepted(next) /\ next \in Reads
    <3>1. edited # Null => CursorError(edited, req.source, KeysetOrder(req.source, req.orderBy)) = "no"
      BY <2>6 DEF Refusal, From
    <3> HIDE DEF req
    <3>2. edited # Null => Taken(req.source, req.orderBy, edited)
      BY <2>3, <2>5, <3>1, EditedIsTaken DEF req
    <3> QED BY <2>4, <3>2, TurnedAccepted
  <2> QED BY <2>2, <2>6 DEF AskStep
<1> QED BY <1>3, <1>4, <1>5, <1>6, <1>7

(* A write leaves one row for a primary key.                               *)
WriteStep == \E new : IsData(new) /\ Write(new)

(* Insert, Delete and Rename write so.                                     *)
LEMMA WriteSteps ==
    ASSUME ReadInv,
           \/ \E r \in Rows : Insert(r)
           \/ \E r \in rows : Delete(r)
           \/ \E r \in rows, name \in Names \cup {Null} : Rename(r, name)
    PROVE  WriteStep
<1>1. rows \subseteq Rows /\ IsFiniteSet(rows)
      /\ \A r, q \in rows : r.member = q.member /\ r.id = q.id => r = q
  BY DEF ReadInv, IsData
<1>2. ASSUME NEW r \in Rows, Insert(r) PROVE WriteStep
  <2>1. (\A q \in rows : <<q.member, q.id>> # <<r.member, r.id>>) /\ Write(rows \cup {r})
    BY <1>2 DEF Insert
  <2>2. IsFiniteSet(rows \cup {r})
    BY <1>1, FS_AddElement
  <2>3. IsData(rows \cup {r})
    BY <1>1, <2>1, <2>2 DEF IsData
  <2> QED BY <2>1, <2>3 DEF WriteStep
<1>3. ASSUME NEW r \in rows, Delete(r) PROVE WriteStep
  <2>1. IsFiniteSet(rows \ {r})
    BY <1>1, FS_RemoveElement
  <2>2. IsData(rows \ {r})
    BY <1>1, <2>1 DEF IsData
  <2> QED BY <1>3, <2>2 DEF WriteStep, Delete
<1>4. ASSUME NEW r \in rows, NEW name \in Names \cup {Null}, Rename(r, name) PROVE WriteStep
  <2> DEFINE renamed == [r EXCEPT !.name = name]
             new == (rows \ {r}) \cup {renamed}
  <2>1. Write(new)
    BY <1>4 DEF Rename
  <2>2. renamed \in Rows /\ renamed.member = r.member /\ renamed.id = r.id
    BY <1>1 DEF Rows
  <2> HIDE DEF renamed
  <2>3. IsFiniteSet(rows \ {r})
    BY <1>1, FS_RemoveElement
  <2>4. IsFiniteSet(new)
    BY <2>3, FS_AddElement
  <2>5. \A q \in rows \ {r} : ~ (q.member = r.member /\ q.id = r.id)
    BY <1>1
  <2>6. IsData(new)
    BY <1>1, <2>2, <2>4, <2>5 DEF IsData
  <2> QED BY <2>1, <2>6 DEF WriteStep
<1> QED BY <1>2, <1>3, <1>4

(* Every step is one of these.                                             *)
LEMMA Steps ==
    ASSUME ReadInv, Next
    PROVE  AskStep \/ RunSelect \/ RunCount \/ Answer \/ Fails \/ WriteStep
BY AskSteps, WriteSteps DEF Next, Read

(* A statement reads tables, or a snapshot of them.                        *)
LEMMA ViewIsData == ASSUME ReadInv PROVE IsData(View)
BY DEF ReadInv, View

(* A request that is accepted may be read; one that is refused leaves      *)
(* nothing.                                                                *)
LEMMA AskKeeps == ASSUME ReadInv, AskStep PROVE ReadInv'
<1>1. PICK req : Ask(req) /\ (Refusal(req) = "no" => Accepted(req) /\ req \in Reads)
  BY DEF AskStep
<1>2. /\ request = Null /\ pages < MaxPages /\ pages' = pages + 1
      /\ refused' = Refusal(req)
      /\ IF refused' = "no"
         THEN request' = req /\ snapshot' = IF req.tx THEN rows ELSE Null
         ELSE UNCHANGED <<request, snapshot>>
      /\ UNCHANGED <<rows, found, counted, answer, walk, writes>>
  BY <1>1 DEF Ask
<1>3. /\ IsData(rows) /\ pages \in 0 .. MaxPages /\ writes \in 0 .. MaxWrites
      /\ snapshot = Null /\ found = Null /\ counted = Null
      /\ answer # Null => Answered(answer)
  BY <1>2 DEF ReadInv
<1>4. pages' \in 0 .. MaxPages /\ writes' \in 0 .. MaxWrites
  BY <1>2, <1>3, SizesAssumption
<1>5. refused' \in Reasons
  BY <1>2 DEF Refusal, CursorError, Reasons
<1>6. rows # Null
  BY <1>3, NothingAssumption DEF IsData
<1>7. CASE refused' = "no"
  <2>1. Accepted(req) /\ req \in Reads /\ request' = req /\ snapshot' = IF req.tx THEN rows ELSE Null
    BY <1>1, <1>2, <1>7
  <2>2. request' # Null
    BY <2>1, NothingAssumption
  <2> QED BY <1>2, <1>3, <1>4, <1>5, <1>6, <2>1, <2>2 DEF ReadInv
<1>8. CASE refused' # "no"
  BY <1>2, <1>3, <1>4, <1>5, <1>8 DEF ReadInv
<1> QED BY <1>7, <1>8

(* The select reads the page of what the request sees.                     *)
LEMMA SelectKeeps == ASSUME ReadInv, RunSelect PROVE ReadInv'
<1>1. /\ request # Null /\ found' = ShapePage(request, Select(request, View))
      /\ UNCHANGED <<rows, request, snapshot, counted, answer, refused, pages, writes>>
  BY DEF RunSelect
<1>2. IsData(View) /\ (snapshot # Null => View = snapshot)
  BY ViewIsData DEF View
<1>3. Selected(request, found', snapshot)
  BY <1>1, <1>2 DEF Selected
<1> QED BY <1>1, <1>3 DEF ReadInv

(* The count counts what the request sees.                                 *)
LEMMA CountKeeps == ASSUME ReadInv, RunCount PROVE ReadInv'
<1>1. /\ request # Null /\ counted' = Count(request, View)
      /\ UNCHANGED <<rows, request, snapshot, found, answer, refused, walk, pages, writes>>
  BY DEF RunCount
<1>2. snapshot # Null => View = snapshot
  BY DEF View
<1> QED BY <1>1, <1>2 DEF ReadInv

(* The answer is that page, with that count.                               *)
LEMMA AnswerKeeps == ASSUME ReadInv, Answer PROVE ReadInv'
<1> DEFINE page == [found EXCEPT !.total = counted]
<1>1. /\ request # Null /\ found # Null /\ (request.count => counted # Null)
      /\ answer' = page /\ refused' = "no"
      /\ request' = Null /\ snapshot' = Null /\ found' = Null /\ counted' = Null
      /\ UNCHANGED <<rows, walk, pages, writes>>
  BY DEF Answer, Done
<1>2. /\ Accepted(request) /\ request \in Reads /\ (request.tx => snapshot # Null)
      /\ Selected(request, found, snapshot)
      /\ counted # Null /\ snapshot # Null => counted = Count(request, snapshot)
  BY <1>1 DEF ReadInv
<1>3. PICK db : /\ IsData(db) /\ (snapshot # Null => db = snapshot)
                /\ found = ShapePage(request, Select(request, db))
  BY <1>2 DEF Selected
<1>4. PageHolds(ShapePage(request, Select(request, db)), request, Past(request, db))
  BY <1>2, <1>3, PageRead
<1>5. PageHolds(page, request, Past(request, db)) /\ page.request = request /\ page.total = counted
  <2> DEFINE read == Select(request, db)
             past == Past(request, db)
  <2>1. PageHolds(ShapePage(request, read), request, past)
    BY <1>4
  <2> HIDE DEF read, past
  <2>2. /\ PageHolds(Totalled(ShapePage(request, read), counted), request, past)
        /\ Totalled(ShapePage(request, read), counted).request = request
        /\ Totalled(ShapePage(request, read), counted).total = counted
    BY <2>1, TotalOnly
  <2>3. page = Totalled(ShapePage(request, read), counted)
    BY <1>3 DEF read, Totalled
  <2> QED BY <2>2, <2>3 DEF past
<1> HIDE DEF page
<1>6. Answered(page)
  <2>1. request.count /\ request.tx => counted = Count(request, db)
    BY <1>1, <1>2, <1>3
  <2> QED BY <1>2, <1>3, <1>5, <2>1 DEF Answered
<1>7. "no" \in Reasons
  BY DEF Reasons
<1> QED BY <1>1, <1>6, <1>7 DEF ReadInv

(* A request that fails returns nothing, and leaves nothing.               *)
LEMMA FailKeeps == ASSUME ReadInv, Fails PROVE ReadInv'
<1>1. /\ answer' = answer /\ refused' = "failed"
      /\ request' = Null /\ snapshot' = Null /\ found' = Null /\ counted' = Null
      /\ UNCHANGED <<rows, walk, pages, writes>>
  BY DEF Fails, Done
<1>2. "failed" \in Reasons
  BY DEF Reasons
<1> QED BY <1>1, <1>2 DEF ReadInv

(* A write changes the tables alone.                                       *)
LEMMA WriteKeeps == ASSUME ReadInv, WriteStep PROVE ReadInv'
<1>1. PICK new : IsData(new) /\ Write(new)
  BY DEF WriteStep
<1>2. /\ writes < MaxWrites /\ writes' = writes + 1 /\ rows' = new
      /\ UNCHANGED <<request, snapshot, found, counted, answer, refused, pages>>
  BY <1>1 DEF Write, reading
<1>3. writes' \in 0 .. MaxWrites
  BY <1>2, SizesAssumption DEF ReadInv
<1> QED BY <1>1, <1>2, <1>3 DEF ReadInv

(* What is read stays as it should be, at every step.                      *)
LEMMA ReadInvKept == ASSUME ReadInv, [Next]_vars PROVE ReadInv'
<1>1. CASE UNCHANGED vars
  BY <1>1 DEF ReadInv, vars, reading
<1>2. CASE Next
  BY <1>2, Steps, AskKeeps, SelectKeeps, CountKeeps, AnswerKeeps, FailKeeps, WriteKeeps
<1> QED BY <1>1, <1>2

(* At first nothing is read.                                               *)
LEMMA ReadInvInit == ASSUME Init PROVE ReadInv
<1>1. /\ rows \in InitialRows
      /\ request = Null /\ snapshot = Null /\ found = Null /\ counted = Null
      /\ answer = Null /\ refused = "no" /\ walk = Null
      /\ pages = 0 /\ writes = 0
  BY DEF Init
<1>2. IsData(rows)
  BY <1>1, RowsAssumption
<1>3. 0 \in 0 .. MaxPages /\ 0 \in 0 .. MaxWrites
  BY SizesAssumption
<1> QED BY <1>1, <1>2, <1>3 DEF ReadInv, Reasons

-----------------------------------------------------------------------------
(* One page after the other.                                               *)

(* Where a page leaves its reader: the cursor it goes on from is of the    *)
(* farthest row it holds, and tells those it holds from those to come.     *)
LEMMA PageEdge ==
    ASSUME NEW req, Accepted(req), NEW db, IsData(db), NEW page,
           PageHolds(page, req, Past(req, db))
    PROVE  LET past == Past(req, db)
               Far(cursor, r) == Beyond(req.source, req.orderBy, req.bound, cursor, r)
           IN /\ List(page.items) /\ ToSet(page.items) \subseteq past
              /\ past \subseteq RowsOf(req.source, Rows)
              /\ Edge(page) # Null => Taken(req.source, req.orderBy, Edge(page))
              /\ More(page) => Edge(page) # Null
              /\ \A r \in past : r \in ToSet(page.items) <=> (More(page) => ~ Far(Edge(page), r))
              /\ ~ More(page) /\ Edge(page) # Null => \A r \in past : ~ Far(Edge(page), r)
              /\ Edge(page) # Null =>
                   \A r \in RowsOf(req.source, Rows) : Far(Edge(page), r) => Far(req.cursor, r)
<1> DEFINE source == req.source
           keys == KeysetOrder(req.source, req.orderBy)
           R == Way(req.source, req.orderBy, req.bound)
           past == Past(req, db)
           take == PageSize(req.limit)
           s == page.items
           E == Edge(page)
           Far(cursor, r) == Beyond(req.source, req.orderBy, req.bound, cursor, r)
<1>1. /\ Orderable(source, req.orderBy) /\ req.bound \in {"after", "before"} /\ take \in Nat \ {0}
      /\ req.cursor # Null => Taken(source, req.orderBy, req.cursor)
  BY DEF Accepted
<1>2. past \subseteq RowsOf(source, db) /\ \A r \in past : Far(req.cursor, r)
  BY DEF Past
<1>3. /\ IsFiniteSet(past) /\ past \subseteq RowsOf(source, Rows) /\ Strict(R, past)
      /\ \A a, b \in past : <<a, b>> \in R <=> Nearer(req.orderBy, req.bound, a, b)
  BY <1>1, <1>2, WayStrict
<1>4. /\ page.request = req /\ List(s) /\ ToSet(s) = Nearest(R, past, take)
      /\ Len(s) = IF Cardinality(past) < take THEN Cardinality(past) ELSE take
      /\ More(page) <=> Cardinality(past) > take
      /\ s = <<>> => page.startCursor = Null /\ page.endCursor = Null
      /\ s # <<>> => \E e \in ToSet(s) :
                        /\ E = Cursor(source, keys, e)
                        /\ \A x \in ToSet(s) : x = e \/ Nearer(req.orderBy, req.bound, x, e)
  BY DEF PageHolds
<1>5. ToSet(s) \subseteq past
  BY <1>4 DEF Nearest
<1>6. Cardinality(past) \in Nat
  BY <1>3, FS_CardinalityType
<1>7. CASE s = <<>>
  <2>1. E = Null
    BY <1>4, <1>7 DEF Edge
  <2>2. Len(s) = 0
    BY <1>7
  <2> HIDE DEF s, past, take
  <2>3. Cardinality(past) = 0
    BY <1>1, <1>4, <1>6, <2>2
  <2>4. past = {}
    BY <1>3, <2>3, FS_EmptySet
  <2>5. ~ More(page)
    BY <1>1, <1>4, <1>6, <2>3
  <2> HIDE DEF E
  <2> QED BY <1>3, <1>4, <1>5, <2>1, <2>4, <2>5 DEF E, s, past
<1>8. CASE s # <<>>
  <2>1. PICK e \in ToSet(s) : /\ E = Cursor(source, keys, e)
                              /\ \A x \in ToSet(s) : x = e \/ Nearer(req.orderBy, req.bound, x, e)
    BY <1>4, <1>8
  <2>2. e \in past /\ e \in RowsOf(source, Rows)
    BY <1>3, <1>5, <2>1
  <2>3. Taken(source, req.orderBy, E)
    BY <2>1, <2>2 DEF Taken
  <2>4. E # Null
    BY <1>1, <2>3, TakenTyped
  <2>5. \A r \in RowsOf(source, Rows) : Far(E, r) <=> Nearer(req.orderBy, req.bound, e, r)
    <3> SUFFICES ASSUME NEW r \in RowsOf(source, Rows)
                 PROVE  Far(E, r) <=> Nearer(req.orderBy, req.bound, e, r)
      OBVIOUS
    <3> HIDE DEF E
    <3> QED BY <1>1, <2>1, <2>2, <2>4, BeyondIsNearer
  <2> HIDE DEF s, past, take, E, R, Far
  <2>6. ASSUME NEW r \in ToSet(s) PROVE ~ Far(E, r)
    <3>1. r \in RowsOf(source, Rows)
      BY <1>3, <1>5
    <3>2. r = e \/ Nearer(req.orderBy, req.bound, r, e)
      BY <2>1
    <3>3. ~ Nearer(req.orderBy, req.bound, e, r)
      <4>1. /\ ~ Nearer(req.orderBy, req.bound, e, e)
            /\ Nearer(req.orderBy, req.bound, r, e) => ~ Nearer(req.orderBy, req.bound, e, r)
        BY <1>1, <2>2, <3>1, NearerOrder
      <4> QED BY <3>2, <4>1
    <3> QED BY <2>5, <3>1, <3>3
  <2>7. ASSUME NEW r \in past, r \notin ToSet(s) PROVE More(page) /\ Far(E, r)
    <3>1. ~ (Cardinality(Below(R, past, r)) < take)
      BY <1>4, <2>7 DEF Nearest
    <3>2. Cardinality(Below(R, past, r)) \in 0..(Cardinality(past) - 1)
      BY <1>3, BelowCounted
    <3>3. More(page)
      BY <1>1, <1>4, <1>6, <3>1, <3>2
    <3>4. Cardinality(Below(R, past, e)) < take /\ Cardinality(Below(R, past, e)) \in Int
      BY <1>3, <1>4, <2>1, <2>2, BelowCounted DEF Nearest
    <3>5. <<r, e>> \notin R
      <4> SUFFICES ASSUME <<r, e>> \in R PROVE FALSE
        OBVIOUS
      <4>1. Cardinality(Below(R, past, r)) < Cardinality(Below(R, past, e))
        BY <1>3, <2>2, BelowGrows
      <4> QED BY <1>1, <3>1, <3>2, <3>4, <4>1
    <3>6. r # e
      BY <2>1, <2>7
    <3>7. <<e, r>> \in R
      BY <1>3, <2>2, <3>5, <3>6 DEF Strict
    <3>8. Nearer(req.orderBy, req.bound, e, r) /\ r \in RowsOf(source, Rows)
      BY <1>3, <2>2, <3>7
    <3> QED BY <2>5, <3>3, <3>8
  <2>8. ASSUME NEW r \in RowsOf(source, Rows), Far(E, r) PROVE Far(req.cursor, r)
    <3>1. CASE req.cursor = Null
      BY <3>1 DEF Far, Beyond
    <3>2. CASE req.cursor # Null
      <4>1. PICK p \in RowsOf(source, Rows) : req.cursor = Cursor(source, keys, p)
        BY <1>1, <3>2 DEF Taken
      <4>2. \A q \in RowsOf(source, Rows) :
              Far(req.cursor, q) <=> Nearer(req.orderBy, req.bound, p, q)
        BY <1>1, <3>2, <4>1, BeyondIsNearer DEF Far
      <4>3. Nearer(req.orderBy, req.bound, p, e)
        BY <1>2, <2>2, <4>2
      <4>4. Nearer(req.orderBy, req.bound, e, r)
        BY <2>5, <2>8
      <4>5. Nearer(req.orderBy, req.bound, p, r)
        BY <1>1, <2>2, <4>3, <4>4, NearerOrder
      <4> QED BY <4>2, <4>5
    <3> QED BY <3>1, <3>2
  <2>9. /\ \A r \in past : r \in ToSet(s) <=> (More(page) => ~ Far(E, r))
        /\ ~ More(page) => \A r \in past : ~ Far(E, r)
    BY <2>6, <2>7
  <2> QED BY <1>3, <1>4, <1>5, <2>3, <2>4, <2>8, <2>9 DEF E, s, past, Far
<1> QED BY <1>7, <1>8

(* What a reader that went one way holds of the rows that stayed.          *)
WalkHolds(w) ==
    LET Far(cursor, r) == Beyond(w.source, w.orderBy, w.bound, cursor, r) IN
    /\ Orderable(w.source, w.orderBy) /\ w.bound \in {"after", "before"}
    /\ w.anchor # Null => Taken(w.source, w.orderBy, w.anchor)
    /\ w.edge # Null => Taken(w.source, w.orderBy, w.edge)
    /\ List(w.seen) /\ ToSet(w.seen) \subseteq RowsOf(w.source, Rows)
    /\ w.stayed \subseteq RowsOf(w.source, Rows)
    /\ w.more => w.edge # Null
    /\ \A r \in w.stayed :
         r \in ToSet(w.seen) <=> Far(w.anchor, r) /\ (w.more => ~ Far(w.edge, r))
    /\ ~ w.more /\ w.edge # Null => \A r \in w.stayed : ~ Far(w.edge, r)
    /\ w.edge # Null => \A r \in RowsOf(w.source, Rows) : Far(w.edge, r) => Far(w.anchor, r)
    /\ \A i, j \in DOMAIN w.seen :
         i < j /\ w.seen[i] \in w.stayed /\ w.seen[j] \in w.stayed
         => Precedes(w.orderBy, w.seen[i], w.seen[j])

(* It does of a first page,                                                *)
LEMMA WalkBegins ==
    ASSUME NEW req, Accepted(req), NEW db, IsData(db), NEW page,
           PageHolds(page, req, Past(req, db)), NEW w,
           w.source = req.source, w.orderBy = req.orderBy, w.bound = req.bound,
           w.anchor = req.cursor, w.edge = Edge(page), w.more = More(page), w.seen = page.items,
           w.stayed \subseteq RowsOf(req.source, db)
    PROVE  WalkHolds(w)
<1> DEFINE past == Past(req, db)
           Far(cursor, r) == Beyond(req.source, req.orderBy, req.bound, cursor, r)
           s == page.items
           E == Edge(page)
           M == More(page)
<1>1. /\ List(s) /\ ToSet(s) \subseteq past /\ past \subseteq RowsOf(req.source, Rows)
      /\ E # Null => Taken(req.source, req.orderBy, E)
      /\ M => E # Null
      /\ \A r \in past : r \in ToSet(s) <=> (M => ~ Far(E, r))
      /\ ~ M /\ E # Null => \A r \in past : ~ Far(E, r)
      /\ E # Null => \A r \in RowsOf(req.source, Rows) : Far(E, r) => Far(req.cursor, r)
  BY PageEdge
<1>2. \A r \in w.stayed : r \in past <=> Far(req.cursor, r)
  BY DEF Past
<1>3. w.stayed \subseteq RowsOf(req.source, Rows)
  BY DEF RowsOf, IsData
<1>4. \A i, j \in DOMAIN s : i < j => Precedes(req.orderBy, s[i], s[j])
  BY DEF PageHolds
<1>5. /\ Orderable(req.source, req.orderBy) /\ req.bound \in {"after", "before"}
      /\ req.cursor # Null => Taken(req.source, req.orderBy, req.cursor)
  BY DEF Accepted
<1> HIDE DEF past, s, E, M
<1>6. \A r \in w.stayed : r \in ToSet(s) <=> Far(req.cursor, r) /\ (M => ~ Far(E, r))
  BY <1>1, <1>2
<1>7. ~ M /\ E # Null => \A r \in w.stayed : ~ Far(E, r)
  <2> HIDE DEF Far
  <2> QED BY <1>1, <1>2, <1>3
<1>8. ToSet(s) \subseteq RowsOf(req.source, Rows)
  BY <1>1
<1> QED BY <1>1, <1>3, <1>4, <1>5, <1>6, <1>7, <1>8 DEF WalkHolds, s, E, M

(* Those of a list that are in S are in the documented order.              *)
SortedRows(orderBy, S, s) ==
    \A i, j \in DOMAIN s : i < j /\ s[i] \in S /\ s[j] \in S => Precedes(orderBy, s[i], s[j])

(* Two lists in order are in order one after the other, when all of one    *)
(* come before all of the other.                                           *)
LEMMA ConcatInOrder ==
    ASSUME NEW orderBy, NEW S, NEW s, NEW t, List(s), List(t),
           SortedRows(orderBy, S, s), SortedRows(orderBy, S, t),
           \A x \in ToSet(s), y \in ToSet(t) : x \in S /\ y \in S => Precedes(orderBy, x, y)
    PROVE  SortedRows(orderBy, S, s \o t)
<1> DEFINE n == Len(s)
           m == Len(t)
           u == s \o t
           T == ToSet(s) \cup ToSet(t)
<1>1. n \in Nat /\ m \in Nat /\ DOMAIN s = 1..n /\ DOMAIN t = 1..m
  BY ListProperties
<1>2. s \in Seq(T) /\ t \in Seq(T)
  BY ListInSeq
<1>3. Len(u) = n + m /\ \A i \in 1..(n + m) : u[i] = IF i <= n THEN s[i] ELSE t[i - n]
  BY <1>2, ConcatProperties
<1>4. DOMAIN u = 1..(n + m)
  <2>1. u \in Seq(T)
    BY <1>2, ConcatProperties
  <2> HIDE DEF u
  <2> QED BY <1>3, <2>1
<1> HIDE DEF n, m, u, T
<1>5. /\ \A i \in 1..(n + m) : i <= n => i \in DOMAIN s /\ u[i] = s[i] /\ u[i] \in ToSet(s)
      /\ \A i \in 1..(n + m) : ~ (i <= n) => i - n \in DOMAIN t /\ u[i] = t[i - n] /\ u[i] \in ToSet(t)
  <2>1. \A i \in 1..(n + m) : i <= n => i \in DOMAIN s
    BY <1>1
  <2>2. \A i \in 1..(n + m) : ~ (i <= n) => i - n \in DOMAIN t
    BY <1>1
  <2> QED BY <1>3, <2>1, <2>2 DEF ToSet
<1>6. ASSUME NEW i \in DOMAIN u, NEW j \in DOMAIN u, i < j, u[i] \in S, u[j] \in S
      PROVE  Precedes(orderBy, u[i], u[j])
  <2>1. CASE i <= n /\ j <= n
    BY <1>4, <1>5, <1>6, <2>1 DEF SortedRows
  <2>2. CASE i <= n /\ ~ (j <= n)
    BY <1>4, <1>5, <1>6, <2>2
  <2>3. CASE ~ (i <= n)
    <3>1. ~ (j <= n) /\ i - n < j - n
      BY <1>1, <1>4, <1>6, <2>3
    <3>2. /\ i - n \in DOMAIN t /\ u[i] = t[i - n]
          /\ j - n \in DOMAIN t /\ u[j] = t[j - n]
      BY <1>4, <1>5, <2>3, <3>1
    <3> QED BY <1>6, <3>1, <3>2 DEF SortedRows
  <2> QED BY <2>1, <2>2, <2>3
<1> QED BY <1>6 DEF SortedRows, u

(* What is not past a row is nearer than what is.                          *)
LEMMA NearerBetween ==
    ASSUME NEW source, NEW orderBy, Orderable(source, orderBy), NEW bound,
           NEW p \in RowsOf(source, Rows), NEW x \in RowsOf(source, Rows),
           NEW y \in RowsOf(source, Rows), Nearer(orderBy, bound, p, y)
    PROVE  Nearer(orderBy, bound, p, x) \/ Nearer(orderBy, bound, x, y)
BY NearerOrder

(* and of the next page, read from where the last one ended,               *)
LEMMA WalkGoesOn ==
    ASSUME NEW req, Accepted(req), NEW db, IsData(db), NEW page,
           PageHolds(page, req, Past(req, db)), NEW w, WalkHolds(w),
           w.source = req.source, w.orderBy = req.orderBy, w.bound = req.bound,
           w.edge = req.cursor, req.cursor # Null, w.stayed \subseteq RowsOf(req.source, db),
           NEW v, v.source = w.source, v.orderBy = w.orderBy, v.bound = w.bound,
           v.anchor = w.anchor, v.edge = Edge(page), v.more = More(page), v.stayed = w.stayed,
           v.seen = IF req.bound = "before" THEN page.items \o w.seen ELSE w.seen \o page.items
    PROVE  WalkHolds(v)
<1> DEFINE past == Past(req, db)
           all == RowsOf(req.source, Rows)
           stayed == w.stayed
           anchor == w.anchor
           edge == req.cursor
           seen == w.seen
           Far(cursor, r) == Beyond(req.source, req.orderBy, req.bound, cursor, r)
           s == page.items
           E == Edge(page)
           M == More(page)
<1>1. /\ List(s) /\ ToSet(s) \subseteq past /\ past \subseteq all
      /\ E # Null => Taken(req.source, req.orderBy, E)
      /\ M => E # Null
      /\ \A r \in past : r \in ToSet(s) <=> (M => ~ Far(E, r))
      /\ ~ M /\ E # Null => \A r \in past : ~ Far(E, r)
      /\ E # Null => \A r \in all : Far(E, r) => Far(edge, r)
  BY PageEdge
<1>2. /\ Orderable(req.source, req.orderBy) /\ req.bound \in {"after", "before"}
      /\ anchor # Null => Taken(req.source, req.orderBy, anchor)
      /\ Taken(req.source, req.orderBy, edge)
      /\ List(seen) /\ ToSet(seen) \subseteq all /\ stayed \subseteq all
      /\ \A r \in stayed : r \in ToSet(seen) <=> Far(anchor, r) /\ (w.more => ~ Far(edge, r))
      /\ ~ w.more => \A r \in stayed : ~ Far(edge, r)
      /\ \A r \in all : Far(edge, r) => Far(anchor, r)
      /\ SortedRows(req.orderBy, stayed, seen)
  BY DEF WalkHolds, SortedRows
<1>3. \A r \in stayed : r \in past <=> Far(edge, r)
  BY DEF Past
<1>4. \A i, j \in DOMAIN s : i < j => Precedes(req.orderBy, s[i], s[j])
  BY DEF PageHolds
<1>5. PICK p \in all : edge = Cursor(req.source, KeysetOrder(req.source, req.orderBy), p)
  BY <1>2 DEF Taken
<1>6. \A r \in all : Far(edge, r) <=> Nearer(req.orderBy, req.bound, p, r)
  BY <1>2, <1>5, BeyondIsNearer
<1>7. v.seen = IF req.bound = "before" THEN s \o seen ELSE seen \o s
  OBVIOUS
<1>8. /\ v.source = req.source /\ v.orderBy = req.orderBy /\ v.bound = req.bound
      /\ v.anchor = anchor /\ v.edge = E /\ v.more = M /\ v.stayed = stayed
  OBVIOUS
<1> HIDE DEF past, stayed, anchor, edge, seen, s, E, M, Far
<1>9. List(v.seen) /\ ToSet(v.seen) = ToSet(seen) \cup ToSet(s)
  BY <1>1, <1>2, <1>7, ConcatList
<1>10. \A r \in stayed : r \in ToSet(seen) <=> Far(anchor, r) /\ ~ Far(edge, r)
  BY <1>2
<1>11. \A r \in stayed : r \in ToSet(s) <=> Far(edge, r) /\ (M => ~ Far(E, r))
  BY <1>1, <1>3
<1>12. \A r \in stayed : /\ Far(edge, r) => Far(anchor, r)
                         /\ M /\ Far(E, r) => Far(edge, r)
  <2> HIDE DEF all
  <2> QED BY <1>1, <1>2
<1>13. \A r \in stayed : r \in ToSet(v.seen) <=> Far(anchor, r) /\ (M => ~ Far(E, r))
  BY <1>9, <1>10, <1>11, <1>12
<1>14. ~ M /\ E # Null => \A r \in stayed : ~ Far(E, r)
  <2> HIDE DEF all
  <2>1. \A r \in stayed : r \in all
    BY <1>2
  <2> QED BY <1>1, <1>3, <2>1
<1>15. E # Null => \A r \in all : Far(E, r) => Far(anchor, r)
  BY <1>1, <1>2
<1>16. ASSUME NEW x \in ToSet(seen), NEW y \in ToSet(s), x \in stayed, y \in stayed
       PROVE  Nearer(req.orderBy, req.bound, x, y)
  <2>1. x \in all /\ y \in all /\ p \in all
    BY <1>2, <1>16
  <2>2. ~ Nearer(req.orderBy, req.bound, p, x) /\ Nearer(req.orderBy, req.bound, p, y)
    BY <1>6, <1>10, <1>11, <1>16, <2>1
  <2>3. Orderable(req.source, req.orderBy)
    BY <1>2
  <2>4. Nearer(req.orderBy, req.bound, p, x) \/ Nearer(req.orderBy, req.bound, x, y)
    BY <2>1, <2>2, <2>3, NearerBetween
  <2> QED BY <2>2, <2>4
<1>17. SortedRows(req.orderBy, stayed, s)
  BY <1>4 DEF SortedRows
<1>18. SortedRows(req.orderBy, stayed, v.seen)
  <2>1. CASE req.bound = "before"
    <3>1. \A x \in ToSet(s), y \in ToSet(seen) :
            x \in stayed /\ y \in stayed => Precedes(req.orderBy, x, y)
      BY <1>16, <2>1 DEF Nearer
    <3>2. SortedRows(req.orderBy, stayed, s \o seen)
      BY <1>1, <1>2, <1>17, <3>1, ConcatInOrder
    <3> QED BY <1>7, <2>1, <3>2
  <2>2. CASE req.bound # "before"
    <3>1. req.bound = "after"
      BY <1>2, <2>2
    <3>2. \A x \in ToSet(seen), y \in ToSet(s) :
            x \in stayed /\ y \in stayed => Precedes(req.orderBy, x, y)
      BY <1>16, <3>1 DEF Nearer
    <3>3. SortedRows(req.orderBy, stayed, seen \o s)
      BY <1>1, <1>2, <1>17, <3>2, ConcatInOrder
    <3> QED BY <1>7, <2>2, <3>3
  <2> QED BY <2>1, <2>2
<1>19. ToSet(v.seen) \subseteq all
  BY <1>1, <1>2, <1>9
<1> QED BY <1>1, <1>2, <1>8, <1>9, <1>13, <1>14, <1>15, <1>18, <1>19 DEF WalkHolds, SortedRows, Far

(* and of the same pages when fewer rows stayed.                           *)
LEMMA WalkShrinks ==
    ASSUME NEW w, WalkHolds(w), NEW v, v.source = w.source, v.orderBy = w.orderBy,
           v.bound = w.bound, v.anchor = w.anchor, v.edge = w.edge, v.more = w.more,
           v.seen = w.seen, v.stayed \subseteq w.stayed
    PROVE  WalkHolds(v)
BY DEF WalkHolds

(* So each row that stayed is seen once when the reader has passed it, and *)
(* not before.                                                             *)
LEMMA SeenOnceOf ==
    ASSUME walk # Null, WalkHolds(walk)
    PROVE  SeenOnce
<1> DEFINE seen == walk.seen
           Far(cursor, r) == Beyond(walk.source, walk.orderBy, walk.bound, cursor, r)
           passed(r) == Far(walk.anchor, r) /\ (walk.more => ~ Far(walk.edge, r))
           at(r) == {i \in DOMAIN seen : seen[i] = r}
<1>1. /\ Orderable(walk.source, walk.orderBy) /\ List(seen)
      /\ walk.stayed \subseteq RowsOf(walk.source, Rows)
      /\ \A r \in walk.stayed : r \in ToSet(seen) <=> passed(r)
      /\ \A i, j \in DOMAIN seen : i < j /\ seen[i] \in walk.stayed /\ seen[j] \in walk.stayed
                                   => Precedes(walk.orderBy, seen[i], seen[j])
  BY DEF WalkHolds
<1>2. Len(seen) \in Nat /\ DOMAIN seen = 1..Len(seen)
  BY <1>1, ListProperties
<1> HIDE DEF seen, passed
<1>3. ASSUME NEW r \in walk.stayed PROVE Cardinality(at(r)) = IF passed(r) THEN 1 ELSE 0
  <2>1. \A i, j \in at(r) : i = j
    <3> SUFFICES ASSUME NEW i \in at(r), NEW j \in at(r), i < j PROVE FALSE
      BY <1>2
    <3>1. Precedes(walk.orderBy, r, r)
      BY <1>1
    <3>2. r \in RowsOf(walk.source, Rows)
      BY <1>1
    <3> QED BY <1>1, <3>1, <3>2, PrecedesOrder
  <2>2. CASE passed(r)
    <3>1. PICK i \in DOMAIN seen : seen[i] = r
      BY <1>1, <2>2 DEF ToSet
    <3>2. at(r) = {i}
      BY <2>1, <3>1
    <3> QED BY <2>2, <3>2, FS_Singleton
  <2>3. CASE ~ passed(r)
    <3>1. at(r) = {}
      BY <1>1, <2>3 DEF ToSet
    <3> QED BY <2>3, <3>1, FS_EmptySet
  <2> QED BY <2>2, <2>3
<1>4. \A i, j \in DOMAIN seen :
        i < j /\ {seen[i], seen[j]} \subseteq walk.stayed => Precedes(walk.orderBy, seen[i], seen[j])
  BY <1>1
<1>5. \A r \in walk.stayed : Cardinality({i \in DOMAIN walk.seen : walk.seen[i] = r}) = IF passed(r) THEN 1 ELSE 0
  BY <1>3 DEF seen
<1> QED BY <1>4, <1>5 DEF SeenOnce, seen, passed

-----------------------------------------------------------------------------
(* The walk at every step.                                                 *)

(* A walk is a record of these fields.                                     *)
IsWalk(w) ==
    w = [source |-> w.source, orderBy |-> w.orderBy, bound |-> w.bound, anchor |-> w.anchor,
         edge |-> w.edge, more |-> w.more, seen |-> w.seen, stayed |-> w.stayed]

(* The reader holds what it should of the rows that stayed; they are there *)
(* still, and were when the transaction began.                             *)
WalkInv ==
    walk # Null =>
        /\ IsWalk(walk) /\ WalkHolds(walk)
        /\ walk.stayed \subseteq RowsOf(walk.source, rows)
        /\ snapshot # Null => walk.stayed \subseteq snapshot

(* The walk after one more page, and after a write.                        *)
GoneOn(w, page) ==
    [w EXCEPT !.edge = Edge(page), !.more = More(page),
              !.seen = IF page.request.bound = "before" THEN page.items \o w.seen
                       ELSE w.seen \o page.items]
Lessened(w, new) == [w EXCEPT !.stayed = w.stayed \cap new]

(* The first goes on with the walk, and neither changes another field.     *)
GoesOn(v, w, page) ==
    /\ IsWalk(v) /\ v.source = w.source /\ v.orderBy = w.orderBy /\ v.bound = w.bound
    /\ v.anchor = w.anchor /\ v.edge = Edge(page) /\ v.more = More(page)
    /\ v.stayed = w.stayed
    /\ v.seen = IF page.request.bound = "before" THEN page.items \o w.seen
                ELSE w.seen \o page.items

(* One page more changes the edge, the flag and what was seen.             *)
LEMMA GoneOnFields ==
    ASSUME NEW w, IsWalk(w), NEW page
    PROVE  GoesOn(GoneOn(w, page), w, page)
<1> DEFINE v == GoneOn(w, page)
<1> DEFINE seen == IF page.request.bound = "before" THEN page.items \o w.seen
                   ELSE w.seen \o page.items
<1>1. v = [w EXCEPT !.edge = Edge(page), !.more = More(page), !.seen = seen]
  BY DEF GoneOn
<1> HIDE DEF seen, v
<1>2. v = [source |-> w.source, orderBy |-> w.orderBy, bound |-> w.bound, anchor |-> w.anchor,
           edge |-> Edge(page), more |-> More(page), seen |-> seen, stayed |-> w.stayed]
  BY <1>1 DEF IsWalk
<1>3. /\ IsWalk(v) /\ v.source = w.source /\ v.orderBy = w.orderBy /\ v.bound = w.bound
      /\ v.anchor = w.anchor /\ v.edge = Edge(page) /\ v.more = More(page)
      /\ v.stayed = w.stayed /\ v.seen = seen
  BY <1>2 DEF IsWalk
<1> QED BY <1>3 DEF seen, v, GoesOn

(* A write changes what stayed.                                            *)
LEMMA LessenedFields ==
    ASSUME NEW w, IsWalk(w), NEW new, NEW v, v = Lessened(w, new)
    PROVE  /\ IsWalk(v) /\ v.source = w.source /\ v.orderBy = w.orderBy /\ v.bound = w.bound
           /\ v.anchor = w.anchor /\ v.edge = w.edge /\ v.more = w.more /\ v.seen = w.seen
           /\ v.stayed = w.stayed \cap new
<1>1. v = [source |-> w.source, orderBy |-> w.orderBy, bound |-> w.bound, anchor |-> w.anchor,
           edge |-> w.edge, more |-> w.more, seen |-> w.seen, stayed |-> w.stayed \cap new]
  BY DEF IsWalk, Lessened
<1> QED BY <1>1 DEF IsWalk

(* A step that reads no rows leaves the walk as it is.                     *)
LEMMA WalkUntouched ==
    ASSUME WalkInv, walk' = walk, rows' = rows, snapshot' \in {Null, rows, snapshot}
    PROVE  WalkInv'
BY DEF WalkInv, RowsOf

(* A request takes its snapshot of tables the rows that stayed are in.     *)
LEMMA WalkAskKeeps == ASSUME ReadInv, WalkInv, AskStep PROVE WalkInv'
<1>1. PICK req : Ask(req)
  BY DEF AskStep
<1>2. walk' = walk /\ rows' = rows /\ snapshot' \in {Null, rows, snapshot}
  BY <1>1 DEF Ask
<1> QED BY <1>2, WalkUntouched

(* The select goes on with the walk, or begins one.                        *)
LEMMA WalkSelectKeeps == ASSUME ReadInv, WalkInv, RunSelect PROVE WalkInv'
<1> DEFINE req == request
           page == ShapePage(req, Select(req, View))
<1>1. /\ request # Null /\ walk' = Walk(page, View)
      /\ rows' = rows /\ snapshot' = snapshot
  BY DEF RunSelect
<1>2. Accepted(req) /\ IsData(View) /\ IsData(rows)
  BY <1>1, ViewIsData DEF ReadInv
<1>3. PageHolds(page, req, Past(req, View))
  BY <1>2, PageRead
<1>4. page.request = req
  BY <1>3 DEF PageHolds
<1> HIDE DEF page
<1>5. CASE Follows(page)
  <2>1. /\ walk # Null /\ req.cursor # Null /\ walk.edge = req.cursor /\ walk.bound = req.bound
        /\ walk.source = req.source /\ walk.orderBy = req.orderBy
    BY <1>4, <1>5 DEF Follows
  <2>2. walk' = GoneOn(walk, page)
    BY <1>1, <1>4, <1>5 DEF Walk, GoneOn
  <2>3. /\ IsWalk(walk) /\ WalkHolds(walk) /\ walk.stayed \subseteq RowsOf(walk.source, rows)
        /\ snapshot # Null => walk.stayed \subseteq snapshot
    BY <2>1 DEF WalkInv
  <2>4. walk.stayed \subseteq RowsOf(req.source, View)
    BY <2>1, <2>3 DEF RowsOf, View
  <2>5. /\ IsWalk(walk') /\ walk'.source = walk.source /\ walk'.orderBy = walk.orderBy
        /\ walk'.bound = walk.bound /\ walk'.anchor = walk.anchor /\ walk'.edge = Edge(page)
        /\ walk'.more = More(page) /\ walk'.stayed = walk.stayed
        /\ walk'.seen = IF page.request.bound = "before" THEN page.items \o walk.seen
                        ELSE walk.seen \o page.items
    <3>1. GoesOn(GoneOn(walk, page), walk, page)
      BY <2>3, GoneOnFields
    <3>2. GoesOn(walk', walk, page)
      BY <2>2, <3>1
    <3> QED BY <3>2 DEF GoesOn
  <2>6. WalkHolds(walk')
    BY <1>2, <1>3, <1>4, <2>1, <2>3, <2>4, <2>5, WalkGoesOn
  <2> QED BY <1>1, <2>3, <2>5, <2>6 DEF WalkInv
<1>6. CASE ~ Follows(page)
  <2> DEFINE v == [source |-> req.source, orderBy |-> req.orderBy, bound |-> req.bound,
                   anchor |-> req.cursor, edge |-> Edge(page), more |-> More(page),
                   seen |-> page.items, stayed |-> RowsOf(req.source, View) \cap rows]
  <2>1. walk' = v
    BY <1>1, <1>4, <1>6 DEF Walk
  <2>2. /\ IsWalk(v) /\ v.source = req.source /\ v.orderBy = req.orderBy /\ v.bound = req.bound
        /\ v.anchor = req.cursor /\ v.edge = Edge(page) /\ v.more = More(page)
        /\ v.seen = page.items /\ v.stayed = RowsOf(req.source, View) \cap rows
    BY DEF IsWalk
  <2> HIDE DEF v
  <2>3. v.stayed \subseteq RowsOf(req.source, View)
    BY <2>2
  <2>4. WalkHolds(v)
    BY <1>2, <1>3, <2>2, <2>3, WalkBegins
  <2>5. v.stayed \subseteq RowsOf(v.source, rows) /\ (snapshot # Null => v.stayed \subseteq snapshot)
    BY <2>2 DEF RowsOf, View
  <2> QED BY <1>1, <2>1, <2>2, <2>4, <2>5 DEF WalkInv
<1> QED BY <1>5, <1>6

(* The count reads no rows of the page.                                    *)
LEMMA WalkCountKeeps == ASSUME WalkInv, RunCount PROVE WalkInv'
BY WalkUntouched DEF RunCount

(* The end of a request ends its snapshot.                                 *)
LEMMA WalkDoneKeeps == ASSUME WalkInv, Answer \/ Fails PROVE WalkInv'
<1>1. walk' = walk /\ rows' = rows /\ snapshot' = Null
  BY DEF Answer, Fails, Done
<1> QED BY <1>1, WalkUntouched

(* A row that is written stayed no longer.                                 *)
LEMMA WalkWriteKeeps == ASSUME WalkInv, WriteStep PROVE WalkInv'
<1>1. PICK new : IsData(new) /\ Write(new)
  BY DEF WriteStep
<1>2. /\ rows' = new /\ snapshot' = snapshot
      /\ walk = Null => walk' = Null
      /\ walk # Null => walk' = Lessened(walk, new)
  BY <1>1 DEF Write, reading, Lessened
<1>3. CASE walk = Null
  BY <1>2, <1>3 DEF WalkInv
<1>4. CASE walk # Null
  <2>1. /\ IsWalk(walk) /\ WalkHolds(walk) /\ walk.stayed \subseteq RowsOf(walk.source, rows)
        /\ snapshot # Null => walk.stayed \subseteq snapshot
    BY <1>4 DEF WalkInv
  <2>2. /\ IsWalk(walk') /\ walk'.source = walk.source /\ walk'.orderBy = walk.orderBy
        /\ walk'.bound = walk.bound /\ walk'.anchor = walk.anchor /\ walk'.edge = walk.edge
        /\ walk'.more = walk.more /\ walk'.seen = walk.seen /\ walk'.stayed = walk.stayed \cap new
    BY <1>2, <1>4, <2>1, LessenedFields
  <2>3. walk'.stayed \subseteq walk.stayed
    BY <2>2
  <2>4. WalkHolds(walk')
    BY <2>1, <2>2, <2>3, WalkShrinks
  <2>5. walk'.stayed \subseteq RowsOf(walk'.source, rows')
    BY <1>2, <2>1, <2>2 DEF RowsOf
  <2> QED BY <1>2, <2>1, <2>2, <2>3, <2>4, <2>5 DEF WalkInv
<1> QED BY <1>3, <1>4

(* So at every step.                                                       *)
LEMMA WalkInvKept == ASSUME ReadInv, WalkInv, [Next]_vars PROVE WalkInv'
<1>1. CASE UNCHANGED vars
  BY <1>1 DEF WalkInv, vars, reading
<1>2. CASE Next
  BY <1>2, Steps, WalkAskKeeps, WalkSelectKeeps, WalkCountKeeps, WalkDoneKeeps, WalkWriteKeeps
<1> QED BY <1>1, <1>2

(* The inductive invariant: of what is being read and was returned, and of *)
(* the reader that goes on.                                                *)
Inv == ReadInv /\ WalkInv

(* It holds at first,                                                      *)
LEMMA InvInit == Init => Inv
BY ReadInvInit DEF Init, WalkInv, Inv

(* is kept by every step,                                                  *)
LEMMA InvKept == Inv /\ [Next]_vars => Inv'
BY ReadInvKept, WalkInvKept DEF Inv

(* and so holds at every step.                                             *)
LEMMA InvHolds == Spec => []Inv
BY InvInit, InvKept, PTL DEF Spec

-----------------------------------------------------------------------------
(* TypeOK (Pages): the tables hold one row for a primary key, nothing of a *)
(* request is left when it is over, and what stayed is in the tables.      *)
THEOREM PagesTypeOK == Spec => []TypeOK
<1>1. Inv => TypeOK
  <2> SUFFICES ASSUME Inv PROVE TypeOK
    OBVIOUS
  <2>1. /\ IsData(rows)
        /\ pages \in 0 .. MaxPages /\ writes \in 0 .. MaxWrites /\ refused \in Reasons
        /\ request = Null => snapshot = Null /\ found = Null /\ counted = Null
        /\ snapshot # Null => IsData(snapshot)
    BY DEF Inv, ReadInv
  <2>2. walk # Null => walk.stayed \subseteq rows /\ ToSet(walk.seen) \subseteq Rows
    BY DEF Inv, WalkInv, WalkHolds, RowsOf
  <2> QED BY <2>1, <2>2 DEF TypeOK, Reasons, IsData
<1> QED BY <1>1, InvHolds, PTL

(* PageIsSlice (Pages): a page that is read holds the nearest rows to its  *)
(* cursor of those past it, in order, and says whether there are more.     *)
THEOREM PagesAreSlices == Spec => PageIsSlice
<1>1. Inv /\ [Next]_vars => (found' # found /\ found' # Null => IsSlice(found', View))
  <2> SUFFICES ASSUME Inv, [Next]_vars, found' # found, found' # Null
               PROVE  IsSlice(found', View)
    OBVIOUS
  <2>1. ReadInv
    BY DEF Inv
  <2>2. CASE RunSelect
    <3>1. request # Null /\ found' = ShapePage(request, Select(request, View))
      BY <2>2 DEF RunSelect
    <3>2. Accepted(request) /\ IsData(View)
      BY <2>1, <3>1, ViewIsData DEF ReadInv
    <3>3. PageHolds(found', request, Past(request, View))
      BY <3>1, <3>2, PageRead
    <3> QED BY <3>2, <3>3, SliceOfPage
  <2>3. CASE AskStep \/ RunCount
    BY <2>3 DEF AskStep, Ask, RunCount
  <2>4. CASE Answer \/ Fails
    BY <2>4 DEF Answer, Fails, Done
  <2>5. CASE WriteStep
    BY <2>5 DEF WriteStep, Write, reading
  <2>6. CASE UNCHANGED vars
    BY <2>6 DEF vars, reading
  <2> QED BY <2>1, <2>2, <2>3, <2>4, <2>5, <2>6, Steps
<1> QED BY <1>1, InvHolds, PTL DEF Spec, PageIsSlice

(* TotalAgrees (Pages): the total of a page counted in a transaction is of *)
(* the snapshot the page was read from.                                    *)
THEOREM TotalsAgree == Spec => []TotalAgrees
<1>1. Inv => TotalAgrees
  <2> SUFFICES ASSUME Inv, answer # Null, answer.request.count, answer.request.tx
               PROVE  LET read == Len(answer.items) + IF More(answer) THEN 1 ELSE 0
                      IN /\ read <= answer.total
                         /\ answer.request.cursor = Null /\ ~More(answer) => answer.total = read
    BY DEF TotalAgrees
  <2> DEFINE req == answer.request
  <2>1. Answered(answer)
    BY DEF Inv, ReadInv
  <2>2. PICK db : /\ IsData(db) /\ Accepted(req) /\ PageHolds(answer, req, Past(req, db))
                  /\ answer.total = Count(req, db)
    BY <2>1 DEF Answered
  <2> HIDE DEF req
  <2>3. LET read == Len(answer.items) + IF More(answer) THEN 1 ELSE 0
        IN /\ read <= Count(req, db)
           /\ req.cursor = Null /\ ~More(answer) => read = Count(req, db)
    BY <2>2, PageCounts
  <2> QED BY <2>2, <2>3 DEF req
<1> QED BY <1>1, InvHolds, PTL

(* SeenOnce (Pages): of the rows that stayed, a reader that goes on one    *)
(* way sees each once when it has passed it, and no other, in order.       *)
THEOREM RowsSeenOnce == Spec => []SeenOnce
<1>1. Inv => SeenOnce
  <2>1. ASSUME walk = Null PROVE SeenOnce
    BY <2>1 DEF SeenOnce
  <2>2. ASSUME Inv, walk # Null PROVE SeenOnce
    BY <2>2, SeenOnceOf DEF Inv, WalkInv
  <2> QED BY <2>1, <2>2
<1> QED BY <1>1, InvHolds, PTL
=============================================================================
