------------------------------- MODULE Filters -------------------------------
(***************************************************************************)
(* WhereBuilder: what a `where` means to a row, and what is left of one    *)
(* that several tables share when it is seen from one of them.             *)
(*                                                                         *)
(* A where is an object, a set of entries:                                 *)
(*   [field, test]  a column's filter: a set of <<op, operand>>            *)
(*   [member]       $$key's, the same over members' aliases                *)
(*   [group, of]    "and" or "or" over a set of wheres                     *)
(*   [negated]      `not`                                                  *)
(***************************************************************************)
EXTENDS ClientSchema, Nesting

Key(test) == [member |-> test]
Field(f, test) == [field |-> f, test |-> test]
Eq(f, v) == Field(f, {<<"eq", v>>})
And(S) == [group |-> "and", of |-> S]
Or(S) == [group |-> "or", of |-> S]
Not(where) == [negated |-> where]

IsField(e) == "field" \in DOMAIN e
IsKey(e) == "member" \in DOMAIN e
IsGroup(e) == "group" \in DOMAIN e

\* The wheres a where holds: its groups' and the negated ones.
Parts(where) ==
    UNION {IF IsKey(e) \/ IsField(e) THEN {} ELSE IF IsGroup(e) THEN e.of ELSE {e.negated} : e \in where}

None == "none"

----------------------------------------------------------------------------
(* One table's filter.                                                      *)

Comparisons == {"eq", "neq", "in", "gt", "gte", "lt", "lte", "between", "exists"}

\* A polymorphic id matches a member and a key; any other value its column alone.
Equals(r, f, v) ==
    IF Dynamic(f) /\ IsGlobalId(v)
    THEN All3({Eq3(r[Discriminator], KeyOf(v)), Eq3(r[f], Raw(v))})
    ELSE Eq3(r[f], Raw(v))

\* What a test compares its column with.
Operands(t) ==
    CASE t[1] = "exists" -> {}
      [] t[1] = "in" -> t[2]
      [] t[1] = "between" -> Range(t[2])
      [] OTHER -> {t[2]}

\* One test's condition; `equal` says of each operand whether it equals. An empty `in` is false.
Compare(r, f, t, equal) ==
    LET op == t[1] v == t[2] IN
    CASE op = "eq" -> equal[v]
      [] op = "neq" -> Not3(equal[v])
      [] op = "in" -> Any3(Range(equal))
      [] op = "gt" -> Gt3(r[f], Raw(v))
      [] op = "gte" -> Not3(Lt3(r[f], Raw(v)))
      [] op = "lt" -> Lt3(r[f], Raw(v))
      [] op = "lte" -> Not3(Gt3(r[f], Raw(v)))
      [] op = "between" -> All3({Not3(Lt3(r[f], Raw(v[1]))), Not3(Gt3(r[f], Raw(v[2])))})
      [] op = "exists" -> IF v THEN Not3(IsNull3(r[f])) ELSE IsNull3(r[f])

\* The conditions of a level AND-ed; a level without any constrains nothing.
Together(conditions) == IF conditions = {} THEN None ELSE All3(conditions)

\* A group's condition, if it has one: an `or` with a branch that matches every row has none.
GroupConditions(group, children) ==
    CASE group = "and" /\ children \subseteq {None} -> {}
      [] group = "and" /\ ~(children \subseteq {None}) -> {All3(children \ {None})}
      [] OTHER -> IF children = {} \/ None \in children THEN {} ELSE {Any3(children)}

\* An entry's conditions on row r; `inner` is what the wheres in it come to.
Conditions(e, r, inner) ==
    IF IsField(e)
    THEN {Compare(r, e.field, t, [v \in Operands(t) |-> Equals(r, e.field, v)]) : t \in e.test}
    ELSE IF IsGroup(e) THEN GroupConditions(e.group, {inner[w] : w \in e.of})
    ELSE {Not3(c) : c \in {inner[e.negated]} \ {None}}

\* The truth of the where on row r, or None when nothing is left of it.
Build(where, r) ==
    LET levels == Levels(where, Parts)
        build[n \in Nat] ==
            [w \in levels[n] |-> Together(UNION {Conditions(e, r, build[n + 1]) : e \in w})]
    IN build[0][where]

Selects(where, r) == Build(where, r) \in {None, "true"}

\* What refuses a table's where: an unknown column, an operator, an id for another node.
Invalid(table, where) ==
    \E e \in UNION Within(where, Parts) :
        \/ IsKey(e)
        \/ /\ IsField(e)
           /\ \/ e.field \notin Columns(table)
              \/ \E t \in e.test :
                    \/ t[1] \notin Comparisons
                    \/ IsGuid(e.field) /\ \E v \in Operands(t) : DecodeThrows(table, e.field, v)

\* A where of which nothing is left, whatever the row.
Empty(where) ==
    LET levels == Levels(where, Parts)
        empty[n \in Nat] ==
            [w \in levels[n] |-> \A e \in w :
                /\ ~IsField(e)
                /\ IF IsGroup(e)
                   THEN LET left == {empty[n + 1][v] : v \in e.of}
                        IN IF e.group = "and" THEN FALSE \notin left ELSE left = {} \/ TRUE \in left
                   ELSE empty[n + 1][e.negated]]
    IN empty[0][where]

\* findOne, update and delete refuse a where that names no row in particular.
RequiredInvalid(table, where) == Invalid(table, where) \/ Empty(where)

----------------------------------------------------------------------------
(* A union's shared filter.                                                 *)

KeyTest(t, alias) ==
    CASE t[1] = "eq" -> alias = t[2] [] t[1] = "neq" -> alias # t[2] [] t[1] = "in" -> alias \in t[2]
KeyTestInvalid(t) ==
    CASE t[1] \in {"eq", "neq"} -> t[2] \notin Aliases
      [] t[1] = "in" -> ~(t[2] \subseteq Aliases)
      [] OTHER -> TRUE

\* assertShared: a field some member lacks, a $$key that names no member.
SharedInvalid(where) ==
    \E e \in UNION Within(where, Parts) :
        \/ IsKey(e) /\ \E t \in e.member : KeyTestInvalid(t)
        \/ IsField(e) /\ e.field \notin Shared

(***************************************************************************)
(* What is left of a condition seen from one member is a set: {} when no   *)
(* row can match, which the code answers with false, and {left} otherwise. *)
(***************************************************************************)
Nothing == {}

\* A test on a shared guid: an id for another node cannot equal its column, so it is decided here.
FoldGlobalIds(alias, test) ==
    LET foreign(v) == IsGlobalId(v) /\ KeyOf(v) # alias
        foldedIn == {IF t[1] = "in" THEN <<"in", {v \in t[2] : ~foreign(v)}>> ELSE t : t \in test}
        foreignNeq == {t \in test : t[1] = "neq" /\ foreign(t[2])}
    IN IF \/ \E t \in test : t[1] = "eq" /\ foreign(t[2])
          \/ <<"in", {}>> \in foldedIn
          \/ foreignNeq # {} /\ <<"exists", FALSE>> \in test
       THEN Nothing
       ELSE {(foldedIn \ foreignNeq) \cup (IF foreignNeq = {} THEN {} ELSE {<<"exists", TRUE>>})}

\* A group: `children` is what is left of each where in it.
FoldGroup(group, of, children) ==
    LET left == UNION children IN
    CASE of = {} -> {{}}
      [] of # {} /\ group = "and" ->
            IF Nothing \in children THEN Nothing
            ELSE IF left \subseteq {{}} THEN {{}} ELSE {{And(left \ {{}})}}
      [] OTHER -> IF {} \in left THEN {{}}
                  ELSE IF left = {} THEN Nothing ELSE {{Or(left)}}

\* Mutant: what no row can match matches none when negated, either.
FoldNotKeepsFalse(negated, inner) ==
    CASE inner = Nothing -> Nothing
      [] inner = {{}} /\ negated # {} -> Nothing
      [] OTHER -> {{Not(left)} : left \in inner}
FoldNot(negated, inner) ==
    CASE inner = Nothing -> {{}}
      [] inner = {{}} /\ negated # {} -> Nothing
      [] OTHER -> {{Not(left)} : left \in inner}

\* What is left of an entry; `inner` is what is left of the wheres in it.
FoldEntry(e, alias, inner) ==
    IF IsKey(e) THEN IF \A t \in e.member : KeyTest(t, alias) THEN {{}} ELSE Nothing
    ELSE IF IsField(e)
    THEN LET tests == IF IsGuid(e.field) THEN FoldGlobalIds(alias, e.test) ELSE {e.test}
         IN {IF test = {} THEN {} ELSE {Field(e.field, test)} : test \in tests}
    ELSE IF IsGroup(e) THEN FoldGroup(e.group, e.of, {inner[w] : w \in e.of})
    ELSE FoldNot(e.negated, inner[e.negated])

AllOf(folded) == IF Nothing \in folded THEN Nothing ELSE {UNION UNION folded}

\* A shared where seen from a member, every $$key decided.
FoldKey(where, alias) ==
    LET levels == Levels(where, Parts)
        fold[n \in Nat] == [w \in levels[n] |-> AllOf({FoldEntry(e, alias, fold[n + 1]) : e \in w})]
    IN fold[0][where]

----------------------------------------------------------------------------
(* What the guide says a union's where means, written without folding: the *)
(* member is a value every row has, and a global id names its row.         *)

NamesRow(r, f, v) ==
    IF f = "id" /\ IsGlobalId(v) THEN All3({AsTruth(r.table = KeyOf(v)), Eq3(r.id, Raw(v))})
    ELSE Equals(r, f, v)

Terms(e, r, inner) ==
    IF IsKey(e) THEN {AsTruth(KeyTest(t, r.table)) : t \in e.member}
    ELSE IF IsField(e)
    THEN {Compare(r, e.field, t, [v \in Operands(t) |-> NamesRow(r, e.field, v)]) : t \in e.test}
    ELSE IF IsGroup(e) THEN GroupConditions(e.group, {inner[w] : w \in e.of})
    ELSE {Not3(c) : c \in {inner[e.negated]} \ {None}}

Meaning(where, r) ==
    LET levels == Levels(where, Parts)
        meaning[n \in Nat] ==
            [w \in levels[n] |-> Together(UNION {Terms(e, r, meaning[n + 1]) : e \in w})]
    IN meaning[0][where]
=============================================================================
