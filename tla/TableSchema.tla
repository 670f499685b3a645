---------------------------- MODULE TableSchema ----------------------------
(***************************************************************************)
(* One table, as the migration package sees it on its two sides.           *)
(*                                                                         *)
(* The definition (what the code declares) keeps its declaration order:    *)
(*   exists       whether the definition has the table                     *)
(*   columns      sequence of [name, renamedFrom, type, default, notNull,  *)
(*                deprecated, generated, unique, check]; default is "none",*)
(*                "null" (a literal NULL), "void" (NULL only when it is    *)
(*                evaluated) or "value"; renamedFrom and check are         *)
(*                sequences of at most one name                            *)
(*   indexes      sequence of [name, on, unique]                           *)
(*   constraints  sequence of [name, kind, on], kind UNIQUE or CHECK       *)
(*   key          the primary-key columns                                  *)
(*                                                                         *)
(* The database (what introspection reads back) has functions by name:     *)
(*   columns      [type, default, notNull, deprecated, generated, origin], *)
(*                origin naming whose data the column holds                *)
(*   indexes      [on, unique, valid], constraints [kind, on, valid]       *)
(*                                                                         *)
(* A name is the sequence of the parts the code joins with "_": a column   *)
(* "a" is <<"a">> in a name, its UNIQUE <<"t", "a", "key">>. The CHECK of  *)
(* a NOT NULL is the one whose name ends in "not_null". Attributes of an   *)
(* index or a constraint beyond its columns (INCLUDE, NULLS, a predicate's *)
(* presence) are compared by the code as its columns are, and left to on.  *)
(***************************************************************************)
EXTENDS Integers, Sequences, FiniteSets, SequencesExt

T == <<"t">>           \* the qualified name of the table

ColumnUniqueName(c) == <<"t", c, "key">>
NotNullCheckName(c) == <<"t", c, "not_null">>
UniqueIndexName(u)  == Append(u, "idx")
RebuildIndexName(i) == Append(i, "rebuild")

(* The named parts of a sequence of records.                               *)
NamesOf(s)  == {s[k].name : k \in DOMAIN s}
Find(s, n)  == s[CHOOSE k \in DOMAIN s : s[k].name = n]

(* The entries of f but those named in gone; f with the entry n set to v.  *)
Without(f, gone) == [m \in DOMAIN f \ gone |-> f[m]]
With(f, n, v)    == [m \in DOMAIN f \cup {n} |-> IF m = n THEN v ELSE f[m]]

(* f with the entry from under the name to.                                *)
Renamed(f, from, to) ==
  IF from \in DOMAIN f THEN With(Without(f, {from}), to, f[from]) ELSE f

(* What a definition is, as far as the migration takes it on trust: its    *)
(* parts are sequences, and a column has one previous name at most.        *)
IsDefinition(def) ==
  /\ def.exists \in BOOLEAN
  /\ \A part \in {def.columns, def.indexes, def.constraints} :
       part \in Seq(ToSet(part))
  /\ \A column \in ToSet(def.columns) :
       /\ column.check \in Seq(ToSet(column.check))
       /\ column.renamedFrom \in Seq(ToSet(column.renamedFrom))
       /\ Len(column.renamedFrom) <= 1

(* Indexes or constraints over from, then over to.                         *)
Moved(f, from, to) ==
  [n \in DOMAIN f |->
     [f[n] EXCEPT !.on = {IF c = from THEN to ELSE c : c \in f[n].on}]]

(* A table that is absent, from either side.                               *)
NoTable == [exists      |-> FALSE,
            columns     |-> << >>,
            indexes     |-> << >>,
            constraints |-> << >>,
            key         |-> {}]

-----------------------------------------------------------------------------
(* A default can fill NULLs unless it is absent or the literal NULL.       *)
FillsNulls(default) == default \notin {"none", "null"}

(* The CHECKs and UNIQUEs of a definition, wherever they were declared.    *)
NamedConstraintsOf(def) ==
  def.constraints
  \o FlattenSeq([k \in DOMAIN def.columns |->
       [i \in DOMAIN def.columns[k].check |->
          [name |-> def.columns[k].check[i], kind |-> "CHECK",
           on |-> {def.columns[k].name}]]])
  \o FlattenSeq([k \in DOMAIN def.columns |->
       IF def.columns[k].unique
         THEN <<[name |-> ColumnUniqueName(def.columns[k].name),
                 kind |-> "UNIQUE", on |-> {def.columns[k].name}]>>
         ELSE << >>])

(* The columns of the database whose NOT NULL is a CHECK.                  *)
NotNullChecksOf(db) ==
  {c \in DOMAIN db.columns :
     /\ NotNullCheckName(c) \in DOMAIN db.constraints
     /\ db.constraints[NotNullCheckName(c)].kind = "CHECK"}

-----------------------------------------------------------------------------
(* What a table promises about its rows. A rule is a kind and the columns  *)
(* it is over; a UNIQUE over some columns entails one over more of them.   *)
Rule(kind, on) == [kind |-> kind, on |-> on]

Entails(strong, weak) ==
  /\ strong.kind = weak.kind
  /\ IF strong.kind = "UNIQUE" THEN strong.on \subseteq weak.on
                               ELSE strong.on = weak.on

ConstraintRule(name, constraint) ==
  IF Last(name) = "not_null" THEN Rule("NOT NULL", constraint.on)
                             ELSE Rule(constraint.kind, constraint.on)

(* The rules a definition asks for.                                        *)
RulesOf(def) ==
  LET named == NamedConstraintsOf(def)
  IN  {Rule(named[k].kind, named[k].on) : k \in DOMAIN named}
      \cup {Rule("UNIQUE", def.indexes[k].on) :
              k \in {i \in DOMAIN def.indexes : def.indexes[i].unique}}
      \cup {Rule("NOT NULL", {def.columns[k].name}) :
              k \in {i \in DOMAIN def.columns : def.columns[i].notNull}}

-----------------------------------------------------------------------------
(* The database holds what the definition declares, and nothing else. This *)
(* is stated on the two of them, not through the diff: it is what a run    *)
(* that ends well is for.                                                  *)
Matches(def, db) ==
  /\ db.exists = def.exists
  /\ def.exists =>
     /\ DOMAIN db.columns = NamesOf(def.columns)
     /\ \A k \in DOMAIN def.columns :
          LET local == def.columns[k]
              remote == db.columns[local.name]
              check == NotNullCheckName(local.name)
          IN  /\ remote.type = local.type
              /\ remote.default = local.default
              /\ remote.generated = local.generated
              /\ remote.deprecated = local.deprecated
              /\ local.notNull <=>
                   \/ remote.notNull
                   \/ /\ check \in DOMAIN db.constraints
                      /\ db.constraints[check].valid
     /\ DOMAIN db.indexes = NamesOf(def.indexes)
     /\ \A k \in DOMAIN def.indexes :
          db.indexes[def.indexes[k].name] =
            [on     |-> def.indexes[k].on,
             unique |-> def.indexes[k].unique,
             valid  |-> TRUE]
     /\ DOMAIN db.constraints =
          NamesOf(NamedConstraintsOf(def))
          \cup {NotNullCheckName(def.columns[k].name) :
                  k \in {i \in DOMAIN def.columns :
                          /\ def.columns[i].notNull
                          /\ ~ db.columns[def.columns[i].name].notNull}}
     /\ \A k \in DOMAIN NamedConstraintsOf(def) :
          LET local == NamedConstraintsOf(def)[k]
          IN  db.constraints[local.name] =
                [kind |-> local.kind, on |-> local.on, valid |-> TRUE]
     /\ db.key = def.key
=============================================================================
