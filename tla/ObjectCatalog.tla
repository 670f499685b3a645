--------------------------- MODULE ObjectCatalog ---------------------------
(***************************************************************************)
(* What Aurora DSQL does with a statement on a schema object, as the       *)
(* repository relies on it (docs/internals/dsql-capabilities.md, "Domains, *)
(* sequences, schemas, views"): an external system, modelled from its use. *)
(* Every statement is its own transaction.                                 *)
(*                                                                         *)
(* The database is four maps by qualified name; schemas, relations and     *)
(* types have names of their own. A column has, beside its domain, the     *)
(* origin of its data: the table and column it was first written to. A     *)
(* sequence has the last value it gave out.                                *)
(***************************************************************************)
EXTENDS SchemaObjects

EmptyDatabase ==
  [schemas |-> {}, domains |-> << >>, sequences |-> << >>, tables |-> << >>]

Without(f, key) == [k \in DOMAIN f \ {key} |-> f[k]]
With(f, key, value) ==
  [k \in DOMAIN f \cup {key} |-> IF k = key THEN value ELSE f[k]]

Relations(db) == DOMAIN db.tables \cup DOMAIN db.sequences
Qualified(db) == Relations(db) \cup DOMAIN db.domains

(* The schema a qualified name is in is there.                             *)
Reachable(db, q) == Len(q) = 1 \/ <<q[1]>> \in db.schemas

UsedDomains(db) ==
  UNION {{table.columns[c].domain : c \in DOMAIN table.columns} :
           table \in {db.tables[t] : t \in DOMAIN db.tables}}

DomainThere(db, domain) == domain = << >> \/ domain \in DOMAIN db.domains

(* The options of a new sequence: what is not given takes its default.     *)
SequenceCreated(options) ==
  LET up == options.increment = Unset \/ options.increment > 0
      bounds == [key \in DOMAIN options |->
                   IF options[key] # Unset THEN options[key] ELSE
                   CASE key \in {"increment", "cache"} -> 1
                     [] key = "cycle" -> FALSE
                     [] key = "min" -> IF up THEN 1 ELSE BigintMin
                     [] key = "max" -> IF up THEN BigintMax ELSE -1
                     [] key = "start" -> Unset]
  IN  [bounds EXCEPT !.start =
         IF @ # Unset THEN @ ELSE IF up THEN bounds.min ELSE bounds.max]

(* Those of a sequence that is altered: what is given takes its place.     *)
SequenceAltered(options, given) ==
  [key \in DOMAIN options |->
     IF key \in DOMAIN given THEN given[key] ELSE options[key]]

-----------------------------------------------------------------------------
Accepts(db, s) ==
  CASE s.do = "CREATE SCHEMA" -> TRUE
    [] s.do = "CREATE SEQUENCE" -> Reachable(db, s.on)
    [] s.do = "CREATE DOMAIN" ->
         Reachable(db, s.on) /\ s.on \notin DOMAIN db.domains \cup DOMAIN db.tables
    [] s.do = "CREATE TABLE" ->
         /\ Reachable(db, s.on)
         /\ \A c \in DOMAIN s.with : DomainThere(db, s.with[c])
    [] s.do = "ADD COLUMN" ->
         s.on \in DOMAIN db.tables /\ DomainThere(db, s.with.domain)
    [] s.do = "DROP COLUMN" -> s.on \in DOMAIN db.tables
    [] s.do = "RENAME TABLE" ->
         s.with \in DOMAIN db.tables /\ s.on \notin Qualified(db)
    [] s.do \in {"DOMAIN DEFAULT", "DOMAIN DROP NOT NULL", "DOMAIN DROP CHECK"} ->
         s.on \in DOMAIN db.domains
    [] s.do = "ALTER SEQUENCE" -> s.on \in DOMAIN db.sequences
    [] s.do \in {"DROP TABLE", "DROP SEQUENCE"} -> TRUE
    [] s.do = "DROP DOMAIN" -> s.on \notin UsedDomains(db)
    [] s.do = "DROP SCHEMA" -> \A q \in Qualified(db) : Len(q) = 1 \/ q[1] # s.on[1]

(* A sequence that has gone past its new bounds cannot take them; a column *)
(* of a domain that is NOT NULL and has no default cannot be added to a    *)
(* table, for tables have rows.                                            *)
Fails(db, s) ==
  CASE s.do = "ALTER SEQUENCE" ->
         /\ db.sequences[s.on].last # Unset
         /\ \/ "max" \in DOMAIN s.with /\ s.with.max < db.sequences[s.on].last
            \/ "min" \in DOMAIN s.with /\ s.with.min > db.sequences[s.on].last
    [] s.do = "ADD COLUMN" ->
         /\ s.with.name \notin DOMAIN db.tables[s.on].columns
         /\ s.with.domain # << >>
         /\ db.domains[s.with.domain].notNull
         /\ db.domains[s.with.domain].default = Unset
    [] OTHER -> FALSE

TableCreated(name, columns) ==
  [columns |-> [c \in DOMAIN columns |->
     [domain |-> columns[c], origin |-> Append(name, c)]]]

(* The database after a statement it accepted.                             *)
After(db, s) ==
  CASE s.do = "CREATE SCHEMA" -> [db EXCEPT !.schemas = @ \cup {s.on}]
    [] s.do = "CREATE DOMAIN" ->
         [db EXCEPT !.domains = With(@, s.on,
            [type |-> s.with.type, notNull |-> s.with.notNull,
             default |-> s.with.default, check |-> s.with.check])]
    [] s.do = "CREATE SEQUENCE" ->
         IF s.on \in Relations(db) THEN db
         ELSE [db EXCEPT !.sequences = With(@, s.on,
                 [options |-> SequenceCreated(s.with), last |-> Unset])]
    [] s.do = "CREATE TABLE" ->
         IF s.on \in Relations(db) THEN db
         ELSE [db EXCEPT !.tables = With(@, s.on, TableCreated(s.on, s.with))]
    [] s.do = "ADD COLUMN" ->
         IF s.with.name \in DOMAIN db.tables[s.on].columns THEN db
         ELSE [db EXCEPT !.tables[s.on].columns = With(@, s.with.name,
                 [domain |-> s.with.domain, origin |-> Append(s.on, s.with.name)])]
    [] s.do = "DROP COLUMN" ->
         [db EXCEPT !.tables[s.on].columns = Without(@, s.with.name)]
    [] s.do = "RENAME TABLE" ->
         [db EXCEPT !.tables = With(Without(@, s.with), s.on, @[s.with])]
    [] s.do = "DOMAIN DEFAULT" -> [db EXCEPT !.domains[s.on].default = s.with]
    [] s.do = "DOMAIN DROP NOT NULL" ->
         [db EXCEPT !.domains[s.on].notNull = FALSE]
    [] s.do = "DOMAIN DROP CHECK" -> [db EXCEPT !.domains[s.on].check = Unset]
    [] s.do = "ALTER SEQUENCE" ->
         [db EXCEPT !.sequences[s.on].options = SequenceAltered(@, s.with)]
    [] s.do = "DROP TABLE" -> [db EXCEPT !.tables = Without(@, s.on)]
    [] s.do = "DROP SEQUENCE" -> [db EXCEPT !.sequences = Without(@, s.on)]
    [] s.do = "DROP DOMAIN" -> [db EXCEPT !.domains = Without(@, s.on)]
    [] s.do = "DROP SCHEMA" -> [db EXCEPT !.schemas = @ \ {s.on}]

(* nextval: the next value of a sequence, if it has one.                   *)
NextValue(sequence) ==
  IF sequence.last = Unset THEN sequence.options.start
                           ELSE sequence.last + sequence.options.increment

CanAdvance(sequence) ==
  NextValue(sequence) \in sequence.options.min..sequence.options.max

-----------------------------------------------------------------------------
(* What the introspection query selects, in the definition's shapes.       *)
NamespaceOf(q) == IF Len(q) = 1 THEN "public" ELSE q[1]
NameOf(q) == q[Len(q)]

SchemaDefs(db) == {[kind |-> "SCHEMA", name |-> NameOf(q)] : q \in db.schemas}

DomainDefs(db) ==
  {[kind |-> "DOMAIN", ns |-> NamespaceOf(q), name |-> NameOf(q),
    type |-> db.domains[q].type, notNull |-> db.domains[q].notNull,
    default |-> db.domains[q].default, check |-> db.domains[q].check] :
     q \in DOMAIN db.domains}

(* A column's domain is keyed as the planner keys a domain.                *)
ColumnDefs(columns) == [c \in DOMAIN columns |-> columns[c].domain]

TableDefs(db) ==
  {[kind |-> "TABLE", ns |-> NamespaceOf(q), name |-> NameOf(q),
    renamedFrom |-> Unset, columns |-> ColumnDefs(db.tables[q].columns),
    unfilled |-> {}] : q \in DOMAIN db.tables}

SequenceDefs(db) ==
  {[kind |-> "SEQUENCE", ns |-> NamespaceOf(q), name |-> NameOf(q),
    options |-> db.sequences[q].options] : q \in DOMAIN db.sequences}

(* Read in any order, then sorted by kind.                                 *)
Introspect(db) ==
  SetToSeq(SchemaDefs(db)) \o SetToSeq(DomainDefs(db))
  \o SetToSeq(TableDefs(db)) \o SetToSeq(SequenceDefs(db))
=============================================================================
