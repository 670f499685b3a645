------------------------------ MODULE Catalog ------------------------------
(***************************************************************************)
(* What Aurora DSQL does with a statement on the one table, as the         *)
(* repository relies on it (docs/internals/dsql-capabilities.md): an       *)
(* external system, modelled from its use. Every statement is its own      *)
(* transaction, so it applies whole or not at all. Index builds and        *)
(* validations are jobs that end on their own.                             *)
(*                                                                         *)
(* Rows are abstracted to the rules they break: bad is a set of rules.     *)
(***************************************************************************)
EXTENDS TableSchema

Created(def) ==
  LET named == NamedConstraintsOf(def)
  IN  [exists |-> TRUE,
       columns |-> [c \in NamesOf(def.columns) |->
         LET column == Find(def.columns, c)
         IN  [type |-> column.type, default |-> column.default,
              notNull |-> column.notNull, generated |-> column.generated,
              deprecated |-> FALSE, origin |-> c]],
       indexes |-> << >>,
       constraints |-> [n \in NamesOf(named) |->
         [kind |-> Find(named, n).kind, on |-> Find(named, n).on,
          valid |-> TRUE]],
       key |-> def.key]

Violated(bad, rule) == \E broken \in bad : Entails(rule, broken)

(* The rules no write can break: a UNIQUE index enforces its rule once     *)
(* built, and also when its build failed; a CHECK from its ADD on, valid   *)
(* or not.                                                                 *)
Enforced(db, jobs) ==
  {Rule("UNIQUE", db.indexes[n].on) : n \in
     {i \in DOMAIN db.indexes :
        db.indexes[i].unique /\ (db.indexes[i].valid \/ i \notin jobs)}}
  \cup {ConstraintRule(n, db.constraints[n]) : n \in DOMAIN db.constraints}
  \cup {Rule("NOT NULL", {c}) : c \in
          {d \in DOMAIN db.columns : db.columns[d].notNull}}

IsEnforced(db, jobs, rule) ==
  \E held \in Enforced(db, jobs) : Entails(held, rule)

-----------------------------------------------------------------------------
(* The names relations have: an index's, and that of the index of a UNIQUE.*)
TakenNames(db) ==
  DOMAIN db.indexes
  \cup {n \in DOMAIN db.constraints : db.constraints[n].kind = "UNIQUE"}

(* The statement is one the catalog accepts as it now is.                  *)
Accepts(db, s) ==
  CASE s.do \in {"CREATE TABLE", "DROP TABLE"} -> TRUE
    [] s.do \in {"ADD COLUMN", "DROP COLUMN", "DROP CONSTRAINT"} -> db.exists
    [] s.do = "RENAME COLUMN" ->
         s.name \in DOMAIN db.columns /\ s.with \notin DOMAIN db.columns
    [] s.do \in {"SET DEFAULT", "DROP DEFAULT", "DROP NOT NULL", "COMMENT",
                 "DROP EXPRESSION", "BACKFILL"} ->
         s.name \in DOMAIN db.columns
    [] s.do = "CREATE INDEX" -> s.with.on \subseteq DOMAIN db.columns
    [] s.do = "DROP INDEX" -> s.name \notin TakenNames(db) \ DOMAIN db.indexes
    [] s.do = "RENAME INDEX" ->
         s.name \in DOMAIN db.indexes /\ s.with \notin TakenNames(db)
    [] s.do = "RENAME CONSTRAINT" ->
         /\ s.name \in DOMAIN db.constraints
         /\ s.with \notin DOMAIN db.constraints \cup TakenNames(db)
    [] s.do = "ADD CHECK" ->
         /\ s.name \notin DOMAIN db.constraints
         /\ s.with \subseteq DOMAIN db.columns
    [] s.do = "VALIDATE" -> s.name \in DOMAIN db.constraints
    [] s.do = "ADD UNIQUE" ->
         /\ s.name \notin DOMAIN db.constraints \cup TakenNames(db)
         /\ s.with \in DOMAIN db.indexes
         /\ db.indexes[s.with].unique
         /\ db.indexes[s.with].valid

(* A backfill with nothing to fill the NULLs with stops on its first batch.*)
Fails(db, bad, s) ==
  /\ s.do = "BACKFILL"
  /\ Rule("NOT NULL", {s.name}) \in bad
  /\ db.columns[s.name].default # "value"

(* IF NOT EXISTS finds the name: nothing is built, no job is submitted.    *)
Submits(db, s) ==
  \/ s.do = "VALIDATE"
  \/ s.do = "CREATE INDEX" /\ s.name \notin TakenNames(db)

Involving(f, c) == {n \in DOMAIN f : c \in f[n].on}

(* The catalog after a statement it accepted.                              *)
After(db, s) ==
  CASE s.do = "CREATE TABLE" -> IF db.exists THEN db ELSE Created(s.with)
    [] s.do = "DROP TABLE" -> NoTable
    [] s.do = "ADD COLUMN" ->
         IF s.name \in DOMAIN db.columns THEN db
         ELSE [db EXCEPT !.columns = With(@, s.name,
                 [type |-> s.with, default |-> "none", notNull |-> FALSE,
                  generated |-> FALSE, deprecated |-> FALSE,
                  origin |-> s.name])]
    [] s.do = "DROP COLUMN" ->
         [db EXCEPT
            !.columns = Without(@, {s.name}),
            !.indexes = Without(@, Involving(@, s.name)),
            !.constraints = Without(@, Involving(@, s.name))]
    [] s.do = "RENAME COLUMN" ->
         [db EXCEPT !.columns = Renamed(@, s.name, s.with),
                    !.indexes = Moved(@, s.name, s.with),
                    !.constraints = Moved(@, s.name, s.with)]
    [] s.do = "SET DEFAULT" -> [db EXCEPT !.columns[s.name].default = s.with]
    [] s.do = "DROP DEFAULT" -> [db EXCEPT !.columns[s.name].default = "none"]
    [] s.do = "DROP NOT NULL" -> [db EXCEPT !.columns[s.name].notNull = FALSE]
    [] s.do = "DROP EXPRESSION" ->
         [db EXCEPT !.columns[s.name].generated = FALSE]
    [] s.do = "COMMENT" -> [db EXCEPT !.columns[s.name].deprecated = s.with]
    [] s.do = "CREATE INDEX" ->
         IF s.name \in TakenNames(db) THEN db
         ELSE [db EXCEPT !.indexes = With(@, s.name,
                 [on |-> s.with.on, unique |-> s.with.unique, valid |-> FALSE])]
    [] s.do = "DROP INDEX" -> [db EXCEPT !.indexes = Without(@, {s.name})]
    [] s.do = "RENAME INDEX" ->
         [db EXCEPT !.indexes = Renamed(@, s.name, s.with)]
    [] s.do = "ADD CHECK" ->
         [db EXCEPT !.constraints = With(@, s.name,
            [kind |-> "CHECK", on |-> s.with, valid |-> FALSE])]
    [] s.do = "DROP CONSTRAINT" ->
         [db EXCEPT !.constraints = Without(@, {s.name})]
    [] s.do = "RENAME CONSTRAINT" ->
         [db EXCEPT !.constraints = Renamed(@, s.name, s.with)]
    [] s.do = "ADD UNIQUE" ->
         [db EXCEPT
            !.indexes = Without(@, {s.with}),
            !.constraints = With(@, s.name,
               [kind |-> "UNIQUE", on |-> db.indexes[s.with].on,
                valid |-> TRUE])]
    [] s.do \in {"BACKFILL", "VALIDATE"} -> db

(* The rows after it: a new column is NULL in every row there is.          *)
RowsAfter(db, bad, s) ==
  CASE s.do = "DROP TABLE" -> {}
    [] s.do = "ADD COLUMN" /\ s.name \notin DOMAIN db.columns ->
         bad \cup {Rule("NOT NULL", {s.name})}
    [] s.do = "DROP COLUMN" -> {rule \in bad : s.name \notin rule.on}
    [] s.do = "RENAME COLUMN" ->
         {Rule(rule.kind, {IF c = s.name THEN s.with ELSE c : c \in rule.on}) :
            rule \in bad}
    [] s.do = "BACKFILL" -> bad \ {Rule("NOT NULL", {s.name})}
    [] OTHER -> bad

(* The jobs after it, by the name of what they build or validate.          *)
JobsAfter(db, jobs, s) ==
  {n \in jobs : n \in DOMAIN After(db, s).indexes
                      \cup DOMAIN After(db, s).constraints}
  \cup {n \in {s.name} : Submits(db, s)}

(* A job ends: the index is valid unless rows break its uniqueness, the    *)
(* constraint unless rows break it; otherwise it stays, not valid.         *)
Ended(db, bad, n) ==
  IF n \in DOMAIN db.indexes
    THEN [db EXCEPT !.indexes[n].valid =
            ~ (db.indexes[n].unique
               /\ Violated(bad, Rule("UNIQUE", db.indexes[n].on)))]
    ELSE [db EXCEPT !.constraints[n].valid =
            @ \/ ~ Violated(bad, ConstraintRule(n, db.constraints[n]))]

Succeeded(db, n) ==
  \/ n \in DOMAIN db.indexes /\ db.indexes[n].valid
  \/ n \in DOMAIN db.constraints /\ db.constraints[n].valid
=============================================================================
