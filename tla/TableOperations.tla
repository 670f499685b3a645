-------------------------- MODULE TableOperations --------------------------
(***************************************************************************)
(* What diffTableOperations emits to bring one table of the database to    *)
(* its definition: packages/migration/src/reconciliation, diffs/table.ts,  *)
(* operations/table.ts and operations/rename.ts, with the default options  *)
(* (ifExists, asyncIndexes) and a table in "public".                       *)
(*                                                                         *)
(* The emission is a sequence of changes, a change a key and its drafts;   *)
(* Operations numbers the drafts for the planner. A draft has the fields   *)
(* OperationGraph reads, its risk, and the statement it runs:              *)
(* [do, name, with], which Catalog executes.                               *)
(***************************************************************************)
EXTENDS TableSchema, OperationGraph

When(condition, s) == IF condition THEN s ELSE << >>

Change(key, drafts) == [key |-> key, drafts |-> drafts]

Stmt(do, name, with) == [do |-> do, name |-> name, with |-> with]

Draft(type, kind, name, refs, risk, stmt) ==
  [type |-> type, kind |-> kind, name |-> name, refs |-> refs, risk |-> risk,
   stmt |-> stmt]

(* Mutant: an ALTER names its own table.                                   *)
AlterDraftOfTable(do, name, with, risk) ==
  Draft("ALTER", "TABLE", T, <<T>>, risk, Stmt(do, name, with))

(* One ALTER statement on the table: its subject is the table.             *)
AlterDraft(do, name, with, risk) ==
  Draft("ALTER", "TABLE", T, << >>, risk, Stmt(do, name, with))

CreateIndexDraft(index) ==
  Draft("CREATE", "INDEX", index.name, <<T>>, "safe",
        Stmt("CREATE INDEX", index.name,
             [on |-> index.on, unique |-> index.unique]))

(* Mutant: the DROP names its table, as the CREATE does.                   *)
DropIndexDraftOfTable(name) ==
  Draft("DROP", "INDEX", name, <<T>>, "lossy", Stmt("DROP INDEX", name, << >>))

DropIndexDraft(name) ==
  Draft("DROP", "INDEX", name, << >>, "lossy", Stmt("DROP INDEX", name, << >>))

RenameIndexDraft(from, to) == AlterDraft("RENAME INDEX", from, to, "safe")

DropConstraintDraft(name) ==
  AlterDraft("DROP CONSTRAINT", name, << >>, "lossy")

ValidateDraft(name) == AlterDraft("VALIDATE", name, << >>, "safe")

(* Mutant: validated first.                                                *)
AddCheckDraftsSwapped(name, on) ==
  <<ValidateDraft(name), AlterDraft("ADD CHECK", name, on, "safe")>>

AddCheckDrafts(name, on) ==
  <<AlterDraft("ADD CHECK", name, on, "safe"), ValidateDraft(name)>>

UniquePromotionDrafts(u) ==
  <<CreateIndexDraft([name   |-> UniqueIndexName(u.name),
                      on     |-> u.on,
                      unique |-> TRUE]),
    Draft("CREATE", "UNIQUE_CONSTRAINT", u.name, <<T, UniqueIndexName(u.name)>>,
          "safe", Stmt("ADD UNIQUE", u.name, UniqueIndexName(u.name)))>>

(* NOT NULL on an existing column: fill the NULLs, then a CHECK.           *)
NotNullDrafts(c, hasDefault) ==
  When(hasDefault, <<AlterDraft("BACKFILL", c, << >>, "safe")>>)
  \o AddCheckDrafts(NotNullCheckName(c), {c})

-----------------------------------------------------------------------------
(* The table is not in the database: created, its deprecated columns       *)
(* marked, its indexes built.                                              *)
CreateTableChanges(def) ==
  <<Change(T, <<Draft("CREATE", "TABLE", T, << >>, "safe",
                      Stmt("CREATE TABLE", T, def))>>)>>
  \o FlattenSeq([k \in DOMAIN def.columns |->
       When(def.columns[k].deprecated,
            <<Change(<<def.columns[k].name>>,
                     <<[AlterDraft("COMMENT", def.columns[k].name, TRUE, "safe")
                        EXCEPT !.refs = <<T>>]>>)>>)])
  \o [k \in DOMAIN def.indexes |->
        Change(def.indexes[k].name, <<CreateIndexDraft(def.indexes[k])>>)]

DropTableChanges ==
  <<Change(T, <<Draft("DROP", "TABLE", T, << >>, "destructive",
                      Stmt("DROP TABLE", T, << >>))>>)>>

-----------------------------------------------------------------------------
(* Renames. The hint is inert unless the database has the previous name;   *)
(* with both names there it is refused.                                    *)

(* The first part of a name equal to from, replaced.                       *)
RenamePart(name, from, to) ==
  IF Contains(name, from)
    THEN [name EXCEPT ![CHOOSE k \in DOMAIN name :
                          name[k] = from /\ \A j \in 1..(k - 1) : name[j] # from] = to]
    ELSE name

RenameColumnIn(db, from, to) ==
  [db EXCEPT !.columns = Renamed(@, from, to),
             !.indexes = Moved(@, from, to),
             !.constraints = Moved(@, from, to)]

(* What is named after the column and follows it: its new name is in the   *)
(* definition and not in the database, its old one not in the definition.  *)
DerivedRenames(def, db, from, to) ==
  LET localNames == NamesOf(NamedConstraintsOf(def)) \cup NamesOf(def.indexes)
      remoteNames == DOMAIN db.constraints \cup DOMAIN db.indexes
  IN  {n \in remoteNames :
         LET next == RenamePart(n, from, to)
         IN  /\ next # n
             /\ next \in localNames \ remoteNames
             /\ n \notin localNames}

RenameTo(n, derived, from, to) ==
  IF n \in derived THEN RenamePart(n, from, to) ELSE n

RenameNames(f, derived, from, to) ==
  [n \in {RenameTo(m, derived, from, to) : m \in DOMAIN f} |->
     f[CHOOSE m \in DOMAIN f : n = RenameTo(m, derived, from, to)]]

RenameDrafts(from, to, constraints, indexes) ==
  <<AlterDraft("RENAME COLUMN", from, to, "safe")>>
  \o [k \in DOMAIN constraints |->
        AlterDraft("RENAME CONSTRAINT", constraints[k],
                   RenamePart(constraints[k], from, to), "safe")]
  \o [k \in DOMAIN indexes |->
        RenameIndexDraft(indexes[k], RenamePart(indexes[k], from, to))]

(* The step of the rename, those of what is named after the column, and    *)
(* the table as it will be then, on which everything else is compared.     *)
Rename(acc, db, derived, from, to) ==
  [acc EXCEPT
     !.changes = Append(@, Change(<<to, "(rename)">>,
                   RenameDrafts(from, to,
                     SetToSeq(derived \cap DOMAIN db.constraints),
                     SetToSeq(derived \cap DOMAIN db.indexes)))),
     !.remote = [db EXCEPT
                   !.indexes = RenameNames(@, derived, from, to),
                   !.constraints = RenameNames(@, derived, from, to)]]

RenameIn(def, acc, db, from, to) ==
  Rename(acc, db, DerivedRenames(def, db, from, to), from, to)

(* One column of the definition, in its order.                             *)
RenameColumn(def, remoteColumns, acc, column) ==
  IF \A k \in DOMAIN column.renamedFrom :
       column.renamedFrom[k] \notin remoteColumns
    THEN acc
  ELSE IF column.name \in remoteColumns
    THEN [acc EXCEPT !.errors = @ \cup {"RENAME_CONFLICT"}]
  ELSE LET from == column.renamedFrom[1]
       IN  RenameIn(def, acc, RenameColumnIn(acc.remote, from, column.name),
                    from, column.name)

RenameColumns(def, db) ==
  FoldLeft(LAMBDA acc, column : RenameColumn(def, DOMAIN db.columns, acc, column),
           [changes |-> << >>, errors |-> {}, remote |-> db],
           def.columns)

-----------------------------------------------------------------------------
(* Columns. The outcome of one column is its drafts, or a refusal.         *)
Drafts(s)    == [drafts |-> s, refusal |-> "none"]
Refuse(code) == [drafts |-> << >>, refusal |-> code]

(* Mutant: the NOT NULL CHECKs are not looked at.                          *)
DiffColumnInline(local, db) ==
  {a \in {"type", "generated", "default", "deprecated", "notNull"} :
     local[a] # db.columns[local.name][a]}

(* The attributes in which a column of the definition differs from the     *)
(* database's, whose NOT NULL may be a CHECK.                              *)
DiffColumn(local, db) ==
  LET remote == db.columns[local.name]
      notNull == remote.notNull \/ local.name \in NotNullChecksOf(db)
  IN  {a \in {"type", "generated", "default", "deprecated"} :
         local[a] # remote[a]}
      \cup {a \in {"notNull"} : local.notNull # notNull}

ColumnAdd(local) ==
  IF local.generated THEN Refuse("NO_ADD_GENERATED_COLUMN")
  ELSE IF local.notNull /\ ~ FillsNulls(local.default)
         THEN Refuse("NOT_NULL_NEEDS_DEFAULT")
  ELSE Drafts(
    <<AlterDraft("ADD COLUMN", local.name, local.type, "safe")>>
    \o When(local.default # "none",
            <<AlterDraft("SET DEFAULT", local.name, local.default, "safe")>>)
    \o When(local.notNull, NotNullDrafts(local.name, TRUE)))

(* Mutant: the indexes only.                                               *)
RecreateIndexesOnly(def, c) ==
  FlattenSeq([k \in DOMAIN def.indexes |->
    When(c \in def.indexes[k].on, <<CreateIndexDraft(def.indexes[k])>>)])

(* The indexes and constraints a retyped column takes with it, made again. *)
RecreateDrafts(def, c) ==
  LET named == NamedConstraintsOf(def)
  IN  FlattenSeq([k \in DOMAIN def.indexes |->
        When(c \in def.indexes[k].on, <<CreateIndexDraft(def.indexes[k])>>)])
      \o FlattenSeq([k \in DOMAIN named |->
           When(c \in named[k].on,
                IF named[k].kind = "UNIQUE"
                  THEN UniquePromotionDrafts(named[k])
                  ELSE AddCheckDrafts(named[k].name, named[k].on))])

TypeChange(def, db, local) ==
  LET add == ColumnAdd(local)
  IN  IF local.name \in db.key THEN Refuse("NO_ALTER_PRIMARY_KEY_COLUMN")
      ELSE IF add.refusal # "none" THEN add
      ELSE Drafts(<<AlterDraft("DROP COLUMN", local.name, << >>, "destructive")>>
                  \o add.drafts \o RecreateDrafts(def, local.name))

ColumnModify(def, db, local) ==
  LET differs == DiffColumn(local, db)
      c == local.name
  IN  IF "type" \in differs THEN TypeChange(def, db, local)
      ELSE IF "generated" \in differs /\ local.generated
             THEN Refuse("NO_ALTER_GENERATED")
      ELSE Drafts(
        When("generated" \in differs,
             <<AlterDraft("DROP EXPRESSION", c, << >>, "destructive")>>)
        \o When("default" \in differs,
             IF local.default = "none"
               THEN <<AlterDraft("DROP DEFAULT", c, << >>, "lossy")>>
               ELSE <<AlterDraft("SET DEFAULT", c, local.default, "safe")>>)
        \o When("notNull" \in differs,
             IF local.notNull THEN NotNullDrafts(c, FillsNulls(local.default))
             ELSE IF c \in NotNullChecksOf(db)
               THEN <<DropConstraintDraft(NotNullCheckName(c))>>
               ELSE <<AlterDraft("DROP NOT NULL", c, << >>, "lossy")>>)
        \o When("deprecated" \in differs,
             <<AlterDraft("COMMENT", c, local.deprecated, "safe")>>))

(* Mutant: the marker is not asked for.                                    *)
ColumnDropLossy(db, c) ==
  IF c \in db.key THEN Refuse("NO_DROP_PRIMARY_KEY_COLUMN")
  ELSE Drafts(<<AlterDraft("DROP COLUMN", c, << >>, "lossy")>>)

ColumnDrop(db, c) ==
  IF c \in db.key THEN Refuse("NO_DROP_PRIMARY_KEY_COLUMN")
  ELSE Drafts(<<AlterDraft("DROP COLUMN", c, << >>,
                 IF db.columns[c].deprecated THEN "lossy" ELSE "destructive")>>)

LocalColumn(def, db, local) ==
  IF local.name \in DOMAIN db.columns THEN ColumnModify(def, db, local)
                                      ELSE ColumnAdd(local)

RemovedColumns(def, db) == SetToSeq(DOMAIN db.columns \ NamesOf(def.columns))

-----------------------------------------------------------------------------
(* Indexes. A leftover is an index under a name a rebuild or a promotion   *)
(* builds with, which an earlier run left behind.                          *)
LeftoverIndexes(def, db) ==
  LET named == NamedConstraintsOf(def)
      derived == {RebuildIndexName(n) : n \in NamesOf(def.indexes)}
                 \cup {UniqueIndexName(named[k].name) :
                         k \in {i \in DOMAIN named : named[i].kind = "UNIQUE"}}
  IN  (derived \cap DOMAIN db.indexes) \ NamesOf(def.indexes)

(* Mutant: a leftover is built upon.                                       *)
KeepLeftover(def, db, name) == << >>

(* The step dropping a leftover before its name is built again.            *)
TakeLeftover(def, db, name) ==
  When(name \in LeftoverIndexes(def, db), <<DropIndexDraft(name)>>)

(* Mutant: a build that failed goes unnoticed.                             *)
DiffIndexDeclared(local, remote) ==
  {a \in {"on", "unique"} : local[a] # remote[a]}

DiffIndex(local, remote) ==
  {a \in {"on", "unique"} : local[a] # remote[a]}
  \cup {a \in {"valid"} : ~ remote.valid}

(* Mutants: the old index is dropped first; the new one is not renamed.    *)
LocalIndexDropFirst(def, db, local) ==
  IF local.name \notin DOMAIN db.indexes
    THEN <<CreateIndexDraft(local)>>
    ELSE When(DiffIndex(local, db.indexes[local.name]) # {},
              <<DropIndexDraft(local.name), CreateIndexDraft(local)>>)

LocalIndexNotRenamed(def, db, local) ==
  LET temporary == RebuildIndexName(local.name)
      leftover == TakeLeftover(def, db, temporary)
  IN  IF local.name \notin DOMAIN db.indexes
      THEN <<CreateIndexDraft(local)>> \o leftover
      ELSE When(DiffIndex(local, db.indexes[local.name]) # {},
             leftover \o <<CreateIndexDraft([local EXCEPT !.name = temporary]),
                           DropIndexDraft(local.name)>>)

LocalIndex(def, db, local) ==
  LET temporary == RebuildIndexName(local.name)
      leftover == TakeLeftover(def, db, temporary)
  IN  IF local.name \notin DOMAIN db.indexes
      THEN <<CreateIndexDraft(local)>> \o leftover
      ELSE When(DiffIndex(local, db.indexes[local.name]) # {},
             leftover \o <<CreateIndexDraft([local EXCEPT !.name = temporary]),
                           DropIndexDraft(local.name),
                           RenameIndexDraft(temporary, local.name)>>)

(* A leftover is not removed as an index the definition lacks: it is       *)
(* dropped by the step that takes it, or swept after everything else.      *)
RemovedIndexes(def, db) ==
  SetToSeq(DOMAIN db.indexes \ (NamesOf(def.indexes) \cup LeftoverIndexes(def, db)))

-----------------------------------------------------------------------------
(* Constraints.                                                            *)
Promotion(def, db, u) ==
  TakeLeftover(def, db, UniqueIndexName(u.name)) \o UniquePromotionDrafts(u)

(* One constraint of the definition, against what has its name.            *)
LocalConstraint(def, db, local) ==
  IF local.name \notin DOMAIN db.constraints
    THEN IF local.kind = "UNIQUE" THEN Promotion(def, db, local)
                                  ELSE AddCheckDrafts(local.name, local.on)
  ELSE LET remote == db.constraints[local.name]
           steps == Promotion(def, db, local)
       IN  IF remote.kind # local.kind THEN <<DropConstraintDraft(local.name)>>
           ELSE IF local.kind = "CHECK"
             THEN When(~ remote.valid, <<ValidateDraft(local.name)>>)
           ELSE When(remote.on # local.on,
                     Front(steps) \o <<DropConstraintDraft(local.name), Last(steps)>>)

(* The NOT NULL CHECKs that were added and never validated.                *)
UnvalidatedNotNulls(db) ==
  SetToSeq({NotNullCheckName(c) : c \in
              {d \in NotNullChecksOf(db) :
                 ~ db.constraints[NotNullCheckName(d)].valid}})

RemovedConstraints(def, db) ==
  SetToSeq(DOMAIN db.constraints \
             ({NotNullCheckName(c) : c \in NotNullChecksOf(db)}
              \cup NamesOf(NamedConstraintsOf(def))))

-----------------------------------------------------------------------------
(* The whole table.                                                        *)

(* A refused column takes its own CHECK and UNIQUE out of the comparison.  *)
ComparedConstraints(def, columns) ==
  LET refused == {k \in DOMAIN columns : columns[k].refusal # "none"}
      ownedBy(column, c) ==
        \/ Contains(column.check, c.name)
        \/ column.unique /\ c.name = ColumnUniqueName(column.name)
      named == NamedConstraintsOf(def)
  IN  FlattenSeq([n \in DOMAIN named |->
        When(~ \E k \in refused : ownedBy(def.columns[k], named[n]),
             <<named[n]>>)])

(* One change for each name of a sequence.                                 *)
ChangeEach(names, draftsOf(_)) ==
  [k \in DOMAIN names |-> Change(names[k], draftsOf(names[k]))]

DropIndexes(names) == ChangeEach(names, LAMBDA n : <<DropIndexDraft(n)>>)

IndexChanges(def, db) ==
  [k \in DOMAIN def.indexes |->
     Change(def.indexes[k].name, LocalIndex(def, db, def.indexes[k]))]
  \o DropIndexes(RemovedIndexes(def, db))

ConstraintChanges(def, db, named) ==
  ChangeEach(UnvalidatedNotNulls(db), LAMBDA n : <<ValidateDraft(n)>>)
  \o [k \in DOMAIN named |->
        Change(named[k].name, LocalConstraint(def, db, named[k]))]
  \o ChangeEach(RemovedConstraints(def, db), LAMBDA n : <<DropConstraintDraft(n)>>)

(* The leftovers no step of those changes takes are dropped last.          *)
Sweep(def, db, changes) ==
  LET taken == {d.stmt.name : d \in UNION {ToSet(c.drafts) : c \in ToSet(changes)}}
  IN  DropIndexes(SetToSeq(LeftoverIndexes(def, db) \ taken))

ColumnChanges(names, outcomes) ==
  [k \in DOMAIN names |-> Change(<<names[k]>>, outcomes[k].drafts)]

Refusals(outcomes) ==
  {outcomes[k].refusal : k \in DOMAIN outcomes} \ {"none"}

(* A change with nothing to do is not emitted.                             *)
Emitted(changes) ==
  FlattenSeq([k \in DOMAIN changes |->
    When(changes[k].drafts # << >>, <<changes[k]>>)])

TableChanges(def, db, renamed, columns, removed, drops, others) ==
  [changes |->
     Emitted(
       renamed.changes
       \o ColumnChanges([k \in DOMAIN def.columns |-> def.columns[k].name], columns)
       \o others
       \o ColumnChanges(removed, drops)
       \o Sweep(def, db, others)),
   errors |->
     renamed.errors \cup Refusals(columns) \cup Refusals(drops)
     \cup {e \in {"IMMUTABLE_CONSTRAINT"} : def.key # db.key}]

CompareOthers(def, db, renamed, columns, removed) ==
  TableChanges(def, db, renamed, columns, removed,
    [k \in DOMAIN removed |-> ColumnDrop(db, removed[k])],
    IndexChanges(def, db)
    \o ConstraintChanges(def, db, ComparedConstraints(def, columns)))

(* The renames first, then everything else against the table as it will be.*)
AfterRenames(def, db, renamed) ==
  CompareOthers(def, db, renamed,
    [k \in DOMAIN def.columns |-> LocalColumn(def, db, def.columns[k])],
    RemovedColumns(def, db))

ModifyTable(def, db) ==
  LET renamed == RenameColumns(def, db)
  IN  AfterRenames(def, renamed.remote, renamed)

DiffTableOperations(def, db) ==
  IF ~ def.exists
    THEN [changes |-> When(db.exists, DropTableChanges), errors |-> {}]
  ELSE IF ~ db.exists
    THEN [changes |-> CreateTableChanges(def), errors |-> {}]
  ELSE ModifyTable(def, db)

(* The steps of a sequence of changes: each draft with the key of its      *)
(* change and its place in it, in the order of the emission.               *)
Steps(changes) ==
  FlattenSeq([k \in DOMAIN changes |->
    [s \in DOMAIN changes[k].drafts |->
       [change |-> changes[k].key, step |-> s, draft |-> changes[k].drafts[s]]]])

(* The same as operations for the planner, numbered in that order.         *)
Operations(changes) ==
  LET steps == Steps(changes)
  IN  {[id |-> k, change |-> steps[k].change, step |-> steps[k].step,
        type |-> steps[k].draft.type, kind |-> steps[k].draft.kind,
        name |-> steps[k].draft.name, refs |-> steps[k].draft.refs] :
         k \in DOMAIN steps}

(* What a plan carries out, in the planner's order.                        *)
PlannedDrafts(changes) ==
  LET order == PlanOrder(Operations(changes))
  IN  [k \in DOMAIN order |-> Steps(changes)[order[k]].draft]
=============================================================================
