-------------------------- MODULE ObjectOperations --------------------------
(***************************************************************************)
(* SchemaReconciler: the plan that brings a database of several objects to *)
(* a definition of several objects (packages/migration/src/reconciliation: *)
(* reconcile.ts, operations/domain.ts, sequence.ts, schema.ts, and of      *)
(* operations/table.ts and rename.ts what ties a table to other objects).  *)
(*                                                                         *)
(* As in TableOperations, a change is a key and its drafts, and a draft    *)
(* has what the planner reads, its risk and the statement it runs. Every   *)
(* name is qualified: a sequence of one or two parts.                      *)
(***************************************************************************)
EXTENDS SchemaObjects, OperationGraph

When(condition, s) == IF condition THEN s ELSE << >>

Result(changes, errors) == [changes |-> changes, errors |-> errors]

Draft(type, kind, name, refs, risk, do, with) ==
  [type |-> type, kind |-> kind, name |-> name, refs |-> refs, risk |-> risk,
   stmt |-> [do |-> do, on |-> name, with |-> with]]

Change(key, drafts) == [key |-> key, drafts |-> drafts]

(* A statement on an object, which needs its namespace.                    *)
ObjectDraft(type, o, refs, risk, do, with) ==
  Draft(type, o.kind, QualifiedName(o), NamespaceReference(o) \o refs, risk, do, with)

OneStep(type, o, refs, risk, do, with) ==
  <<Change(QualifiedName(o), <<ObjectDraft(type, o, refs, risk, do, with)>>)>>

(* The domains the columns of a table use.                                 *)
DomainsOf(table) ==
  SetToSeq({table.columns[c] : c \in DOMAIN table.columns} \ {<< >>})

KindMismatch == Result(<< >>, {"KIND_MISMATCH"})

-----------------------------------------------------------------------------
(* Namespaces: there or not there.                                         *)
DiffSchemaOperations(local, remote) ==
  CASE remote.kind = "NONE" ->
         Result(OneStep("CREATE", local, << >>, "safe", "CREATE SCHEMA", << >>), {})
    [] remote.kind = "SCHEMA" -> Result(<< >>, {})
    [] OTHER -> KindMismatch

-----------------------------------------------------------------------------
(* Domains: DSQL takes a default, and takes NOT NULL and a CHECK away.     *)
AlterDomain(local, key, risk, do, with) ==
  <<Change(Append(QualifiedName(local), key),
           <<ObjectDraft("ALTER", local, << >>, risk, do, with)>>)>>

DomainRefusals(local, differs) ==
  {e \in {"NO_ALTER_DOMAIN_TYPE"} : "type" \in differs}
  \cup {e \in {"NO_ALTER_DOMAIN_CONSTRAINT"} :
          \/ "notNull" \in differs /\ local.notNull
          \/ "check" \in differs /\ local.check # Unset}

(* Mutant: rated as the DROP NOT NULL of a column is.                      *)
AlterDomainLossy(local, differs) ==
  When("default" \in differs,
       IF local.default = Unset
         THEN AlterDomain(local, "default", "lossy", "DOMAIN DEFAULT", Unset)
         ELSE AlterDomain(local, "default", "safe", "DOMAIN DEFAULT", local.default))
  \o When("notNull" \in differs /\ ~ local.notNull,
       AlterDomain(local, "notNull", "lossy", "DOMAIN DROP NOT NULL", << >>))
  \o When("check" \in differs /\ local.check = Unset,
       AlterDomain(local, "check", "destructive", "DOMAIN DROP CHECK", << >>))

AlterDomainChanges(local, differs) ==
  When("default" \in differs,
       IF local.default = Unset
         THEN AlterDomain(local, "default", "lossy", "DOMAIN DEFAULT", Unset)
         ELSE AlterDomain(local, "default", "safe", "DOMAIN DEFAULT", local.default))
  \o When("notNull" \in differs /\ ~ local.notNull,
       AlterDomain(local, "notNull", "destructive", "DOMAIN DROP NOT NULL", << >>))
  \o When("check" \in differs /\ local.check = Unset,
       AlterDomain(local, "check", "destructive", "DOMAIN DROP CHECK", << >>))

DiffDomainOperations(local, remote) ==
  CASE remote.kind = "NONE" ->
         Result(OneStep("CREATE", local, << >>, "safe", "CREATE DOMAIN", local), {})
    [] remote.kind = "DOMAIN" ->
         Result(AlterDomainChanges(local, DiffDomain(local, remote)),
                DomainRefusals(local, DiffDomain(local, remote)))
    [] OTHER -> KindMismatch

-----------------------------------------------------------------------------
(* Sequences: one ALTER with the options that changed, at the values they  *)
(* come to. Narrower bounds can make the next value fail.                  *)
AlterSequence(local, effective, previous, changed) ==
  OneStep("ALTER", local, << >>,
          IF effective.max < previous.max \/ effective.min > previous.min
            THEN "lossy" ELSE "safe",
          "ALTER SEQUENCE", [key \in changed |-> effective[key]])

DiffSequenceOperations(local, remote) ==
  CASE remote.kind = "NONE" ->
         Result(OneStep("CREATE", local, << >>, "safe", "CREATE SEQUENCE",
                        local.options), {})
    [] remote.kind = "SEQUENCE" ->
         LET changed == ChangedSequenceOptions(local.options, remote.options)
         IN  Result(When(changed # {},
                      AlterSequence(local,
                        EffectiveSequenceOptions(local.options),
                        EffectiveSequenceOptions(remote.options), changed)), {})
    [] OTHER -> KindMismatch

-----------------------------------------------------------------------------
(* Tables: created after the domains of their columns, dropped before them.*)
(* Of a column, only its domain is compared. The steps that give a column  *)
(* its default and its NOT NULL (after ADD COLUMN, in the same change) or  *)
(* change them name no other object and leave what is here as it is;       *)
(* TableOperations has them one by one.                                    *)
CreateTable(local) ==
  OneStep("CREATE", local, DomainsOf(local), "safe", "CREATE TABLE", local.columns)

(* Mutant: the domains do not wait for the table.                          *)
DropTableAlone(remote) ==
  OneStep("DROP", remote, << >>, "destructive", "DROP TABLE", << >>)

DropTable(remote) ==
  OneStep("DROP", remote, DomainsOf(remote), "destructive", "DROP TABLE", << >>)

AddColumnDraft(local, c) ==
  ObjectDraft("ALTER", local,
              When(local.columns[c] # << >>, <<local.columns[c]>>), "safe",
              "ADD COLUMN", [name |-> c, domain |-> local.columns[c]])

DropColumnDraft(local, c) ==
  ObjectDraft("ALTER", local, << >>, "destructive", "DROP COLUMN", [name |-> c])

(* Mutant: a column is added whatever the rows that are there would need.  *)
AddNeverRefused(local, c) == FALSE

(* columnAdd refuses a NOT NULL column without a default that fills rows.  *)
AddRefused(local, c) == c \in local.unfilled

(* The column of the definition is new, or its type is another one now.    *)
ToBeAdded(local, remote, c) ==
  c \in DOMAIN remote.columns => local.columns[c] # remote.columns[c]

(* A column whose domain changes, as one whose type does, goes and comes   *)
(* back; if it could not come back, it does not go.                        *)
ColumnDrafts(local, remote, c) ==
  IF c \notin DOMAIN local.columns THEN <<DropColumnDraft(local, c)>>
  ELSE IF ~ ToBeAdded(local, remote, c) \/ AddRefused(local, c) THEN << >>
  ELSE IF c \notin DOMAIN remote.columns THEN <<AddColumnDraft(local, c)>>
  ELSE <<DropColumnDraft(local, c), AddColumnDraft(local, c)>>

ColumnRefusals(local, remote) ==
  {e \in {"NOT_NULL_NEEDS_DEFAULT"} :
     \E c \in DOMAIN local.columns :
       ToBeAdded(local, remote, c) /\ AddRefused(local, c)}

(* The columns of the definition first, those it lacks last; a column with *)
(* nothing to do has no change.                                            *)
ModifyTable(local, remote) ==
  LET columns == SetToSeq(DOMAIN local.columns)
                 \o SetToSeq(DOMAIN remote.columns \ DOMAIN local.columns)
  IN  FlattenSeq([k \in DOMAIN columns |->
        LET drafts == ColumnDrafts(local, remote, columns[k])
        IN  When(drafts # << >>,
                 <<Change(Append(QualifiedName(local), columns[k]), drafts)>>)])

DiffTableOperations(local, remote) ==
  CASE remote.kind = "NONE"  -> Result(CreateTable(local), {})
    [] remote.kind = "TABLE" ->
         Result(ModifyTable(local, remote), ColumnRefusals(local, remote))
    [] OTHER -> KindMismatch

PreviousName(local) == QualifiedName([local EXCEPT !.name = local.renamedFrom])

(* ALTER TABLE previous RENAME TO name, a change of its own.               *)
RenameTable(local) ==
  <<Change(Append(QualifiedName(local), "(rename)"),
           <<ObjectDraft("ALTER", local, << >>, "safe", "RENAME TABLE",
                         PreviousName(local))>>)>>

-----------------------------------------------------------------------------
DiffObjectOperations(local, remote) ==
  CASE local.kind = "SCHEMA"   -> DiffSchemaOperations(local, remote)
    [] local.kind = "TABLE"    -> DiffTableOperations(local, remote)
    [] local.kind = "DOMAIN"   -> DiffDomainOperations(local, remote)
    [] local.kind = "SEQUENCE" -> DiffSequenceOperations(local, remote)

DropObjectOperations(remote) ==
  CASE remote.kind = "TABLE" -> DropTable(remote)
    [] OTHER -> OneStep("DROP", remote, << >>, "destructive",
                        CASE remote.kind = "SCHEMA"   -> "DROP SCHEMA"
                          [] remote.kind = "DOMAIN"   -> "DROP DOMAIN"
                          [] remote.kind = "SEQUENCE" -> "DROP SEQUENCE",
                        << >>)

-----------------------------------------------------------------------------
(* The three passes of the reconciler, over what it has emitted (changes   *)
(* and errors) and what is left of the database (remote).                  *)

Emit(acc, result) ==
  [acc EXCEPT !.changes = @ \o result.changes, !.errors = @ \cup result.errors]

(* Mutant: the hint is refused once the database has the new name.         *)
RenameOneOnce(acc, local) ==
  IF local.kind # "TABLE" THEN acc
  ELSE IF local.renamedFrom = Unset THEN acc
  ELSE IF QualifiedName(local) \in KeysOf(acc.remote)
    THEN Emit(acc, Result(<< >>, {"RENAME_CONFLICT"}))
  ELSE LET remote == Get(acc.remote, PreviousName(local))
       IN  IF remote.kind # "TABLE" THEN acc
           ELSE [Emit(acc, Result(RenameTable(local), {})) EXCEPT
                   !.remote = SetIn(Delete(@, PreviousName(local)),
                                    [remote EXCEPT !.name = local.name])]

(* A table renamed is renamed first, and then compared under its new name. *)
(* The hint is inert once the database has no table of the previous name;  *)
(* with both names there it is refused.                                    *)
RenameOne(acc, local) ==
  IF local.kind # "TABLE" THEN acc
  ELSE IF local.renamedFrom = Unset THEN acc
  ELSE LET remote == Get(acc.remote, PreviousName(local))
       IN  IF remote.kind # "TABLE" THEN acc
           ELSE IF QualifiedName(local) \in KeysOf(acc.remote)
             THEN Emit(acc, Result(<< >>, {"RENAME_CONFLICT"}))
           ELSE [Emit(acc, Result(RenameTable(local), {})) EXCEPT
                   !.remote = SetIn(Delete(@, PreviousName(local)),
                                    [remote EXCEPT !.name = local.name])]

DiffOne(acc, local) ==
  [Emit(acc, DiffObjectOperations(local, Get(acc.remote, QualifiedName(local))))
     EXCEPT !.remote = Delete(@, QualifiedName(local))]

DropOne(acc, remote) == Emit(acc, Result(DropObjectOperations(remote), {}))

Reconcile(def, introspected) ==
  LET local   == MapOf(def)
      start   == [changes |-> << >>, errors |-> {}, remote |-> MapOf(introspected)]
      renamed == FoldLeft(RenameOne, start, local)
      diffed  == FoldLeft(DiffOne, renamed, local)
      all     == FoldLeft(DropOne, diffed, diffed.remote)
  IN  Result(all.changes, all.errors)

-----------------------------------------------------------------------------
(* The drafts in the order of the emission, and in the planner's.          *)
Steps(changes) ==
  FlattenSeq([k \in DOMAIN changes |->
    [s \in DOMAIN changes[k].drafts |->
       [change |-> changes[k].key, step |-> s, draft |-> changes[k].drafts[s]]]])

Operations(changes) ==
  LET steps == Steps(changes)
  IN  {[id |-> k, change |-> steps[k].change, step |-> steps[k].step,
        type |-> steps[k].draft.type, kind |-> steps[k].draft.kind,
        name |-> steps[k].draft.name, refs |-> steps[k].draft.refs] :
         k \in DOMAIN steps}

PlannedDrafts(changes) ==
  LET order == PlanOrder(Operations(changes))
  IN  [k \in DOMAIN order |-> Steps(changes)[order[k]].draft]
=============================================================================
