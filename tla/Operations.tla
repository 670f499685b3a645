----------------------------- MODULE Operations -----------------------------
(***************************************************************************)
(* One operation of a model or union client, from its request to its       *)
(* outcome: RequestNormalizer checks it, OperationsFactory bounds every    *)
(* level of it by the client's identity, QueryBuilder correlates the       *)
(* levels, and the result resolver reads the rows.                         *)
(*                                                                         *)
(* A context is [identity, enforce]: identity is Null, or the claims it    *)
(* carries as <<claim, value>> pairs. A table's arguments are [select,     *)
(* where, join], join a set of <<relation, arguments>>; a union's have     *)
(* `on` too: what each member adds, or Null for one that is left out.      *)
(***************************************************************************)
EXTENDS Filters

CONSTANTS Ids   \* the uuids

ASSUME IdsAssumption == Null \notin Ids

Whole == [select |-> {}, where |-> {}, join |-> {}]
WholeUnion == [select |-> {}, where |-> {}, join |-> {}, on |-> <<>>]
Everything(relation) == IF relation = "post" THEN WholeUnion ELSE Whole

----------------------------------------------------------------------------
(* The tenant boundary.                                                     *)

Carries(identity, claim) == \E pair \in identity : pair[1] = claim

\* An operation on a scoped table is refused without its claims, or on an enforcing client.
TenantRefused(ctx, table) ==
    /\ Scopes[table] # {}
    /\ IF ctx.identity = Null THEN ctx.enforce
       ELSE \E claim \in Scopes[table] : ~Carries(ctx.identity, claim)

\* Mutant: one matching claim is enough.
TenantPredicateAnyClaim(ctx, r) ==
    \/ ctx.identity = Null \/ Scopes[r.table] = {}
    \/ \E claim \in Scopes[r.table] : <<claim, r[claim]>> \in ctx.identity

\* Every claim, an equality on its column.
TenantPredicate(ctx, r) ==
    ctx.identity = Null \/ \A claim \in Scopes[r.table] : <<claim, r[claim]>> \in ctx.identity

\* The WHERE of every level of every operation, the boundary first.
Where(ctx, where, r) == TenantPredicate(ctx, r) /\ Selects(where, r)

----------------------------------------------------------------------------
(* Normalising a request.                                                   *)

JoinNames(join) == {entry[1] : entry \in join}
Joined(join, relation) == (CHOOSE entry \in join : entry[1] = relation)[2]

\* A select may name relations: each joins, with everything of it.
Picked(table, args) == args.select \cap Relations(table)
ReadJoin(table, args) == args.join \cup {<<f, Everything(f)>> : f \in Picked(table, args)}
\* The columns read: all of them unless some are named, none if only relations are.
ReadColumns(table, args) ==
    LET named == args.select \cap Columns(table)
    IN IF named = {} /\ Picked(table, args) = {} THEN Columns(table) ELSE named
SelectInvalid(table, args) ==
    \/ ~(args.select \subseteq Columns(table) \cup Relations(table))
    \/ Picked(table, args) \cap JoinNames(args.join) # {}
    \/ ~(JoinNames(args.join) \subseteq Relations(table))

OwnArgs(args, alias) == IF alias \in DOMAIN args.on THEN args.on[alias] ELSE Whole

\* The members a read of the union runs for: not left out, and not decided away.
Branches(args) ==
    {alias \in Aliases : OwnArgs(args, alias) # Null /\ FoldKey(args.where, alias) # Nothing}

\* A relation every member has is selected across the union as it is joined across it.
SharedPicked(args) == args.select \ Shared
SharedJoin(args) == args.join \cup {<<f, Everything(f)>> : f \in SharedPicked(args)}

\* A member's arguments: the shared ones from where it stands, and its own added to them.
BranchArgs(args, alias) ==
    LET own == OwnArgs(args, alias)
    IN [select |-> (args.select \cap Shared) \cup own.select,
        join |-> SharedJoin(args) \cup own.join,
        where |-> {And(FoldKey(args.where, alias) \cup {own.where})}]

UnionRelation(relation) == \A alias \in Aliases : relation \in Relations(alias)

SharedArgsInvalid(args) ==
    \/ ~(DOMAIN args.on \subseteq Aliases)
    \/ \E f \in SharedPicked(args) : ~UnionRelation(f) \/ f \in JoinNames(args.join)
    \/ \E f \in JoinNames(args.join) : ~UnionRelation(f)
    \/ SharedInvalid(args.where)
    \/ \E alias \in Branches(args) :
          JoinNames(SharedJoin(args)) \cap JoinNames(OwnArgs(args, alias).join) # {}

\* A level of a read is a table and its arguments; it holds a level per relation joined, and
\* one per member that a union joined runs for.
Sublevels(level) ==
    UNION {IF entry[1] # "post" THEN {<<"entries", entry[2]>>}
           ELSE {<<alias, BranchArgs(entry[2], alias)>> : alias \in Branches(entry[2])} :
             entry \in ReadJoin(level[1], level[2])}
LevelsOf(table, args) == Within(<<table, args>>, Sublevels)

\* What the normalizer refuses, at any level of a table's arguments.
ArgsInvalid(table, args) ==
    \E level \in LevelsOf(table, args) :
        \/ Invalid(level[1], level[2].where)
        \/ SelectInvalid(level[1], level[2])
        \/ \E entry \in ReadJoin(level[1], level[2]) : entry[1] = "post" /\ SharedArgsInvalid(entry[2])

UnionArgsInvalid(args) ==
    SharedArgsInvalid(args) \/ \E alias \in Branches(args) : ArgsInvalid(alias, BranchArgs(args, alias))

\* The boundary refuses at whatever level it is met; a member without a branch meets none.
LevelRefused(ctx, table, args) ==
    \E level \in LevelsOf(table, args) : TenantRefused(ctx, level[1])

----------------------------------------------------------------------------
(* Reading. A record is [row, key, fields]: the row it was read from, the   *)
(* member its $$key names (Null outside a union), and what each field reads.*)

\* The columns a level projects: with a polymorphic id the discriminator its hook reads.
Projected(columns) == columns \cup IF "postId" \in columns THEN {Discriminator} ELSE {}

\* The read hook of a guid column: wrapped with its node, raw when none is named.
ReadColumn(r, f, projected) ==
    CASE f = "id" -> <<r.table, r.id>>
      [] f = "postId" ->
            IF r.postId = Null THEN Null
            ELSE IF Discriminator \in projected /\ r.kind \in Aliases THEN <<r.kind, r.postId>>
            ELSE <<"", r.postId>>
      [] OTHER -> r[f]
ReadFields(r, columns) == [f \in columns |-> ReadColumn(r, f, Projected(columns))]

\* Mutant: a belongs-to a union correlates on the id alone.
CorrelatedById(r, relation, db) ==
    IF relation = "post" THEN {p \in db : p.table \in Aliases /\ Eq3(p.id, r.postId) = "true"}
    ELSE {e \in db : e.table = "entries" /\ Eq3(e.postId, r.id) = "true"}

\* The rows a relation's level reads from: a belongs-to matches the member it names only.
Correlated(r, relation, db) ==
    IF relation = "post"
    THEN {p \in db : p.table \in Aliases /\ Eq3(p.id, r.postId) = "true"
                     /\ Eq3(r[Discriminator], p.table) = "true"}
    ELSE {e \in db : e.table = "entries" /\ Eq3(e.postId, r.id) = "true"}

\* What a record is read from: its row, the arguments of its level, the member it is tagged with.
Node(r, args, key) == [row |-> r, args |-> args, key |-> key]

\* The rows of a table's level, and of a union's, each from its member's branch.
TableNodes(ctx, rows, args) == {Node(r, args, Null) : r \in {r \in rows : Where(ctx, args.where, r)}}
UnionNodes(ctx, rows, args) ==
    {Node(r, BranchArgs(args, r.table), r.table) :
        r \in {r \in rows : /\ r.table \in Branches(args)
                            /\ Where(ctx, BranchArgs(args, r.table).where, r)}}

JoinOf(node) == ReadJoin(node.row.table, node.args)
\* What a relation of a node reads.
Joining(ctx, db, node, relation) ==
    LET rows == Correlated(node.row, relation, db)
        args == Joined(JoinOf(node), relation)
    IN IF relation = "post" THEN UnionNodes(ctx, rows, args) ELSE TableNodes(ctx, rows, args)
JoiningAll(ctx, db, node) == UNION {Joining(ctx, db, node, f) : f \in JoinNames(JoinOf(node))}
\* The nodes a node's record is made of, level by level.
NodeLevels(ctx, db, node) == Levels(node, LAMBDA x : JoiningAll(ctx, db, x))

\* A belongs-to resolves the first record it is sent, or null: a set of one, or none.
First(records) == IF records = {} THEN {} ELSE {CHOOSE record \in records : TRUE}
\* What a field of a node reads: its column, or the records of the relation joined.
ReadField(node, f, records) ==
    LET columns == ReadColumns(node.row.table, node.args) IN
    CASE f \in columns -> ReadColumn(node.row, f, Projected(columns))
      [] f \notin columns /\ f = "post" -> First(records)
      [] OTHER -> records

\* A node's record: its columns, and of each relation joined the records in `inner`.
Reading(ctx, db, node, inner) ==
    LET joins == JoinNames(JoinOf(node)) IN
    [row |-> Ref(node.row), key |-> node.key,
     fields |-> [f \in ReadColumns(node.row.table, node.args) \cup joins |->
        ReadField(node, f, IF f \in joins THEN {inner[x] : x \in Joining(ctx, db, node, f)} ELSE {})]]

Record(ctx, db, node) ==
    LET levels == NodeLevels(ctx, db, node)
        record[n \in Nat] == [x \in levels[n] |-> Reading(ctx, db, x, record[n + 1])]
    IN record[0][node]

Rows(db, table) == {r \in db : r.table = table}
TableRows(ctx, db, table, where) == {r \in Rows(db, table) : Where(ctx, where, r)}
TableRecords(ctx, db, table, args) ==
    {Record(ctx, db, node) : node \in TableNodes(ctx, Rows(db, table), args)}
UnionRecords(ctx, db, args) == {Record(ctx, db, node) : node \in UnionNodes(ctx, db, args)}

----------------------------------------------------------------------------
(* Writing.                                                                 *)

\* What a caller passes for a column, as it is stored.
Stored(f, v) == IF IsGuid(f) /\ v # Null THEN Raw(v) ELSE v

\* A polymorphic id that names its member fills the discriminator, or must agree with it.
NamesMember(data) == "postId" \in DOMAIN data /\ data.postId # Null /\ IsGlobalId(data.postId)
MutationInvalid(table, data) ==
    \/ ~(DOMAIN data \subseteq Columns(table))
    \/ \E f \in DOMAIN data : IsGuid(f) /\ data[f] # Null /\ DecodeThrows(table, f, data[f])
    \/ NamesMember(data) /\ Discriminator \in DOMAIN data /\ data.kind # KeyOf(data.postId)

\* What a request writes: read-only columns are dropped, and the discriminator filled.
MutationEntries(table, data) ==
    LET filled == IF NamesMember(data) THEN {Discriminator} ELSE {}
    IN [f \in (DOMAIN data \ ReadOnly(table)) \cup filled |->
           IF f \in filled THEN KeyOf(data.postId) ELSE Stored(f, data[f])]

\* An insert takes its claims from the identity, in both modes.
TenantValueRefused(ctx, table) ==
    \E claim \in Scopes[table] : ctx.identity = Null \/ ~Carries(ctx.identity, claim)
TenantValue(ctx, claim) == (CHOOSE pair \in ctx.identity : pair[1] = claim)[2]

AllColumns == {"id", "org", "team", "name", "kind", "postId"}
InsertRow(ctx, table, id, entries) ==
    [f \in AllColumns \cup {"table"} |->
        CASE f = "table" -> table
          [] f = "id" -> id
          [] f \in Scopes[table] -> TenantValue(ctx, f)
          [] OTHER -> IF f \in DOMAIN entries THEN entries[f] ELSE Null]
\* The id given, or the default's: one no row has.
InsertIds(db, table, entries) ==
    IF "id" \in DOMAIN entries THEN {entries.id}
    ELSE Ids \ {r.id : r \in {r \in db : r.table = table}}

UpdateInvalid(table, set, where) ==
    MutationInvalid(table, set) \/ RequiredInvalid(table, where) \/ "id" \in DOMAIN set
\* An entry of the row, where the update names one.
UpdateRow(r, entries) == [f \in DOMAIN r |-> IF f \in DOMAIN entries THEN entries[f] ELSE r[f]]

----------------------------------------------------------------------------
(* What an operation may come to: records, a count or a refusal, and the    *)
(* database it leaves.                                                      *)

Found(records, db) == [records |-> records, count |-> 0, refused |-> "no", db |-> db]
Counted(n, db) == [records |-> {}, count |-> n, refused |-> "no", db |-> db]
Refused(why, db) == [records |-> {}, count |-> 0, refused |-> why, db |-> db]

\* Of a result of many rows, an operation for one resolves the first it is sent, if any.
OneOf(records) == IF records = {} THEN {{}} ELSE {{record} : record \in records}
Returned(table, rows) ==
    {[row |-> Ref(r), key |-> Null, fields |-> ReadFields(r, Columns(table))] : r \in rows}

CreateOutcomes(ctx, db, table, data) ==
    LET entries == MutationEntries(table, data) IN
    IF MutationInvalid(table, data) THEN {Refused("invalid", db)}
    ELSE IF TenantValueRefused(ctx, table) THEN {Refused("tenancy", db)}
    ELSE {LET r == InsertRow(ctx, table, id, entries)
          IN IF \E q \in db : Ref(q) = Ref(r) THEN Refused("database", db)
             ELSE Found(Returned(table, {r}), db \cup {r}) :
             id \in InsertIds(db, table, entries)}

\* SET without a column is no statement: the database refuses it.
UpdateOutcomes(ctx, db, table, set, where) ==
    LET entries == MutationEntries(table, set)
        old == TableRows(ctx, db, table, where)
        new == {UpdateRow(r, entries) : r \in old}
    IN IF UpdateInvalid(table, set, where) THEN {Refused("invalid", db)}
       ELSE IF TenantRefused(ctx, table) THEN {Refused("tenancy", db)}
       ELSE IF DOMAIN entries = {} THEN {Refused("database", db)}
       ELSE {Found(one, (db \ old) \cup new) : one \in OneOf(Returned(table, new))}

DeleteOutcomes(ctx, db, table, where) ==
    LET old == TableRows(ctx, db, table, where) IN
    IF RequiredInvalid(table, where) THEN {Refused("invalid", db)}
    ELSE IF TenantRefused(ctx, table) THEN {Refused("tenancy", db)}
    ELSE {Found(one, db \ old) : one \in OneOf(Returned(table, old))}

FindOutcomes(ctx, db, table, args, one) ==
    IF ArgsInvalid(table, args) \/ (one /\ RequiredInvalid(table, args.where))
    THEN {Refused("invalid", db)}
    ELSE IF LevelRefused(ctx, table, args) THEN {Refused("tenancy", db)}
    ELSE LET records == TableRecords(ctx, db, table, args)
         IN {Found(found, db) : found \in IF one THEN OneOf(records) ELSE {records}}

UnionFindOutcomes(ctx, db, args, one) ==
    IF UnionArgsInvalid(args) \/ (one /\ args.where = {}) THEN {Refused("invalid", db)}
    ELSE IF \E alias \in Branches(args) : LevelRefused(ctx, alias, BranchArgs(args, alias))
    THEN {Refused("tenancy", db)}
    ELSE LET records == UnionRecords(ctx, db, args)
         IN {Found(found, db) : found \in IF one THEN OneOf(records) ELSE {records}}

CountOutcomes(ctx, db, table, where) ==
    IF Invalid(table, where) THEN {Refused("invalid", db)}
    ELSE IF TenantRefused(ctx, table) THEN {Refused("tenancy", db)}
    ELSE {Counted(Cardinality(TableRows(ctx, db, table, where)), db)}

\* One count per member, added together.
UnionCountOutcomes(ctx, db, where) ==
    LET args == [WholeUnion EXCEPT !.where = where]
        counts(alias) == Cardinality(TableRows(ctx, db, alias, BranchArgs(args, alias).where))
    IN IF UnionArgsInvalid(args) THEN {Refused("invalid", db)}
       ELSE IF \E alias \in Branches(args) : TenantRefused(ctx, alias)
       THEN {Refused("tenancy", db)}
       ELSE {Counted(MapThenSumSet(counts, Branches(args)), db)}

\* $query and $execute are the base client's.
RawOutcomes(ctx, db) ==
    IF ctx.identity # Null THEN {Refused("tenancy", db)}
    ELSE {Counted(Cardinality(db), db)}

(***************************************************************************)
(* Global ids: the node's own model, by the key the ids carry, and the     *)
(* records tagged with their node.                                         *)
(***************************************************************************)
GlobalIdInvalid(gid) == ~IsGlobalId(gid) \/ KeyOf(gid) \notin Tables
ByKeys(gids) == [Whole EXCEPT !.where = {Field("id", {<<"in", {<<"", Raw(gid)>> : gid \in gids}>>})}]
Tag(outcome, node) ==
    [outcome EXCEPT !.records = {[record EXCEPT !.key = node] : record \in @}]
FindByIdOutcomes(ctx, db, gid) ==
    IF GlobalIdInvalid(gid) THEN {Refused("invalid", db)}
    ELSE {Tag(outcome, KeyOf(gid)) :
            outcome \in FindOutcomes(ctx, db, KeyOf(gid), ByKeys({gid}), TRUE)}

Outcomes(ctx, db, req) ==
    CASE req.op \in {"findOne", "findMany"} /\ req.on \in Tables ->
            FindOutcomes(ctx, db, req.on, req.args, req.op = "findOne")
      [] req.op \in {"findOne", "findMany"} /\ req.on = "posts" ->
            UnionFindOutcomes(ctx, db, req.args, req.op = "findOne")
      [] req.op = "count" /\ req.on \in Tables -> CountOutcomes(ctx, db, req.on, req.args.where)
      [] req.op = "count" /\ req.on = "posts" -> UnionCountOutcomes(ctx, db, req.args.where)
      [] req.op = "create" -> CreateOutcomes(ctx, db, req.on, req.data)
      [] req.op = "update" -> UpdateOutcomes(ctx, db, req.on, req.data, req.args.where)
      [] req.op = "delete" -> DeleteOutcomes(ctx, db, req.on, req.args.where)
      [] req.op = "findById" -> FindByIdOutcomes(ctx, db, req.id)
      [] req.op = "raw" -> RawOutcomes(ctx, db)
=============================================================================
