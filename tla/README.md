# Verification of dsqlbase

dsqlbase is a TypeScript query client and a migration runner for Amazon Aurora DSQL. DSQL is a
PostgreSQL-compatible database without locks: transactions run optimistically and may be refused
at COMMIT, DDL is one statement per transaction, indexes build in asynchronous jobs, and much of
ALTER TABLE does not exist. What is hard in the code comes from there. The runner reaches a
definition through many separate statements and keeps no journal, so it must be able to resume
from whatever an interrupted run has left. The client must retry a transaction without ever
making its work twice, turn one shape of arguments into statements over tables, unions and
tenants without changing what the caller asked for, and read pages of rows that change meanwhile.

The TLA+ modules here model those parts. TLC checks them on small instances, and TLAPS proves the
theorems of the `...Proofs` modules for every instance. Paths below are relative to the
repository; `PROJECT.json` maps every definition to its lines.

- [Inventory](#inventory): the parts of the system, their state, and what makes them correct
- [Plan](#plan): what is written, what comes next
- [Modules and the code](#modules-and-the-code)
- [Runs](#runs): what each checks and shows, with its bounds
- [Fairness](#fairness)
- [Proofs](#proofs)
- [Disagreements found](#disagreements-found)
- [What is not modelled](#what-is-not-modelled)

## Inventory

The dependencies run one way: `core` <- `dsqlbase` (the client) and `core` <- `migration`. The
client and the migration package never call each other; they meet in the database.

### Migration (`packages/migration/src`)

`MigrationRunner.run` is a pipeline: validate, introspect, reconcile (diff, emit operations,
plan), gate, execute. It calls the database only to introspect and to execute.

| Component | State | Operations | What is hard | What makes it correct |
|---|---|---|---|---|
| Planner, `reconciliation/planner.ts` | a dependency graph, in-degrees, a ready list | `buildDependencyGraph`, `planOperations` | edges of references and of steps come from independent emitters; the ready list is kept by insertion | every edge respected, nothing lost, stable order, a throw only on a cycle |
| Table reconciliation, `reconciliation/diffs`, `operations/table.ts`, `operations/rename.ts` | none: a function of definition and introspection | diffs of columns, indexes, constraints; a change of one or more drafts for each; refusals | half-done changes of earlier runs: building indexes, unvalidated CHECKs, leftovers of rebuilds, half renames | the plan leads from any reachable database to the definition, in statements the database accepts |
| Domain, sequence, schema operations, `operations/domain.ts`, `sequence.ts`, `schema.ts`, `reconcile.ts` | none | create, alter, drop; renames of tables | order among objects, defaults of options, a rename stopped half way | as above, over several objects; nothing that cannot be had again goes unannounced |
| Validation, `validation/` | none | rules over a definition | nothing over time | rejects what the rest relies on not meeting |
| Introspection, `introspection/` | none | one catalog query, shaped to a definition | what a half-built object looks like | faithful to the catalog |
| DDL AST, factory, printer | none | builds and prints statements | quoting | text that means the statement |
| Runner and executor, `runner.ts`, `executor.ts` | the plan, the step, its rows | `plan`, `dryRun`, `run`; `execute`, `waitAsyncJob`, backfill | lost calls, a dead host, jobs that outlive the run, writes of the application meanwhile; batches of a backfill that conflict with them | a run that ends well has reached the definition; re-running ends; no rule unenforced, no data lost unannounced |
| Report | none | plan rows, tables | nothing over time | the risk of a plan is its steps' highest |

### Client (`packages/dsqlbase/src`)

| Component | State | Operations | What is hard | What makes it correct |
|---|---|---|---|---|
| Transactions and sessions, `client/transaction`, `pg`, `pglite` | a session: its connection and whether it has ended; the attempt | `$transaction` in both forms; `beginTransaction`, `execute`, `commit`, `rollback` | concurrent calls over one pool, conflicts at COMMIT, a connection that breaks at any await, a COMMIT whose answer is lost | a connection is returned once and clean; work is made whole, at most once, never lost; every call ends |
| Pagination, `client/pagination`, `core/src/sql/tag.ts` | a cursor, held by the caller | `paginate`, `count` | ties, nulls, both directions; rows written between pages | no row repeated or skipped unless it moved |
| Query client, `client/model`, `client/union`, `client/database` | a client's identity, derived once | arguments to operations; `$identityClaims`, `$findByGlobalId`, `$listByGlobalId` | a where over a union is decided partly per member, before any SQL; ids that members share; one query per node, all at once | the statement means the arguments; an id finds its own row |
| Schema builders, `schema/` | none | declarations | value formats | round trips |

### Core (`packages/core/src`)

| Component | State | Operations | What is hard | What makes it correct |
|---|---|---|---|---|
| Runtime | the registry, built once; an execution context per client | select, insert, update, delete; tenancy predicates; resolution of rows | the predicate of a tenant on every path, unions, joins | no query of a scoped client escapes its scope |
| Executor and session contract, `runtime/executor.ts`, `runtime/session.ts` | the session a query is bound to | `execute`, `clone` | the parts of a composite query run at once | see transactions |
| Definitions, SQL nodes, resolvers, schema validation | none | declarations, text, one value at a time | nothing over time | per-value round trips |

`PROJECT.json` lists each with its sources and what is modelled of it, and the hazards of the code,
each at its line.

## Plan

Written, in this order, the most important behaviour first:

1. `OperationGraph`, `Planner`, `ListProofs`, `PlannerProofs`: the planner, checked and proved.
2. `TableSchema`, `TableOperations`: reconciliation of one table as operators.
3. `Catalog`, `Migration`, `MigrationProofs`: the database and the runner, composed with 1 and 2.
4. `TransactionPromise`, `Transactions`, `TransactionsProofs`: `$transaction` over the pool,
   refining what it promises.
5. `SqlLogic`, `Keyset`, `Pages`, `PagesProofs`: the keyset predicate, and pages in both directions
   over tables and unions, against concurrent writers, checked and proved.
6. `ClientSchema`, `Nesting`, `Filters`, `Operations`, `Client`, `ClientProofs`: a client's
   operations from arguments to outcome, with the tenant boundary, unions, polymorphic references
   and global ids, checked and proved.
7. `SchemaObjects`, `ObjectOperations`, `ObjectCatalog`, `Deployments`, `DeploymentsProofs`: several
   objects in one plan, carried out and resumed.
8. `NullFill`, `Backfill`, `BackfillProofs`: the batches of a backfill against the application's
   writes, refining what the step promises, checked and proved.

To come:

9. `Names`: the 63-byte clipping of derived names, against PostgreSQL's own.
10. `Transactions` extended: the PGlite session, a counted page's composite query in a
    transaction, a transaction client used after its transaction, a callback that uses the outer
    client while every connection is held.
11. Identity columns, the validation rules over one table, and `updatePendingJobsStatus`.

## Modules and the code

**`OperationGraph`** defines the graph of `planner.ts` over a set of operations: who touches what
(`SubjectOf`, `Touches`), the edges of references and of steps (`RefEdges`, `StepEdges`), and, as a
reference, the order `planOperations` should compute (`PlanOrder`, a recursive function that always
takes the smallest id that waits for nothing). **`Planner`** is the code's loop: `Build` (in-degrees
and the first ready list), `Visit` (one round of the loop), `Return` (the plan, or the throw).

**`TableSchema`** has the shape of a definition and of a database (what introspection reads, plus
the origin of each column's data), derived names as sequences of parts, and when a database matches
a definition. **`TableOperations`** is `diffTable`, the rename resolution and the operation
factories: `DiffTableOperations(def, db)` yields the changes, each a sequence of drafts, and the
refusals. A draft holds the statement, its subject, references and risk. `PlannedDrafts` numbers
them and orders them with `PlanOrder`: the loop computes it (`LoopIsPlanOrder`), so `Migration` and
`Deployments` need not take the loop's steps again.

**`Catalog`** is DSQL, external: which statements it accepts, what they change, which submit a job,
how a job ends, which rules are enforced when. It follows `docs/internals/dsql-capabilities.md`. An
index that is building or failed is there with `valid` false; a failed unique index still enforces.

**`Migration`** composes them. Its state is the database, the rules its rows break, the jobs, the
releases to come, and the run: definition, allowed risks, plan, position. Actions follow
`runner.ts`: `Deploy` and `Retry` call `run`; `Plan` introspects, reconciles and passes the gates;
`Execute` and `ExecuteFails` are a statement, `AwaitJob` the wait for its job, `Finish` the return.
`ExecuteLost` and `AwaitLost` are a call lost before or after it took effect, or the death of the
host, which for the database is the same. `EndJob`, `Write` and `FixRows` are the environment: a
job ends, the application breaks a rule nothing enforces yet, an operator repairs the rows.

**`TransactionPromise`** is what a caller of `$transaction` may rely on: each call adds one to a
shared counter, whole and at most once; resolved means made; rejected means not made, except that
a broken connection may leave the answer open. **`Transactions`** is the code. Each await is a
step:

| Code | Actions |
|---|---|
| `PGSession.beginTransaction` | `Connect`, `ConnectFails`, `Begin`, `BeginFails` |
| the loop of a batch, or the callback | `Read`, `Increment`, `StatementFails`, `Throw` |
| `PGTransactionSession.commit` | `Commit`, `CommitFails` |
| `catch` of the runner, `rollback` | `Rollback` |
| `sleep`, and another runner | `Retry` |
| `PGSession.execute` beside it | `Single`, `SingleFails` |

`Release` is `client.release`, with or without an error; `Survives` is `connectionSurvives`. The
pool and the database are external: a connection is given to one caller at a time and destroyed if
released with an error; BEGIN takes a snapshot; COMMIT is refused with 40001 if the row was written
since. All calls write one row, an increment, because that is where calls meet: a lost update, a
doubled retry and a partial transaction all show in the counter.

**`SchemaObjects`** has the serialized objects of a schema and their comparison: qualified names,
the reconciler's Map (`MapOf`, `SetIn`, `Delete`: a name set again keeps its place), the effective
options of a sequence, the attributes a domain differs in, and the rules that refuse a definition.
**`ObjectOperations`** is `SchemaReconciler`: the operations on namespaces, domains, sequences and
tables beside them, and the three passes of `reconcile` (`RenameOne`, `DiffOne`, `DropOne`, folded
over the maps). It gives drafts of the same shape as `TableOperations`, and plans them with the same
graph. A table here is its name and its columns, each of a domain or plain, and which of them are NOT
NULL with nothing to fill rows (`unfilled`, which a column takes from its domain's definition or has
of its own): `AddRefused` is `columnAdd` refusing those, and then a type change drops nothing. What
else a table has is the subject of `TableOperations`, and so are the steps that give a column its
default and its NOT NULL, after ADD COLUMN or later: they name no other object. **`ObjectCatalog`** is the database for these objects, external,
with what introspection reads of it. A column keeps the origin of its data, a sequence the last
value it gave out: the two things a plan can destroy without anybody seeing it. **`Deployments`**
is `MigrationRunner.run` over them, with the same actions as `Migration` less the jobs; `Use` is
the application taking a value from a sequence.

**`NullFill`** is what a BACKFILL step promises: it gives the default to rows that are NULL,
touches no other, and completes only after a moment at which none was left. **`Backfill`** is
`OperationExecutor._backfill`. `Send` is the statement of a batch, which picks its rows from the
table as it is; the answers are `CompleteStep` (it matched nothing), `NextBatch`, `NoProgress` (it
filled nothing), `Resend` and `ConflictsAgain` (40001, with and without an attempt left), `Lose` any
other failure of the call, before or after the commit. `Rerun` is the next run, whose plan has the
step again. `Write` is the application: a row it writes between the statement's snapshot and its
commit is a conflict. `Catalog` takes the whole step for one, which `FillsNulls` justifies.

**`SqlLogic`** is external: three-valued logic and ORDER BY as PostgreSQL has them. **`Keyset`** is
`sql.keyset` over it. **`Pages`** is `paginate` from request to page:

| Code | Definitions |
|---|---|
| `RequestNormalizer.normalizePaginate`, `normalizeUnionPaginate` | `KeysetOrder`, `PageSizeRefused`, `Refusal` |
| `encodeCursor`, `decodeCursor`, `keysetSignature` | `Cursor`, `Signature`, `CursorError` |
| the select of a table, of a union's branches and over them | `Level`, `Branch`, `UnionLevel`, `Select` |
| `shapePage` | `ShapePage` |
| `CompositeQuery.execute`, the page and its count at once | `RunSelect`, `RunCount`, `Answer`, `Fails` |

`First`, `Following`, `Previous`, `Reuse` and `Edit` are what a caller may do with cursors.
`Insert`, `Delete` and `Rename` are other writers. `walk` is a history: what a reader that goes on
in one direction has seen, from where, and which rows stayed as they were all the while.

**`ClientSchema`** is a schema with a union, its members, and entries that point at them by an id
and a discriminator; which tables which claims scope is a constant. **`Filters`** is `WhereBuilder`:
`Build` (the condition of one table's where), the checks (`Invalid`, `SharedInvalid`,
`RequiredInvalid`), and `FoldKey`, what is left of a shared where seen from one member: nothing
(`{}`, the code's `false`) or one where; `Meaning` is what the guide says it means, written without
folding. The code recurs into wheres, joins and records, of any depth. **`Nesting`** gives such data
by its levels: `Levels` is what lies n levels down, `Within` all of it. What the code computes by
recursion is a function of the level and of what is on it, each level from the next one down, and
every definition takes one step of it: `Conditions`, `FoldEntry` and `Terms` of an entry, `Reading`
of a record's node. **`Operations`** takes a request to its
outcomes, level by level: normalising (`SelectInvalid`, `Branches`, `BranchArgs`), the boundary
(`TenantRefused`, `TenantPredicate`, which every level's `Where` starts with), correlation
(`Correlated`), the record of a row and of its joins (`Record`), writes and their read-only and
discriminator columns (`MutationEntries`, `InsertRow`), counts, reads by global id and raw SQL.
**`Client`** is a client that does one operation after the other (`Ask`), derives its identity once
(`Derive`), or lists by global id (`StartList`, one `RunGroup` per node in any order, `FinishList`)
while others write.

Definitions commented "Mutant" change one definition the way a bug would. No action uses them:
they are there to show that the properties would notice.

## Runs

| Run | What it asks | Bounds |
|---|---|---|
| `planner` | the order and the throw, on every input | three operations, of every shape the emitters produce for a table, its domain, an index and the UNIQUE promoted from it, in every grouping into two changes of two steps |
| `migration_indexes` | rebuilds and promotions resume, and never leave a gap | three releases over every choice of one index (two column lists, unique or not) and one UNIQUE or CHECK; one lost call, one broken rule |
| `migration_columns` | columns reach the definition; no data goes unannounced | three releases that add, drop, retype, rename, deprecate, generate or constrain a column, with destructive steps allowed or not; two lost calls, one broken rule |
| `transactions` | connections, exactly-once, and that all calls end | a callback, a batch and a single statement over two connections; three runs at most; two errors of any kind anywhere |
| `objects` | several objects reach the definition in any order, resume, and lose nothing unannounced | two releases: every complete set of a namespace, two domains, two tables (one renamed) followed by every other, declared forwards and backwards; a column added or moved between plain types and two domains, nullable, NOT NULL or with a default; one domain or one sequence from each form to each other under each set of risks; refused and invalid definitions; one lost call, two values taken |
| `backfill` | the batches amount to one step that only fills NULLs, and end | three rows in batches of two, every initial table, three writes, two lost calls, two attempts |
| `pages` | pages are slices, and a walk meets each row once | two tables of two keys and a nullable column, their union; seven requests (both directions, implied and named tiebreakers, counts, transactions, refusals); three pages, one write |
| `client` | an operation means its arguments and stays within its tenant | a scoped and a global member, entries scoped by two claims, 12 databases of five rows; 15 shared wheres, 66 requests, four lists, five identities; two requests, one write during a list |
| `finding_*` | one documented claim each | the shortest history that shows it |

**planner.** `EdgesRespected`, `PlanComplete` and `ThrownOnlyOnCycle` say the plan is a topological
order; `MinIdFirst` and `ComputesPlanOrder` that it is the stable one. Three operations suffice for
an edge of each kind, a cycle through a third, and a successor released between two others.

**migration_indexes, migration_columns.** `ReachesDefinition`: a run that returns has reached the
definition. `NothingLeft`: and a plan made then is empty. `PlansRun`: no step is refused by the
catalog, whatever earlier runs left. `NoGap`: a rule that the new and the
old definition both ask for is enforced throughout. `DataKept`: a column's data goes only with a
risk that was allowed. `Converges`: after the last release, failing runs are followed by one that
ends well, and none throws, which is how both ask for `NeverThrows`. Three releases let a change be interrupted and then continued, reversed or replaced. In
`migration_columns` the histories leave out those of the disagreements below (a column added
already deprecated, a retype with a new CHECK), and a rename taken back without a hint after a run
that stopped half way.

**transactions.** `OwnConnection`: a session that has begun and not ended holds its connection
alone. `PoolIsClean`: no connection in the pool has a transaction open. `KeepsPromise`: the
refinement of `TransactionPromise`. `Settles`: every call resolves or rejects. Two connections and
three calls make callers wait; two errors let a retry fail, or a rollback after a failed statement;
three calls on one row are enough for the last of three runs to conflict.

**objects.** `Deployed`: a run that ends well leaves exactly the declared objects, each as declared,
and planning again plans nothing. `PlansRun`: no step is refused by the catalog for what another
object needs, has or still uses. `NeverThrows`: what the objects of a plan ask of each other, created,
altered and dropped together, has an order. `NothingLost`: data of columns (followed
through renames), sequences and the guards of domains go only in a release that allows destructive
steps, and a sequence is left less room only in one that allows lossy ones. `AddsFitRows`: no run
stops at an ADD COLUMN for the rows there are, before which a type change has dropped the column;
the refusal goes by the definition, the database by the domain as it is then. `Resumes`: a run stopped
by a lost call is followed by one that ends well, or meets a sequence already past its new bounds.
Two releases are enough because a plan depends only on the definition and the database, and the
first release reaches every database that the definitions here describe. Every lost call adds one
that no definition describes. The bounds of a bigint are 9 and -10, the least cache 3.

**backfill.** `FillsNulls`: the refinement of `NullFill`. `Ends`: the step completes or fails, again
and again after every re-run, also when the default is NULL for some of the rows. Three rows in
batches of two make a full batch, a short one and the empty one; three writes conflict with a batch
twice and still insert a NULL behind it.

**pages.** `PageIsSlice`: whatever cursor was passed, of a row that is gone included, the page holds
the rows nearest to it in the documented order, and its flag tells whether there are more.
`SeenOnce`: going on in one direction, each row that stayed is seen exactly once if it was passed
and not at all otherwise, in order. `TotalAgrees`: the total of a page counted in a transaction is
of the snapshot the page was read from. The order is written apart from the code's
(`DocumentedKeys`, `Precedes`). Two keys in two tables, and one name beside NULL, make ties within
and across members at the edge of every page of one row.

**client.** `StaysPrivate`: whatever comes of an operation would come of it on a database without
the other tenants' rows, and these stay as they are. `MeansWhere`: what a read or count of a union
answers is what its where means, members and global ids taken as values. `NamesItsPost`: an entry's
id and the post it joins agree, also after updates that change the one or the other. `ListsIds`:
each id of a list is answered with its own row, in its place, whenever that row was within reach
and stayed. A global and a scoped member show the boundary met in one branch only; shared ids show
a row matched by its key alone.

## Fairness

- `Planner`: weak fairness of its loop, which is a plain `while`.
- `Migration`: a run that was called proceeds whenever it can (the code awaits nothing but the
  database); jobs end (`WF EndJob`); a failed run is run again (`WF Retry`) and rows it failed on
  are repaired (`SF FixRows`), as the guide asks of whoever deploys. Releases, writes and faults
  have no fairness. The condition for the run is spelled out (`RunReady`) instead of `ENABLED`,
  to spare TLC a plan in every state.
- `Transactions`: weak fairness of each call's next step: answers or errors come, timers fire. A
  call that waits for a connection competes with others; weak fairness suffices because calls are
  finite in number and each gives its connection back.
- `Deployments`: as `Migration`: a run that was called proceeds, and a failed one is run again.
- `Backfill`: `WF Send` and `WF Answered`: the executor goes on, and a statement is answered. `Lose`,
  `Rerun` and `Write` have no fairness; without the bounds on them `Ends` would not hold, for an
  application that inserts NULLs faster than batches fill them keeps the step busy for ever.
- `Pages` and `Client` state no liveness: a request is a fixed number of statements.

## Proofs

`PlannerProofs` proves for every set of operations that `planOperations` may be called with
(finite, with distinct natural ids: `InputsAssumption`): `TypeCorrect`, `OrderSound`
(`EdgesRespected`), `PlanHoldsEverything`, `ErrorMeansCycle`, `StableOrder` (`MinIdFirst`). The
properties are not inductive. `Bookkeeping` strengthens them: the in-degree of an operation counts
exactly its predecessors not yet emitted, the ready list is exactly what has none, and each emitted
id was the least one ready. With it a loop that ends early has left operations that all wait on one
of themselves, which is a cycle.

`LoopIsPlanOrder` (`ComputesPlanOrder`) joins the loop to the recursive function the reconcilers are
modelled with: as long as the loop has gone, what its ready list has emitted is what the same number
of rounds of `PlanOrder` emit (`RoundsAgree`), and after that the rounds emit nothing (`RoundsStop`).
`ListProofs` proves of `PlanOrder` alone, for any operations with natural ids, that it has each at
most once and after all it depends on (`PlanOrderSound`), and that it has them all if no set of them
waits for itself (`PlanOrderWhole`).

`ListProofs` has the lemmas about lists that the other modules share. The library's
induction theorems take an operator as a parameter, which the provers cannot instantiate;
`NatSetInduction` states induction for a set instead, from the well-foundedness of `<`. A
recursive function is then reached through its finite approximations: `EmittedTo(set, n, emit)` says
that `emit` is the function up to n, induction shows that there is one for each n, and `CHOOSE`
picks it. The folds over lists and maps (`IteratedTo`) and `FlattenSeq` (`ChainedTo`) go the same way.

`DeploymentsProofs` proves `NothingIsLost` (`Spec => NothingLost`) for any histories whose releases
declare objects (`HistoriesAssumption`: each declaration is a sequence of objects of one of the four
shapes, `IsObject`), any bounds of a bigint and any number of faults and uses. A rating is given when
a plan is made, and the database goes on from there, so the question is whether the rating still
tells the truth when its statement runs. `Sound(draft, local, database)` says what it must tell:
what destroys is rated destructive, and an ALTER SEQUENCE that is not rated lossy only widens the
options the database has *now*. The argument has three parts:

- Reconciliation of any definition with any database emits sound drafts only (`ReconcileSound`). It
  goes through the three passes over the maps, each an iteration that keeps `OnTheWay`: what is
  planned is sound, and what is left to match are objects read from the database.
- The plan's order takes drafts from it and adds none (`PlanOrderTyped`), and the gate lets only
  allowed ratings pass.
- A statement that the catalog carries out keeps `DatabaseOK`, loses nothing its own rating does not
  say, and leaves every other draft of the plan sound. The last needs that a definition names each
  sequence once (`NamedApart`, true of a Map's values), or the one draft could undo what the other's
  rating was based on.

The inductive invariant `Inv` is these together: the database is one, the releases are of the
histories, and while a run lasts, its plan is `Planned` (allowed, and sound for the database as it
is). `CreatedIsDeclared` and `AlteredIsDeclared` say of sequences, for any bounds of a bigint, that
what CREATE or the one ALTER of a plan makes of a declaration compares as the declaration.

The same module proves `PlansNeverCycle` (`Spec => []NeverThrows`): `planOperations` never throws,
whatever releases, faults and failed runs have left in the database. References are names, and the
planner compares them with the names of objects of any kind, so this needs that names are kept apart
(`NamesApart`): among all objects of a history, whatever has the name of a namespace in use is that
namespace, and whatever has the name of a type in use is a domain. The histories of `objects` do, as
`NamesKept` of `MCObjects` has TLC evaluate; without it the theorem is false (`finding_namesake`).

- The steps of a plan have places (`Place`): what drops tables and sequences, what drops domains,
  namespaces, what creates or alters domains, then the rest. Every reference leads to a namespace,
  or from a table to a domain, so its edge goes up the places (`ReferencePlace`), and edges within a
  change stay and go up its steps (`EdgesGoUp`). Of any operations left over, the one of the lowest
  place, step and identifier waits for none of them (`OperationsGrounded`), and `PlanOrderWhole`
  makes the plan whole (`PlannedWhole`).
- That each draft is on an object that the plan either keeps or drops, each of a name of its own, is
  shown through the three passes again (`ReconcilePlaced`). A key of a change is one object's
  (`KeyTellsObject`), so two objects never share a chain of steps.
- What is in the database must keep names apart as well, though it may be left by any statement of
  any earlier release. `DatabaseFits` says so, `AfterFits` that a statement which brings only such
  names (`Adds`) keeps it, `IntrospectFits` that what is read back is such. `NeverInv` is the
  inductive invariant: `Inv`, and some history whose objects all that is declared, planned and there
  belongs to.

`MigrationProofs` proves `RunsAreTyped` (`TypeOK`) and `DataIsKept` (`Spec => DataKept`) for any
histories of definitions (`IsDefinition`: lists of columns, indexes and constraints, each with the
attributes the serializer gives it; names may repeat). The argument has the same three parts.
`DiffSound` says that the diff of any definition and any table drops a column's data only under a
destructive rating, or under a lossy one when the definition has the column no more and the database
has it marked. Whether a column may go as lossy therefore depends on the database at the time of the
statement, and `StillMarked` shows that no statement of the same plan before it takes the mark
away: what sets comments, adds or renames columns only names columns that the definition has.
`Inv` adds that a job runs only for an index or constraint that is there (`JobsOK`), which is
what keeps the ends of jobs from making up parts of the table. The invariant was checked by TLC on
both migration runs before it was proved; rating every DROP COLUMN as lossy breaks it there and
leaves `DiffSound` without a proof.

`TransactionsProofs` proves for any number of calls and connections, and any bounds on retries and
errors:

- `TypeCorrect`, `ConnectionOwned` (`OwnConnection`), `PoolStaysClean` (`PoolIsClean`), from the
  inductive `SessionsInv`. It adds that a session with a transaction in progress has not ended
  (or it could release twice) and that a call which sleeps has a retry left.
- `PromiseKept`: `Spec => KeepsPromise`, if no callback is careless (`Careless = {}`; otherwise it
  is false, see below). `WorkInv` is the reason: the version of a transaction's snapshot is at most
  the committed one, and while the two are equal, what the transaction read or wrote follows the
  committed counter. So a COMMIT that passes the conflict check adds exactly one. `Answers` adds
  that a call whose answer was lost carries the error of a broken connection, which is not run
  again. Each action then maps to a step of the promise (`Commit` and `Single` to `Resolve`, a lost
  answer to `LoseAnswer`, the end of a rollback to `Reject`) or to a stutter.

`BackfillProofs` proves for any set of rows, batch size, number of attempts and bounds
(`BackfillAssumption`: the rows are finite, the four values distinct, the rest naturals) that
`Spec => FillsNulls` (`BackfillFillsNulls`). The refinement needs to know what a batch may touch by
the time it commits. `BatchInv` (`BackfillBatches`) says it: the rows of a batch that was sent are
NULL unless they have been written since. With it, a batch without a conflict updates only rows that
are NULL now, so `NextBatch` maps to `Fill` and `NoProgress` to `GiveUp`. A statement that picks
nothing has seen no NULL, because its limit is not 0 (`EmptyPick`): that `Send` is `Clear`. `Lose`
maps to `Fail`, `Rerun` to `Again`, and the retries to stutters.

`PagesProofs` proves what `Pages` promises (`PagesTypeOK`, `PagesAreSlices`, `TotalsAgree`,
`RowsSeenOnce`) for any tables, values, number of pages and writes, and any requests a caller may
make (`RequestsAssumption`: an orderBy names a field once, as an object does) on any tables with one
row for a primary key (`RowsAssumption`). Each layer of the code is a layer of the proof:

- `PastIsBefore`: the conditions `sql.keyset` writes for one key are true of exactly the rows that
  ORDER BY, with the nulls as the code renders them, puts past the cursor, NULL included.
  `LevelIsLexicographic` puts one key before others, and `KeysetIsOrder` the whole condition of any
  list of keys, by induction from the last key outwards. The one hypothesis is that a key that is
  not nullable has no NULL (`Holdable`): in the row by its column, in the cursor because
  `sql.keyset` throws.
- `KeysetIsDocumented`: the keys the code appends (the primary key, a union's `$$key`, each only
  where needed) order the rows of a source as the guide says, strictly (`WayStrict`);
  `BranchOrderSame`: so do the fewer keys a branch of a union orders by.
- `SelectNearest`: what ORDER BY and LIMIT return is the nearest rows past the cursor. For a union
  this is a fact about ranks: a row that is among the n nearest of all is among the n nearest of its
  own table (`NearestOfPart`), so branches that read n rows lose none. `PageRead` takes them through
  `shapePage`, and `SliceOfPage` to `IsSlice`.
- A cursor that is accepted may be another page's, or edited. `AskSteps` shows that it is as if
  taken on a row of the source under the very order it is passed with (`ReusedIsTaken`,
  `EditedIsTaken`); the row need not be there.

The inductive invariant `Inv` has two parts. `ReadInv`: a request being read is accepted, and the
page it has read, or the last one returned, is of *one* state of the tables, its snapshot's if it
has one, which is why a total agrees with its page. `WalkInv`: the reader that goes on has seen,
of the rows that stayed, exactly those beyond its anchor and not beyond its edge, in order, and
those rows are in the tables and in the snapshot. `SeenOnce` alone is not inductive: that the next
page begins where the last one ended also needs that its edge is taken on a row of the order
(`WalkHolds`), for which rows are beyond it must not depend on what was written since. `WalkInv` was
checked by TLC on the instance of `pages` as well.

`ClientProofs` proves all that `Client` promises, for any members, scopes, rows, requests and lists.
What is nested comes first. A where's or a record's levels exist and are what `Levels` picks
(`LevelsExist`), and so does what is computed over them, as far down as there are any
(`ComputedExists`, by induction from the deepest level up); of two such computations the values
agree (`ComputationsAgree`). So what the code returns of a where is one step of its recursion applied
to what it returns of the parts (`ValueUnfolds`), which is all that the later proofs use.

- `ClientTyped` (`TypeOK`): a row keeps the columns of its table alone, is one for its key, is never
  without its tenant, and its ids are stored unwrapped; an identity has the schema's claims and
  none given as nothing.
- `ClientStaysPrivate` (`StaysPrivate`) is an argument of noninterference. Where the boundary lets
  an operation pass at all, its predicate is the client's reach (`BoundaryIsReach`); each level's
  WHERE starts with it, so a level reads of any rows what it reads of those in reach
  (`TableNodesOwn`, `UnionNodesOwn`), and the normalizer's walk over the levels has met every table
  that a join reads (`NodesHaveLevels`, `NodesAreOpen`). So the levels of a record's nodes are equal
  on both databases, and the record is (`RecordOwn`). This needs no bound on the depth: the functions
  picked are picked by the same conditions. Writes select the same way, no mutation writes a claim
  column (`EntriesWritten`), and an insert takes its claims from the identity (`InsertedReached`).
- `ClientListsIds` (`ListsIds`) from the inductive `ListInv`: every record a group has read is of the
  row of its id, tagged with its node; every row in reach that was asked for and has stayed is read
  unless its group still waits; and the groups' tables are open to the client. Statements of
  different groups see different databases, and the invariant does not need that they agree.
- `ClientMeansWhere` (`MeansWhere`): what is left of a shared where for a member selects, of the
  member's rows, those the where means. `Kept` states it with what it takes to be inductive:
  nothing is left only of what is false, and of a where that constrains nothing an empty one is
  left, for under `not` the code asks which it is. `KeyKept`, `ColumnKept`, `IdKept`, `GroupKept` and
  `NotKept` are the kinds of entry, in three-valued logic, `LevelKept` puts the entries of a level
  together and `FoldKept` the levels. It is proved of requests that are `Understood`: of finite
  depth, with the language's operators, and with a `not` only of a where that constrains the row.
  Without the last it is false, as `MCFindingUnionNot.cfg` shows; the wheres of the `client` run
  satisfy it.
- `ClientNamesItsPost` (`NamesItsPost`): a join's two correlations are what its id is made of, so a
  post that is joined is the row named (`JoinedIsNamed`), and the row named is joined if the boundary
  lets the client see it (`NamedIsJoined`). That every record in an answer is such a reading, however
  deep, is `RecordsAreRead`. It is proved of requests whose joins end and which join posts whole
  (`WholeRequest`), as those of the run do: a join with a where of its own may well leave the post
  out. The invariant `NamedInv` speaks of the boundary's predicate instead of the reach, for a client
  that derives an identity later must still be right about what it read without one.

Assumptions on the constants are those the modules state, named at their declaration. Beside the
types of constants (`CallsAssumption`, `LimitsAssumption`, `BudgetsAssumption`, `BoundsAssumption`)
they say that `Nobody` is no call, `Unset` and `Null` are none of the values a variable may
otherwise have, and that histories and inputs are such as the program can be given: of a client's
requests, the operations and values its types admit (`RequestsAssumption`), of its rows, that they
are finitely many, each of its table and alone under its key (`InitialDbsAssumption`), of its schema,
that no member is called what no member can be (`SchemaAssumption`). TLC evaluates each on the
instances it runs.

Only model-checked:

- the liveness properties (`Ends` of both modules, `Settles`, `Converges`, `Resumes`), which are
  beyond what the prover supports;
- that plans arrive and are accepted (`ReachesDefinition`, `NothingLeft`, `PlansRun`, `Deployed`),
  and that rules are enforced throughout (`NoGap`). They hold on the histories of the runs and not
  on every one: the disagreements below are histories they fail on. `Migration`'s `NeverThrows` is
  of the same kind (`finding_cycle`); that of `Deployments` is proved.

## Disagreements found

Each of these runs checks one claim of a comment, document or test and shows a history that breaks
it.

| Run | Claim | What happens |
|---|---|---|
| `finding_cycle` | a cycle is a bug in emission, not user input | two indexes of one table changed in one release wait on each other through the table; no plan can be made |
| `finding_namesake` | a namespace is created before anything in it (`docs/guide/migrations.md:143`); a cycle is a bug in emission, not user input | a table of "public" named as a namespace, which validation lets pass, takes its place in the reconciler's Map (`reconcile.ts:29`); a domain of the namespace waits for the table, which waits for the domain it uses |
| `finding_swallowed` | a callback that resolves has persisted | not if it caught a statement's error: COMMIT answers with a rollback and nobody looks |
| `finding_union_join` | a union's page takes a shared `join` as `findMany` does | `paginate` on a union drops it |

The configurations below show others. They are not among the runs; each is checked on demand and
finds its property violated (for example `MCFindingKind.cfg` with `MCMigrationFindings`).

| Configuration | Module, property | Claim | What happens |
|---|---|---|---|
| `MCFindingUniqueGap.cfg` | `MCMigrationFindings`, `NoGap` | a changed UNIQUE is unenforced only for two statements (`operations/table.ts:1266`) | a run that stops between them: the next one drops the new index and builds it again, unenforced meanwhile |
| `MCFindingNotNull.cfg` | `MCMigrationFindings`, `PlansRun` | dropping a NOT NULL is one lossy step; a re-run resumes | if its CHECK was never validated, the plan drops it and then validates it, and fails once |
| `MCFindingKind.cfg` | `MCMigrationFindings`, `ReachesDefinition` | a constraint that changes kind is removed and added | it is only removed; the next run adds it |
| `MCFindingKind.cfg` with `Histories <- DeprecatedAdded` | `MCMigrationFindings`, `ReachesDefinition` | a deprecated column gets its comment | not when it is added to an existing table |
| `MCFindingRetype.cfg` | `MCMigrationFindings`, `PlansRun` | a retype recreates what was on the column | a CHECK new in the same release is added twice; the run fails once |
| `MCFindingMovedColumn.cfg` | `MCObjects`, `AddsFitRows` | a NOT NULL column is added if it has a default, and "existing rows are filled with it" (`operations/table.ts:658`) | a column with a default of its own, moved to a NOT NULL domain that has none: ADD COLUMN takes the bare domain, so the database, if it does as PostgreSQL, refuses it for the rows there are, after the DROP |
| `MCFindingBroken.cfg` | `MCTransactions`, `PoolIsSound` | a broken connection is destroyed, never handed out again (`docs/guide/sessions.md:44`) | if its error has any code, as socket errors do, it is released as one that survived |
| `MCFindingUnionNot.cfg` | `MCClient`, `MeansWhere` | an empty group filters nothing, and a shared where means the same on each member | `not: { or: [] }` filters nothing on a table and everything on a union |

Of `MCFindingBroken.cfg`: whether the next caller is handed the connection depends on the pool's own
checks, which are not part of the repository; it shows what the session asks of the pool. It takes
its errors with a code from `CodedBreaks`; with `CodedBreaks = FALSE` it finds nothing.

Met while modelling, and told only here because they are shapes of input the runs leave out:

- A namespace and an object in `public` of one name share a key in the reconciler's Maps, and one
  hides the other. Validation lets the pair pass (`reconcile.ts:29`).
- A definition that refers to a namespace or a domain without declaring it plans its DROP, if the
  database has it. The histories declare what they use.
- The default of a column that calls `nextval` of a sequence created in the same plan has no
  reference to it.
- `findOne` on a union only looks whether its where has an entry: one that is empty inside passes,
  where a table's is refused.
- `docs/guide/querying.md:85` speaks of `notIn`, which is not an operator.

## What is not modelled

Beyond the components the inventory leaves out:

- **Migration of one table** (`Migration`). In `public` with the default options; one runner at a
  time (the missing deploy lock is documented). `include`, `where` and NULLS attributes of an index
  differ like its columns do, and are not told apart. Names are whole: clipping is planned. The
  order in which introspection lists objects is fixed, arbitrarily. `updatePendingJobsStatus` has no
  caller in the runner. Known limits that `docs/internals/migration-pipeline.md` lists (CHECKs
  compared by text, DDL not retried on 40001, `renamedFrom` left in place) are not looked into
  again. Identity columns are not modelled.
- **Several objects** (`Deployments`). Views, functions and triggers, whose kinds the AST reserves,
  are not emitted by the code. A domain's default and CHECK are values; options of a sequence are
  small integers, so the doubles that introspection reads bounds through, which tell apart no two
  bounds beside the largest bigint, are exact here. The validation rules over one table, and the
  warnings, check a definition the histories never get wrong. A table's rows are taken to exist, and
  its NULLs under a domain's NOT NULL are a failure of ADD COLUMN only. A column's own default and
  NOT NULL count only where they refuse an ADD COLUMN; their steps and their later changes are
  `TableOperations`', and are not in these plans, nor in what `Deployed` compares.
- **The backfill** (`Backfill`). The pause between attempts is no time. The writes of the
  application conflict by row, as DSQL's do; a conflict of the catalog's version, which DDL of
  another runner would cause, is among what `Lose` takes.
- **Transactions.** Each call awaits its statements in order; a callback that leaves one unawaited,
  or uses the outer client, is planned. The delay of a retry is a step, its length left out. The
  PGlite session has one connection and no pool, and is planned. Statements fail, but do not
  conflict: in DSQL a write may meet 40001 before COMMIT, and that is among the errors
  `StatementFails` takes. An error of `Pool.query` destroys the connection, as the pool does.
- **Pages.** Values are naturals ordered as the database orders them: collations, and the exact
  text a value is sent back as, are left out. A cursor has one of three formats, its base64 and
  JSON left out, and its signature tells every two orders apart (the code's is 32 bits of a
  digest); a caller edits it in four ways (`Edited`). A page has no filter of the caller's; a where
  only narrows the rows, and `Client` has it. A counted page outside a transaction reads two
  snapshots, as documented: `TotalAgrees` is about those inside one.
- **Client.** One schema, with one union, in which every shape of relation occurs that correlates
  differently. Every request is one statement on one snapshot. Orders, limits, offsets and distinct
  are left to `Pages` or out; pattern, array and JSON operators are one more comparison each.
  Discriminators that are computed by an expression (which reads members beyond the boundary, as
  the guide says), hooks for new and updated rows, validators and codecs are left out: they are
  functions of one value. Raw SQL is refused or not; what it does is the caller's.
- **Definitions, column types, resolvers and the checks of a schema when a client is built** are
  declarations and functions of one value or one schema, without behaviour over time, and what their
  checks exclude is excluded from the constants of the models. **Printing and parsing** of SQL text,
  and the report, are layout.
