# squealy: a TLA+ verification project

squealy is a Rust query builder. A statement is built as a typed value (`From`, `Where`,
`Selected`, ...), rendered to SQL for a dialect, and executed through one of three backends
(SQLite, PostgreSQL, MySQL), which also run transactions and stream rows back. Most of the
library is decided by rustc's type checker. What is left for run time, and hard to test, is
modelled here: the order in which things reach a database connection that outlives the
futures using it, and the global properties of SQL text that is put together locally.

The modules are plain TLA+, checked with TLC on small instances and, for the sessions,
the CTEs, the aliases and the SELECT builder, proved with TLAPS for every value of the constants.

| File | What it is |
|---|---|
| `SqliteSession.tla` | a SQLite connection, its transactions and the worker thread |
| `PostgresSession.tla` | a PostgreSQL connection, its row streams, the client's pipeline and the server |
| `AtomicTransactions.tla` | the abstract specification both sessions implement |
| `SqliteSession_proofs.tla` | types, isolation, no stragglers, atomicity, the truth of `Ok` and `Err`, rollbacks, the refinement, proved |
| `PostgresSession_proofs.tla` | types, isolation, the truth of `Ok` and `Err`, the refinement, proved |
| `CteCollect.tla`, `CteCollect_proofs.tla` | collecting a query's WITH clause |
| `SourceAliases.tla`, `SourceAliases_proofs.tla` | SQL aliases of nested subqueries |
| `Expressions.tla`, `SelectChain.tla` | typed expressions, and the typed SELECT builder over them |
| `Flattening_proofs.tla` | induction, and facts about flattened sequences, that the later proofs use |
| `SelectChain_proofs.tla` | grouping, placement, NULLs, row locks, the order of calls, parameters and CTEs of the text, ORDER BY under DISTINCT, proved |
| `ViewModel.tla`, `ViewLower.tla`, `ViewCanonical.tla`, `ViewRender.tla`, `ExprNormal.tla`, `Views.tla` | view bodies and checks: data, lowering, canonical names, text, normal form, and the passes of a deployment |
| `ViewServer.tla` | external: what a server makes of the names in a view |
| `MutationRender.tla`, `Mutations.tla` | the text and parameters of INSERT, UPDATE, DELETE; their builders, query objects and runs |
| `MutationServer.tla` | external: what the three servers make of a mutation |
| `Mutations_proofs.tla` | what a mutation does to the table is what its calls mean, proved |
| `Codecs.tla`, `Codecs_proofs.tla` | values bound, stored and read back |
| `MC*.tla`, `*.cfg` | model values, small inputs and bounds for TLC |
| `PROJECT.json` | components, runs, mutants, the map from definitions to source lines, findings, hazards, theorems |

To check one: `tlc -config SqliteSession.cfg MCSqliteSession`; to prove one:
`tlapm SqliteSession_proofs.tla`.

## 1. Inventory

Paths are below `src/crates/`.

### Sessions: what talks to a database

**SQLite session** (`squealy-sqlite/src/lib.rs`, `query.rs` 486-640).
*State:* a handle to the tokio-rusqlite worker thread; per transaction a `finalized` flag; in
the worker, a FIFO of closures; in SQLite, whether a transaction is in progress and what it
has written. *Operations:* `connect`, `execute_batch`, `list_user_tables`, queries and
mutations, `transaction` and `transaction_scoped` (BEGIN, the caller's body, COMMIT or
ROLLBACK), the drop guard of `SqliteTransaction`.
*Interaction:* every operation sends a closure and awaits a one-shot answer. A closure that
has been sent runs even if the future that sent it is dropped.
*Hard:* cancellation at any await; a COMMIT or ROLLBACK that fails; a transaction opened
behind the API's back through `execute_batch`; SQLite rolling back by itself; another clone
of the handle closing the database.
*Correct if:* nothing but a transaction's own statements runs inside it; none of them runs
after it; it is atomic; `Ok` and `Err` mean what they say; an abandoned one ends.

**PostgreSQL session** (`squealy-postgresql/src/lib.rs` 372-449).
*State:* a pipelined client and, during a transaction, the driver's own `Transaction`, whose
drop queues a ROLLBACK. *Hard:* after an error in a transaction the server refuses everything
until it ends, and a COMMIT then ends it as a ROLLBACK *without* an error (391, 434): a body
that swallows a statement's error is told `Ok`. A failing ROLLBACK replaces the body's error
(399, 442), where SQLite keeps it. Requests of a dropped future are still served; the connection
may be lost with answers under way. *Correct if:* as for SQLite, with these exceptions stated.

**MySQL session** (`squealy-mysql/src/lib.rs`, `query.rs` 1-330). *State:* one connection
under a tokio `Mutex`; rows are buffered before the first is handed out. No transactions.
*Hard:* little: two statements exclude each other by the lock.

**Row streams and result combinators** (`PostgresRows` 277-313, `SqliteRows`, `MysqlRows`,
`collect_rows`, `fetch_optional_row` and the forms with an affected count). *State:* pending,
streaming, done; the affected count, known at the end only. *Hard:* a stream dropped half-way,
an error between rows, a count read before the end. *Correct if:* the rows handed out are a
prefix of the result, nothing follows an error or the end, and the count is the server's.

### From a query value to SQL text

**CTE collection** (`squealy-core/src/query.rs` `direct_ctes`, `collect_ctes`; `render.rs`
`collect_set_ctes`, `dedup_set_ctes`; `cte.rs`; `view_render.rs` `render_with_prefix`).
*State:* the list kept so far, the path of the walk, the lists of a set operation's arms.
*Hard:* graphs with diamonds and cycles, self-references, names that clash within one arm or
across arms, statements that have no WITH clause. *Correct if:* each definition the statement
reaches is defined once, before its users, under a name that means it; a refusal is justified.

**Source aliases** (`query.rs` `From::new`, `Subqueries`, `where_correlated`,
`select_correlated`, `select_subquery`; `expr.rs` `SourceAlias`). *State:* the depth of each
chain, the next depth of each `Subqueries` handle. *Hard:* closures nest, handles are captured
by inner closures, a subquery built early may be embedded late. *Correct if:* the alias in a
column reference resolves to the SELECT the column was taken from.

**Renderer, binds and prepared queries** (`render.rs`, `dialect.rs`, `*/sql.rs`, the
`Prepared*` types). *State:* the text so far, the number of placeholders, the list of binds.
*Hard:* placeholders are numbered in the order of the text, binds are pushed while rendering,
and the `Params` type of a prepared query lists parameters in the order of the clauses: three
orders that must be one, in each statement and dialect, CTE bodies included.

**Query typestates and the SELECT builder** (`query.rs` 5383-8510, `expr.rs`, `list.rs`).
*State:* a chain of links and the associated types that summarise it: parameters by clause, the
class of ORDER BY, the grouping state, distinctness, locks, the kinds in scope. *Hard:* the
clauses may be called in nearly any order, handles taken before a join are used after it, and
what is refused depends on the combination. *Correct if:* what compiles is SQL, parameters are
where their placeholders are, and a value that may be NULL decodes into an `Option`.

**Expressions and predicates** (`expr.rs`): some forty AST nodes, each implementing the traits by
which the builder judges it, and rendering itself. *Correct if:* trait and text agree.

**Mutation builders and their query objects** (`query.rs` 2600-3395, 5625-5782, 8512-8648,
`squealy-macros/src/table.rs` 1090-1507, `*/query_objects.rs`). *State:* the assignments, rows
and filters collected; a prepared statement with its list of static and run-time parameters.
*Hard:* upserts, UPDATE FROM and DELETE USING differ by dialect; a statement is rendered twice,
once for the text and once for the parameters; an empty IN has no SQL form.
*Correct if:* the table changes as the calls say, whichever way the statement took.

**Views** (`view.rs`, `ir.rs`, `view_render.rs`). *State:* a body (SELECT, set operation, WITH) as
a tree. *Operations:* lowering a typed query, canonicalizing clause names, folding what a dialect
cannot express, normalizing checks, listing sources, rendering. *Hard:* the same name means
different things by clause, scope and dialect; every walk has to reach every position; the text
is what views are compared by. *Correct if:* a rewrite keeps the meaning, passes commute, views
are created after what they read, and a text stands for one body.

**Query objects of the backends** (`query_objects.rs`): a statement and a reference to its executor.

### Schema, values, support

**Schema model** (`model.rs`, `table.rs`, `column.rs`, ...): constants of the derives.
**SQLite create DDL** (`squealy-ddl-sqlite/src/lib.rs`): validates a model whose schemas are
flattened into one namespace and renders CREATE statements; *hard:* case-insensitive clashes
between tables, views and indexes, references across schemas, the order of what is created.
**Codecs and capabilities** (`backend.rs`, the `Encode`/`Decode` impls): one value at a time, and a
reader that moves along the row; *hard:* integer ranges, PostgreSQL's numeric words, civil dates
(`squealy-mysql/src/query.rs` 558-606), probing for NULL. **Rows and projections** (`list.rs`,
`projection.rs`): type-level. **Derive macros** (`squealy-macros`): compile time.
**In-memory test backend** (`squealy-test`): renders and records.

`PROJECT.json` lists all of these under `components` and every place where they can go wrong
under `hazards`, with the property that watches it or the reason why none does yet.

## 2. Plan

Done, most important first:

1. `SqliteSession` with `AtomicTransactions`: the only code of the repository that manages a
   transaction itself, and the one with real concurrency.
2. `CteCollect`, then 3. `SourceAliases`: a mistake there is silently wrong SQL.
4. `PostgresSession`, with row streams and their combinators, against the same abstract
   specification.
5. `Expressions` and `SelectChain`: the largest part of the library, compared with SQL's rules.
6. The `View*` group with `Views`: lowering, canonicalization, folds, dependencies and text,
   compared with a server's reading of the same names.
7. `MutationRender` and `Mutations`, compared with what the calls mean on a table.
8. `Codecs`: what is written is what is read.

Left: `SqliteDdl` (`validate_model` and `render_create_sql` against "SQLite accepts this script and
it creates exactly this model"); tables in `CteCollect`'s references (a CTE hides a table of its
name); chains of `SourceAliases` started from the connection inside a closure.

Proved (section 6): every safety property of `SqliteSession`, `PostgresSession`, `CteCollect`,
`SourceAliases`, `SelectChain`, `Mutations` and `Codecs`, and both refinements. Left are the views:
their five modules walk trees with recursive operators, which the prover does not take. In `Mutations`
expressions are sequences of tokens in postfix order, which need no recursive operator; subqueries
inside subqueries, and folds of them, do not flatten that way.

## 3. The modules

### SqliteSession

| Model | Code |
|---|---|
| `calls`, `replies` | closures sent by `tokio_rusqlite::Connection::call`, and their answers; `calls` after `Len(replies)` is the channel |
| `holder` | the `&'conn mut self` borrow of `transaction`: while a future has it, the bare connection cannot be used |
| `phase[t]`, `awaiting[t]` | the await at which the future of invocation `t` is suspended |
| `finalized[t]` | `SqliteTransaction::finalized` |
| `outcome[t]` | what the caller of `transaction` got |
| `open`, `pending`, `durable`, `closed` | SQLite, external: who opened the transaction in progress, its writes, what is committed, whether the database was closed |
| `Execute`, `ExecuteBatch` | calls on the bare connection; `execute_batch` may carry transaction control |
| `Transaction`, `BeginSucceeds`, `BeginFails` | `SqliteTransaction::new` and `begin` |
| `ExecuteInTransaction` | a statement the body submits, whether or not it awaits the answer |
| `BodyReturnsOk`, `BodyReturnsErr`, `CommitReturns`, `RollbackReturns` | `finish_transaction`, split at its awaits |
| `Cancel` | dropping the future at any await, or unwinding |
| `DropTransaction` | `<SqliteTransaction as Drop>::drop` |
| `Serve*`, `CloseDatabase` | the worker thread and SQLite |

`Finish` does in one step everything that happens without an await: the future ends, its
caller learns the result, the guard runs and the borrow ends. The guard's ROLLBACK is in the
channel before `drop` returns, since it polls the call once by hand: that is the code's own
argument for correctness, and `IsolationInv` and `NoStraggler` are what it has to give.

COMMIT may fail and leave the transaction open (busy, deferred constraint), and so may the ROLLBACK
of `finish_transaction`, behind which the guard is still armed and rolls back again. The guard's own
ROLLBACK is the last attempt the code makes: the model lets it succeed. With `AutoRollback`
a failing statement may also end the transaction, as SQLite does on a full disk or
`RAISE(ROLLBACK)`. A transaction begun through `execute_batch` is `Manual`.

`AtomicTransactions` is the promise: transactions one at a time, effects visible all at once
or never, callers told which. `ImplementsAtomic` is the refinement; `Status` computes the
abstract status from the calls served, and plain statements and manual transactions map to
`Plain`.

### PostgresSession

| Model | Code |
|---|---|
| `wire`, `answer` | requests in tokio-postgres's pipeline, and the server's answers; external |
| `holder`, `phase[t]`, `outcome[t]` | the borrow, the await, and what the caller of `transaction` got |
| `stmt[m]`, `owner[m]` | a statement's future or `PostgresRows`: preparing, executing or over |
| `sawError` | the transactions whose body was told of a failure |
| `open`, `failed`, `pending`, `durable` | the server: the transaction in progress, whether it is aborted, its writes, what is committed |
| `lost`, `unheard` | the connection is gone, and the answers lost with it |
| `Execute`, `Prepared` | `query_with_params`, `execute_with_params`, `prepare_statement`, the prepared forms |
| `Collect`, `FetchOne`, `DropStmt` | the combinators that read a stream to its end, those that take its first row, and a dropped stream |
| `Transaction`, `BeginReturns`, `BodyReturns*`, `CommitReturns`, `RollbackReturns`, `Cancel` | `transaction` and `transaction_scoped`, split at their awaits |
| `DropTransaction` | the drop of the driver's `Transaction`: a ROLLBACK goes on the wire unless COMMIT or ROLLBACK did |
| `Serve*`, `Lose` | the server's process, and the loss of the connection |

A statement is two requests, its preparation and its execution. A failing one aborts the
transaction, a read possibly after its first row (`"late"`); an aborted transaction answers
COMMIT with success and rolls back. `MaySwallow` says whether a body may go on after an error or
drop a statement; `MayLose`, whether the connection may be lost. `ImplementsAtomic` maps the
session to the same abstract specification as SQLite's, where a caller who was told `Ok` after a
swallowed error, or an error after the answer of a COMMIT was lost, counts as one who gave up:
`OutcomeIsSound` says that these are the only two cases.

### CteCollect

The recursive `visit` of `collect_ctes` with its call stack as a variable: `stack` holds each
call's definition and the positions its loop has left; `OnPath` is the code's `on_path`;
`ordered` the list it builds. `SkipKept`, `FindCycle`, `Enter` and `Leave` are the branches of
`visit`. `ArmDone`, `Merge`, `MergeDone` are `collect_set_ctes` and `dedup_set_ctes`;
`SelectDone` a plain select; `MutationDone` an UPDATE or DELETE, which collects nothing.
`Retained` is `cte_dependencies`, in which a recursive definition leaves itself out. A
definition is its identity (`CteDef::type_key`); names are separate, so they can clash. The
input (references, names, recursive ones, arms, kind of statement) is chosen in `Init`.
`InScope` is what SQL lets a body see, given `render_with_prefix`'s WITH or WITH RECURSIVE.

### SourceAliases

A chain has a `depth`; two chains have the same SQL alias exactly if they have the same depth,
so aliases themselves are not needed. `closures` is the stack of closures being called, each
with its chain and its handle's `next_depth` (0 for the methods that pass no handle). `Start`
is `Subqueries::from`, `CallCorrelated` is `where_correlated`/`select_correlated`, `CallPlain`
every other method with a closure, `FinishSubquery` is `select_subquery`, and `Return` the end
of a closure, which embeds some finished subqueries into its chain and drops the rest.
`sees[c]` are the chains whose columns could be named while `c` was built, `within[c]` those
whose text contains `c`'s. `NoCapture`: whenever a column of `r` can be named in `x` and `x`'s
text is inside `r`'s, no SELECT from `x` up to `r` has `r`'s alias. The index of a joined
source is left out: it separates the sources of one FROM clause only.

The promise depends on which handle the caller uses, so the caller's `discipline` is a
constant of a behaviour: `innermost` (each subquery from the innermost handle, worked on where
it was started: the ordinary use), `single` (one outer handle for
everything: what the comment on `Subqueries` promises to be safe), and `captured` (any handle
in scope, which Rust allows). The first two are safe, the third is not: finding 2.

### Expressions and SelectChain

`Expressions` has one operator per AST of `expr.rs`. Its value is a record of two halves: what the
traits say (`term`, `columns`, `nonAggregate`, `nonWindow`, `params`, ...) and what the database
gets (`text` as a sequence of tokens, each a `Word`, a `TableToken`, a `ColumnToken` whose alias is
the place of its source in the chain, or a `Placeholder`; whether there is a column outside every aggregate, an
aggregate, a window, one in a place that takes none, and the CTEs `SubqueryCteSink` finds).
`Node` computes both halves from the operands by two different rules, the trait's and the
renderer's, and each AST whose impls deviate overrides its own. An expression adds its kind,
whether the kind decodes NULL, and whether SQL can make it NULL. `Can...` operators are bounds.

`SelectChain` builds a chain call by call. `...Link` operators are the impls of `SelectAst`: each
gives the associated types of a link from those of its base. `ValidSelect`, `DistinctOrderGate`,
`RowLockSelectValid`, `NoNamedWindow` are the checks of a final select; `LowerInto` and `SubquerySelect`
write the text in the order of the renderer, each clause flattened from its links; `DirectCtes` collects CTEs by the two walks of
`direct_ctes`. A call the bounds refuse is one that does not compile, so it is not an action. `rows`
is external, what SQL makes of a FROM clause: which sources an outer join has made optional.
`select_subquery` finishes a chain and lets the next one embed it.

### Views

`ViewModel` is the data (`ir.rs`): a node has a tag, attributes, operands in the order every walk
visits them, a result pin and a subquery; `MapExpr`, `MapSource`, `referenced_sources` and the
others are the walks. `ViewLower` is `IrBuilder` with its two stacks and `ModelSink`. `ViewCanonical` is
`canonicalize_view_clause_aliases` with its scopes, collision rules and pruning. `ViewRender` is
`render_view`; text is a sequence of tokens, with a refusal in it where the dialect has no form.
`ExprNormal` is `normalize_expr` and the fold of LIKE, with an evaluator in three-valued logic as
the reference. `Views` lets a deployment take the passes in any order, again and again.

`ViewServer` is the reference for names, and no code of the repository: which column or output
a server makes of each clause name, in each scope, for each dialect, as the comments of `ir.rs`
report it of the servers. `Truth` is what relations have; `Catalog`, what the pass is told.

### Mutations

`MutationRender` renders expressions, assignments, rows, conflicts and the statement forms of the
dialects with the code's counters of placeholders and run-time parameters, to one of three sinks
(text only, parameters only, prepared). An expression is the sequence of its tokens in postfix order,
the order in which the visitor is done with them, so rendering and evaluating are recursive functions over
a length. `Mutations` has an action for each builder method, from
`to::<T>()` and `from::<T>()` to the finalizers, then `Execute`, or `Prepare` and `ExecutePrepared`
with other arguments. `MutationServer` executes the rendered statement on a table with NOT NULL
and unique columns, external. `Meaning` reads only the log of the calls and says what the table
must become; `EffectIsMeaning` compares the two.

The assumptions on the constants are what Rust's types, or SQL, guarantee. A closure is handed handles
of the columns of its sources, the values of an insert none, and an expression starts with a leaf and has
no placeholder of its own (`MenusAreOfColumns`, `SourcesAreQueries`). A column list is a tuple of
different columns, at least one (`ListsAreOfColumns`). A RETURNING takes no runtime parameter, which
`ProjectionParams` forbids (`ProjectionsAreStatic`). Keys are sets of columns (`KeysAreListed`), and the
table at the start holds what its NOT NULL and unique constraints allow (`TablesAreConsistent`).

### Codecs

`WriteRow` binds a row with the backend's `Encode`, `Store` is what the column keeps, `ReadRow` reads
it with the reader's position and `Decode`; `ForeignWrite` lets another client write the
row instead. Widths, the base of PostgreSQL's numeric digits, the microseconds of a second and the
nanoseconds of a microsecond, and MySQL's TIMESTAMP range are constants. So are the rows. A `SystemTime`
has nanoseconds; `Encode` takes its distance from the epoch in whole microseconds (`as_micros`), so
before the epoch it truncates towards it. What the program writes is typed as Rust types it; what
another client writes is anything the column can hold (`Holds`): a numeric with any digits but leading
zeros, a fraction or NaN among them, a civil time within the range or MySQL's zero date, and the
program should see what the content means to SQL (`Meaning`). A conversion is compared with the
definition of what it computes, not with itself: numerics with sums of digits, days with years and
months added up.

## 4. What the runs check

| Run | Distinct states | Shows |
|---|---|---|
| `session` | 488,291 | all safety properties of the SQLite session and the refinement, under cancellation at every await |
| `session_live` | 194,966 | with SQLite's own rollbacks: abandoned transactions end, `Ok` is durable |
| `cte` | 367,273 | order, resolution, completeness, justified refusals, termination |
| `cte_mutation` | violation | finding 1 |
| `aliases` | 135,652 | no capture with the innermost handle or with a single one |
| `aliases_captured` | violation | finding 2 |
| `select` | 209,920 | what the SELECT builder accepts is SQL, and means what its types say |
| `pg` | 326,124 | isolation, honesty, refinement and the end of abandoned transactions on PostgreSQL |
| `pg_unseen` | violation | finding 3 |
| `views` | 66,882 | lowering, meaning, passes, dependencies, texts of views; truth of checks |
| `mutations` | 548,183 | a mutation does what its calls say |
| `codecs` | 3,923 | rows survive the way to the database and back |

**Session.** `IsolationInv`: while `t`'s transaction is in progress, the next closure the
worker runs is `t`'s: no later query joins, or sees, an abandoned transaction. `NoStraggler`:
a statement of a transaction never runs after its end, where it would commit on its own.
`AllOrNothing`, `OkMeansDurable`, `ErrorMeansNothing`: atomicity and honesty towards the
caller. `RollbackEndsOwn`: a rollback that ends something ends the transaction of the invocation it
was sent for; a guard behind its own COMMIT hits nothing. The exception is a caller cancelled before
the answer of a BEGIN that is refused (listed as a hazard): its guard is armed over a manual
transaction, and ends it. `AbandonedTransactionEnds` is the liveness side: whichever of COMMIT and
ROLLBACK fails, and whenever the caller goes, nothing stays open. `session_live` lets a failing statement roll back the
whole transaction, as SQLite may; `NoStraggler` and `AllOrNothing` are not claimed there, since what the
body does after such a rollback runs in autocommit mode.

**PostgreSQL.** `IsolationInv`: the next request served while a transaction is in progress is its
own, and a request of a transaction is never served outside it. `OutcomeIsSound`: `Ok` of a
transaction that is not durable, only if a statement of it had failed; an error of one that is,
only if the connection was lost after the COMMIT was served. `AbandonedTransactionEnds`: a
transaction whose future has ended does not stay open. `ImplementsAtomic`: the refinement.

**SELECT.** `GroupingIsSound`: without GROUP BY, a statement that aggregates has no bare column.
`PlacementIsSound`: aggregates and windows only where SQL takes them. `PlaceholdersFollowParams`: the
parameters of the type are the placeholders of the text, in order. `NullsDecoded`: what can be NULL
decodes into an `Option`, whatever joins came after the handle was taken.
`DistinctOrdersByProjected` holds in both directions: a sorted column of which nothing is projected is
refused, and what is projected is not refused because a join changed a kind. How far a kind tells
columns apart is part of the property (section 5). `LocksIdentifyRows`, `EveryCteCollected`, and `CallOrderIsFree`: two
neighbouring calls of different clauses can be swapped without a change of the types.

**Views.** `LoweringFaithful`: the lowered body is the query as written. `MeaningKept`: the server
makes of every name after canonicalization what it made of it before, with the one exception
`SortsByUnknown`, which is exact: where it holds the meaning does change (section 5). `PassesSettle`: passes commute,
are idempotent and reach everything. `ChecksKeepMeaning`: a normalized check has the same truth value
in each row, NULL included. `DependenciesCompleteButHidden`: what the server reads is in
`referenced_sources`, except for a name that a WITH hides (section 5). `TextIsUnambiguous`: two
bodies with one text differ in nothing the server could see. `RecursionIsNotHidden`: an arm that
recurses is not wrapped in a derived table on SQLite.

**Mutations**, **Codecs.** `EffectIsMeaning` and `RowsSurvive`, described above.

**CTEs.** `DependenciesFirst` holds of the lists at every moment; `ReferencesResolve` and
`ClauseIsComplete` of the finished clause; `PanicIsJustified` of every refusal;
`CollectionEnds`.

**Aliases.** `NoCapture`, described above.

**Bounds.** *Session:* two transaction invocations, two statements (one in `session_live`), one
call of transaction control through `execute_batch` (`MaxManual`). A violation of isolation
needs one transaction and one later call; two transactions, statements before, inside and
after, and a manual BEGIN give every such pair, with every place of the cancellation. The
channel is not bounded: an invocation sends at most three control calls (BEGIN, COMMIT or
ROLLBACK, the guard's) and a statement is submitted once, so it is finite.
*CTEs:* every graph of three definitions with up to two references each (self-references, two
of the same, cycles of one to three, diamonds over two arms), names all different or two
equal, three choices of recursive definitions, plain selects and two-armed set operations. The
shortest collisions, cycles and diamonds need two or three definitions. *Aliases:* five chains:
the root, nesting to depth four, or siblings with nested children; the counterexample of
`captured` needs four. Chains other than the root are symmetric, and so are transactions and
statements; no property names one of them. The liveness runs use no symmetry.
*PostgreSQL:* two transactions, one write and one read, each run at most once: an abandoned
transaction with requests under way, and a later user of either kind.
*SELECT:* a program draws its calls from one of thirteen groups of methods that interact, with two
calls after `from` (three where joins, order and DISTINCT meet), one before a subquery
is finished (`MaxSubCalls`), three sources (`MaxSources`), and each expression form as operand and
projection. Interactions of more clauses than a group has are not explored.
*Views:* bodies with one clause term over one or two relations (each known to the catalog or not), with every wrapping; typed
queries with windows inside windows; checks of a test around a test around a comparison, over
all rows of two columns with NULL, 0 and 1; texts of operators two deep; `MaxPasses` = 2 different
passes, each as often as wanted: commutation is a matter of pairs.
*Mutations:* builder calls before the filter bounded by stage (`MaxCalls`: 3 to 5), two rows
(`MaxRows`), two setters of different columns (`MaxSetters`), two runs of a prepared statement
(`MaxRuns`), two types over a table of two rows, integers up to `I64Max` = 3 so that encoding can fail.
That is 548,183 states; the theorem has none of these bounds.
*Codecs:* widths of 2 to 6 bits for 8 to 128, digits in base 3, two microseconds a second of three
nanoseconds each, with every value of each type, and instants at the edges of days, leap days, years and the range.

**Deadlock** is not checked where the system may stop: a session nobody calls, a collection that
is done, a finished statement, a row that was read. It is checked in `views`, where a pass can
always be repeated. In `SourceAliases` it is checked: a closure can always return, and
the root's can always be called again.

**Fairness.** `session_live` assumes `WF(Worker)`, since the thread loops over its channel, and
`WF(Resume(t))`, since an executor polls a future that was woken. Nothing obliges a body to
end, a statement to be submitted or a caller not to cancel; the properties do not need it.
`CollectionEnds` assumes `WF(Next)` of a sequential function, which just keeps running. `pg` assumes
`WF(Server)`, since a server goes on serving what it has received, and `WF(Resume(t))` as above; the
connection may be lost at any time and need not be.

**Mutants.** For each property of each passing run `PROJECT.json` names a plausible slip in the
code, written as a `Variant` next to the definition it replaces (no drop guard, a guard that
jumps the queue, `finalize` before the `?`, swapped COMMIT and ROLLBACK, deduplication by name,
a merge without the name check, a handle that does not advance, ...), under which TLC finds
that property violated.

## 5. Findings

1. **UPDATE and DELETE refer to CTEs they do not define** (`cte_mutation`,
   `squealy-core/src/render.rs` 1654, 1400): a subquery over a CTE is accepted in their
   predicates, and no WITH prefix is written.
2. **A captured outer handle hands out a depth the inner one also does** (`aliases_captured`,
   `squealy-core/src/query.rs` 5330), so that a correlation predicate compares a table with
   itself; the comment at 5295 promises otherwise.
3. **`fetch_one` hides an error that undoes the transaction** (`pg_unseen`,
   `squealy-core/src/query.rs` 3857): the stream is dropped after its first row, an error behind it
   aborts the transaction on the server, COMMIT then rolls back without an error, and
   `transaction` returns `Ok` to a body that awaited everything and returned every error it saw.

Exceptions met while modelling. Each is a condition or a constant of a module, named there, and a
run without it would fail; they are listed so that nobody takes the properties for more.

- *Types that forget NULL* (`ArithmeticOverNulls`): arithmetic over an operand that may be NULL
  decodes into a plain value (`expr.rs` 4946, and 4681, which says such kinds are non-null).
- *A window in HAVING* (`WindowInHaving`): `row_number().over(..).in_subquery(..)` is accepted in
  HAVING (`expr.rs` 4194), which `tests/compile_fail/window_rejected_in_having.rs` rules out for
  comparisons.
- *Kinds stand for columns*: "For a bare column this is exact" (`query.rs` 8161) does not hold. Two
  sources of one table have columns of one kind, and LAG of an `Option` has the kind of its column, so
  DISTINCT accepts an ORDER BY of `a.id` beside a projected `b.id` of a self-join, which
  PostgreSQL refuses (`list.rs` 107, 112). Two projected elements of one kind leave the witness ambiguous, so a
  self-join that projects both and sorts by one does not compile, although it is right.
  `DistinctOrdersByProjected` names both (`PassesFor`).
- *A source unknown to the catalog*: "Every rewrite is semantically equivalent to the original" and "an
  unresolved source leaves a clause name unchanged" (`ir.rs` 1464-1467), but `ORDER BY id` over a projected
  `p.id AS id` of an unknown source is rebound to the `q.id` of a known one it is joined with
  (`ir.rs` 1968, 2035). It is the exception `SortsByUnknown` of `MeaningKept`.
- *A `SystemTime` loses what it has below a microsecond* on MySQL (`squealy-mysql/src/query.rs` 521-526), as
  the comment at 401 says of all its datetime types; before the epoch such a part would be truncated
  towards it, but the range check refuses those instants. `RowsSurvive` expects the instant back at
  its microsecond (`Resolved`).
- *Names a WITH hides*: a relation with the name of a later CTE, or of the CTE itself, is dropped
  from the dependencies although PostgreSQL and MySQL read it (`ir.rs` 2751-2788, whose comment
  assumes SQLite's scoping). It is an exception of `DependenciesCompleteButHidden`.
- *Small integers on PostgreSQL*: `i8`, `u8` and `u16` are bound as one column type and read as
  another (`squealy-postgresql/src/query.rs` 171), so no column can be both written and read.
  `RowsSurvive` expects an error for them.
- *MySQL assigns from left to right* (`render.rs` 1460): an UPDATE that reads a column it assigned
  before sees the new value there, unlike on the others. It is an exception of `EffectIsMeaning`.
- *A body that fails after SQLite rolled back by itself* keeps what it did later in autocommit
  mode (`squealy-sqlite/src/lib.rs` 214; the test at `squealy-sqlite/tests/integration.rs` 347 says
  such a transaction "is rolled back"); and the drop guard also fires after a COMMIT or ROLLBACK
  that failed, not "only on cancellation" (`squealy-sqlite/src/query.rs` 492), which it has to.
- *Builder calls that vanish*: `.row(..)` before `.set(..)` and a filter before `.insert()` are dropped
  without a word. `Meaning` reads the log the same way.

## 6. What is proved

All proofs are for arbitrary constants, under the named assumptions of the modules only
(as `ConstantsAreDistinct`, `ConstantsAreTyped`, `MenusAreOfColumns`), which TLC evaluates on each run. No bound of
the runs appears in them.

**SqliteSession_proofs**: `TypeCorrect`, `Isolation` (`Spec => []IsolationInv`), `Stragglers`
(`Spec => []NoStraggler` when no failing statement ends a transaction). Isolation is not
inductive: whether the next closure belongs to the open transaction depends on what is already
in the channel. The inductive invariant `IInv` describes the channel. `Handover`: a call of
`t` is followed by somebody else's only if it is final (a guard's ROLLBACK, a COMMIT or
ROLLBACK answered `ok`, a refused BEGIN). `Contiguous`: the calls of an invocation form one
block that starts with its BEGIN. `AfterBegin`: a statement follows a BEGIN that succeeded, or
another statement. `HolderInv`: the last call sent is the holder's, and is the one its phase
says. `Released`: when nobody holds the connection the last call is final. `EngineInv`: an open
transaction is that of the last call served, which was not final. So the next call is by the
same invocation. `StillOpen` adds the converse for `Stragglers`.

Its second half has `Atomicity`, `Durability`, `Refusal` and `Rollbacks` (`AllOrNothing`,
`OkMeansDurable`, `ErrorMeansNothing`, `RollbackEndsOwn`). They speak of what was written, which the
channel alone does not determine, so `IInv` is strengthened twice. `ScriptInv` is the script every
invocation follows: its BEGIN first (`BodyFirst`), each statement sent once (`EachOnce`), no call
after an answer that ended it (`Progress`, `BegunFirst`), and an outcome only from the answer it was
read from (`ToldTruth`). `LedgerInv` is what the engine keeps: what is pending in `t`'s transaction
are exactly the statements of `t` that succeeded since its BEGIN (`PendingOwned`), what is durable
belongs to a transaction that committed or to none (`DurableOwned`), every effect is one of a served
statement, and while a manual transaction is in progress an invocation is answered nothing but the
refusal of its BEGIN (`ManualOutside`), which gives the exception of `Rollbacks`. `Durability` and
`Rollbacks` hold without any assumption. `Atomicity` and `Refusal` assume `~AutoRollback`: after a
rollback by SQLite itself, the rest of a body runs in autocommit mode, and both are false (section 5,
and the run `session_live` does not claim the first). Last, `Refinement` (`Spec => ImplementsAtomic`,
with the same assumption). Only steps of the worker change the mapped state, one lemma for each.

**PostgresSession_proofs**: `TypeCorrect`, `Isolation`, `Outcomes` (`OutcomeIsSound`), `Honesty`. The
requests on the wire form a chain: each needs the transaction that the one before it leaves open
(`ChainInv`), and the last leaves the one whose body may still run (`EndInv`), which is why a request
sent later by somebody else finds none. `ClientInv` says what a request that was sent tells of its sender
and what an outcome tells of an answer; `LedgerInv`, what open, failed, pending and durable say
of the answers given. `Honesty` is about finding 3. It proves `OkMeansDurable`, which the run
`pg_unseen` violates, for a body that swallows no error it sees (`~MaySwallow`) on a server
where a read does not fail after its first row (`~MayFailLate`). So the error that `fetch_one` leaves
unread is the only way in which such a body is deceived: not a cancellation, not a lost connection,
not a pipeline of requests. It is not the `property` of a listed run, since the only run about
it is the one that violates it. `Refinement` needs no assumption.

**CteCollect_proofs**: `TypeCorrect`, `Order`, `Resolution`, `Completeness`, `Refusals`, for any
reference graph. The invariant says that the path has no repetition and is disjoint from what
is kept (`PathInv`), that what each call's loop has passed is kept or is the call above it
(`FramesInv`), that every list is closed towards its front and has one entry per name
(`ListsInv`), that everything on the path or kept is reachable from the query and each entry of
the path from those below it (`ReachInv`, which makes a cycle's panic justified), and that
finished arms are collected (`RootsInv`). Reachability is defined as the least closed set, so
no induction over paths is needed: `ReachableStart`, `ReachableStep` and `ReachableLeast` are
its three facts.

**SourceAliases_proofs**: `TypeCorrect` and `Aliases`: `NoCapture` for any number and nesting of
subqueries, assuming only that `captured` is not among the disciplines. `NestingInv` says that
closures, scopes and texts nest. For `innermost`, a chain is deeper than every chain it sees
and shallower than the next depth of its innermost handle (`InnermostInv`). For `single`, the
handle only grows within one closure of the root, so the chains of the present closure have
different depths, all above the root's (`SingleInv`).

**SelectChain_proofs**: `Grouping`, `Placement`, `Nulls` and `Locks` (`GroupingIsSound`,
`PlacementIsSound`, `NullsDecoded`, `LocksIdentifyRows`), for any tables, menus of methods and number of
calls. The argument has two parts. What the traits say of an expression is true of its text
(`Sound`: no bare column in an "aggregate" or a free term, no aggregate in a "column", no window in
what has `ExprColumns`, nothing misplaced), and it decodes NULL where it can be NULL (`Decodes`);
each constructor of `Expressions` keeps both whatever its operands, one lemma for each. What the
associated types of a chain say of its links is true: the bounds each argument met (`LinksInv`), the
class of its ORDER BY (`OrderInv`), its grouping state, wherever in the chain GROUP BY and HAVING were
called (`GroupInv`), its flags (`FlagsInv`), and which sources are optional, for handles taken before
the join that made them so (`RowsInv`). Every call keeps that, in any order, and so does finishing
a subquery. The final select compares the two (`StatementInv`). `Placement` assumes `~WindowInHaving`
and `Nulls` assumes `~ArithmeticOverNulls`, the two holes in the bounds that section 5 lists; the other
two need no assumption.

`CallOrder` (`CallOrderIsFree`): two neighbouring builder calls of different clauses, joins excepted,
can be swapped without any effect on the chain's types. The property replays the chain's links from
its `from`. That a replay exists, is unique and depends on the first links only is an induction over
their number; `ReplayInv` says that a chain is its own replay, calls of different clauses commute
(`CallsCommute`), and calls after them keep what they agree on (`SwapKeepsTypes`).

**Flattening_proofs**: what the flattening of a sequence of sequences contains, that it commutes with
appending and concatenating, and which elements of a sequence are in a set, in order. The induction over the length goes through the least number of a set
(`NatLessThanWellFounded` and `WFMin`), since the induction rules of the library take an operator as a
parameter.

**The text of a SELECT**, in the second part of `SelectChain_proofs`: `Parameters` and `CtesAreCollected` (`PlaceholdersFollowParams`,
`EveryCteCollected`), under `NamesMeanOne`: a name means one source of a program. Both are facts about a
text, and a text is put together from texts. `Rendered` says them of any record with a text,
parameters and CTEs: the placeholders of the text are the parameters, in order, and the CTEs are those
whose names are in the text. Each constructor of `Expressions` keeps it, although the types concatenate
by one rule and the renderer visits by another. For a chain, `TextInv` says that each list of
parameters that the types keep is that of its clause's text; the statement is its clauses in the
renderer's order, so its placeholders are those lists in that order. `TextsInv` adds the subquery that
the next chain may embed, and what is finished.

Last comes `DistinctOrder` (`DistinctOrdersByProjected`), without an assumption, self-joins included.
The gate compares kinds, the Rust types of sort keys and projected expressions; the property is about
text. `KindPasses` says that an element with the kind of a column, or its nullable form, passes for
that column: it is a column of the same table and name, or LAG of one (`LagKind`, `LagText`,
`ColumnsMeet`), since every other expression has a kind of its own. So a key taken before an outer
join still matches the column projected after it. `GateFinds` and `GateHolds` are the two directions:
a select that passes sorts by columns that an element passes for, and one whose keys are columns it
projects passes, if no second element passes for one of them. `SortInv` carries what they need of
sources, sort keys, the embedded subquery and the finished statement.

**Codecs_proofs**: `Survival` (`RowsSurvive`), for all widths, bases, ranges and rows. The steps are
three; the proof is about what the definitions compute. `Power`, `WriteDigits`, `ReadNumeric`,
`NumericValue`, `DaysBefore` and `ReadColumns` are functions by recursion, which TLA+ chooses among
those that satisfy their equation; `RecursionExists` and `PartsExist` say that there is one, and an
induction on the naturals (`Induction`) what it computes. Of reading a numeric: up to each digit the
checked sum is an error if and only if a fraction digit was met or the true sum is beyond `u128`, and
otherwise is that sum (`Tracks`). That no power of the base overflows before the sum does needs the
leading digit, which is not zero since PostgreSQL strips leading zeros (`TotalsGrow`). So a numeric is read as the integer it means, or refused when it means
none or one beyond every type (`ReadIsValue`), and writing is undone by reading (`NumericSurvives`). Of the
calendar: the source's era arithmetic counts the days that the lengths of years and months add up to
(`DaysFromCivilIs`), and its inverse is one (`CivilFromDaysIs`), for all days from 1970 on. Then a cell is
what it was or an error, per backend (`WrittenCellIs`, `ForeignCellIs`), and a row is its cells up to
the first error (`ReadColumnsIs`). The assumptions are those of `Codecs`: widths grow, and rows have their
types.

**Mutations_proofs**: `EffectIsWhatIsMeant` (`EffectIsMeaning`), for all tables, types, menus of
expressions, sources, projections and arguments that meet the assumptions above, and all bounds. The
property compares the table with a log of calls, and between them lie the builder, the query object, the
text, the binds and the server, so it is not inductive: `IInv` says of each what it has of the one before.

- `TheBuilder`: at every stage the builder holds what the log says (`BuilderIs`), although a setter
  appends, `set` and `on_conflict` drop what came before them and some filters stay behind. Each runtime
  parameter is written at a place of its own (`Apart`), so the arguments, taken by their number, are
  those of the places.
- `TheQuery`: the query object is the one that the log says (`QueryIs`).
- `ThePrepared`: a prepared statement is what rendering that query gives.
- `TheTable`: before the first execution the table is one of the constants', so it meets its
  constraints (`TablesAreConsistent`). Without this a MySQL upsert could meet two rows of one key.
- `TheOutcome`: the last execution did what the query says (`Effect`); `EffectIsMeant` takes that to
  what the calls mean.

Most of the proof is about one execution. The renderer's counters number the placeholders without a gap
and keep one bind for each, in the order of the text, over assignments before filters or filters before
assignments (`Carries`). Given parameters that fit the binds, the text of an expression is worth what the
expression is worth (`Means`): a placeholder is its literal or argument, a name its handle, and what is
written for an empty `IN` has its value, NULL included. Hence each list of a
statement stands for a list of the query, in each of the six statement kinds (`Stands`, `IsWritten`). The text
and the parameters of an execution come from two walks, and both succeed or the statement never reaches the
server. The server resolves each name and finds each parameter, so it takes the statement
(`UpdateIsTaken`, `DeleteIsTaken`, `InsertTextsAreTaken`, `ConflictTaken`) and runs what the query says
(`QueryRuns`). For MySQL that needs that no assignment reads a column assigned before it
(`OrderKept`), the exception that the property names.

The invariants were model-checked before they were proved: `IInv` of `SelectChain` also with both
holes open, the invariant of `Honesty` on two instances of its own, `CodecInv` on the run's.

**Only model-checked:** the seven properties of `Views` (`LoweringFaithful`, `MeaningKept`,
`PassesSettle`, `ChecksKeepMeaning`, `DependenciesCompleteButHidden`, `TextIsUnambiguous`,
`RecursionIsNotHidden`), whose modules walk trees with recursive operators: the prover has no SMT in
them, and what such a walk computes needs an induction over trees that it cannot instantiate. And
everything temporal (`AbandonedTransactionEnds`, `CollectionEnds`), since liveness
under fairness and ENABLED are out of its reach.

## 7. What is not modelled, and why

- Two `SqliteConnection`s over clones of one driver handle, and a leaked transaction future
  (`mem::forget`): nothing in the code guards against either.
- `execute_batch` with several statements: one statement or one control statement per call.
- In the sessions, reads as values: what a reader sees is the state at its place in the order,
  which `IsolationInv` fixes. A statement is what it writes, and whether and when it fails.
- `SqliteRows` and `MysqlRows`, which hand out rows that are already buffered, and affected counts.
- The MySQL session: one statement at a time under a mutex, without transactions.
- The SQLite DDL: one sequential validation of a fixed schema; its hazard is listed.
- The text of SELECT statements beyond the order of their tokens; quoting, layout, LIMIT forms;
  the rendering of set operations outside views.
- Correlated subqueries inside the filters of a mutation, and repeated setters of one column.
- Codecs of strings, bytes, booleans, floats and of the types of optional crates: the drivers do
  them.
- Reading a deployed schema back from a server is not in this repository; `Views` takes what the
  passes of `ir.rs` are given.
- Most of the derive macros, and the type-level list arithmetic: rustc checks them. The test
  backend renders by the modelled renderer and executes nothing.
