# A TLA+ verification of gopgql

gopgql compiles a GraphQL SDL to PostgreSQL 19 tables and a SQL/PGQ property
graph, keeps the database up to date with a directory of goose migrations, and
compiles GraphQL operations to a single graph query each.  This directory holds
TLA+ specifications of the program, TLC configurations that check them on small
instances, and TLAPS proofs of the theorems that should hold for any instance.

Every definition is translated from the Go source; `PROJECT.json` names, for each
of them, the file and the lines it stands for.

    tlc -workers 2 -config MCGenerations.cfg MCGenerations
    tlc -workers 2 -config MCService.cfg MCService
    tlapm MigrationDirectory_proofs.tla
    tlapm Generations_proofs.tla
    tlapm FoldMirror_proofs.tla
    tlapm Folding_proofs.tla
    tlapm ReadBack_proofs.tla
    tlapm Conformance_proofs.tla
    tlapm CheckRun_proofs.tla
    tlapm CallRun_proofs.tla

The system has two halves that meet only in the schema: *migrations*, which bring
a database to what a document says over a long history, and *service*, which takes
one document and answers questions about it.

## 1. The system

| component | state it keeps | operations | models |
|---|---|---|---|
| migration directory and generation (`migrate/migrate.go`, `fold.go`) | the files on disk, in version order; nothing else: the prior schema is always folded from them | `Generate` = read, check the half flags against the history, fold, check ownership of tables, plan, write file by file | `MigrationDirectory`, `Generations` |
| migration apply (`cmd/gopgql/main.go`, over goga/migrate and goose) | `goose_db_version`, a session advisory lock, the database | `apply` = collect files, take the lock, list what is pending, one transaction per file | `MigrationDirectory` |
| tables differ and renames (`migrate/diff.go`, `rename.go`) | none | `DeltaTables`: strip unowned tables, classify, plan and apply renames, diff, render Up and Down | `SchemaDelta` |
| fold (`migrate/fold.go`, `internal/ddl/parser.go`) | a `folder`: columns, constraints, indexes, graph | one method per statement, then `build` | `SchemaFold` |
| schema model and rendering (`schema`, `generator`) | none | `BuildWith` and its validations, the DDL of each object, the constraint naming rules | `GraphModel` (the graph), `Generator` (its way to the database), `SchemaModel` (statements) |
| SDL mapping (`sdl`) | none | `ParseSources`: the mapping model of a document, and what it refuses | `Sdl` |
| query and mutation compiler (`compiler`) | none | `CompileQuery`: fragments, isomorphism guards, joins, two shaping strategies; `CompileMutation` | `QueryCompiler`, `Operations`; its SQL means `GraphTable`, a query `Answers`, a call `CallRun` |
| shaping (`shape`) | none | group flat rows into a document; decode the one PostgreSQL shaped; the canonical form of a leaf | `Shape` |
| execution (`exec`) | a cursor for each statement | run a query or a call through a handle, read it to its end | `Execution` |
| conformance (`conform`) | none | reflect the graph in the catalogs in three statements, compare it with a document's | `Conformance`, `CheckRun` |
| MCP server (`mcp`) | none between calls | route an operation: introspect, refuse, or rewrite, compile, run and restore `__typename` | `McpServer` |
| typed client, DDL lexer, playground, telemetry | none | text in, text out | not modelled |

The components meet in few places.  `generate` calls fold, differ and rendering
on the files of one directory and leaves new files behind; `migrate` runs
elsewhere, usually in every replica at start-up, and sees nothing of the
generator but those files.  The compiler sees only the document; execution sees
only compiled SQL and rows; shaping sees rows and the tree they were asked for
with.  Nothing but naming rules makes the graph in the database, which the
generator built, the graph the compiler reads and the check compares.

**What is hard about it.**

* A *generation* is up to three files (`graph_down`, `tables`, `graph`), written
  one by one and applied one by one, each in a transaction of its own.  It can
  stop after any of them: a generator that dies, a full disk, a migrator that
  dies, a migration PostgreSQL refuses, an operator's `goose down`, an SDL that
  changed before the rest was written.
* PostgreSQL refuses to drop or retype a column while a property graph exposes
  it, so a tables file must never meet a live graph over what it takes away -
  in either direction, at any point of any history.
* The only memory is the text of earlier migrations.  What the fold does not get
  back exactly is wrong in every later generation: an ALTER for a table that is
  not so, or a directory that cannot be read at all.
* The halves can be switched off (`--no-tables`, `--no-graph`); a directory
  without a graph folds to tables with no roles, and tables gopgql does not own
  leave no trace in the history other than a name in the graph.
* Renames move tables and columns, and PostgreSQL leaves constraints and indexes
  under their old names, which the differ must know to drop and the fold must
  know to follow.
* Several migrators race for the advisory lock, each with its own idea of which
  files exist.
* A label may be on several tables and a table under several labels, through
  interfaces, shared relationships and self-references.  What the compiler
  guesses from the document (which tables a position may be, where two positions
  could bind one row) must be what PostgreSQL finds in its catalogs.
* Sibling relationships split a query into fragments that are joined again, flat
  on the Go side, nested on the SQL side.  A row reached twice must appear twice
  or once exactly as GraphQL has it, an absent branch must not swallow its parent.
* `Reflect` reads the catalogs in three statements without a snapshot, while
  migrations and operators go on; its report must still be about some graph that
  was there.
* A statement can fail before, among and after its rows, and a driver may hand out
  a cursor for one that has failed already.  A prefix of the rows looks like an
  answer, and a missing column list like a wrong one.

**What makes each part correct.**

* Directory and apply: no migration is ever refused, up or down; a generation
  that reports success leaves a directory that folds to the SDL; the database is
  at all times at a state of the directory's one history; when edits cease, it
  gets what the SDL describes.
* Differ and fold: what is emitted applies, reverts, and reads back as exactly
  what the database has; a second run writes nothing; the database of a long
  history is the database of a fresh one; foreign tables are never mentioned.
* Mapping and graph: no relationship a document declares is lost or turned; what
  the generator accepts PostgreSQL accepts; what it builds is what a check expects.
* Compiler and shaping: an answer is what the tables say the document's query
  means, the same for either strategy, directly or through the MCP server.
* Calls: a function sees of its parameters what was passed, defaulted or left out.
* Execution: a part of an answer is never returned as the answer; a failure below
  reaches the caller as what it is.
* Conformance: a clean report is true, a graph just made has a clean report.
* MCP server: what introspection shows is what compiles.

## 2. The modules

    VersionedSchema          the abstract promise: one history, one position in it
      ^ implemented by
    MigrationDirectory       generate, migrate, crashes, replicas   -> MCMigrationDirectory
      + MigrationDirectory_proofs

    SchemaModel              schemas, statements, constraint names
      ^            ^              ^
    SchemaDelta  SchemaFold   Catalog (PostgreSQL, external)
      \____________|____________/
               Generations      histories of statements             -> MCGenerations
      + Generations_proofs, FoldMirror_proofs, Folding_proofs, ReadBack_proofs

    Sdl                          documents and what is refused
      ^                  ^
    GraphModel         Operations        operations, mutations
      ^        ^         ^       ^
    Generator  |  QueryCompiler  |       queries
      ^        |         ^       |
      ^        |    GraphTable   |       SQL (PostgreSQL, external)
    Requests   |         ^       |
      ^    ^   |       Shape     |       Execution
      |    |   |       ^    ^    |        |
      |  Conformance   |    |    |        |
      |    + _proofs   |    |    |        |
      |    |           | Answers |        |   what a query means
      |  CheckRun    McpServer   CallRun__|
      |  + _proofs     |         + _proofs
      \____\___________\______________/
                    Service                                         -> MCService

A module that is proved about reaches no RECURSIVE operator, which is why calls and
checks are modules of their own beside the queries, whose trees need them.

### VersionedSchema

What a migration directory promises a database: a log of schema states that is
only extended, and a database that stands at one entry of it and moves one entry
forward or back.  No crash, no lock, no half generation is visible here.

### MigrationDirectory

The control of `Generate` and of `apply`, with the tables half of a schema as one
opaque value.  A file is `[half, from, to]`, as a migration is rendered from both
ends.  `dir` is the directory; `fold[i+1]` is what `FoldContent` returns for its
first `i` files; `gen` is the running generator with what is left of its plan;
`db`, `at` are the database and its version; `pc`, `last`, `next`, `lock` are
the migrators; `desired` is the SDL.

| action | code |
|---|---|
| `StartGenerate(h)` | `Generate` up to the write loop: `OwnershipOf`, `Ownership.check`, `FoldContent`, `Plan` |
| `WriteFile` | one `os.WriteFile` |
| `CrashGenerate` | the process dies, or `WriteFile` returns an error |
| `StartApply(m)` | `apply` collects the files of the directory |
| `TakeLock(m)` | goose's session lock, then its one reading of the version table |
| `ApplyFile(m)` | one migration in its transaction, or its refusal |
| `FinishApply(m)`, `CrashApply(m)` | the run ends, well or not; the session and with it the lock go |
| `GooseDown` | an operator undoes the last applied file |
| `EditSchema` | the SDL changes, whenever it likes |

`Accepts` is PostgreSQL: a tables file is refused on other tables than it was
made for, and under a live graph that does not expose the result; a graph can be
created once, over tables that have what it exposes; a drop says IF EXISTS.
`Shape[t]` is what a graph over the tables `t` exposes, so two states of the
tables may or may not differ in the graph's eyes.  `Foreign` are tables somebody
else keeps (`elsewhere`), `Bare` is what the differ finds when a folded graph
names tables no migration creates.

Assumed: one generator at a time; an operator's `goose down` only while no
migrator holds the lock; the CLI refuses both flags together; the operator uses
`--no-tables` exactly where somebody else owns the tables (`Sensible`), unless
`SwitchTablesOn`.  The tables diff is taken to be right, which is the subject of
`Generations` - with the exceptions the violation runs show.

### SchemaModel, SchemaDelta, SchemaFold, Catalog

`SchemaModel` has the schemas (tables with columns, natural key, checks, graph
properties and rename hints; edges with two references; indexes), the statements
as records, and the naming rules.  A constraint name is structured where the code
has a string, so the coincidences of concatenation are outside the model
(`a`, `b_c` against `a_b`, `c`; and a name read relative to another table whose
name is its prefix).

`SchemaDelta` is `DeltaTables`: `WithoutUnmanaged`, `ClassifyLike`, `PlanRenames`
(by `PriorTable` and `PriorColumn`, what a hint leads to), `Moved`/`Stale`/`WithoutStale`
(the three things `applyRenames` does), `DiffSchemas`, and the two renderings, in the
order the code renders.  `Moved` does all renames of a plan at once, where the code
goes from one to the next: no name is both an old and a new one, so the order does
not matter (this is proved, `RenamesNeverCollide`).  Where the order of two statements of one kind cannot matter they are
taken from a set (`Listed`); tables are dropped and created in name order
(`InOrder`), since there it can.  What goes through a sequence is a recursive function
(`InOrder`, `FoldSection`, `Run`), which the provers can reason about.

`SchemaFold` is the `folder`: each statement applied, and `Build`/`BuildTablesOnly`.
A statement the reader rejects, or a constraint it cannot place, sets `ok` to FALSE.

`Catalog` is PostgreSQL: when a DDL statement is accepted and what it does to
tables, constraints, indexes and the graph, with a migration section in one
transaction.  It is external; its rules are PostgreSQL's, of the statements gopgql
writes only.

### Generations

Composes the four: any SDL of a *family* may follow any other; `Generate` folds,
checks (`ManagementUnchanged`, `MissingTables`) and plans; `WriteFile` writes a
file, folds it back and applies it; `Crash` ends a generation half way.  A file is
applied as it is written: `MigrationDirectory` shows that when it is applied does
not matter, only the order.

### Sdl, GraphModel and Generator

A document is what gqlparser hands over: types with fields and the arguments of
their directives.  `Sdl` has the rules that make names of it (`Pluralize`,
`RootFieldOf`, `ColumnName`, `IdentityColumns`), the positions a query can select
(`TargetOf`: one for each `@node` type, one for each interface, with the labels and
tables it stands for), and `Accepted`, every validation of `ParseSources`.

`GraphModel` is `BuildWith` as far as the graph goes: `Vertices` with the labels
of their interfaces, `CollectEdges` (of two declarations of one table and label the
one the code's loops meet first, `Earlier`, makes the edge), `AliasEdges`, and `Generates`, which is
`validateInvariants`, `validateLabelAlignment` and `validateNothingDropped`.
`CatalogOf` is what `CREATE PROPERTY GRAPH` leaves in the catalogs;
`PostgresTakes` is when PostgreSQL takes the statement (external), by the rules the
generator's comments give: unique aliases, tables with the columns that are exposed,
the same properties wherever a label is, one type of a property in the whole graph,
a key for the rows of every element (its KEY clause or the primary key of its table),
and ends of edges that are vertices, with as many columns as these are identified by.
Left out: that PostgreSQL can compare the two columns, and which schemas exist.

`Generator` is the way from the one to the other: `ParseDocument`, `BuildGraph` and
`CreateGraph`, each of which may refuse.  `scene` is the document, with the tables
that are there already, the types of their columns and whether they have a primary key;
`stage` how far it has come.  A document of
functions alone has a graph without vertices, for which there is no statement
(`HasGraph`): it goes live with nothing in the catalogs.

`Requests` adds the `reply` to what is asked of a live graph, by the task of the scene.

### QueryCompiler, GraphTable, Shape, Answers

`QueryCompiler` has `CompilesQuery` (every refusal) and `CompileQuery`, which makes
of an operation the tree of its levels.  SQL text and aliases are read off that
tree: where a pattern splits (`Heads`), what a pattern binds (`PatternPositions`),
which pairs of positions are guarded (`IsomorphismGuards` within one pattern,
`OnGuards` across the split).

`GraphTable` is what the SQL the code emits for that tree means in PostgreSQL:
`Bindings` of a pattern, the guards, the LEFT JOINs of the fragments, the flat rows
with their ORDER BY, and for the SQL side the nested aggregates (`LevelRel`,
`ShapedRow`).  NULL compares as SQL has it.

`Shape` makes a document of either: `Group` (rows into buckets by the rendered key,
in the order they come) or `DecodeList`, each leaf brought to its canonical form
from what pgx scans or what `json_build_object` writes.  A leaf, a list or an object that
is an error makes the whole response one.  A list of JSON documents is cast to text as a
whole, which neither side can read as documents, so a `[JSON]` column cannot be selected;
no scene has one, and `AnswerIsRight` would not hold of it.  Nor has a scene a list field and
a relationship under one response key.

`Answers` is the abstract specification: what a query means by the document and the
rows alone.  It speaks of types, fields and rows, never of labels, patterns,
fragments or positions: the rows of a root, below each row the rows its relationship
reaches that are not among its ancestors, ordered by key, each leaf in its native
JSON form.

### McpServer

`Introspects`, `Queryable` and otherwise refusal; `StripTypenames` takes
`__typename` out of an operation and notes where it must reappear (with a surrogate
`id` where nothing else is selected), `ApplyTypenames` puts it back,
`RenderMarkdown` makes a table.  `Introspection` is what introspection says can be
asked.  A fragment is taken not to contain itself, as GraphQL has it: `selectedNames`
guards against one that does, the introspection executor's `collect` does not.

### Conformance and CheckRun

`ReflectLabels` and `ReflectElements` are the statements after `graphOID`, which read
what the catalogs have under the oid it found (`Found`: nothing, once the graph was
dropped, also if it was made again).  `ActualView`, `DesiredView`, `Align`, `Check`
follow the code.  `Align` is a *set* of alignments, since Go's map order decides which
of two tables of one bare name is kept.  `Conforms` is the abstract specification: the
same tables with the same labels and properties.  `Drifted` is what somebody else can
do to the graph with one ALTER.

`CheckRun` is a check beside others who alter the graph, on any document:

| action | code |
|---|---|
| `LookUp` | `graphOID`; without the graph, an error |
| `ReadLabels`, `ReadElements` | the two statements that follow it, outside any transaction |
| `CheckConformance` | `conform.Check` on what was read; its report is any of `PossibleReports` |
| `Alter` | somebody else alters the graph, drops it, or drops and makes it again, before the check or between its reads (external) |

`reflected` is what the check has read, `altered` counts what others did, and `held`
collects the states of the graph during the check, for the properties to speak of.

### Execution

One statement through one of four handles, with one action for each thing that can
happen to it: it fails to open, opens, a row arrives or does not scan, it breaks,
it ends.  `cursor` is what is left of it, `fault` what really went wrong, `outcome`
what the caller is told.

### Operations and CallRun

`Operations` has operations, their values (`BoundValue`: a variable, its default, or
nothing that can be bound) and `CompileMutation`, which makes the arguments of a call
of an operation, its variables and the defaults of the SDL.

`CallRun` takes a mutation through its life: `CompileCall`, `RunCall` (`exec.Call`
through a handle), the steps of `Execution` (`Statement`), `ReturnCall`.  A function
here returns the parameters it saw: those the call names, and its own defaults for
the rest (`Parameters`).

### Service

A *scene* (a document, tables, a request, a handle) goes its way:

| action | code |
|---|---|
| `Prepare` | `ParseDocument`, `BuildGraph`, `CreateGraph`, and the actions of `CheckRun` |
| `Call` | the actions of `CallRun`; `Statement` also carries a query |
| `Compile`, `RunQuery` | `CompileQuery`, `exec.Query` |
| `QueryTool` | the MCP server's `query` up to `exec.Query` |
| `Reply` | shaping, and what the MCP server makes of the response |

Each is an action of a component, with the variables of the others unchanged, or one
that ties queries to them.  The three reads of a check are actions of their own, so
that `Alter` comes between them.  A query reads a snapshot and is one step of
PostgreSQL; what interleaves is its failures.

Definitions marked `(wrong)` are what a plausible bug would make of their
neighbour.  No action uses them; they are substituted one at a time to see that a
property notices (`mutants` in `PROJECT.json`).

## 3. The runs

| run | configuration | instance | distinct states |
|---|---|---|---|
| `directory` | `MCMigrationDirectory.cfg` | 3 table states (two of one shape), 1 graph definition or none, 2 migrators, 2 edits, 1 crash, 1 down | 696,000 |
| `deployment` | `MCMigrationLiveness.cfg` | 2 table states, 2 definitions or none, 2 migrators, 1 edit, 1 crash, 1 down | 99,000 |
| `generations` | `MCGenerations.cfg` | five families (below), unbounded edits | 65,500 |
| `service` | `MCService.cfg` | 517 scenes of eight families (below) | 13,250 |

**`directory`** checks `TypeOK`, `ApplyNeverFails`, `GenerationReachesTheSchema`,
`OneHistory` (the refinement of `VersionedSchema`) and the inductive invariant
`IInv`.  Two edits are enough for a generation to be begun for one schema, cut
off, completed for a second and applied beside a third; the three table states
give a change the graph sees and one it does not; two migrators and one crash
give a waiting migrator whose idea of the directory is old, and a successor to
one that died in the middle.  The proofs remove these bounds.

**`deployment`** checks `EventuallyDeployed` (and `IInv` over two graph
definitions, so that a graph changes by its definition alone).  Fairness is weak
fairness of `Generate`, `WriteFile` and each migrator's `StartApply`, `TakeLock`,
`ApplyFile`, `FinishApply`: a deployment runs `generate` and `migrate` at every
start, and a started one goes on.  Nothing obliges the SDL to change, anybody to
crash or an operator to undo, and these are bounded.  Weak fairness of `TakeLock`
is enough: a holder's last file is fixed when it starts, so it lets go, and a
migrator that never gets the lock loses it again and again to others that apply the
same files.

**`generations`** checks, over statements: `TypeOK` (what is asked for and what the
directory stands for are schemas the differ can compare), `UpApplies`, `DownRestores` (the
Down section leads exactly back), `FoldReadsBack`, `FoldMirrorsTheTables`
and `FoldMirrorsTheConstraints` (reading the directory gives the database: tables,
columns, references and graph; indexes and constraint names), `NothingLeftToDo`,
`MigratedIsFresh`, `ForeignUntouched`.  The families:

| family | what changes | graph | crashes |
|---|---|---|---|
| `Fields` | one column with or without UNIQUE, DEFAULT, either of two CHECKs | with and without | 1 |
| `Keys` | a second column, a natural key and its columns, table checks, an index | with and without | 0 |
| `Tables` | vertex tables and edge tables come and go, with their indexes | with | 0 |
| `Renames` | a table and a column are renamed there and back, with key, checks, UNIQUE, index, edge on them | with and without | 1 |
| `Surfaced` | a table of somebody else, and an owned one that is also an edge to it | with | 1 |

Within a family each schema may follow each other, so every delta of the listed
kinds is met from every state a history can leave, the half-written ones included.
`Surfaced` keeps a table of somebody else in the SDL once it is there (`keeps`);
the run `released` shows what happens otherwise.

**`service`** checks the other half.  Its scenes come in families:

| family | scenes | aimed at |
|---|---|---|
| `CheckedDocuments` | 27 documents, each one or two careless edits away from a sound one, and one over six sets of tables that are not what it says | `TypeOK`, `RelationshipsConnect`, `PostgresTakesTheGraph`, `FreshGraphConforms` |
| `Drifts` | a self-referencing type, and tables of somebody else; one alteration before a check and one while it reads, of any kind | `CleanReportMeansConforming` |
| `QueryScenes` | 17 queries over two documents with interfaces, self-reference, sibling branches up to three levels, composite keys, a foreign edge table | `AnswerIsRight`, `PositionsKnowTheirTables` |
| `LeafQueries` | a leaf of each kind, as list or not, NULL and NaN | `AnswerIsRight` |
| `Handled` | a query through each handle, with each failure at each point | `AnswerIsWhole`, `SqlstatePreserved` |
| `Tools` | queries, introspection, mutations, unknown roots and formats, `__typename` anywhere | `AnswerIsRight`, `IntrospectionIsExact` |
| `CallScenes` | a call with three parameters and a VOID one; absent, null, literal and variable arguments, with and without defaults | `FunctionSeesWhatIsMeant`, `SqlstatePreserved` |
| `Graphless` | a document of functions alone, checked, queried and called | `CheckInv`, `FunctionSeesWhatIsMeant` |

| property | says |
|---|---|
| `TypeOK` | the stages, and what is there at each |
| `PositionsKnowTheirTables` | the tables the compiler takes a position for are those its labels match in the database |
| `RelationshipsConnect` | every declared relationship is an edge between its two types, the right way round |
| `PostgresTakesTheGraph` | over tables that are what the document says of them, CREATE PROPERTY GRAPH takes every graph the generator's validations let pass |
| `FreshGraphConforms` | a graph just made has no findings |
| `CheckInv` | what a running check has read is one state of the graph it looked up, or two with the one alteration between them, or nothing once that graph is gone |
| `CleanReportMeansConforming` | a clean report is true of some moment of the check, although its reads are no snapshot |
| `AnswerIsRight` | what compiles executes, and its response is what `Answers` says, by either strategy and through either door |
| `IntrospectionIsExact` | of all selections two levels deep, exactly those compile that introspection shows |
| `FunctionSeesWhatIsMeant` | each parameter has the value that was passed, declared or defaulted |
| `AnswerIsWhole` | an answer is all the rows, never those before a failure |
| `SqlstatePreserved` | a failure arrives as itself, of a call with its SQLSTATE |

*Bounds.*  Three rows of a type tell apart all the roles of a row in a pattern of
two overlapping positions (the same, another, an absent one); the edges have a loop,
a cycle of two, a row all follow and one that is employed by none; a sale is stored
twice.  Depth three is one more than the split and its rejoin need.  One alteration
before and one during a check meet every pair of its three reads; with two during
the check the property is false of the code as of any check without a snapshot, as
the first can hide what the second reveals.  A document, its queries and its rows
are fixed by the scene, so what is checked is what these scenes contain; they are
written to contain each way two positions, two fragments or two labels can meet.
Deadlock is not checked here, as a scene ends.

*Hypotheses.*  Some properties have a hypothesis on the document or the rows.  Each
is something the code neither refuses nor copes with:

* `LabelsTellRelationshipsApart`: one label and one table, or one label and two
  ends, are one relationship (without it: `lost_relationship`).
* `LabelsTellTypesApart`: no two types share a label of their own; with a shared
  one, a query for the first finds rows of the second.
* `InterfacesNameColumns`: an implementor stores an interface's field under the
  same column name, since `sdl` compares types and relationships but not columns.
* `KeysTellRowsApart`: the keys of the rows at one position differ, and no part is
  NULL.  Two implementors of one interface with equal keys are merged on the Go
  side and not on the SQL side.
* `MappedTablesFit`: a table the document maps rather than makes is there, with the
  columns it is said to have, of the types it is said to have, and with a primary key
  where no `@key` is declared.  Nothing looks, not even where an edge maps onto the
  table of another type of the same document.  Of a mapped edge the document gives no
  types, and the generator leaves them out of its check (`generator.go:866`), so that
  they agree with the rest of the graph is granted too; with tables of other types
  `service` has PostgreSQL refuse such a graph.
* `RowsAreIdentified`: `sdl` takes an `id` that is `@ignore`d, and then its table has no
  primary key, or one in a column of another name, where no edge finds it.
* `TablesAreNew`: an edge with `table:` and no keys may name the table of a vertex.  The
  aliases differ, so `validateInvariants` lets it pass, and the migration makes one
  table twice.
* `OneElementForEachTable`: a table is one element.  A foreign table that is both a
  vertex and an edge has one entry in a check's view, whose labels are pooled.
* `Comparable`: that, of the document's graph; no two tables of the database come to
  one name when `Align` renames them, an unqualified table of the document is found in
  the default schema, and an edge in the database has one label.  It is what the two
  sides of a check cannot tell.
* `FunctionIsAsDeclared`: the function has one parameter for each argument the document
  declares.  Only PostgreSQL looks, when it is called.
* `EveryLeafHasAForm`: the SQL side alone refuses a column whose type it has no
  canonical form for; introspection shows it for either.

*Assumptions.*  What the constants are asked to be, evaluated by TLC in every run
and used by the proofs: `AlphabetIsAList`, `SchemasAreSchemas` (None names no table,
a list of former names is a list), `SchemasAreMade` (what the generator makes of any SDL: a
surrogate key is not @unique as well, `sdl.go:1015`; a natural key has the name its table
gives it; an owned table has one role, `generator.go:799`; an index is on an owned table; an
edge table has its two columns), `GraphIsAFlag`, `ForeignIsMapped` (a schema that has a table of
somebody else says so) and `ForeignStandsAlone` (no such table references one of ours)
in the migrations; `PublicIsASchema` (the default schema has a name) and
`ArgumentsHaveValues` (gqlparser hands each argument over with a value) in the service;
those of `MigrationDirectory` are listed there.

### Where the code and its documentation differ

Eight runs check one property each that TLC finds violated by what the code does.

| run | what happens |
|---|---|
| `tables_switched_on` | SPEC.md says the first generation fixes the halves; only a half turned *off* later is refused.  A `--no-tables` directory gets a tables file when the flag is forgotten: its graph is folded into vertices without columns, so it adds every column to tables that have them, and PostgreSQL refuses it. |
| `released` | A `@readonly` type leaves the SDL: ownership is read from the desired schema only, so the folded vertex counts as dropped and the tables file says DROP TABLE on a table gopgql never owned. |
| `retyped` | The differ emits ALTER COLUMN ... TYPE, which the reader rejects: after one type change no later generation can read the directory. |
| `unique_renamed` | The drop of a renamed `@unique` column's stale constraint is read back under the column's old name, which is gone: again the directory cannot be read. |
| `check_renamed` | Down restores a stale CHECK, whose text speaks of the old column, before the column has its old name again: refused. |
| `dropped_together` | Without a graph, an edge that leaves the SDL is not known to be one; a type and an edge to it are dropped in name order, so possibly the referenced table first: refused. |
| `lost_relationship` | Two types declare different relationships under one label and one (default) table.  `collectEdges` keeps the first, `validateNothingDropped` looks for the second by label and table and finds the first: the graph is short of a relationship, silently. |
| `relabelled_edge` | `Reflect` keeps an edge's first label; somebody adds another, and the check reports a clean graph, which `reflect.go` says cannot happen. |

All eight are safety properties: each counterexample is a finite history, and no
fairness is involved.

Other places where a hypothesis or a family keeps clear of what the code does,
without a run of their own:

* `conform.go:226`: `align` renames two tables of one name in two schemas to one
  bare name; map order decides which is compared.
* `sqlshape.go:52`: a row whose `@key` is NULL is listed at the root by the SQL
  side and skipped by the Go side; `compiler.go:815`: a nullable key of one column
  compares with `<>`, which drops such rows from any guarded position.
* `mcp/query.go:305`: a selection of `__typename` alone is replaced by `id`, which a
  `@readonly` type with a `@key` need not have; the query is refused.
* `mcp/query.go:228`, `compiler.go:973`: fragments next to a root field are dropped
  without a word.
* `exec.go:117`: a nil handle is an error on the Go side and a panic on the SQL side.
* `shape/canonical.go:359`: for a driver that hands numerics over as text, any
  text is taken for a number that is not finite.
* `mcp/introspection.go:137`: a filter is shown for a list column as well, of the
  element's type; it compiles to a comparison of the array with one element.
* `diff.go:391`: an edge that keeps its label and leads to another type keeps its
  foreign key; `fold.go:380`: a rename together with a lost `@unique` leaves the
  fold with a constraint the database no longer has.  The families of
  `MCGenerations` have no such edits: with them `MigratedIsFresh` and
  `FoldMirrorsTheConstraints` fail.
* `rename.go:73`: two types that name one former table both plan its rename; the second
  is refused.  No family has such hints.

## 4. The proofs

`MigrationDirectory_proofs` proves, for every set of table states, shapes, graph
definitions and migrators and for every bound, under the assumptions named in
`MigrationDirectory` and `SwitchTablesOn = FALSE`:

| theorem | says |
|---|---|
| `Invariance` | `Spec => []IInv` |
| `TypeCorrectness` | `Spec => []TypeOK` |
| `MigrationsAlwaysApply` | `Spec => []ApplyNeverFails` |
| `GenerationIsComplete` | `Spec => []GenerationReachesTheSchema` |
| `Refinement` | `Spec => OneHistory`, that is, `MigrationDirectory` implements `VersionedSchema` |

**The argument.**  `ApplyNeverFails` is not inductive: that the next file is
accepted needs to know where the database stands, and what the directory is like
there.  `IInv` adds

* `FoldIsTheHistory`: every file fits the state before it (accepted there, and its
  inverse accepted after it and leading back), and `fold` is what they add up to;
* `PriorIsSane`: at the end of the directory a live graph exposes the tables that
  are there, and the history is known to own it;
* `GeneratorIsOnItsWay`: what is left of a running generator's plan can be written
  from here, each file fitting, and ends at the schema it was made for - although
  `desired` may have changed meanwhile;
* `DatabaseIsAPrefix`: the database is what the first `at` files fold to;
* `MigratorsTakeTurns`: who applies holds the lock and is at the next pending file.

The lemma everything turns on is `PlanServesTheSchema`: from any sane prior state
and any half flags that were let through, the files of `Plan` fit one after
another and end at the desired schema.  It is proved by cases of the flags and of
which files are planned.  Then each action preserves each conjunct (one step per
action, one per conjunct it can disturb), and the refinement follows action by
action: `WriteFile` is `Publish`, `ApplyFile` is `Advance`, `GooseDown` is
`Retreat`, everything else stutters.

The assumption `SwitchTablesOn = FALSE` is needed: `tables_switched_on` is the
counterexample without it.

`Generations_proofs` and `FoldMirror_proofs` prove, of the statements, for every
family of schemas with any number of tables, edits and crashes:

| theorem | says |
|---|---|
| `ForeignStaysUntouched` | `Spec => [](Families[family].keeps => ForeignUntouched)` |
| `FoldAlwaysMirrorsTheTables` | `Spec => [](Families[family].keeps => FoldMirrorsTheTables)` |
| `RenamesNeverCollide` | a planned rename takes a name away that is no longer wanted and gives one that was not there, for tables and columns |
| `NoFilesExactlyIfAlike` | `Plan(prior, d, g) = <<>>` exactly if `prior` and `d` are `Alike` and the graph is the one wanted |

**Nobody else's tables.**  That no statement of a file names a table of somebody else
is decided when the file is planned, from two schemas, one of them folded.  `SparingInv`
therefore says of the folder that its tables and indexes are ours and its graph names
of theirs only what is still mapped, the same of the indexes of the database, and of
each planned file that each of its statements spares (`OfOurs`, `OfGraph`).  Planning:
the differ's two sides are stripped of what is not ours, and a rename never leads to a
name of theirs (`RenamesAreOurs`), so each delta, each rendering and each inverse spares
(`DiffIsOurs` and the lemmas on `Listed` and `InOrder`).  Running: a statement that
spares changes nothing of theirs; a rename of a table of ours also repoints references,
and theirs have none to ours (`ForeignStandsAlone`).  A section is gone through by
induction on its length, which is stated with a set (`UpToInduction`: the set of lengths
up to which it holds is all of them), as the library's induction theorems take an
operator.  `released` is the counterexample without the hypothesis `keeps`.

**The fold is the database.**  Two readers of one directory, gopgql without a database
and PostgreSQL with one.  `Mirrors(f, c)` says that they agree on tables, columns,
defaults, references and the graph; `StatementMirrors` that one statement, read and
run, keeps that agreement unless either side refuses it, by a lemma for each kind of
statement; `SectionMirrors` follows by induction, and `MirrorStep` for files, crashes
and generations.  Nothing of the differ enters but `SparingInv`: whatever it writes and
in whatever order, the fold does not drift from the tables.  Constraints and indexes are
not like that: DROP COLUMN takes the database's with it and leaves the fold's, and a
rename leaves constraints under old names until later statements of the section drop
them.  Of plain histories they are proved below, from what the differ writes.

**The differ.**  The last two are about one generation, from any two schemas.
`Alike` compares data: the same tables, edges and indexes, the same keys and checks, and
of each column its type, UNIQUE, DEFAULT and CHECK.  That a delta of schemas that are
alike is empty makes a second run silent, half of what `NothingLeftToDo` says; that a
delta of others is not means that nothing of these is overlooked.  What `Alike` leaves
out is what the differ does not look at, among it what a column references, so an edge
that leads elsewhere under its old label is not seen (see the divergences).  The proof goes
through the code's own detour: renames, `Moved`, `Stale` and the constraint names,
which tell apart what they were made from (`SameKeysAndChecks`).  `Proper`, its hypothesis,
is what `TypeOK` says of the states of `generations`.

`Folding_proofs` and `ReadBack_proofs` prove what whole sections do, and from it what holds
of histories of *plain* edits.  `Plain` says of a family: nothing has a former name, a column
that two schemas have has one type, and no table changes hands between gopgql and somebody
else.  Tables, columns, edges, keys, checks, indexes and graphs come and go as they like.
`PlainHistory` is `Plain` and `keeps` of the family the history is of; `PlainFamilies` has TLC
evaluate that four of the five families of `generations` are `Plain` (and `Sound`, below), so
the hypotheses are met by most of what that run explores.

| theorem | says |
|---|---|
| `DropsFolded`, `AddsFolded` | what a list of statements makes of a folder, each of which drops something there, or adds something wanted |
| `UpSettles` | the Up of a plain difference, folded, leaves exactly what is wanted |
| `GraphReadsBack` | the graph statement of what is read back is the one the directory holds |
| `DirectoryReadsBack` | `Spec => [](PlainHistory => FoldReadsBack)` |
| `DoneIsDone` | `Spec => [](PlainHistory => NothingLeftToDo)` |
| `HistoryTypeCorrect` | `Spec => [](PlainHistory => TypeOK)` |
| `FoldAlwaysMirrorsTheConstraints` | `Spec => [](PlainHistory /\ SoundHistory => FoldMirrorsTheConstraints)` |

**One section.**  The differ renders sets, in an order of its own, and the fold is by
recursion along the list.  `AfterDrops(f, P)` and `AfterAdds(w, f, P)` say in closed form what
a *set* P of statements leaves of a folder.  `OneDropped` and `OneAdded` say that one more
statement of the right kind leads from the closed form of P to that of P with it, by a lemma
for each kind of statement; induction along the section then gives `DropsFolded` and
`AddsFolded` whatever the order.  An Up section is such a list of drops before such a list of
adds (`UpInHalves`); which statements are in each half is read off `DiffSchemas`
(`WhatIsDropped`, `WhatIsAdded`), and the closed form of these two sets is what is wanted
(`WhatComesOfIt`).

**One generation.**  `StandsFor(f, d, schemas)` says that the folder f holds what is owned of
the schema d: the tables, of each its columns with type, UNIQUE and DEFAULT, its constraints
with their bodies, and the indexes.  What is built from such a folder is `Proper`, may be
compared (`PriorIsComparable`) and is `Alike` to d (`StandingIsAlike`), so by
`NoFilesExactlyIfAlike` a second run plans nothing (`StandingLeavesNothing`).  One thing had to
be left open: without a graph the differ does not look into edge tables, so where a vertex
table becomes an edge of the same name, the directory keeps the columns of the vertex table.
`StandsFor` therefore asks of an edge table only that it is some table whose columns have
types some schema of the family gives them (`Known`).

**A history.**  The invariant is `HistoryInv`: the folder stands for *some* schema the SDL had,
its graph is that schema's or gone, and `Leads`: the files still to write lead, one by one, by
folders that stand for something, to one that stands for the schema wanted with the graph that
is wanted.  A crash leaves such a folder wherever it happens; so does a file the database
refuses, which is why these theorems do not need `UpApplies`.  `PlanLeads` shows it of
what `Plan` writes, for each of the eight sets of files.

**Constraints and indexes.**  `Twins(f, c)` says that folder and database have the same
indexes, and of each table the same constraints over the same columns, the UNIQUE of a
column under its name and the others under theirs.  A statement keeps that agreement
(`HandledTwins`, a lemma for each kind), a DROP COLUMN only if nothing but the column's own
UNIQUE is over it (`NothingOver`); so, unlike for the tables, it matters what the differ
writes.  `UpCarried` shows that it may: when a column goes, every constraint and index the
differ drops is gone (`ColumnsComeLater`, from the order of the section), the closed form of
the drops read so far says which are left (`DropsSoFar`), and these are wanted, so they
are over columns that stay (`ColumnIsFree`).  The last step is the hypothesis `Sound`: the
constraints and indexes a schema asks for are over columns it declares, as PostgreSQL itself
demands when it makes the table.  The invariant adds to `HistoryInv` that of the files
still to write at most one is about tables, and that its section can be so carried out over
the tables there are (`Ready`).

The families the theorems leave out are those of the divergences `retyped`, `unique_renamed`
and `released`, where these properties fail, and the renames that do not run into them, which
TLC checks.

`CheckRun_proofs` proves, first, of `Generator`, for every document and every set of tables:

| theorem | says |
|---|---|
| `GeneratorInvariant` | `GeneratorSpec => []GenInv` |
| `RelationshipsAlwaysConnect` | `GeneratorSpec => []RelationshipsConnect` |
| `PostgresAlwaysTakesTheGraph` | `GeneratorSpec => []PostgresTakesTheGraph` |
| `PositionsAlwaysKnowTheirTables` | `GeneratorSpec => []PositionsKnowTheirTables` |

`GeneratorSpec` is `Written` and the three steps of `Generator`.  `GenInv` says that a
graph handed out is `Build` of a document `sdl` accepted and the generator's checks let
pass, and that a rejection was PostgreSQL's.  What is left is about one document.

* The relationships: an edge is that of one declaration (`EdgesAreDeclared`).
  `validateNothingDropped` compares table and label only, so it gives some edge
  with the label and table of a relationship; that it is the edge of *this*
  relationship needs `LabelsTellRelationshipsApart`, and `lost_relationship` is the
  counterexample without.  That its ends are the keys of its types needs two
  refusals of `sdl`: of a relationship that maps half a table, and of one that makes
  a table while an end is somebody else's, whose key need not be `id`.
* The statement: every label in the catalogs is a use `validateLabelAlignment` has
  seen (`CataloguedLabels`), so what it demands of the uses holds of the catalogs;
  columns of a table the generator makes, and their types, are those its DDL gives it,
  of another those `MappedTablesFit` grants (`TablesAreThere`).  A property has one type
  because the generator has compared the types it knows, and those of mapped edges are
  granted (`OneType`); this is the half of `validateLabelAlignment` that is about types,
  the other is about properties (`SameProperties`).  Every element has a KEY clause over
  its own properties or a table with a primary key (`ElementsAreIdentified`).  The ends
  of an edge are tables of `@node` types, which are vertices (`EndsAreVertices`), and as
  many columns stand for an end as identify it, which `sdl` has counted (`KeysMatch`).
* The positions: a vertex carries the label of its type and of each interface it is
  given (`CataloguedTypes`), so what a type's own label matches is its table, and what
  an interface's label matches is the tables of its implementors (`LabelsMatchTables`).
  The compiler computes these sets without the database, to decide where one row could
  stand in two places; with `LabelsTellTypesApart` it is right.

`Conformance_proofs` and `CheckRun_proofs` prove, for every document and every state of
the graph:

| theorem | says |
|---|---|
| `CheckIsExact` | if a check of a graph that stays as it is can report nothing, the graph conforms; and if it conforms, every possible report is empty |
| `CheckInvariant` | `CheckSpec => []CheckInv` |
| `FreshGraphsConform` | `CheckSpec => []FreshGraphConforms` |
| `CleanReportsAreTrue` | `CheckSpec => []CleanReportMeansConforming` |

`CheckIsExact` is about one state, for every document's graph and every state of the
database that are `Comparable`: both sides have one element for each name
(`ReflectedIsSeen`, `WantedIsCatalogued`), so the renaming of `Align` is injective, so
there is one alignment, whatever the map order, and one report; and two views with no
finding between them are equal, element by element.  `Comparable` is what the code
cannot see past: two tables of one bare name, an edge with several labels, a table
that is two elements.

`CheckSpec` is `Generator` with a check of its graph beside others who alter it.
`CheckInv` says what is read at each moment: one state of the graph that was looked up,
or labels of one state and elements of the next one, or nothing of a graph that was
dropped.  From there, a clean report is either of one state, where `CheckIsExact`
speaks, or mixes the labels before the one alteration with the elements after it; by
the kind of alteration, the report on the mixture is clean only if one of the two
states conforms.  A graph nobody altered is `CatalogOf` of what the document says, and
conforms; hence `FreshGraphsConform`.

`CallRun_proofs` proves, first, of `Execution`, for any set of jobs over any columns and rows, any
handles and SQLSTATEs:

| theorem | says |
|---|---|
| `Invariance` | `ExecSpec => []ExecInv` |
| `WholeAnswers` | `ExecSpec => []AnswerIsWhole` |
| `FailuresSurface` | `ExecSpec => []SqlstatePreserved` |

`ExecSpec` is a statement by itself: `Idle`, then `Start` with any job, then
`Execute`.  `AnswerIsWhole` is not inductive: that the rows are all of them when the
cursor ends needs to know how it came to its end.  `ExecInv` adds that an open
cursor knows its own failure (`cursor.broken = fault`) and, without one, that what
was read and what is left are the rows (`read \o left = job.rows`); that before
there is a cursor nothing was read and nothing failed; and what a job is.  Its one
hypothesis, `NilIsApart`, says that Go's nil is no record, no string and no cursor.
An action that returns keeps only the promises about `outcome`, which three lemmas
show once for all of them; `Fetch` turns on a lemma about sequences.

It proves of a call, under the same hypothesis, for every document, operation, set
of variables and function:

| theorem | says |
|---|---|
| `CallInvariant` | `CallSpec => [](CallInv /\ ExecInv)` |
| `FunctionsSeeWhatIsMeant` | `CallSpec => []FunctionSeesWhatIsMeant` |
| `CallsAreAnsweredWhole` | `CallSpec => [](AnswerIsWhole /\ SqlstatePreserved)` |

The steps of a call are those of the generator, of the compiler and of `Execution`;
`CallInv` ties their states together: what runs is what was compiled from this scene,
and a reply other than a refusal is the value that statement returned.  Then
`CallPassesWhatIsMeant`, about one operation, compares the arguments `CompileMutation`
makes of it with what each parameter is said to be: a literal, a variable, the
variable's default or the argument's, or left to the function's own.

**From the parts to `Service`.**  What a scene asks for decides which steps it takes.
A check takes those of `CheckRun` only and a call those of `CallRun` only, so of such
scenes the behaviours of `Service` are those of `CheckSpec` and `CallSpec`, with the
other variables idle.  A query takes those of `Generator` until its graph is live, then
its own, which begin with one `Start` and go on with `Execute`, as `ExecSpec` has it.
This is read off the definitions and not proved: `Service` reaches RECURSIVE operators,
which no module with a theorem may.  TLC checks the properties of the parts in
`service` as well.

**Model-checked only.**

* `EventuallyDeployed`: liveness under fairness and ENABLED are out of the prover's
  reach.
* `UpApplies`, `DownRestores`, `MigratedIsFresh`: they say that the *database* accepts each
  statement of a section and what state exactly it is led to; the closed forms of
  `Folding_proofs` are of the folder only (see the plan).
* `FoldReadsBack`, `NothingLeftToDo`, `FoldMirrorsTheConstraints` and `TypeOK` of
  `Generations` where something is renamed: proved are plain histories.
* `AnswerIsRight` and `IntrospectionIsExact` speak of trees of any depth, by RECURSIVE
  operators, which is induction over data and out of the prover's reach.
* `TypeOK` of `Service`, for the same reason: its plan and reply are such trees.

## 5. What is not modelled, and why

* The DDL lexer, the typed client and the playground turn one text into another and
  keep no state; statements are records here, so nothing that depends on their text
  is visible: quoting, comments inside literals, dollar quotes.
* gqlparser, which has accepted a document before `sdl` reads it and parsed an
  operation before the compiler does; the reading of directive arguments.
* SQL text: aliases, parameter numbers, quoting.  `GraphTable` has its meaning, for
  the statements this compiler writes only.
* In the migrations: schema qualifiers, NOT NULL, array types, index methods, labels
  and multi-column indexes, which the differ and the fold carry along as part of the
  objects modelled.
* `migrate.Delta` and `migrate.Init`, the one-file variants of the playground.
* Rows under a migration.  None reads them; whether an ALTER succeeds on data (a
  cast, a UNIQUE over duplicates) is PostgreSQL's answer to the user's schema.
* Two generators in one directory, and an edited or deleted migration file.
* Drivers other than pgx in `Shape`: what a portable driver makes of a numeric or a
  time is its own matter.  `Execution` has all handles.
* `exec.Rows` for statements of the caller's own, `ReadOnlyDSN`, the settings of the
  read-only pool, contexts that are cancelled (a failure like any other to the
  cursor).
* The executor that walks an introspection result (types, wrappers, directives), the
  MCP transport and its resources.
* Telemetry.

## 6. The plan

Done, in this order: `VersionedSchema`, `MigrationDirectory`, its proofs;
`SchemaModel`, `Catalog`, `SchemaDelta`, `SchemaFold`, `Generations`; `Sdl`,
`GraphModel`, `Generator`, `QueryCompiler`, `GraphTable`, `Answers`, `Shape`; `Execution`,
`Conformance`, `McpServer`, `Service`; the proofs of execution, conformance and the
generator; `CheckRun`, `Operations`, `CallRun` and the proofs about them; of the
statements of a directory, that they touch nobody else's tables and that the fold
mirrors the database's; of the differ, that its renames never collide and that it
writes nothing exactly if nothing differs; of plain histories, that a directory always
reads back as what was asked for, with the constraints and indexes of the database, and
that done is done.

Left, in order of importance:

1. **More proofs about statements**: `UpApplies` of plain histories, from the mirror
   (`Mirrors`, `Twins`) and the closed forms of the folder; then renames, whose statements
   move what the others name.
2. **More of the differ**: schema qualifiers, NOT NULL, an edge that changes its
   endpoint, a rename together with a dropped UNIQUE.
3. **One world**: a migration in the middle of a check or between a query's
   compilation and its run, which joins `MigrationDirectory` to `Service`.
4. **Portable drivers** in `Shape`, and `exec.Rows`.
5. **The introspection executor**, as a walk of the view `Introspection` has.
