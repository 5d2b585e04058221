----------------------------- MODULE Generations -----------------------------
(***************************************************************************)
(* Generation after generation of one migration directory, down to its     *)
(* statements: the SDL changes to any other schema of its family, Generate *)
(* folds the directory, diffs and plans; each file is written, folded back *)
(* and applied to the database.  MigrationDirectory.tla shows that it does *)
(* not matter when a file is applied, only in which order; so here it is   *)
(* applied as it is written.                                               *)
(*                                                                         *)
(* A family is a set of schemas the SDL moves among, with the half flags   *)
(* of its directory, the number of generations that die half way, and      *)
(* whether a table of somebody else, once surfaced, stays in the SDL.      *)
(***************************************************************************)
EXTENDS SchemaDelta, SchemaFold, Catalog

CONSTANTS
  Families,      \* a sequence of [schemas, graph, crashes, keeps]
  Foreign        \* the tables of somebody else: name -> catalog table

VARIABLES
  family,        \* which family this history is of
  graph,         \* does the directory manage a graph (no --no-graph)?
  desired,       \* the schema the last generation was for
  folder,        \* the directory, folded
  created,       \* has the history a CREATE TABLE (Ownership.Tables)?
  plan,          \* the files still to write
  done,          \* did the last generation end without an error?
  catalog,       \* the database
  last,          \* the last file, and the database before it
  refused,       \* did the database refuse a migration?
  crashes

vars == <<family, graph, desired, folder, created, plan, done, catalog, last, refused, crashes>>
------------------------------------------------------------------------------
(* Columns, tables and schemas that have what the differ looks at. *)

ProperColumn(col) == /\ {"type", "primary", "unique", "default", "check", "ref"} \subseteq DOMAIN col
                     /\ col.unique \in BOOLEAN

ProperTable(vt) ==
  /\ {"cols", "props", "key", "checks"} \subseteq DOMAIN vt
  /\ \A c \in DOMAIN vt.cols : ProperColumn(vt.cols[c])
  /\ vt.key # None => /\ vt.key = [name |-> vt.key.name, columns |-> vt.key.columns]
                      /\ vt.key.columns = [i \in DOMAIN vt.key.columns |-> vt.key.columns[i]]
  /\ vt.checks = [i \in DOMAIN vt.checks |-> vt.checks[i]]

ProperIndexes(indexes) ==
  /\ indexes = [i \in DOMAIN indexes |-> indexes[i]]
  /\ \A i \in DOMAIN indexes : indexes[i] = [table |-> indexes[i].table, column |-> indexes[i].column]

Proper(m) ==
  /\ {"vertices", "edges", "indexes"} \subseteq DOMAIN m
  /\ \A t \in DOMAIN m.vertices : ProperTable(m.vertices[t])
  /\ ProperIndexes(m.indexes)

------------------------------------------------------------------------------
(* What the generator makes of an SDL. *)

OwnedVertices(d) == DOMAIN d.vertices \ Unmanaged(d.vertices)
OwnedEdges(d)    == DOMAIN d.edges \ Unmanaged(d.edges)

\* A surrogate key is never marked @unique, and a natural key has the name its
\* table gives it.
MadeTable(t, vt) ==
  /\ ProperTable(vt)
  /\ IsFiniteSet(DOMAIN vt.cols) /\ DOMAIN vt.cols # {}
  /\ \A c \in DOMAIN vt.cols : vt.cols[c].unique => ~vt.cols[c].primary
  /\ vt.key # None => vt.key.name = NaturalKeyConstraintName(t)
  /\ vt.checks \in Seq(Range(vt.checks))

\* No table gopgql owns is both a vertex and an edge, and an index is on one of
\* them.
MadeSchema(d) ==
  LET ours == OwnedVertices(d) \union OwnedEdges(d)
  IN /\ Proper(d) /\ d.named \in BOOLEAN
     /\ ours \subseteq Range(Alphabet) /\ OwnedVertices(d) \intersect OwnedEdges(d) = {}
     /\ \A t \in OwnedVertices(d) : MadeTable(t, d.vertices[t])
     /\ \A t \in DOMAIN d.vertices :
          d.vertices[t].key # None => d.vertices[t].key.name = NaturalKeyConstraintName(t)
     /\ \A e \in OwnedEdges(d) : d.edges[e].cols = EdgeColumns(d.edges[e].src, d.edges[e].dst)
     /\ IsFiniteSet(DOMAIN d.indexes)
     /\ \A x \in DOMAIN d.indexes : d.indexes[x].table \in ours

ASSUME SchemasAreMade == \A i \in DOMAIN Families : \A d \in Families[i].schemas : MadeSchema(d)
ASSUME GraphIsAFlag == \A i \in DOMAIN Families : Families[i].graph \subseteq BOOLEAN

\* None names no table, and the former names of a table or a column come in a
\* list.
ASSUME SchemasAreSchemas ==
  \A i \in DOMAIN Families : \A d \in Families[i].schemas :
    /\ DOMAIN d = DOMAIN NoSchema /\ None \notin DOMAIN d.vertices
    /\ \A t \in DOMAIN d.vertices :
         LET IsList(s) == s \in Seq(Range(s))
             cols == d.vertices[t].cols
         IN IsList(d.vertices[t].was) /\ \A c \in DOMAIN cols : IsList(cols[c].was)

\* A table of somebody else is one gopgql does not own in either role, and no
\* table of gopgql's is referenced from it.
ASSUME ForeignIsMapped ==
  \A i \in DOMAIN Families : \A d \in Families[i].schemas : \A t \in DOMAIN Foreign :
    /\ t \in DOMAIN d.vertices => d.vertices[t].unmanaged
    /\ t \in DOMAIN d.edges => d.edges[t].unmanaged
    /\ t \in {d.indexes[x].table : x \in DOMAIN d.indexes} => t \in DOMAIN d.vertices \union DOMAIN d.edges

ASSUME ForeignStandsAlone ==
  \A t \in DOMAIN Foreign :
    /\ Foreign[t] = [cols |-> [c \in DOMAIN Foreign[t].cols |-> TableColumn(Foreign[t].cols[c])],
                     cons |-> Foreign[t].cons, key |-> Foreign[t].key]
    /\ \A c \in DOMAIN Foreign[t].cols : Foreign[t].cols[c].ref \in {None} \union DOMAIN Foreign

\* A family of plain edits: nothing has a former name, a column keeps its type,
\* and no table changes hands between gopgql and somebody else.
Owned(d) == OwnedVertices(d) \union OwnedEdges(d)
OwnedTable(d, t) == IF t \in OwnedVertices(d) THEN d.vertices[t] ELSE d.edges[t]

Plain(schemas) ==
  /\ \A d \in schemas : \A t \in DOMAIN d.vertices :
       LET vt == d.vertices[t] IN vt.was = <<>> /\ \A c \in DOMAIN vt.cols : vt.cols[c].was = <<>>
  /\ \A d, e \in schemas : \A t \in Owned(d) \intersect Owned(e) :
       LET cols == OwnedTable(d, t).cols
           same == OwnedTable(e, t).cols
       IN \A c \in DOMAIN cols \intersect DOMAIN same : cols[c].type = same[c].type
  /\ \A d, e \in schemas : /\ OwnedVertices(d) \intersect UnownedTables(e) = {}
                           /\ OwnedEdges(d) \intersect UnownedEdges(e) = {}

\* Its constraints and indexes are on columns the SDL declares, where a fresh
\* database would refuse others.
Sound(schemas) ==
  \A d \in schemas :
    /\ \A t \in OwnedVertices(d) : \A con \in TableConstraints(t, d.vertices[t]) :
         Over(con) \subseteq DOMAIN d.vertices[t].cols
    /\ \A i \in DOMAIN d.indexes :
         LET idx == d.indexes[i]
         IN idx.table \in OwnedVertices(d) => idx.column \in DOMAIN d.vertices[idx.table].cols

Database == [EmptyCatalog EXCEPT !.tables = Foreign]

Readable == folder.ok /\ ~Dangling(folder)
Prior == Build(folder)

\* A table may not change hands between gopgql and somebody else.
ManagementUnchanged(prior, d) ==
  created => \A t \in DOMAIN prior.vertices \intersect DOMAIN d.vertices :
               d.vertices[t].unmanaged <=> DOMAIN prior.vertices[t].cols = {}

\* An owned table the history does not create.
MissingTables(prior, d) ==
  LET Created(t) == \/ t \in DOMAIN prior.vertices /\ DOMAIN prior.vertices[t].cols # {}
                    \/ t \in DOMAIN prior.edges /\ DOMAIN prior.edges[t].cols # {}
      owned(tables) == DOMAIN tables \ Unmanaged(tables)
  IN {t \in owned(d.vertices) \union owned(d.edges) : ~Created(t)}

\* (wrong) A tables file is planned without the graph around it.
PlanAroundALiveGraph(prior, d, g) ==
  LET delta == DeltaTables(prior, d)
      graphChanged == g /\ GraphDDL(prior) # GraphDDL(d)
  IN (IF graphChanged /\ GraphDDL(prior) # None
      THEN <<[up |-> <<DropGraph>>, down |-> <<CreateGraph(GraphDDL(prior))>>]>> ELSE <<>>)
     \o (IF graphChanged /\ GraphDDL(d) # None
         THEN <<[up |-> <<CreateGraph(GraphDDL(d))>>, down |-> <<DropGraph>>]>> ELSE <<>>)
     \o (IF delta.changed THEN <<[up |-> delta.up, down |-> delta.down]>> ELSE <<>>)

\* The files of a generation: teardown, tables, build.
Plan(prior, d, g) ==
  LET delta == DeltaTables(prior, d)
      graphChanged == g /\ GraphDDL(prior) # GraphDDL(d)
      teardown == g /\ GraphDDL(prior) # None /\ (delta.changed \/ graphChanged)
      build    == g /\ GraphDDL(d) # None /\ (graphChanged \/ teardown)
  IN (IF teardown
      THEN <<[up |-> <<DropGraph>>, down |-> <<CreateGraph(GraphDDL(prior))>>]>> ELSE <<>>)
     \o (IF delta.changed THEN <<[up |-> delta.up, down |-> delta.down]>> ELSE <<>>)
     \o (IF build
         THEN <<[up |-> <<CreateGraph(GraphDDL(d))>>, down |-> <<DropGraph>>]>> ELSE <<>>)

\* (wrong) A generation that finds its tables is done, whatever it has to write.
HasItsTables(files, prior, d) == MissingTables(prior, d) = {}

\* With nothing to write a generation is done, unless a table is missing.
NothingToWrite(files, prior, d) == files = <<>> /\ MissingTables(prior, d) = {}

Init ==
  /\ family \in DOMAIN Families
  /\ graph \in Families[family].graph
  /\ desired = NoSchema
  /\ folder = NewFolder
  /\ created = FALSE
  /\ plan = <<>>
  /\ done = FALSE
  /\ catalog = Database
  /\ last = None
  /\ refused = FALSE
  /\ crashes = 0

Generate(d) ==
  /\ plan = <<>>
  /\ Families[family].keeps => UnownedEdges(desired) \subseteq UnownedEdges(d)
  /\ Readable /\ ~refused
  /\ ManagementUnchanged(Prior, d)
  /\ LET files == Plan(Prior, d, graph)
     IN /\ plan' = files
        /\ done' = NothingToWrite(files, Prior, d)
  /\ desired' = d
  /\ UNCHANGED <<family, graph, folder, created, catalog, last, refused, crashes>>

WriteFile ==
  /\ plan # <<>>
  /\ LET file == Head(plan)
         run  == Run(catalog, file.up)
     IN /\ folder' = FoldSection(folder, file.up)
        /\ created' = (created \/ \E i \in DOMAIN file.up : file.up[i].op = "create_table")
        /\ catalog' = run.cat
        /\ refused' = ~run.ok
        /\ last' = [up |-> file.up, down |-> file.down, before |-> catalog]
        /\ plan' = IF run.ok THEN Tail(plan) ELSE <<>>
        /\ done' = (run.ok /\ Tail(plan) = <<>>)
  /\ UNCHANGED <<family, graph, desired, crashes>>

Crash ==
  /\ plan # <<>>
  /\ crashes < Families[family].crashes
  /\ crashes' = crashes + 1
  /\ plan' = <<>>
  /\ UNCHANGED <<family, graph, desired, folder, created, done, catalog, last, refused>>

Next ==
  \/ \E d \in Families[family].schemas : Generate(d)
  \/ WriteFile
  \/ Crash

Spec == Init /\ [][Next]_vars
------------------------------------------------------------------------------
\* What the SDL asks for and what the directory stands for are schemas of one
\* form, so that the differ may compare them.
TypeOK ==
  /\ family \in DOMAIN Families /\ graph \in BOOLEAN
  /\ Proper(desired)
  /\ Readable => Proper(Prior)
  /\ refused \/ done => plan = <<>>
------------------------------------------------------------------------------
\* PostgreSQL accepts every statement of every Up section: a directory applies
\* from an empty database, whatever edits made it.
UpApplies == ~refused

\* It accepts every statement of the Down section too, and is left with
\* exactly the schema it had before the file.
DownRestores ==
  last # None /\ ~refused => Run(catalog, last.down) = [ok |-> TRUE, cat |-> last.before]

\* Whatever gopgql writes it can read back: no generation makes the next one
\* impossible.
FoldReadsBack == Readable

\* The folded directory is the database, also between two files of one
\* generation: the same tables, columns, defaults and references, whatever was
\* renamed on the way, and the same graph ...
FoldMirrorsTheTables ==
  Readable /\ ~refused =>
    /\ folder.graph = catalog.graph
    /\ DOMAIN catalog.tables = DOMAIN folder.cols \union DOMAIN Foreign
    /\ \A t \in DOMAIN folder.cols :
         LET cols == folder.cols[t] IN catalog.tables[t].cols = [c \in DOMAIN cols |-> TableColumn(cols[c])]

\* ... and the same indexes and constraints, under the names the database has
\* them under.
FoldMirrorsTheConstraints ==
  Readable /\ ~refused =>
    /\ folder.indexes = catalog.indexes
    /\ \A t \in DOMAIN folder.cols :
         LET cols == folder.cols[t]
         IN DOMAIN catalog.tables[t].cons =
              {UniqueConstraintName(t, c) : c \in {x \in DOMAIN cols : cols[x].unique}}
              \union {n \in DOMAIN folder.cons[t] : ClassifyConstraint(t, n) # "unknown"}

\* A generation that ended well leaves nothing to do: a second run writes
\* nothing, and does not complain of a missing table.
NothingLeftToDo == done => Plan(Prior, desired, graph) = <<>> /\ MissingTables(Prior, desired) = {}

\* The database is then the one a fresh directory for the same SDL makes: the
\* history that led there does not show.
Fresh(d) == FoldLeft(LAMBDA c, file : Run(c, file.up).cat, Database, Plan(NoSchema, d, graph))
MigratedIsFresh == done => catalog = Fresh(desired)

\* No statement, forward or back, names a table gopgql does not own, and none
\* of them changes or gets an index.
ForeignUntouched ==
  /\ \A t \in DOMAIN Foreign : t \in DOMAIN catalog.tables /\ catalog.tables[t] = Foreign[t]
  /\ \A i \in DOMAIN catalog.indexes : catalog.indexes[i].table \notin DOMAIN Foreign
  /\ last # None => \A s \in Range(last.up) \union Range(last.down) :
                      "table" \in DOMAIN s => s.table \notin DOMAIN Foreign
==============================================================================
