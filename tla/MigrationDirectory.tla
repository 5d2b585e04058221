------------------------- MODULE MigrationDirectory --------------------------
(***************************************************************************)
(* The life of a gopgql migration directory: the SDL is edited, `generate` *)
(* folds the directory and writes the next run of files, `migrate` applies *)
(* the files to a database.  What is in a table is abstracted to an        *)
(* opaque state of the whole tables half (SchemaDelta.tla opens it up);    *)
(* what is kept is the control: which halves a run manages, which files it *)
(* plans and in which order, the write of each file, the application of    *)
(* each file in a transaction of its own, and everything that can happen   *)
(* in between - a crash, a write error, an edit of the SDL, another        *)
(* replica, an operator walking the history back.                          *)
(*                                                                         *)
(* A migration file changes one half and is rendered from both ends, so it *)
(* is the record [half, from, to]: its Up section takes the half to `to`,  *)
(* its Down section back to `from`.  Files are numbered by their position  *)
(* in the directory (one generator at a time, see the README).             *)
(*                                                                         *)
(* A definition marked (wrong) is what a plausible bug would make of the   *)
(* one below it: no action uses it, the checks substitute it to see that   *)
(* a property notices.                                                     *)
(***************************************************************************)
EXTENDS Naturals, Sequences

CONSTANTS
  Tables,        \* the states the tables half can be given by an SDL
  Empty,         \* no table at all
  Foreign,       \* the tables as somebody else keeps them (--no-tables)
  Bare,          \* tables a folded graph names and no migration creates
  Defs,          \* what else distinguishes two graphs: labels, keys, ...
  NoDef,         \* the schema declares no graph
  NoGraph,       \* no property graph
  Shape,         \* Shape[t]: the tables and columns of t a graph exposes
  Migrators,     \* processes running `gopgql migrate`
  NoOne,         \* nobody holds the advisory lock
  NoFile,        \* nothing planned
  SwitchTablesOn,\* may an operator drop --no-tables later?
  MaxEdits, MaxCrashes, MaxDowns    \* bounds on what the environment does

ASSUME ConstantsAssumption ==
  /\ Tables # {} /\ Empty \notin Tables
  /\ Foreign \notin Tables \union {Empty}
  /\ Bare \notin Tables \union {Empty, Foreign}
  /\ NoDef \notin Defs
  /\ NoOne \notin Migrators
  /\ SwitchTablesOn \in BOOLEAN
  /\ MaxEdits \in Nat /\ MaxCrashes \in Nat /\ MaxDowns \in Nat

ASSUME ShapeAssumption == DOMAIN Shape = Tables

Graphs == [def : Defs, shape : {Shape[t] : t \in Tables}]

ASSUME SentinelAssumption == NoGraph \notin Graphs

Halves == [NoTables : BOOLEAN, NoGraph : BOOLEAN]

\* What the SDL describes.
Schemas == [tables : Tables, def : Defs \union {NoDef}]

TableStates == Tables \union {Empty, Foreign, Bare}
States == [tables : TableStates, graph : Graphs \union {NoGraph}]

TableFiles == [half : {"tables"}, from : TableStates, to : TableStates]
GraphFiles == [half : {"graph"}, from : Graphs \union {NoGraph}, to : Graphs \union {NoGraph}]
Files == TableFiles \union GraphFiles

ASSUME FileAssumption == NoFile \notin Files

VARIABLES
  elsewhere,     \* does somebody else own the tables of this database?
  desired,       \* the schema the SDL describes now
  dir,           \* the migration directory: files in version order
  fold,          \* fold[i+1] is what FoldContent returns for the first i files
  gen,           \* the generator
  db,            \* the database's schema
  at,            \* goose_db_version: how many files are applied
  pc, last, next,\* each migrator: where it is; the last file it saw on disk;
                 \* the file it applies next
  lock,          \* the session advisory lock the applies take turns by
  failed,        \* has a migration ever been refused by the database?
  edits, crashes, downs

dirVars == <<dir, fold, gen>>
dbVars  == <<db, at>>
migVars == <<pc, last, next, lock>>
counts  == <<edits, crashes, downs>>
vars == <<elsewhere, desired, dirVars, dbVars, migVars, failed, counts>>
------------------------------------------------------------------------------
(* Migration files. *)

After(f, s) ==
  IF f.half = "tables" THEN [tables |-> f.to, graph |-> s.graph]
                       ELSE [tables |-> s.tables, graph |-> f.to]

\* (wrong) The Down section of a teardown does not put the graph back.
UndoWithoutGraph(f) == [half |-> f.half, from |-> f.to, to |-> IF f.half = "graph" THEN NoGraph ELSE f.from]

\* The Down section of a file is the Up section of its inverse.
Undo(f) == [half |-> f.half, from |-> f.to, to |-> f.from]

\* What PostgreSQL makes of a file.  A statement on tables is written for the
\* tables it was diffed against; it is refused when they are others, or when
\* a live graph exposes what it takes away.  A graph is created once, over
\* tables that have what it exposes.  A drop says IF EXISTS.
Accepts(s, f) ==
  IF f.half = "tables"
  THEN /\ s.tables = f.from
       /\ s.graph # NoGraph => f.to \in Tables /\ s.graph.shape = Shape[f.to]
  ELSE \/ f.to = NoGraph
       \/ /\ s.graph = NoGraph
          /\ s.tables # Foreign => s.tables \in Tables /\ f.to.shape = Shape[s.tables]

\* Which halves the history manages, read out of its statements.
Ownership(files) ==
  [tables |-> \E i \in DOMAIN files : files[i].half = "tables" /\ files[i].from = Empty,
   graph  |-> \E i \in DOMAIN files : files[i].half = "graph" /\ files[i].to # NoGraph]

Owned == Ownership(dir)

\* (wrong) --no-graph is accepted on a directory that manages a graph.
TablesHalfDisowned(owned, h) == h.NoTables /\ owned.tables

\* A half that was turned off although the history manages it is refused.
HalfDisowned(owned, h) ==
  \/ h.NoGraph  /\ owned.graph
  \/ h.NoTables /\ owned.tables

Prior == fold[Len(fold)]

\* The tables the differ finds in a folded state: with no CREATE TABLE in the
\* history, a graph's tables are folded with their names and no columns.
FoldedTables(s) == IF s.tables = Empty /\ s.graph # NoGraph THEN Bare ELSE s.tables

\* (wrong) A schema without a graph gets one all the same.
GraphAnyway(d) == [def |-> d.def, shape |-> Shape[d.tables]]

GraphOf(d) == IF d.def = NoDef THEN NoGraph
              ELSE [def |-> d.def, shape |-> Shape[d.tables]]

\* (wrong) The build stays out when only the tables changed under the graph.
PlanWithoutRebuild(prior, d, h) ==
  LET tablesChanged == ~h.NoTables /\ FoldedTables(prior) # d.tables
      graphChanged  == ~h.NoGraph /\ prior.graph # GraphOf(d)
      teardown == ~h.NoGraph /\ prior.graph # NoGraph /\ (tablesChanged \/ graphChanged)
  IN [graph_down |-> IF teardown
                     THEN [half |-> "graph", from |-> prior.graph, to |-> NoGraph]
                     ELSE NoFile,
      tables     |-> IF tablesChanged
                     THEN [half |-> "tables", from |-> FoldedTables(prior), to |-> d.tables]
                     ELSE NoFile,
      graph      |-> IF graphChanged /\ GraphOf(d) # NoGraph
                     THEN [half |-> "graph", from |-> NoGraph, to |-> GraphOf(d)]
                     ELSE NoFile]

\* The files one edit emits, by the suffix they carry: the teardown, the
\* tables, the build.  NoFile where there is nothing to do.
Plan(prior, d, h) ==
  LET tablesChanged == ~h.NoTables /\ FoldedTables(prior) # d.tables
      graphChanged  == ~h.NoGraph /\ prior.graph # GraphOf(d)
      teardown == ~h.NoGraph /\ prior.graph # NoGraph /\ (tablesChanged \/ graphChanged)
      build    == ~h.NoGraph /\ GraphOf(d) # NoGraph /\ (graphChanged \/ teardown)
  IN [graph_down |-> IF teardown
                     THEN [half |-> "graph", from |-> prior.graph, to |-> NoGraph]
                     ELSE NoFile,
      tables     |-> IF tablesChanged
                     THEN [half |-> "tables", from |-> FoldedTables(prior), to |-> d.tables]
                     ELSE NoFile,
      graph      |-> IF build
                     THEN [half |-> "graph", from |-> NoGraph, to |-> GraphOf(d)]
                     ELSE NoFile]

NothingPlanned == [graph_down |-> NoFile, tables |-> NoFile, graph |-> NoFile]

\* The file of a plan that is written next, and the plan without it.
NextSuffix(plan) ==
  IF plan.graph_down # NoFile THEN "graph_down"
  ELSE IF plan.tables # NoFile THEN "tables" ELSE "graph"

\* A schema state is what a generation for d under h is meant to reach.
Holds(s, d, h) ==
  /\ ~h.NoTables => s.tables = d.tables
  /\ ~h.NoGraph => s.graph = GraphOf(d)
------------------------------------------------------------------------------
Init ==
  /\ elsewhere \in BOOLEAN
  /\ desired \in Schemas
  /\ dir = <<>>
  /\ fold = <<[tables |-> Empty, graph |-> NoGraph]>>
  /\ gen = [busy |-> FALSE, ok |-> FALSE, plan |-> NothingPlanned, for |-> desired,
            halves |-> [NoTables |-> FALSE, NoGraph |-> FALSE]]
  /\ db = [tables |-> IF elsewhere THEN Foreign ELSE Empty, graph |-> NoGraph]
  /\ at = 0
  /\ pc = [m \in Migrators |-> "off"]
  /\ last = [m \in Migrators |-> 0]
  /\ next = [m \in Migrators |-> 0]
  /\ lock = NoOne
  /\ failed = FALSE
  /\ edits = 0 /\ crashes = 0 /\ downs = 0

\* The SDL changes, at any time: a running generation has already read it.
EditSchema ==
  /\ edits < MaxEdits
  /\ desired' \in Schemas \ {desired}
  /\ edits' = edits + 1
  /\ UNCHANGED <<elsewhere, dirVars, dbVars, migVars, failed, crashes, downs>>

\* The operator passes --no-tables for a database whose tables are somebody
\* else's, and may only later try it on a directory that creates tables.
Sensible(h) ==
  /\ ~(h.NoTables /\ h.NoGraph)
  /\ h.NoTables => elsewhere \/ Owned.tables
  /\ elsewhere => h.NoTables \/ (SwitchTablesOn /\ Owned.graph)

\* Generate up to its first write: read the directory, check the flags, fold,
\* plan.  With nothing planned the run is over.
StartGenerate(h) ==
  /\ ~gen.busy
  /\ Sensible(h)
  /\ ~HalfDisowned(Owned, h)
  /\ LET plan == Plan(Prior, desired, h)
     IN gen' = [busy |-> plan # NothingPlanned, ok |-> plan = NothingPlanned,
                plan |-> plan, for |-> desired, halves |-> h]
  /\ UNCHANGED <<elsewhere, desired, dir, fold, dbVars, migVars, failed, counts>>

\* One os.WriteFile of the loop.
WriteFile ==
  /\ gen.busy
  /\ LET k    == NextSuffix(gen.plan)
         file == gen.plan[k]
         rest == [gen.plan EXCEPT ![k] = NoFile]
     IN /\ dir' = Append(dir, file)
        /\ fold' = Append(fold, After(file, Prior))
        /\ gen' = [gen EXCEPT !.plan = rest, !.busy = rest # NothingPlanned,
                              !.ok = rest = NothingPlanned]
  /\ UNCHANGED <<elsewhere, desired, dbVars, migVars, failed, counts>>

\* The generator dies, or a write fails and Generate returns: the files
\* already written stay in the directory.
CrashGenerate ==
  /\ gen.busy
  /\ crashes < MaxCrashes
  /\ gen' = [gen EXCEPT !.busy = FALSE, !.plan = NothingPlanned]
  /\ crashes' = crashes + 1
  /\ UNCHANGED <<elsewhere, desired, dir, fold, dbVars, migVars, failed, edits, downs>>

\* `gopgql migrate`: the migrator collects the files that are on disk now,
\* and waits for its turn.
StartApply(m) ==
  /\ pc[m] = "off"
  /\ dir # <<>>
  /\ pc' = [pc EXCEPT ![m] = "waiting"]
  /\ last' = [last EXCEPT ![m] = Len(dir)]
  /\ UNCHANGED <<elsewhere, desired, dirVars, dbVars, next, lock, failed, counts>>

\* Under the lock it reads the version table, once: what it found pending is
\* what it applies.
TakeLock(m) ==
  /\ pc[m] = "waiting"
  /\ lock = NoOne
  /\ lock' = m
  /\ next' = [next EXCEPT ![m] = at + 1]
  /\ pc' = [pc EXCEPT ![m] = "applying"]
  /\ UNCHANGED <<elsewhere, desired, dirVars, dbVars, last, failed, counts>>

\* (wrong) The run ends and leaves its lock behind.
StopHoldingLock(m) ==
  /\ pc' = [pc EXCEPT ![m] = "off"]
  /\ last' = [last EXCEPT ![m] = 0]
  /\ next' = [next EXCEPT ![m] = 0]
  /\ UNCHANGED lock

\* The run of m ends, however it ends, and its session with it.
Stop(m) ==
  /\ pc' = [pc EXCEPT ![m] = "off"]
  /\ last' = [last EXCEPT ![m] = 0]
  /\ next' = [next EXCEPT ![m] = 0]
  /\ lock' = IF lock = m THEN NoOne ELSE lock

\* The next pending file, in a transaction with its version row.  When the
\* database refuses it, the transaction rolls back and the run ends.
ApplyFile(m) ==
  /\ pc[m] = "applying"
  /\ next[m] <= last[m]
  /\ LET file == dir[next[m]]
     IN IF Accepts(db, file)
        THEN /\ db' = After(file, db)
             /\ at' = next[m]
             /\ next' = [next EXCEPT ![m] = @ + 1]
             /\ UNCHANGED <<pc, last, lock, failed>>
        ELSE /\ failed' = TRUE
             /\ Stop(m)
             /\ UNCHANGED dbVars
  /\ UNCHANGED <<elsewhere, desired, dirVars, counts>>

FinishApply(m) ==
  /\ pc[m] = "applying"
  /\ next[m] > last[m]
  /\ Stop(m)
  /\ UNCHANGED <<elsewhere, desired, dirVars, dbVars, failed, counts>>

\* The migrator dies between two files, or gives up waiting.
CrashApply(m) ==
  /\ pc[m] # "off"
  /\ crashes < MaxCrashes
  /\ crashes' = crashes + 1
  /\ Stop(m)
  /\ UNCHANGED <<elsewhere, desired, dirVars, dbVars, failed, edits, downs>>

\* An operator runs `goose down`, while no migrator is at work.
GooseDown ==
  /\ lock = NoOne
  /\ at > 0
  /\ downs < MaxDowns
  /\ downs' = downs + 1
  /\ LET down == Undo(dir[at])
     IN IF Accepts(db, down)
        THEN db' = After(down, db) /\ at' = at - 1 /\ UNCHANGED failed
        ELSE failed' = TRUE /\ UNCHANGED dbVars
  /\ UNCHANGED <<elsewhere, desired, dirVars, migVars, edits, crashes>>

Generate == \E h \in Halves : StartGenerate(h)

Migrate(m) == StartApply(m) \/ TakeLock(m) \/ ApplyFile(m) \/ FinishApply(m) \/ CrashApply(m)

Next ==
  \/ EditSchema
  \/ Generate
  \/ WriteFile
  \/ CrashGenerate
  \/ \E m \in Migrators : Migrate(m)
  \/ GooseDown

Spec == Init /\ [][Next]_vars

\* Generate and migrate are run again until they have nothing left to do (a
\* deployment runs both at every start), and a started one goes on.  Nothing
\* obliges the SDL to change, anybody to crash or an operator to undo.
Fairness ==
  /\ WF_vars(Generate)
  /\ WF_vars(WriteFile)
  /\ \A m \in Migrators : /\ WF_vars(StartApply(m))
                          /\ WF_vars(TakeLock(m))
                          /\ WF_vars(ApplyFile(m))
                          /\ WF_vars(FinishApply(m))

FairSpec == Spec /\ Fairness
------------------------------------------------------------------------------
(* What is true of it. *)

Plans == [graph_down : GraphFiles \union {NoFile}, tables : TableFiles \union {NoFile},
          graph : GraphFiles \union {NoFile}]

\* Every variable has its type.
TypeOK ==
  /\ elsewhere \in BOOLEAN
  /\ desired \in Schemas
  /\ dir \in Seq(Files)
  /\ fold \in Seq(States)
  /\ gen \in [busy : BOOLEAN, ok : BOOLEAN, plan : Plans, for : Schemas, halves : Halves]
  /\ db \in States
  /\ at \in Nat
  /\ pc \in [Migrators -> {"off", "waiting", "applying"}]
  /\ last \in [Migrators -> Nat]
  /\ next \in [Migrators -> Nat]
  /\ lock \in Migrators \union {NoOne}
  /\ failed \in BOOLEAN
  /\ edits \in Nat /\ crashes \in Nat /\ downs \in Nat

\* The database never refuses a migration, up or down: whatever was
\* generated, interrupted, generated again for another schema, applied half
\* way, undone or raced for by two replicas, each file meets the tables it was
\* diffed against, no table moves under a live graph, and no graph is created
\* over one.
ApplyNeverFails == ~failed

\* A generation that returned without error left a directory that folds to
\* what its SDL asked for, in every half it managed - also when it had nothing
\* to write, and when it finished what a crashed one had begun.
GenerationReachesTheSchema == ~gen.busy /\ gen.ok => Holds(Prior, gen.for, gen.halves)

\* A folded state as the database shows it: the tables of somebody else do
\* not show in the history.
View(s) == IF elsewhere THEN [tables |-> Foreign, graph |-> s.graph] ELSE s

\* The directory and the database implement one versioned schema: the database
\* is at every moment at exactly the state that some prefix of the directory
\* folds to, it moves one file at a time, and no file is applied twice.
History == INSTANCE VersionedSchema WITH
             log <- [i \in DOMAIN fold |-> View(fold[i])], at <- at + 1, shown <- db
OneHistory == History!Spec

\* When edits cease, the database comes to have what the SDL describes and
\* stays so, whatever was interrupted before.
EventuallyDeployed == <>[](at = Len(dir) /\ Holds(View(Prior), gen.for, gen.halves)
                           /\ gen.for = desired /\ db = View(Prior))

\* What SPEC.md says of the flags: they scope the first generation.  A
\* directory whose first generation left the tables to somebody else
\* (a graph file comes first only then) never gets a file that touches them.
TablesHalfStaysOff ==
  dir # <<>> /\ dir[1].half = "graph" => \A i \in DOMAIN dir : dir[i].half = "graph"
------------------------------------------------------------------------------
(* Why it is true: an inductive invariant. *)

\* A file can be applied to a state, and undone from there, back to it.
Fits(s, f) ==
  /\ Accepts(s, f)
  /\ Accepts(After(f, s), Undo(f))
  /\ After(Undo(f), After(f, s)) = s

\* A graph that is live exposes the tables that are there.
Sane(s) ==
  /\ s.tables \in Tables \union {Empty}
  /\ elsewhere => s.tables = Empty
  /\ ~elsewhere /\ s.graph # NoGraph => s.tables \in Tables /\ s.graph.shape = Shape[s.tables]

Through(slot, s) == IF slot = NoFile THEN s ELSE After(slot, s)

Serves(slot, s) == slot # NoFile => Fits(View(s), slot) /\ Sane(After(slot, s))

\* What is left of a plan can be written and applied from state s on, one
\* file after another, and ends at the schema it was made for.
PlanServes(s, plan, d, h) ==
  LET s1 == Through(plan.graph_down, s)
      s2 == Through(plan.tables, s1)
  IN /\ elsewhere => plan.tables = NoFile
     /\ Serves(plan.graph_down, s)
     /\ Serves(plan.tables, s1)
     /\ Serves(plan.graph, s2)
     /\ Holds(Through(plan.graph, s2), d, h)

FoldIsTheHistory ==
  /\ Len(fold) = Len(dir) + 1
  /\ fold[1] = [tables |-> Empty, graph |-> NoGraph]
  /\ \A i \in 1..Len(dir) : /\ fold[i + 1] = After(dir[i], fold[i])
                            /\ Fits(View(fold[i]), dir[i])
                            /\ elsewhere => dir[i].half = "graph"

PriorIsSane == Sane(Prior) /\ (Prior.graph # NoGraph => Owned.graph)

GeneratorIsOnItsWay ==
  IF gen.busy THEN /\ gen.plan # NothingPlanned /\ ~gen.ok
                   /\ PlanServes(Prior, gen.plan, gen.for, gen.halves)
              ELSE gen.ok => Holds(Prior, gen.for, gen.halves)

DatabaseIsAPrefix == at <= Len(dir) /\ db = View(fold[at + 1])

MigratorsTakeTurns ==
  \A m \in Migrators : /\ last[m] <= Len(dir)
                       /\ pc[m] = "applying" => lock = m /\ next[m] = at + 1

\* The inductive invariant: all of the above together.
IInv ==
  /\ TypeOK
  /\ FoldIsTheHistory
  /\ PriorIsSane
  /\ GeneratorIsOnItsWay
  /\ DatabaseIsAPrefix
  /\ MigratorsTakeTurns
  /\ ApplyNeverFails
==============================================================================
