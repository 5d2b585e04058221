---------------------- MODULE MigrationDirectory_proofs -----------------------
(***************************************************************************)
(* The safety of MigrationDirectory.tla for every set of tables, graphs    *)
(* and migrators and for every bound on edits, crashes and undone files.   *)
(*                                                                         *)
(* Everything follows from IInv, which every step preserves.  The heart of *)
(* it is PlanServesTheSchema: what Plan computes from a sane folded state  *)
(* can be applied and undone file by file and ends at the SDL's schema.    *)
(* The rest is that a plan keeps serving while it is written, one file at  *)
(* a time, and that the database stays on the history.                     *)
(***************************************************************************)
EXTENDS MigrationDirectory, SequenceTheorems, TLAPS

Assumptions == ConstantsAssumption /\ ShapeAssumption /\ SentinelAssumption /\ FileAssumption

LEMMA AssumptionsHold == Assumptions
  BY ConstantsAssumption, ShapeAssumption, SentinelAssumption, FileAssumption DEF Assumptions
------------------------------------------------------------------------------
(* Files and states. *)

\* Applying a file leads from states to states, and so does undoing it.
LEMMA AfterType ==
  ASSUME NEW s \in States, NEW f \in Files
  PROVE  After(f, s) \in States /\ Undo(f) \in Files
  BY DEF After, Undo, States, Files, TableFiles, GraphFiles

\* A graph that an SDL declares is a graph, and is not the absence of one.
LEMMA GraphOfType ==
  ASSUME NEW d \in Schemas
  PROVE  /\ GraphOf(d) \in Graphs \union {NoGraph}
         /\ GraphOf(d) # NoGraph => GraphOf(d).shape = Shape[d.tables]
         /\ d.tables \in Tables
  BY AssumptionsHold DEF Assumptions, SentinelAssumption, ShapeAssumption, GraphOf, Schemas, Graphs

\* A plan consists of files of the kind their suffix says.
LEMMA PlanType ==
  ASSUME NEW s \in States, NEW d \in Schemas, NEW h \in Halves
  PROVE  Plan(s, d, h) \in Plans
<1>1. GraphOf(d) \in Graphs \union {NoGraph} /\ d.tables \in Tables
  BY GraphOfType
<1>2. FoldedTables(s) \in TableStates /\ s.graph \in Graphs \union {NoGraph}
  BY DEF FoldedTables, TableStates, States
<1>3. d.tables \in TableStates
  BY <1>1 DEF TableStates
<1> QED
  BY <1>1, <1>2, <1>3 DEF Plan, Plans, TableFiles, GraphFiles

LEMMA ViewType ==
  ASSUME NEW s \in States
  PROVE  View(s) \in States
  BY DEF View, States, TableStates

\* What the database shows of a file that does not touch the tables of
\* somebody else.
LEMMA ViewAfter ==
  ASSUME NEW s \in States, NEW f \in Files, elsewhere => f.half = "graph"
  PROVE  View(After(f, s)) = After(f, View(s))
  BY DEF View, After, States, Files, TableFiles, GraphFiles

\* A table file fits where its tables are and no graph is live.
LEMMA TableFileFits ==
  ASSUME NEW s \in States, s.graph = NoGraph, NEW t
  PROVE  Fits(s, [half |-> "tables", from |-> s.tables, to |-> t])
<1> DEFINE f == [half |-> "tables", from |-> s.tables, to |-> t]
<1>s. s = [tables |-> s.tables, graph |-> NoGraph]
  BY DEF States
<1>1. f.half = "tables" /\ f.from = s.tables /\ f.to = t
  OBVIOUS
<1>2. After(f, s) = [tables |-> t, graph |-> NoGraph]
  BY <1>s DEF After
<1>3. Undo(f) = [half |-> "tables", from |-> t, to |-> s.tables]
  BY DEF Undo
<1>4. Accepts(s, f)
  BY <1>1 DEF Accepts
<1>5. Accepts(After(f, s), Undo(f))
  BY <1>2, <1>3 DEF Accepts
<1>6. After(Undo(f), After(f, s)) = s
  <2>1. After(Undo(f), After(f, s)) = [tables |-> s.tables, graph |-> NoGraph]
    BY <1>2, <1>3 DEF After
  <2> QED BY <2>1, <1>s
<1> QED BY <1>4, <1>5, <1>6 DEF Fits

\* A teardown fits where its graph is live and exposes the tables.
LEMMA TeardownFits ==
  ASSUME NEW s \in States,
         s.tables # Foreign => s.tables \in Tables /\ s.graph.shape = Shape[s.tables]
  PROVE  Fits(s, [half |-> "graph", from |-> s.graph, to |-> NoGraph])
<1> DEFINE f == [half |-> "graph", from |-> s.graph, to |-> NoGraph]
<1>s. s = [tables |-> s.tables, graph |-> s.graph]
  BY DEF States
<1>2. After(f, s) = [tables |-> s.tables, graph |-> NoGraph]
  BY <1>s DEF After
<1>3. Undo(f) = [half |-> "graph", from |-> NoGraph, to |-> s.graph]
  BY DEF Undo
<1>4. Accepts(s, f)
  BY DEF Accepts
<1>5. Accepts(After(f, s), Undo(f))
  BY <1>2, <1>3 DEF Accepts
<1>6. After(Undo(f), After(f, s)) = s
  <2>1. After(Undo(f), After(f, s)) = [tables |-> s.tables, graph |-> s.graph]
    BY <1>2, <1>3 DEF After
  <2> QED BY <2>1, <1>s
<1> QED BY <1>4, <1>5, <1>6 DEF Fits

\* A build fits where no graph is live and the tables have what it exposes.
LEMMA BuildFits ==
  ASSUME NEW s \in States, NEW g, s.graph = NoGraph,
         s.tables # Foreign => s.tables \in Tables /\ g.shape = Shape[s.tables]
  PROVE  Fits(s, [half |-> "graph", from |-> NoGraph, to |-> g])
<1> DEFINE f == [half |-> "graph", from |-> NoGraph, to |-> g]
<1>s. s = [tables |-> s.tables, graph |-> NoGraph]
  BY DEF States
<1>2. After(f, s) = [tables |-> s.tables, graph |-> g]
  BY <1>s DEF After
<1>3. Undo(f) = [half |-> "graph", from |-> g, to |-> NoGraph]
  BY DEF Undo
<1>4. Accepts(s, f)
  BY DEF Accepts
<1>5. Accepts(After(f, s), Undo(f))
  BY <1>3 DEF Accepts
<1>6. After(Undo(f), After(f, s)) = s
  <2>1. After(Undo(f), After(f, s)) = [tables |-> s.tables, graph |-> NoGraph]
    BY <1>2, <1>3 DEF After
  <2> QED BY <2>1, <1>s
<1> QED BY <1>4, <1>5, <1>6 DEF Fits

\* A plan made from a sane folded state for halves the history allows serves:
\* its files can be applied and undone in turn, and end at the schema.
LEMMA PlanServesTheSchema ==
  ASSUME NEW s \in States, NEW d \in Schemas, NEW h \in Halves,
         elsewhere \in BOOLEAN, Sane(s),
         elsewhere <=> h.NoTables,
         h.NoGraph => s.graph = NoGraph
  PROVE  PlanServes(s, Plan(s, d, h), d, h)
<1> DEFINE p  == Plan(s, d, h)
           s1 == Through(p.graph_down, s)
           s2 == Through(p.tables, s1)
           s3 == Through(p.graph, s2)
<1>g. /\ GraphOf(d) \in Graphs \union {NoGraph}
      /\ GraphOf(d) # NoGraph => GraphOf(d).shape = Shape[d.tables]
      /\ d.tables \in Tables
  BY GraphOfType
<1>e. h.NoTables \in BOOLEAN /\ h.NoGraph \in BOOLEAN
  BY DEF Halves
<1>s. s = [tables |-> s.tables, graph |-> s.graph]
  BY DEF States
<1>c. Empty \notin Tables /\ Foreign \notin Tables /\ Bare \notin Tables /\ Foreign # Empty /\ Bare # Empty
  BY AssumptionsHold DEF Assumptions, ConstantsAssumption
<1>t. FoldedTables(s) = s.tables \/ elsewhere
  BY <1>c DEF FoldedTables, Sane
<1>n. NoFile \notin Files
  BY AssumptionsHold DEF Assumptions, FileAssumption
<1> DEFINE tablesChanged == ~h.NoTables /\ FoldedTables(s) # d.tables
           graphChanged  == ~h.NoGraph /\ s.graph # GraphOf(d)
           teardown == ~h.NoGraph /\ s.graph # NoGraph /\ (tablesChanged \/ graphChanged)
           build    == ~h.NoGraph /\ GraphOf(d) # NoGraph /\ (graphChanged \/ teardown)
<1>p. p \in Plans
  BY PlanType
<1>1. /\ p.graph_down = IF teardown THEN [half |-> "graph", from |-> s.graph, to |-> NoGraph] ELSE NoFile
      /\ p.tables = IF tablesChanged THEN [half |-> "tables", from |-> FoldedTables(s), to |-> d.tables] ELSE NoFile
      /\ p.graph = IF build THEN [half |-> "graph", from |-> NoGraph, to |-> GraphOf(d)] ELSE NoFile
  BY DEF Plan
<1>2. /\ teardown => p.graph_down \in Files
      /\ tablesChanged => p.tables \in Files
      /\ build => p.graph \in Files
  <2>1. FoldedTables(s) \in TableStates /\ s.graph \in Graphs \union {NoGraph}
    BY DEF FoldedTables, TableStates, States
  <2>2. d.tables \in TableStates
    BY <1>g DEF TableStates
  <2>3. teardown => p.graph_down \in GraphFiles
    BY <1>1, <2>1 DEF GraphFiles
  <2>4. tablesChanged => p.tables \in TableFiles
    BY <1>1, <2>1, <2>2 DEF TableFiles
  <2>5. build => p.graph \in GraphFiles
    BY <1>1, <1>g DEF GraphFiles
  <2> QED BY <2>3, <2>4, <2>5 DEF Files
<1>3. s1 = [tables |-> s.tables, graph |-> IF teardown THEN NoGraph ELSE s.graph]
  BY <1>1, <1>2, <1>n, <1>s DEF Through, After
<1>4. s2 = [tables |-> IF tablesChanged THEN d.tables ELSE s.tables, graph |-> s1.graph]
  BY <1>1, <1>2, <1>3, <1>n DEF Through, After
<1>5. s3 = [tables |-> s2.tables, graph |-> IF build THEN GraphOf(d) ELSE s2.graph]
  BY <1>1, <1>2, <1>4, <1>n DEF Through, After
<1>6. elsewhere => p.tables = NoFile
  BY <1>1, <1>e
<1>7. Serves(p.graph_down, s)
  <2>1. teardown => Fits(View(s), p.graph_down)
    <3>1. View(s) \in States
      BY ViewType
    <3>2. /\ View(s).graph = s.graph
          /\ View(s).tables = IF elsewhere THEN Foreign ELSE s.tables
      BY <1>s DEF View
    <3>3. teardown /\ View(s).tables # Foreign
            => View(s).tables \in Tables /\ View(s).graph.shape = Shape[View(s).tables]
      BY <3>2 DEF Sane
    <3> QED BY <3>1, <3>2, <3>3, <1>1, TeardownFits
  <2>2. teardown => Sane(After(p.graph_down, s))
    BY <1>1, <1>s DEF After, Sane
  <2> QED BY <1>1, <2>1, <2>2 DEF Serves
<1>8. Serves(p.tables, s1)
  <2>1. tablesChanged => s1.graph = NoGraph
    BY <1>3
  <2>2. tablesChanged => ~elsewhere /\ View(s1) = s1 /\ FoldedTables(s) = s.tables
    BY <1>e, <1>t DEF View
  <2>3. tablesChanged => Fits(View(s1), p.tables)
    <3>1. tablesChanged => s1 \in States
      BY <1>3, <2>1 DEF States
    <3>2. s1.tables = s.tables
      BY <1>3
    <3> QED BY <3>1, <3>2, <2>1, <2>2, <1>1, TableFileFits
  <2>4. tablesChanged => Sane(After(p.tables, s1))
    BY <1>1, <1>3, <2>1, <2>2, <1>g DEF After, Sane
  <2> QED BY <1>1, <2>3, <2>4 DEF Serves
<1>9. Serves(p.graph, s2)
  <2>1. build => s2.graph = NoGraph
    BY <1>3, <1>4
  <2>2. build /\ ~elsewhere => s2.tables = d.tables
    BY <1>4, <1>e, <1>t, <1>3
  <2>3. elsewhere => s2.tables = Empty
    BY <1>4, <1>3, <1>e DEF Sane
  <2>4. build => Fits(View(s2), p.graph)
    <3>1. s2 \in States
      BY <1>3, <1>4, <1>g DEF States, TableStates
    <3>2. View(s2) \in States
      BY <3>1, ViewType
    <3>3. /\ View(s2).graph = s2.graph
          /\ View(s2).tables = IF elsewhere THEN Foreign ELSE s2.tables
      BY <1>4 DEF View
    <3>4. build /\ View(s2).tables # Foreign
            => View(s2).tables \in Tables /\ GraphOf(d).shape = Shape[View(s2).tables]
      BY <3>3, <2>2, <1>g
    <3> QED BY <3>2, <3>3, <3>4, <2>1, <1>1, BuildFits
  <2>5. build => Sane(After(p.graph, s2))
    BY <1>1, <1>4, <2>1, <2>2, <2>3, <1>g, <1>c DEF After, Sane
  <2> QED BY <1>1, <2>4, <2>5 DEF Serves
<1>10. Holds(s3, d, h)
  <2>1. ~h.NoTables => s3.tables = d.tables
    BY <1>5, <1>4, <1>3, <1>e, <1>t
  <2>2. ~h.NoGraph => s3.graph = GraphOf(d)
    BY <1>5, <1>4, <1>3, <1>e
  <2> QED BY <2>1, <2>2 DEF Holds
<1> QED
  BY <1>6, <1>7, <1>8, <1>9, <1>10 DEF PlanServes
------------------------------------------------------------------------------
(* The inductive invariant holds at the start. *)

LEMMA InitEstablishes ==
  ASSUME Init
  PROVE  IInv
<1>0. NoOne \notin Migrators /\ NoGraph \notin Graphs /\ NoFile \notin Files
  BY AssumptionsHold DEF Assumptions, ConstantsAssumption, SentinelAssumption, FileAssumption
<1> DEFINE start == [tables |-> Empty, graph |-> NoGraph]
<1>1. start \in States /\ db \in States
  BY DEF Init, States, TableStates
<1>2. fold = <<start>> /\ dir = <<>> /\ Len(fold) = 1 /\ Len(dir) = 0 /\ fold[1] = start
  BY DEF Init
<1>3. TypeOK
  <2>1. gen \in [busy : BOOLEAN, ok : BOOLEAN, plan : Plans, for : Schemas, halves : Halves]
    BY DEF Init, NothingPlanned, Plans, Halves
  <2>2. fold \in Seq(States) /\ dir \in Seq(Files)
    BY <1>1, <1>2
  <2> QED BY <2>1, <2>2, <1>1 DEF Init, TypeOK
<1>4. Prior = start
  BY <1>2 DEF Prior
<1>5. FoldIsTheHistory
  BY <1>2 DEF FoldIsTheHistory
<1>6. PriorIsSane
  BY <1>4 DEF PriorIsSane, Sane
<1>7. GeneratorIsOnItsWay
  BY DEF GeneratorIsOnItsWay, Init
<1>8. DatabaseIsAPrefix
  BY <1>2 DEF DatabaseIsAPrefix, Init, View
<1>9. MigratorsTakeTurns
  BY <1>2 DEF MigratorsTakeTurns, Init
<1> QED BY <1>3, <1>5, <1>6, <1>7, <1>8, <1>9 DEF IInv, ApplyNeverFails, Init
------------------------------------------------------------------------------
(* It is preserved by every step. *)

\* What the invariant says of the last folded state.
LEMMA PriorType ==
  ASSUME IInv
  PROVE  /\ Prior \in States /\ Prior = fold[Len(dir) + 1] /\ Sane(Prior)
         /\ Prior.graph # NoGraph => Owned.graph
  BY DEF IInv, TypeOK, FoldIsTheHistory, PriorIsSane, Prior

\* Steps that leave the directory alone keep what is said of it.
LEMMA SameDirectory ==
  ASSUME IInv, UNCHANGED <<elsewhere, dir, fold>>
  PROVE  FoldIsTheHistory' /\ PriorIsSane' /\ Prior' = Prior /\ Owned' = Owned
  BY DEF IInv, FoldIsTheHistory, PriorIsSane, Prior, Owned, Sane, View

\* Steps that leave the generator alone as well keep its promise.
LEMMA SameGenerator ==
  ASSUME IInv, UNCHANGED <<elsewhere, dir, fold, gen>>
  PROVE  GeneratorIsOnItsWay'
<1>1. Prior' = Prior
  BY SameDirectory
<1> QED
  BY <1>1 DEF IInv, GeneratorIsOnItsWay, PlanServes, Serves, View, Sane

\* The edit of the SDL.
LEMMA EditSchemaPreserves ==
  ASSUME IInv, EditSchema
  PROVE  IInv'
<1>1. UNCHANGED <<elsewhere, dir, fold, gen, db, at, pc, last, next, lock, failed, crashes, downs>>
  BY DEF EditSchema, dirVars, dbVars, migVars
<1>2. TypeOK'
  BY <1>1 DEF IInv, TypeOK, EditSchema
<1>3. DatabaseIsAPrefix' /\ MigratorsTakeTurns' /\ ApplyNeverFails'
  BY <1>1 DEF IInv, DatabaseIsAPrefix, MigratorsTakeTurns, ApplyNeverFails, View
<1> QED BY <1>1, <1>2, <1>3, SameDirectory, SameGenerator DEF IInv

\* The start of a generation: what is planned serves.
LEMMA StartGeneratePreserves ==
  ASSUME IInv, NEW h \in Halves, StartGenerate(h), SwitchTablesOn = FALSE
  PROVE  IInv'
<1> DEFINE plan == Plan(Prior, desired, h)
<1>1. UNCHANGED <<elsewhere, desired, dir, fold, db, at, pc, last, next, lock, failed, edits, crashes, downs>>
  BY DEF StartGenerate, dbVars, migVars, counts
<1>2. gen' = [busy |-> plan # NothingPlanned, ok |-> plan = NothingPlanned,
              plan |-> plan, for |-> desired, halves |-> h]
  BY DEF StartGenerate
<1>3. Prior \in States /\ desired \in Schemas /\ elsewhere \in BOOLEAN /\ Sane(Prior)
  BY PriorType DEF IInv, TypeOK
<1>4. plan \in Plans
  BY <1>3, PlanType
<1>5. TypeOK'
  BY <1>1, <1>2, <1>3, <1>4 DEF IInv, TypeOK
<1>6. PlanServes(Prior, plan, desired, h)
  <2>1. Sensible(h) /\ ~HalfDisowned(Owned, h)
    BY DEF StartGenerate
  <2>2. h.NoTables \in BOOLEAN /\ h.NoGraph \in BOOLEAN
    BY DEF Halves
  <2>3. elsewhere <=> h.NoTables
    BY <2>1, <2>2, <1>3 DEF Sensible, HalfDisowned
  <2>4. h.NoGraph => Prior.graph = NoGraph
    BY <2>1, PriorType DEF HalfDisowned
  <2> QED BY <1>3, <2>3, <2>4, PlanServesTheSchema
<1>7. GeneratorIsOnItsWay'
  <2>1. Prior' = Prior
    BY <1>1, SameDirectory
  <2>2. CASE plan # NothingPlanned
    BY <2>1, <2>2, <1>1, <1>2, <1>6 DEF GeneratorIsOnItsWay, PlanServes, Serves, View, Sane
  <2>3. CASE plan = NothingPlanned
    <3>1. Holds(Prior, desired, h)
      BY <2>3, <1>6 DEF PlanServes, Through, NothingPlanned
    <3> QED BY <3>1, <2>1, <2>3, <1>1, <1>2 DEF GeneratorIsOnItsWay
  <2> QED BY <2>2, <2>3
<1>8. DatabaseIsAPrefix' /\ MigratorsTakeTurns' /\ ApplyNeverFails'
  BY <1>1 DEF IInv, DatabaseIsAPrefix, MigratorsTakeTurns, ApplyNeverFails, View
<1> QED BY <1>1, <1>5, <1>7, <1>8, SameDirectory DEF IInv

\* The first file of a plan that serves can be written: it fits, it leads to a
\* sane state, and what is left of the plan serves from there.
LEMMA PlanIsWrittenInTurn ==
  ASSUME NEW s, NEW plan \in Plans, NEW d, NEW h,
         plan # NothingPlanned, PlanServes(s, plan, d, h)
  PROVE  LET k    == NextSuffix(plan)
             file == plan[k]
             rest == [plan EXCEPT ![k] = NoFile]
         IN /\ file \in Files /\ rest \in Plans
            /\ elsewhere => file.half = "graph"
            /\ Fits(View(s), file) /\ Sane(After(file, s))
            /\ PlanServes(After(file, s), rest, d, h)
<1> DEFINE k    == NextSuffix(plan)
           file == plan[k]
           rest == [plan EXCEPT ![k] = NoFile]
<1>1. plan = [graph_down |-> plan.graph_down, tables |-> plan.tables, graph |-> plan.graph]
  BY DEF Plans
<1>2. /\ plan.graph_down # NoFile => plan.graph_down \in GraphFiles
      /\ plan.tables # NoFile => plan.tables \in TableFiles
      /\ plan.graph # NoFile => plan.graph \in GraphFiles
  BY DEF Plans
<1>r. rest \in Plans
  BY DEF Plans, NextSuffix
<1>3. CASE plan.graph_down # NoFile
  <2>1. /\ k = "graph_down" /\ file = plan.graph_down
        /\ rest.graph_down = NoFile /\ rest.tables = plan.tables /\ rest.graph = plan.graph
    <3>1. k = "graph_down"
      BY <1>3 DEF NextSuffix
    <3> QED BY <3>1 DEF Plans
  <2>2. file \in Files /\ file.half = "graph"
    BY <2>1, <1>2, <1>3 DEF Files, GraphFiles, Plans
  <2>3. Fits(View(s), file) /\ Sane(After(file, s))
    BY <2>1, <1>3 DEF PlanServes, Serves
  <2>4. PlanServes(After(file, s), rest, d, h)
    BY <2>1, <1>3 DEF PlanServes, Serves, Through
  <2> QED BY <1>r, <2>2, <2>3, <2>4
<1>4. CASE plan.graph_down = NoFile /\ plan.tables # NoFile
  <2>1. /\ k = "tables" /\ file = plan.tables
        /\ rest.graph_down = NoFile /\ rest.tables = NoFile /\ rest.graph = plan.graph
    <3>1. k = "tables"
      BY <1>4 DEF NextSuffix
    <3> QED BY <3>1, <1>4 DEF Plans
  <2>2. file \in Files /\ ~elsewhere
    BY <2>1, <1>2, <1>4 DEF Files, Plans, PlanServes
  <2>3. Fits(View(s), file) /\ Sane(After(file, s))
    BY <2>1, <1>4 DEF PlanServes, Serves, Through
  <2>4. PlanServes(After(file, s), rest, d, h)
    BY <2>1, <1>4 DEF PlanServes, Serves, Through
  <2> QED BY <1>r, <2>2, <2>3, <2>4
<1>5. CASE plan.graph_down = NoFile /\ plan.tables = NoFile
  <2>0. plan.graph # NoFile
    BY <1>1, <1>5 DEF NothingPlanned
  <2>1. /\ k = "graph" /\ file = plan.graph
        /\ rest.graph_down = NoFile /\ rest.tables = NoFile /\ rest.graph = NoFile
    <3>1. k = "graph"
      BY <1>5 DEF NextSuffix
    <3> QED BY <3>1, <1>5 DEF Plans
  <2>2. file \in Files /\ file.half = "graph"
    BY <2>0, <2>1, <1>2 DEF Files, GraphFiles, Plans
  <2>3. Fits(View(s), file) /\ Sane(After(file, s))
    BY <2>0, <2>1, <1>5 DEF PlanServes, Serves, Through
  <2>4. PlanServes(After(file, s), rest, d, h)
    BY <2>0, <2>1, <1>5 DEF PlanServes, Serves, Through
  <2> QED BY <1>r, <2>2, <2>3, <2>4
<1> QED BY <1>1, <1>3, <1>4, <1>5

\* The write of a file.
LEMMA WriteFilePreserves ==
  ASSUME IInv, WriteFile
  PROVE  IInv'
<1> DEFINE k    == NextSuffix(gen.plan)
           file == gen.plan[k]
           rest == [gen.plan EXCEPT ![k] = NoFile]
<1>1. UNCHANGED <<elsewhere, desired, db, at, pc, last, next, lock, failed, edits, crashes, downs>>
  BY DEF WriteFile, dbVars, migVars, counts
<1>2. /\ gen.busy
      /\ dir' = Append(dir, file)
      /\ fold' = Append(fold, After(file, Prior))
      /\ gen' = [gen EXCEPT !.plan = rest, !.busy = rest # NothingPlanned,
                            !.ok = rest = NothingPlanned]
  BY DEF WriteFile
<1>3. /\ Prior \in States /\ Prior = fold[Len(dir) + 1] /\ Sane(Prior)
      /\ Prior.graph # NoGraph => Owned.graph
  BY PriorType
<1>4. /\ gen \in [busy : BOOLEAN, ok : BOOLEAN, plan : Plans, for : Schemas, halves : Halves]
      /\ dir \in Seq(Files) /\ fold \in Seq(States) /\ Len(fold) = Len(dir) + 1 /\ Len(dir) \in Nat
  BY DEF IInv, TypeOK, FoldIsTheHistory
<1>5. gen.plan \in Plans /\ gen.plan # NothingPlanned /\ PlanServes(Prior, gen.plan, gen.for, gen.halves)
  BY <1>2, <1>4 DEF IInv, GeneratorIsOnItsWay
<1>6. /\ file \in Files /\ rest \in Plans
      /\ elsewhere => file.half = "graph"
      /\ Fits(View(Prior), file) /\ Sane(After(file, Prior))
      /\ PlanServes(After(file, Prior), rest, gen.for, gen.halves)
  BY <1>5, PlanIsWrittenInTurn
<1>7. After(file, Prior) \in States
  BY <1>3, <1>6, AfterType
<1> HIDE DEF file, rest, k
<1>8. /\ gen' \in [busy : BOOLEAN, ok : BOOLEAN, plan : Plans, for : Schemas, halves : Halves]
      /\ gen'.plan = rest /\ gen'.busy = (rest # NothingPlanned) /\ gen'.ok = (rest = NothingPlanned)
      /\ gen'.for = gen.for /\ gen'.halves = gen.halves
  BY <1>2, <1>4, <1>6
<1>9. TypeOK'
  BY <1>1, <1>2, <1>4, <1>6, <1>7, <1>8 DEF IInv, TypeOK
<1>10. /\ Len(dir') = Len(dir) + 1 /\ Len(fold') = Len(fold) + 1
       /\ \A i \in 1..Len(dir) : dir'[i] = dir[i]
       /\ \A i \in 1..Len(fold) : fold'[i] = fold[i]
       /\ dir'[Len(dir) + 1] = file /\ fold'[Len(fold) + 1] = After(file, Prior)
  BY <1>2, <1>4, <1>6, <1>7
<1>11. Prior' = After(file, Prior)
  BY <1>10 DEF Prior
<1>12. FoldIsTheHistory'
  <2>1. Len(fold') = Len(dir') + 1 /\ fold'[1] = [tables |-> Empty, graph |-> NoGraph]
    BY <1>10, <1>4 DEF IInv, FoldIsTheHistory
  <2>2. ASSUME NEW i \in 1..Len(dir')
        PROVE  /\ fold'[i + 1] = After(dir'[i], fold'[i])
               /\ Fits(View(fold[i])', dir'[i])
               /\ elsewhere' => dir'[i].half = "graph"
    <3>1. CASE i \in 1..Len(dir)
      <4>1. /\ fold[i + 1] = After(dir[i], fold[i])
            /\ Fits(View(fold[i]), dir[i])
            /\ elsewhere => dir[i].half = "graph"
        BY <3>1 DEF IInv, FoldIsTheHistory
      <4>2. fold'[i] = fold[i] /\ fold'[i + 1] = fold[i + 1] /\ dir'[i] = dir[i]
        BY <3>1, <1>10, <1>4
      <4>3. View(fold[i])' = View(fold[i])
        BY <4>2, <1>1 DEF View
      <4> QED BY <4>1, <4>2, <4>3, <1>1
    <3>2. CASE i = Len(dir) + 1
      <4>1. fold'[i] = Prior /\ fold'[i + 1] = After(file, Prior) /\ dir'[i] = file
        BY <3>2, <1>10, <1>4, <1>3
      <4>2. View(fold[i])' = View(Prior)
        BY <4>1, <1>1 DEF View
      <4> QED BY <4>1, <4>2, <1>6, <1>1
    <3> QED BY <3>1, <3>2, <1>10, <1>4
  <2> QED BY <2>1, <2>2 DEF FoldIsTheHistory
<1>13. PriorIsSane'
  <2>1. Sane(Prior)'
    BY <1>11, <1>6, <1>1 DEF Sane
  <2>2. ASSUME Prior'.graph # NoGraph
        PROVE  Owned'.graph
    <3>1. CASE file.half = "tables"
      <4>1. Owned.graph
        BY <2>2, <3>1, <1>11, <1>3 DEF After
      <4>2. PICK i \in DOMAIN dir : dir[i].half = "graph" /\ dir[i].to # NoGraph
        BY <4>1 DEF Owned, Ownership
      <4>3. i \in DOMAIN dir' /\ dir'[i] = dir[i]
        BY <1>10, <1>4, <1>2
      <4> QED BY <4>2, <4>3 DEF Owned, Ownership
    <3>2. CASE file.half # "tables"
      <4>1. file.half = "graph" /\ file.to # NoGraph
        BY <2>2, <3>2, <1>6, <1>11 DEF After, Files, TableFiles, GraphFiles
      <4>2. Len(dir) + 1 \in DOMAIN dir' /\ dir'[Len(dir) + 1] = file
        BY <1>10, <1>4, <1>2
      <4> QED BY <4>1, <4>2 DEF Owned, Ownership
    <3> QED BY <3>1, <3>2
  <2> QED BY <2>1, <2>2 DEF PriorIsSane
<1>14. GeneratorIsOnItsWay'
  <2>1. PlanServes(Prior, gen.plan, gen.for, gen.halves)'
    BY <1>1, <1>6, <1>8, <1>11 DEF PlanServes, Serves, View, Sane
  <2>2. CASE rest # NothingPlanned
    BY <2>1, <2>2, <1>8 DEF GeneratorIsOnItsWay
  <2>3. CASE rest = NothingPlanned
    <3>1. Holds(After(file, Prior), gen.for, gen.halves)
      BY <2>3, <1>6 DEF PlanServes, Through, NothingPlanned
    <3> QED BY <2>3, <3>1, <1>8, <1>11 DEF GeneratorIsOnItsWay
  <2> QED BY <2>2, <2>3
<1>15. DatabaseIsAPrefix'
  <2>1. at + 1 \in 1..Len(fold) /\ at \in Nat
    BY <1>4 DEF IInv, TypeOK, DatabaseIsAPrefix
  <2>2. fold'[at + 1] = fold[at + 1]
    BY <2>1, <1>10
  <2> QED BY <2>1, <2>2, <1>1, <1>4, <1>10 DEF IInv, DatabaseIsAPrefix, View
<1>16. MigratorsTakeTurns' /\ ApplyNeverFails'
  BY <1>1, <1>4, <1>10 DEF IInv, TypeOK, MigratorsTakeTurns, ApplyNeverFails
<1> QED BY <1>9, <1>12, <1>13, <1>14, <1>15, <1>16 DEF IInv

\* The death of the generator.
LEMMA CrashGeneratePreserves ==
  ASSUME IInv, CrashGenerate
  PROVE  IInv'
<1>1. UNCHANGED <<elsewhere, desired, dir, fold, db, at, pc, last, next, lock, failed, edits, downs>>
  BY DEF CrashGenerate, dbVars, migVars
<1>2. gen' = [gen EXCEPT !.busy = FALSE, !.plan = NothingPlanned] /\ gen.busy /\ crashes' = crashes + 1
  BY DEF CrashGenerate
<1>3. gen \in [busy : BOOLEAN, ok : BOOLEAN, plan : Plans, for : Schemas, halves : Halves]
  BY DEF IInv, TypeOK
<1>4. NothingPlanned \in Plans
  BY DEF NothingPlanned, Plans
<1>5. TypeOK'
  <2>1. gen' \in [busy : BOOLEAN, ok : BOOLEAN, plan : Plans, for : Schemas, halves : Halves]
    BY <1>2, <1>3, <1>4
  <2> QED BY <1>1, <1>2, <2>1 DEF IInv, TypeOK
<1>6. GeneratorIsOnItsWay'
  <2>1. ~gen.ok
    BY <1>2 DEF IInv, GeneratorIsOnItsWay
  <2> QED BY <2>1, <1>2, <1>3 DEF GeneratorIsOnItsWay
<1>7. DatabaseIsAPrefix' /\ MigratorsTakeTurns' /\ ApplyNeverFails'
  BY <1>1 DEF IInv, DatabaseIsAPrefix, MigratorsTakeTurns, ApplyNeverFails, View
<1> QED BY <1>1, <1>5, <1>6, <1>7, SameDirectory DEF IInv

\* A migrator looks at the directory.
LEMMA StartApplyPreserves ==
  ASSUME IInv, NEW m \in Migrators, StartApply(m)
  PROVE  IInv'
<1>1. UNCHANGED <<elsewhere, desired, dir, fold, gen, db, at, next, lock, failed, edits, crashes, downs>>
  BY DEF StartApply, dirVars, dbVars, counts
<1>2. pc[m] = "off" /\ pc' = [pc EXCEPT ![m] = "waiting"] /\ last' = [last EXCEPT ![m] = Len(dir)]
  BY DEF StartApply
<1>3. Len(dir) \in Nat
  BY DEF IInv, TypeOK
<1>4. TypeOK'
  BY <1>1, <1>2, <1>3 DEF IInv, TypeOK
<1>5. MigratorsTakeTurns'
  BY <1>1, <1>2, <1>3 DEF IInv, TypeOK, MigratorsTakeTurns
<1>6. DatabaseIsAPrefix' /\ ApplyNeverFails'
  BY <1>1 DEF IInv, DatabaseIsAPrefix, ApplyNeverFails, View
<1> QED BY <1>1, <1>4, <1>5, <1>6, SameDirectory, SameGenerator DEF IInv

\* A migrator gets the lock: nobody else is applying.
LEMMA TakeLockPreserves ==
  ASSUME IInv, NEW m \in Migrators, TakeLock(m)
  PROVE  IInv'
<1>1. UNCHANGED <<elsewhere, desired, dir, fold, gen, db, at, last, failed, edits, crashes, downs>>
  BY DEF TakeLock, dirVars, dbVars, counts
<1>2. /\ lock = NoOne /\ lock' = m
      /\ next' = [next EXCEPT ![m] = at + 1] /\ pc' = [pc EXCEPT ![m] = "applying"]
  BY DEF TakeLock
<1>3. TypeOK'
  BY <1>1, <1>2 DEF IInv, TypeOK
<1>4. MigratorsTakeTurns'
  <2>1. \A n \in Migrators : pc[n] # "applying"
    BY <1>2, AssumptionsHold DEF IInv, MigratorsTakeTurns, Assumptions, ConstantsAssumption
  <2> QED BY <1>1, <1>2, <2>1 DEF IInv, TypeOK, MigratorsTakeTurns
<1>5. DatabaseIsAPrefix' /\ ApplyNeverFails'
  BY <1>1 DEF IInv, DatabaseIsAPrefix, ApplyNeverFails, View
<1> QED BY <1>1, <1>3, <1>4, <1>5, SameDirectory, SameGenerator DEF IInv

\* The end of a run, whatever ends it.
LEMMA StopPreserves ==
  ASSUME IInv, NEW m \in Migrators, Stop(m),
         UNCHANGED <<elsewhere, desired, dir, fold, gen, db, at, failed, edits, downs>>,
         crashes' \in Nat
  PROVE  IInv'
<1>1. /\ pc' = [pc EXCEPT ![m] = "off"] /\ last' = [last EXCEPT ![m] = 0]
      /\ next' = [next EXCEPT ![m] = 0] /\ lock' = IF lock = m THEN NoOne ELSE lock
  BY DEF Stop
<1>2. TypeOK'
  BY <1>1 DEF IInv, TypeOK
<1>3. MigratorsTakeTurns'
  BY <1>1 DEF IInv, TypeOK, MigratorsTakeTurns
<1>4. DatabaseIsAPrefix' /\ ApplyNeverFails'
  BY DEF IInv, DatabaseIsAPrefix, ApplyNeverFails, View
<1> QED BY <1>2, <1>3, <1>4, SameDirectory, SameGenerator DEF IInv

\* The next file of the history fits the database.
LEMMA NextFileFits ==
  ASSUME IInv, NEW i \in 1..Len(dir), db = View(fold[i])
  PROVE  /\ Accepts(db, dir[i]) /\ After(dir[i], db) = View(fold[i + 1])
         /\ After(dir[i], db) \in States
<1>1. /\ fold[i + 1] = After(dir[i], fold[i])
      /\ Fits(View(fold[i]), dir[i])
      /\ elsewhere => dir[i].half = "graph"
  BY DEF IInv, FoldIsTheHistory
<1>2. fold[i] \in States /\ dir[i] \in Files /\ db \in States
  BY DEF IInv, TypeOK, FoldIsTheHistory
<1> QED BY <1>1, <1>2, ViewAfter, AfterType DEF Fits

\* The application of a file: it is the one after those applied, and fits.
LEMMA ApplyFilePreserves ==
  ASSUME IInv, NEW m \in Migrators, ApplyFile(m)
  PROVE  IInv' /\ at < Len(dir) /\ at' = at + 1 /\ db' = View(fold[at + 2])
<1>1. UNCHANGED <<elsewhere, desired, dir, fold, gen, edits, crashes, downs>>
  BY DEF ApplyFile, dirVars, counts
<1>2. /\ pc[m] = "applying" /\ next[m] <= last[m] /\ last[m] <= Len(dir)
      /\ lock = m /\ next[m] = at + 1 /\ at \in Nat /\ Len(dir) \in Nat /\ last[m] \in Nat
  BY DEF ApplyFile, IInv, MigratorsTakeTurns, TypeOK
<1>3. at + 1 \in 1..Len(dir) /\ db = View(fold[at + 1])
  BY <1>2 DEF IInv, DatabaseIsAPrefix
<1>4. /\ Accepts(db, dir[at + 1]) /\ After(dir[at + 1], db) = View(fold[at + 2])
      /\ After(dir[at + 1], db) \in States
  BY <1>2, <1>3, NextFileFits, (at + 1) + 1 = at + 2
<1>5. /\ db' = After(dir[at + 1], db) /\ at' = at + 1 /\ next' = [next EXCEPT ![m] = @ + 1]
      /\ UNCHANGED <<pc, last, lock, failed>>
  BY <1>2, <1>4 DEF ApplyFile
<1>6. TypeOK'
  BY <1>1, <1>2, <1>4, <1>5 DEF IInv, TypeOK
<1>7. DatabaseIsAPrefix'
  <2>1. at' <= Len(dir') /\ at' + 1 = at + 2
    BY <1>1, <1>2, <1>3, <1>5
  <2>2. View(fold[at + 1])' = db'
    BY <1>1, <1>4, <1>5, <2>1 DEF View
  <2> QED BY <2>1, <2>2 DEF DatabaseIsAPrefix
<1>8. MigratorsTakeTurns'
  BY <1>1, <1>2, <1>5 DEF IInv, TypeOK, MigratorsTakeTurns
<1>9. ApplyNeverFails'
  BY <1>5 DEF IInv, ApplyNeverFails
<1> QED
  BY <1>1, <1>2, <1>3, <1>4, <1>5, <1>6, <1>7, <1>8, <1>9, SameDirectory, SameGenerator DEF IInv

\* The undoing of the last applied file: it leads back one step.
LEMMA GooseDownPreserves ==
  ASSUME IInv, GooseDown
  PROVE  IInv' /\ at > 0 /\ at' = at - 1 /\ db' = View(fold[at])
<1>1. UNCHANGED <<elsewhere, desired, dir, fold, gen, pc, last, next, lock, edits, crashes>>
  BY DEF GooseDown, dirVars, migVars
<1>2. at > 0 /\ at \in Nat /\ at <= Len(dir) /\ Len(dir) \in Nat /\ lock = NoOne /\ downs' = downs + 1
  BY DEF GooseDown, IInv, TypeOK, DatabaseIsAPrefix
<1>3. /\ at \in 1..Len(dir) /\ at - 1 \in Nat /\ (at - 1) + 1 = at
      /\ db = View(fold[at + 1])
  BY <1>2 DEF IInv, DatabaseIsAPrefix
<1>4. /\ fold[at + 1] = After(dir[at], fold[at])
      /\ Fits(View(fold[at]), dir[at])
      /\ elsewhere => dir[at].half = "graph"
  BY <1>3 DEF IInv, FoldIsTheHistory
<1>5. fold[at] \in States /\ dir[at] \in Files
  BY <1>3 DEF IInv, TypeOK, FoldIsTheHistory
<1>6. db = After(dir[at], View(fold[at]))
  BY <1>3, <1>4, <1>5, ViewAfter
<1>7. Accepts(db, Undo(dir[at])) /\ After(Undo(dir[at]), db) = View(fold[at])
  BY <1>4, <1>6 DEF Fits
<1>8. db' = View(fold[at]) /\ at' = at - 1 /\ failed' = failed
  BY <1>7 DEF GooseDown
<1>9. View(fold[at]) \in States
  BY <1>5, ViewType
<1>10. TypeOK'
  BY <1>1, <1>2, <1>3, <1>8, <1>9 DEF IInv, TypeOK
<1>11. DatabaseIsAPrefix'
  <2>1. at' <= Len(dir') /\ at' + 1 = at
    BY <1>1, <1>2, <1>3, <1>8
  <2>2. View(fold[at + 1])' = db'
    BY <1>1, <1>8, <2>1 DEF View
  <2> QED BY <2>1, <2>2 DEF DatabaseIsAPrefix
<1>12. MigratorsTakeTurns'
  <2>1. \A n \in Migrators : pc[n] # "applying"
    BY <1>2, AssumptionsHold DEF IInv, MigratorsTakeTurns, Assumptions, ConstantsAssumption
  <2> QED BY <1>1, <2>1 DEF IInv, MigratorsTakeTurns
<1>13. ApplyNeverFails'
  BY <1>8 DEF IInv, ApplyNeverFails
<1> QED
  BY <1>1, <1>2, <1>8, <1>10, <1>11, <1>12, <1>13, SameDirectory, SameGenerator DEF IInv

\* Every step preserves the invariant.
LEMMA NextPreserves ==
  ASSUME IInv, [Next]_vars, SwitchTablesOn = FALSE
  PROVE  IInv'
<1>1. CASE EditSchema
  BY <1>1, EditSchemaPreserves
<1>2. CASE Generate
  <2>1. PICK h \in Halves : StartGenerate(h)
    BY <1>2 DEF Generate
  <2> QED BY <2>1, StartGeneratePreserves
<1>3. CASE WriteFile
  BY <1>3, WriteFilePreserves
<1>4. CASE CrashGenerate
  BY <1>4, CrashGeneratePreserves
<1>5. ASSUME NEW m \in Migrators, Migrate(m)
      PROVE  IInv'
  <2>1. CASE StartApply(m)
    BY <2>1, StartApplyPreserves
  <2>2. CASE TakeLock(m)
    BY <2>2, TakeLockPreserves
  <2>3. CASE ApplyFile(m)
    BY <2>3, ApplyFilePreserves
  <2>4. CASE FinishApply(m)
    <3>1. /\ Stop(m)
          /\ UNCHANGED <<elsewhere, desired, dir, fold, gen, db, at, failed, edits, crashes, downs>>
      BY <2>4 DEF FinishApply, dirVars, dbVars, counts
    <3>2. crashes' \in Nat
      BY <3>1 DEF IInv, TypeOK
    <3> QED BY <3>1, <3>2, StopPreserves
  <2>5. CASE CrashApply(m)
    <3>1. /\ Stop(m) /\ crashes' = crashes + 1
          /\ UNCHANGED <<elsewhere, desired, dir, fold, gen, db, at, failed, edits, downs>>
      BY <2>5 DEF CrashApply, dirVars, dbVars
    <3>2. crashes' \in Nat
      BY <3>1 DEF IInv, TypeOK
    <3> QED BY <3>1, <3>2, StopPreserves
  <2> QED BY <1>5, <2>1, <2>2, <2>3, <2>4, <2>5 DEF Migrate
<1>6. CASE GooseDown
  BY <1>6, GooseDownPreserves
<1>7. CASE UNCHANGED vars
  <2>1. UNCHANGED <<elsewhere, desired, dir, fold, gen, db, at, pc, last, next, lock, failed, edits, crashes, downs>>
    BY <1>7 DEF vars, dirVars, dbVars, migVars, counts
  <2>2. TypeOK' /\ DatabaseIsAPrefix' /\ MigratorsTakeTurns' /\ ApplyNeverFails'
    BY <2>1 DEF IInv, TypeOK, DatabaseIsAPrefix, MigratorsTakeTurns, ApplyNeverFails, View
  <2> QED BY <2>1, <2>2, SameDirectory, SameGenerator DEF IInv
<1> QED
  BY <1>1, <1>2, <1>3, <1>4, <1>5, <1>6, <1>7 DEF Next
------------------------------------------------------------------------------
(* The theorems. *)

\* The inductive invariant holds in every reachable state, whenever nobody
\* drops --no-tables from the command line of a directory started with it.
THEOREM Invariance ==
  ASSUME SwitchTablesOn = FALSE
  PROVE  Spec => []IInv
<1>1. Init => IInv
  BY InitEstablishes
<1>2. IInv /\ [Next]_vars => IInv'
  BY NextPreserves
<1> QED BY <1>1, <1>2, PTL DEF Spec

\* Every variable keeps its type (TypeOK).
THEOREM TypeCorrectness ==
  ASSUME SwitchTablesOn = FALSE
  PROVE  Spec => []TypeOK
<1>1. IInv => TypeOK
  BY DEF IInv
<1> QED BY <1>1, Invariance, PTL

\* No migration is ever refused by the database, forwards or backwards: over
\* any number of edits, crashes of generators and migrators, undone files and
\* concurrent replicas (ApplyNeverFails).
THEOREM MigrationsAlwaysApply ==
  ASSUME SwitchTablesOn = FALSE
  PROVE  Spec => []ApplyNeverFails
<1>1. IInv => ApplyNeverFails
  BY DEF IInv
<1> QED BY <1>1, Invariance, PTL

\* A generation that reports success leaves a directory that folds to the
\* schema it was asked for (GenerationReachesTheSchema).
THEOREM GenerationIsComplete ==
  ASSUME SwitchTablesOn = FALSE
  PROVE  Spec => []GenerationReachesTheSchema
<1>1. IInv => GenerationReachesTheSchema
  BY DEF IInv, GeneratorIsOnItsWay, GenerationReachesTheSchema
<1> QED BY <1>1, Invariance, PTL
------------------------------------------------------------------------------
(* The directory and the database implement one versioned schema. *)

Shown(fs) == [i \in DOMAIN fs |-> View(fs[i])]

ShownLog == [i \in DOMAIN fold |-> View(fold[i])]

\* A history as the database would show it is a sequence of states.
LEMMA ShownType ==
  ASSUME NEW fs \in Seq(States)
  PROVE  /\ Shown(fs) \in Seq(States) /\ Len(Shown(fs)) = Len(fs)
         /\ \A i \in 1..Len(fs) : Shown(fs)[i] = View(fs[i])
<1>1. Len(fs) \in Nat /\ DOMAIN fs = 1..Len(fs)
  OBVIOUS
<1>2. \A i \in 1..Len(fs) : fs[i] \in States /\ View(fs[i]) \in States
  BY <1>1, ViewType, ElementOfSeq
<1>3. Shown(fs) \in [1..Len(fs) -> States]
  BY <1>1, <1>2 DEF Shown
<1>4. Shown(fs) \in Seq(States)
  BY <1>1, <1>3, SeqDef
<1> QED BY <1>1, <1>3, <1>4, LenProperties DEF Shown

\* The start of a directory is the start of a history.
LEMMA InitRefines ==
  ASSUME Init
  PROVE  History!Init
<1>1. IInv
  BY InitEstablishes
<1>2. fold = <<[tables |-> Empty, graph |-> NoGraph]>> /\ at = 0
  BY DEF Init
<1>3. fold \in Seq(States) /\ Len(fold) = 1 /\ db = View(fold[1]) /\ db \in States
  BY <1>1, <1>2 DEF IInv, DatabaseIsAPrefix, TypeOK
<1>4. ShownLog \in Seq(States) /\ Len(ShownLog) = 1 /\ ShownLog[1] = db
  <2>1. ShownLog = Shown(fold)
    BY DEF ShownLog, Shown
  <2> QED BY <2>1, <1>3, ShownType
<1>5. <<db>> \in Seq(States) /\ Len(<<db>>) = 1 /\ <<db>>[1] = db
  BY <1>3
<1>6. ShownLog = <<db>>
  BY <1>4, <1>5, SeqEqual
<1> QED BY <1>2, <1>3, <1>6 DEF History!Init, ShownLog

\* Steps that leave the history and the owner of the tables alone do not show.
LEMMA SameLog ==
  ASSUME UNCHANGED <<elsewhere, fold>>
  PROVE  ShownLog' = ShownLog
<1>1. ASSUME NEW i \in DOMAIN fold
      PROVE  View(fold[i])' = View(fold[i])
  BY DEF View
<1> QED BY <1>1 DEF ShownLog

\* The write of a file publishes a state.
LEMMA WriteFileRefines ==
  ASSUME IInv, IInv', WriteFile
  PROVE  History!Publish
<1> DEFINE s == After(gen.plan[NextSuffix(gen.plan)], Prior)
<1>1. UNCHANGED <<elsewhere, db, at>> /\ fold' = Append(fold, s)
  BY DEF WriteFile, dbVars
<1>2. fold \in Seq(States) /\ fold' \in Seq(States) /\ Len(fold) \in Nat
  BY DEF IInv, TypeOK
<1>3. /\ Len(fold') = Len(fold) + 1 /\ fold'[Len(fold) + 1] = s
      /\ \A i \in 1..Len(fold) : fold'[i] = fold[i]
  BY <1>1, <1>2
<1>4. s \in States
  <2>1. fold'[Len(fold) + 1] \in States
    BY <1>2, <1>3, ElementOfSeq
  <2> QED BY <2>1, <1>3
<1> HIDE DEF s
<1>5. View(s) \in States
  BY <1>4, ViewType
<1>6. ShownLog = Shown(fold) /\ ShownLog' = Shown(fold')
  <2>1. ASSUME NEW i \in DOMAIN fold'
        PROVE  View(fold[i])' = View(fold'[i])
    BY <1>1 DEF View
  <2> QED BY <2>1 DEF ShownLog, Shown
<1>7. /\ Shown(fold) \in Seq(States) /\ Len(Shown(fold)) = Len(fold)
      /\ \A i \in 1..Len(fold) : Shown(fold)[i] = View(fold[i])
  BY <1>2, ShownType
<1>8. /\ Shown(fold') \in Seq(States) /\ Len(Shown(fold')) = Len(fold) + 1
      /\ \A i \in 1..(Len(fold) + 1) : Shown(fold')[i] = View(fold'[i])
  BY <1>2, <1>3, ShownType
<1>9. /\ Append(Shown(fold), View(s)) \in Seq(States)
      /\ Len(Append(Shown(fold), View(s))) = Len(fold) + 1
      /\ Append(Shown(fold), View(s))[Len(fold) + 1] = View(s)
      /\ \A i \in 1..Len(fold) : Append(Shown(fold), View(s))[i] = View(fold[i])
  BY <1>2, <1>5, <1>7, AppendProperties
<1>10. ASSUME NEW i \in 1..(Len(fold) + 1)
       PROVE  Shown(fold')[i] = Append(Shown(fold), View(s))[i]
  <2>1. CASE i \in 1..Len(fold)
    BY <2>1, <1>3, <1>8, <1>9
  <2>2. CASE i = Len(fold) + 1
    BY <2>2, <1>3, <1>8, <1>9
  <2>3. i \in 1..Len(fold) \/ i = Len(fold) + 1
    BY <1>2
  <2> QED BY <2>1, <2>2, <2>3
<1>11. Shown(fold') = Append(Shown(fold), View(s))
  BY <1>8, <1>9, <1>10, SeqEqual
<1> QED BY <1>1, <1>5, <1>6, <1>11 DEF History!Publish, ShownLog

\* The application of a file advances along the history.
LEMMA ApplyFileRefines ==
  ASSUME IInv, NEW m \in Migrators, ApplyFile(m)
  PROVE  History!Advance
<1>1. at < Len(dir) /\ at' = at + 1 /\ db' = View(fold[at + 2])
  BY ApplyFilePreserves
<1>2. UNCHANGED <<elsewhere, fold>>
  BY DEF ApplyFile, dirVars
<1>3. fold \in Seq(States) /\ Len(fold) = Len(dir) + 1 /\ at \in Nat /\ Len(dir) \in Nat
  BY DEF IInv, TypeOK, FoldIsTheHistory
<1>4. ShownLog = Shown(fold) /\ ShownLog' = ShownLog
  BY <1>2, SameLog DEF ShownLog, Shown
<1>5. Len(Shown(fold)) = Len(fold) /\ Shown(fold)[at + 2] = View(fold[at + 2])
  BY <1>1, <1>3, ShownType
<1>6. at + 1 < Len(ShownLog) /\ (at + 1)' = (at + 1) + 1 /\ db' = ShownLog[(at + 1) + 1]
  <2>1. (at + 1) + 1 = at + 2
    BY <1>3
  <2> QED BY <2>1, <1>1, <1>3, <1>4, <1>5
<1> QED BY <1>4, <1>6 DEF History!Advance, ShownLog

\* The undoing of a file retreats along it.
LEMMA GooseDownRefines ==
  ASSUME IInv, GooseDown
  PROVE  History!Retreat
<1>1. at > 0 /\ at' = at - 1 /\ db' = View(fold[at])
  BY GooseDownPreserves
<1>2. UNCHANGED <<elsewhere, fold>>
  BY DEF GooseDown, dirVars
<1>3. /\ fold \in Seq(States) /\ Len(fold) = Len(dir) + 1 /\ at \in Nat /\ Len(dir) \in Nat
      /\ at <= Len(dir)
  BY DEF IInv, TypeOK, FoldIsTheHistory, DatabaseIsAPrefix
<1>4. ShownLog = Shown(fold) /\ ShownLog' = ShownLog
  BY <1>2, SameLog DEF ShownLog, Shown
<1>5. Shown(fold)[at] = View(fold[at])
  BY <1>1, <1>3, ShownType
<1>6. at + 1 > 1 /\ (at + 1)' = (at + 1) - 1 /\ db' = ShownLog[(at + 1) - 1]
  <2>1. (at + 1) - 1 = at
    BY <1>3
  <2> QED BY <2>1, <1>1, <1>3, <1>4, <1>5
<1> QED BY <1>4, <1>6 DEF History!Retreat, ShownLog

\* Every step is one of the history, or does not show in it.
LEMMA NextRefines ==
  ASSUME IInv, IInv', [Next]_vars
  PROVE  [History!Next]_(History!vars)
<1>s. ASSUME UNCHANGED <<elsewhere, fold, at, db>>
      PROVE  UNCHANGED History!vars
  BY <1>s, SameLog DEF History!vars, ShownLog
<1>1. CASE EditSchema
  BY <1>1, <1>s DEF EditSchema, dirVars, dbVars
<1>2. CASE Generate
  BY <1>2, <1>s DEF Generate, StartGenerate, dbVars
<1>3. CASE WriteFile
  BY <1>3, WriteFileRefines DEF History!Next
<1>4. CASE CrashGenerate
  BY <1>4, <1>s DEF CrashGenerate, dbVars
<1>5. ASSUME NEW m \in Migrators, Migrate(m)
      PROVE  [History!Next]_(History!vars)
  <2>1. CASE StartApply(m)
    BY <2>1, <1>s DEF StartApply, dirVars, dbVars
  <2>2. CASE TakeLock(m)
    BY <2>2, <1>s DEF TakeLock, dirVars, dbVars
  <2>3. CASE ApplyFile(m)
    BY <2>3, ApplyFileRefines DEF History!Next
  <2>4. CASE FinishApply(m)
    BY <2>4, <1>s DEF FinishApply, dirVars, dbVars
  <2>5. CASE CrashApply(m)
    BY <2>5, <1>s DEF CrashApply, dirVars, dbVars
  <2> QED BY <1>5, <2>1, <2>2, <2>3, <2>4, <2>5 DEF Migrate
<1>6. CASE GooseDown
  BY <1>6, GooseDownRefines DEF History!Next
<1>7. CASE UNCHANGED vars
  BY <1>7, <1>s DEF vars, dirVars, dbVars
<1> QED
  BY <1>1, <1>2, <1>3, <1>4, <1>5, <1>6, <1>7 DEF Next

\* The directory, the generator and the migrators implement the versioned
\* schema: the database is always at exactly one state of the history, moves
\* along it one file at a time, and no file is applied twice (OneHistory).
THEOREM Refinement ==
  ASSUME SwitchTablesOn = FALSE
  PROVE  Spec => OneHistory
<1>1. Init => History!Init
  BY InitRefines
<1>2. IInv /\ IInv' /\ [Next]_vars => [History!Next]_(History!vars)
  BY NextRefines
<1> QED BY <1>1, <1>2, Invariance, PTL DEF Spec, OneHistory, History!Spec
==============================================================================
