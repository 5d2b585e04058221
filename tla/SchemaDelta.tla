----------------------------- MODULE SchemaDelta -----------------------------
(***************************************************************************)
(* The tables half of a generation: the difference of two schemas as the   *)
(* statements that lead from one to the other (Up) and back (Down), with   *)
(* the renames the SDL hints at and without the tables somebody else owns. *)
(***************************************************************************)
EXTENDS SchemaModel

(* The tables gopgql does not own. *)

Unmanaged(tables) == {t \in DOMAIN tables : tables[t].unmanaged}

\* Which tables leave the diff as edges, and which leave it altogether.
UnownedEdges(to) == Unmanaged(to.vertices) \union Unmanaged(to.edges)
UnownedTables(to) ==
  Unmanaged(to.vertices) \union (Unmanaged(to.edges) \ (DOMAIN to.vertices \ Unmanaged(to.vertices)))

StripTables(m, tables, edges) ==
  [m EXCEPT !.edges = Without(@, tables \union edges \union Unmanaged(@)),
            !.vertices = Without(@, tables),
            !.indexes = Without(@, {i \in DOMAIN @ : @[i].table \in tables})]

\* (wrong) Only the desired schema loses them.
WithoutUnmanagedDesired(m, to) == IF m = to THEN StripTables(m, UnownedTables(to), UnownedEdges(to)) ELSE m

WithoutUnmanaged(m, to) == StripTables(m, UnownedTables(to), UnownedEdges(to))

\* A prior state folded without a graph has only vertices: those the desired
\* schema knows as edges are taken for edges.
ClassifyLike(prior, like) ==
  IF DOMAIN prior.edges # {} THEN prior
  ELSE LET edges == DOMAIN prior.vertices \intersect DOMAIN like.edges
       IN [prior EXCEPT
             !.edges = [e \in edges |-> [cols |-> prior.vertices[e].cols, src |-> None, dst |-> None,
                                         unmanaged |-> FALSE]],
             !.vertices = Without(@, edges)]
------------------------------------------------------------------------------
(* Renames. *)

\* The first of a list that satisfies P, or None.
FirstOf(list, P(_)) ==
  LET fit == {i \in DOMAIN list : P(list[i])} IN IF fit = {} THEN None ELSE list[Min(fit)]

\* The prior table a hint of t leads to.
PriorTable(from, to, t) ==
  IF t \in DOMAIN from.vertices THEN t
  ELSE FirstOf(to.vertices[t].was,
               LAMBDA p : p # t /\ p \in DOMAIN from.vertices /\ p \notin DOMAIN to.vertices)

\* The prior column a hint of its column c leads to; None for a column that is
\* there already.
PriorColumn(from, to, t, c) ==
  LET before == from.vertices[PriorTable(from, to, t)].cols
      now    == to.vertices[t].cols
  IN IF c \in DOMAIN before THEN None
     ELSE FirstOf(now[c].was, LAMBDA p : p # c /\ p \in DOMAIN before /\ p \notin DOMAIN now)

PlanRenames(from, to) ==
  LET Prior(t) == PriorTable(from, to, t)
      known == {t \in DOMAIN to.vertices : Prior(t) # None}
  IN [tables  |-> {[from |-> Prior(t), to |-> t] : t \in {k \in known : Prior(k) # k}},
      columns |-> {r \in UNION {{[table |-> t, from |-> PriorColumn(from, to, t, c), to |-> c] :
                                 c \in DOMAIN to.vertices[t].cols} : t \in known} : r.from # None}]

\* What table t is called after the plan, and its column c; what the table now
\* called t and its column now called c were before.
NewTable(plan, t) ==
  IF \E r \in plan.tables : r.from = t THEN (CHOOSE r \in plan.tables : r.from = t).to ELSE t
OldTable(plan, t) ==
  IF \E r \in plan.tables : r.to = t THEN (CHOOSE r \in plan.tables : r.to = t).from ELSE t
NewColumn(plan, t, c) ==
  IF \E r \in plan.columns : r.table = t /\ r.from = c
  THEN (CHOOSE r \in plan.columns : r.table = t /\ r.from = c).to ELSE c
OldColumn(plan, t, c) ==
  IF \E r \in plan.columns : r.table = t /\ r.to = c
  THEN (CHOOSE r \in plan.columns : r.table = t /\ r.to = c).from ELSE c

\* The columns of the table now called t, its natural key, and the table, under
\* new names.
MovedRefs(plan, cols) == [c \in DOMAIN cols |-> [cols[c] EXCEPT !.ref = NewTable(plan, @)]]
MovedKey(plan, t, key) ==
  IF key = None THEN None ELSE [key EXCEPT !.columns = [i \in DOMAIN @ |-> NewColumn(plan, t, @[i])]]
MovedVertex(plan, t, vt) ==
  LET New(c)  == NewColumn(plan, t, c)
      refs    == MovedRefs(plan, vt.cols)
  IN [vt EXCEPT !.cols  = [c \in {New(x) : x \in DOMAIN @} |-> refs[OldColumn(plan, t, c)]],
                !.props = {New(p) : p \in @},
                !.key   = MovedKey(plan, t, @)]
MovedIndex(plan, idx) ==
  [idx EXCEPT !.table = NewTable(plan, @), !.column = NewColumn(plan, NewTable(plan, idx.table), @)]

\* The prior schema under its new names, before stale constraints leave it: what
\* points at a renamed table follows it; indexes and constraints keep their own
\* names.  No name is both an old and a new one (RenamesNeverCollide), so the
\* order does not matter.
Moved(from, plan) ==
  [from EXCEPT
     !.vertices = [t \in {NewTable(plan, x) : x \in DOMAIN @} |-> MovedVertex(plan, t, @[OldTable(plan, t)])],
     !.edges    = [e \in DOMAIN @ |-> [@[e] EXCEPT !.cols = MovedRefs(plan, @),
                                                   !.src = NewTable(plan, @), !.dst = NewTable(plan, @)]],
     !.indexes  = [i \in DOMAIN @ |-> MovedIndex(plan, @[i])]]

NameMoved(plan, t, c) == OldTable(plan, t) # t \/ OldColumn(plan, t, c) # c

\* (wrong) The old names are not looked for.
NothingStale(m, plan) == {}

\* Constraints the database still has under a name made from an old name.  A
\* natural key is left to the ordinary diff: its folded name is the old one.
Stale(m, plan) ==
  UNION {LET vt == m.vertices[t]
             moved == {c \in DOMAIN vt.cols : NameMoved(plan, t, c)}
         IN {[table |-> t,
              con |-> [name |-> ColumnCheckConstraintName(OldTable(plan, t), OldColumn(plan, t, c)),
                       kind |-> "CHECK", columns |-> <<>>, expr |-> vt.cols[c].check]] :
               c \in {x \in moved : vt.cols[x].check # None}}
            \union
            {[table |-> t,
              con |-> [name |-> UniqueConstraintName(OldTable(plan, t), OldColumn(plan, t, c)),
                       kind |-> "UNIQUE", columns |-> <<c>>, expr |-> None]] :
               c \in {x \in moved : vt.cols[x].unique /\ ~vt.cols[x].primary}}
            \union
            {[table |-> t,
              con |-> [name |-> TableCheckConstraintName(OldTable(plan, t), i),
                       kind |-> "CHECK", columns |-> <<>>, expr |-> vt.checks[i]]] :
               i \in IF OldTable(plan, t) # t THEN DOMAIN vt.checks ELSE {}}
         : t \in DOMAIN m.vertices}

StaleColumn(plan, t, c, col) ==
  IF NameMoved(plan, t, c) THEN [col EXCEPT !.check = None, !.unique = @ /\ col.primary] ELSE col
StaleVertex(plan, t, vt) ==
  [vt EXCEPT !.checks = IF OldTable(plan, t) # t THEN <<>> ELSE @,
             !.cols = [c \in DOMAIN @ |-> StaleColumn(plan, t, c, @[c])]]
WithoutStale(m, plan) ==
  [m EXCEPT !.vertices = [t \in DOMAIN @ |-> StaleVertex(plan, t, @[t])]]
------------------------------------------------------------------------------
(* The difference of two schemas. *)

\* Everything that differs, from `from` (already under its new names) to `to`.
DiffSchemas(from, to, plan, stale) ==
  LET both == DOMAIN from.vertices \intersect DOMAIN to.vertices
      F(t) == from.vertices[t]
      T(t) == to.vertices[t]
      shared(t) == DOMAIN F(t).cols \intersect DOMAIN T(t).cols
      columns == UNION {{t} \X shared(t) : t \in both}
      Was(u) == F(u[1]).cols[u[2]]
      Is(u) == T(u[1]).cols[u[2]]
      SameIndex(i) == i \in DOMAIN from.indexes \intersect DOMAIN to.indexes
                      /\ from.indexes[i] = to.indexes[i]
      added   == [vertices |-> DOMAIN to.vertices \ DOMAIN from.vertices,
                  edges    |-> DOMAIN to.edges \ DOMAIN from.edges]
      dropped == [vertices |-> DOMAIN from.vertices \ DOMAIN to.vertices,
                  edges    |-> DOMAIN from.edges \ DOMAIN to.edges]
  IN [renames |-> plan, added |-> added, dropped |-> dropped,
      addedColumns   |-> UNION {{t} \X (DOMAIN T(t).cols \ DOMAIN F(t).cols) : t \in both},
      droppedColumns |-> UNION {{t} \X (DOMAIN F(t).cols \ DOMAIN T(t).cols) : t \in both},
      addedIndexes   |-> {i \in DOMAIN to.indexes : ~SameIndex(i)
                            /\ to.indexes[i].table \notin added.vertices \union added.edges},
      droppedIndexes |-> {i \in DOMAIN from.indexes : ~SameIndex(i)
                            /\ from.indexes[i].table \notin dropped.vertices \union dropped.edges},
      addedUniques   |-> {u \in columns : Is(u).unique /\ ~Was(u).unique},
      droppedUniques |-> {u \in columns : Was(u).unique /\ ~Is(u).unique},
      addedConstraints   |-> UNION {{[table |-> t, con |-> k] :
                               k \in TableConstraints(t, T(t)) \ TableConstraints(t, F(t))} : t \in both},
      droppedConstraints |-> stale \union
                             UNION {{[table |-> t, con |-> k] :
                               k \in TableConstraints(t, F(t)) \ TableConstraints(t, T(t))} : t \in both},
      defaultChanges |-> {u \in columns : Was(u).default # Is(u).default},
      typeChanges    |-> {u \in columns : Was(u).type # Is(u).type}]

Structural(d) ==
  \/ d.added.vertices \union d.added.edges \union d.dropped.vertices \union d.dropped.edges # {}
  \/ d.addedIndexes \union d.droppedIndexes # {}
  \/ d.addedUniques \union d.droppedUniques \union d.addedColumns \union d.droppedColumns # {}
  \/ d.addedConstraints \union d.droppedConstraints # {}
  \/ d.defaultChanges \union d.typeChanges # {}
  \/ d.renames.tables \union d.renames.columns # {}
------------------------------------------------------------------------------
(* The statements. *)

Each(S, Stmt(_)) == Listed({Stmt(x) : x \in S})

\* (wrong) A table is created without its indexes.
TableCreateWithoutIndexes(m, t) ==
  (IF t \in DOMAIN m.vertices THEN <<VertexTableDDL(t, m.vertices[t])>> ELSE <<>>)
  \o (IF t \in DOMAIN m.edges THEN <<EdgeTableDDL(t, m.edges[t])>> ELSE <<>>)

\* CREATE TABLE and the indexes on it.
TableCreateStmts(m, t) ==
  (IF t \in DOMAIN m.vertices THEN <<VertexTableDDL(t, m.vertices[t])>> ELSE <<>>)
  \o (IF t \in DOMAIN m.edges THEN <<EdgeTableDDL(t, m.edges[t])>> ELSE <<>>)
  \o Each({i \in DOMAIN m.indexes : m.indexes[i].table = t}, LAMBDA i : IndexDDL(i, m.indexes[i]))

Creates(m, tables) == FlattenSeq([i \in DOMAIN InOrder(tables) |-> TableCreateStmts(m, InOrder(tables)[i])])
Drops(tables) == [i \in DOMAIN InOrder(tables) |-> DropTable(InOrder(tables)[i])]

AddUnique(u) == AddConstraint(u[1], UniqueConstraint(u[1], u[2]))
DropUnique(u) == DropConstraint(u[1], UniqueConstraintName(u[1], u[2]))

UpStructural(d, from, to) ==
  Each(d.renames.tables, LAMBDA r : RenameTable(r.from, r.to))
  \o Each(d.renames.columns, LAMBDA r : RenameColumn(r.table, r.from, r.to))
  \o Each(d.droppedConstraints, LAMBDA k : DropConstraint(k.table, k.con.name))
  \o Each(d.droppedIndexes, LAMBDA i : DropIndex(i, from.indexes[i]))
  \o Each(d.droppedUniques, DropUnique)
  \o Each(d.droppedColumns, LAMBDA u : DropColumn(u[1], u[2]))
  \o Drops(d.dropped.edges)
  \o Drops(d.dropped.vertices)
  \o Creates(to, d.added.vertices)
  \o Creates(to, d.added.edges)
  \o Each(d.addedColumns, LAMBDA u : AddColumn(u[1], u[2], to.vertices[u[1]].cols[u[2]]))
  \o Each(d.typeChanges, LAMBDA u : AlterType(u[1], u[2], to.vertices[u[1]].cols[u[2]].type))
  \o Each(d.defaultChanges, LAMBDA u : SetDefault(u[1], u[2], to.vertices[u[1]].cols[u[2]].default))
  \o Each(d.addedUniques, AddUnique)
  \o Each(d.addedConstraints, LAMBDA k : AddConstraint(k.table, k.con))
  \o Each(d.addedIndexes, LAMBDA i : IndexDDL(i, to.indexes[i]))

DownStructural(d, from, to) ==
  Each(d.addedConstraints, LAMBDA k : DropConstraint(k.table, k.con.name))
  \o Each(d.addedIndexes, LAMBDA i : DropIndex(i, to.indexes[i]))
  \o Each(d.addedUniques, DropUnique)
  \o Each(d.defaultChanges, LAMBDA u : SetDefault(u[1], u[2], from.vertices[u[1]].cols[u[2]].default))
  \o Each(d.typeChanges, LAMBDA u : AlterType(u[1], u[2], from.vertices[u[1]].cols[u[2]].type))
  \o Each(d.addedColumns, LAMBDA u : DropColumn(u[1], u[2]))
  \o Drops(d.added.edges)
  \o Drops(d.added.vertices)
  \o Creates(from, d.dropped.vertices)
  \o Creates(from, d.dropped.edges)
  \o Each(d.droppedColumns, LAMBDA u : AddColumn(u[1], u[2], from.vertices[u[1]].cols[u[2]]))
  \o Each(d.droppedUniques, AddUnique)
  \o Each(d.droppedConstraints, LAMBDA k : AddConstraint(k.table, k.con))
  \o Each(d.droppedIndexes, LAMBDA i : IndexDDL(i, from.indexes[i]))
  \o Each(d.renames.columns, LAMBDA r : RenameColumn(r.table, r.to, r.from))
  \o Each(d.renames.tables, LAMBDA r : RenameTable(r.to, r.from))

\* A difference rendered: is anything owed, and what are the two sections?
Rendered(d, prior, to) ==
  [changed |-> Structural(d), up |-> UpStructural(d, prior, to), down |-> DownStructural(d, prior, to)]

\* What is left to do once the plan's renames have moved the prior schema.
DeltaAfter(plan, moved, to) ==
  LET prior == WithoutStale(moved, plan)
  IN Rendered(DiffSchemas(prior, to, plan, Stale(moved, plan)), prior, to)

DeltaRenaming(plan, from, to) == DeltaAfter(plan, Moved(from, plan), to)

DeltaClassified(from, to) == DeltaRenaming(PlanRenames(from, to), from, to)

\* The tables half of a generation.
DeltaTables(from, to) ==
  LET desired == WithoutUnmanaged(to, to)
  IN DeltaClassified(ClassifyLike(WithoutUnmanaged(from, to), desired), desired)
==============================================================================
