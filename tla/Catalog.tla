------------------------------- MODULE Catalog -------------------------------
(***************************************************************************)
(* PostgreSQL, as far as a migration meets it: what a statement needs to   *)
(* be accepted and what it does to tables, constraints, indexes and the    *)
(* property graph.  External: it follows PostgreSQL's rules, not code of   *)
(* this repository.                                                        *)
(*                                                                         *)
(* A table is [cols, cons, key]; a constraint name maps to its body.  A    *)
(* reference is to a table, not to its name: a rename is followed by the   *)
(* references, constraints and indexes on it, whose own names stay.  The   *)
(* text of a check is [text, over], the columns it speaks of.              *)
(***************************************************************************)
EXTENDS SchemaModel

EmptyCatalog == [tables |-> <<>>, indexes |-> <<>>, graph |-> None]

Body(con) == [kind |-> con.kind, columns |-> con.columns, expr |-> con.expr]
Over(con) == Range(con.columns) \union (IF con.expr = None THEN {} ELSE con.expr.over)

TableColumn(def) == [type |-> def.type, primary |-> def.primary, default |-> def.default, ref |-> def.ref]

\* The constraints a column or table definition brings along.
InlineUniques(t, cols) == {UniqueConstraint(t, c) : c \in {x \in DOMAIN cols : cols[x].unique}}
Bodies(cons) == [name \in {c.name : c \in cons} |-> Body(CHOOSE c \in cons : c.name = name)]

\* What a live graph keeps from being dropped or retyped.
ExposedColumns(cat, t) ==
  IF cat.graph = None THEN {}
  ELSE UNION ({cat.graph.vertices[v].props : v \in DOMAIN cat.graph.vertices \intersect {t}}
              \union {{"source_id", "target_id"} : e \in DOMAIN cat.graph.edges \intersect {t}})

HasColumns(cat, t, cs) == t \in DOMAIN cat.tables /\ cs \subseteq DOMAIN cat.tables[t].cols

Accepts(cat, s) ==
  CASE s.op = "create_table" ->
         /\ s.table \notin DOMAIN cat.tables
         /\ \A c \in DOMAIN s.cols : s.cols[c].ref \in {None, s.table} \union DOMAIN cat.tables
         /\ \A con \in s.cons : Over(con) \subseteq DOMAIN s.cols
    [] s.op = "drop_table" ->
         /\ ExposedColumns(cat, s.table) = {}
         /\ \A t \in DOMAIN cat.tables \ {s.table} :
              \A c \in DOMAIN cat.tables[t].cols : cat.tables[t].cols[c].ref # s.table
    [] s.op = "add_column" ->
         /\ s.table \in DOMAIN cat.tables
         /\ s.column \notin DOMAIN cat.tables[s.table].cols
    [] s.op \in {"drop_column", "alter_type"} ->
         HasColumns(cat, s.table, {s.column}) /\ s.column \notin ExposedColumns(cat, s.table)
    [] s.op = "set_default" -> HasColumns(cat, s.table, {s.column})
    [] s.op = "add_constraint" ->
         HasColumns(cat, s.table, Over(s.con)) /\ s.con.name \notin DOMAIN cat.tables[s.table].cons
    [] s.op = "drop_constraint" ->
         s.table \in DOMAIN cat.tables /\ s.name \in DOMAIN cat.tables[s.table].cons
    [] s.op = "rename_table" -> s.table \in DOMAIN cat.tables /\ s.new \notin DOMAIN cat.tables
    [] s.op = "rename_column" ->
         HasColumns(cat, s.table, {s.column}) /\ s.new \notin DOMAIN cat.tables[s.table].cols
    [] s.op = "create_index" ->
         HasColumns(cat, s.table, {s.column}) /\ s.index \notin DOMAIN cat.indexes
    [] s.op = "create_graph" ->
         /\ cat.graph = None
         /\ \A t \in DOMAIN s.graph.vertices :
              HasColumns(cat, t, s.graph.vertices[t].props \union Range(s.graph.vertices[t].key))
         /\ \A e \in DOMAIN s.graph.edges :
              /\ e \in DOMAIN cat.tables
              /\ {s.graph.edges[e].src, s.graph.edges[e].dst} \subseteq DOMAIN s.graph.vertices
    [] OTHER -> TRUE          \* DROP INDEX and DROP PROPERTY GRAPH say IF EXISTS

\* A table when the one its references are to has a new name.
Repointed(tab, t, new) ==
  [tab EXCEPT !.cols = [c \in DOMAIN tab.cols |-> [tab.cols[c] EXCEPT !.ref = Sub(@, t, new)]]]
TablesRenamed(cat, t, new) == [n \in DOMAIN cat |-> Repointed(cat[n], t, new)]

ColumnRenamed(tab, c, new) ==
  [tab EXCEPT
     !.cols = Rekeyed(@, c, new),
     !.key  = {Sub(k, c, new) : k \in @},
     !.cons = [n \in DOMAIN @ |->
                 [@[n] EXCEPT !.columns = Renamed(@, c, new),
                              !.expr = IF @ = None THEN None
                                       ELSE [@ EXCEPT !.over = {Sub(o, c, new) : o \in @}]]]]

Effect(cat, s) ==
  CASE s.op = "create_table" ->
         [cat EXCEPT !.tables = With(@, s.table,
            [cols |-> [c \in DOMAIN s.cols |-> TableColumn(s.cols[c])],
             cons |-> Bodies(s.cons \union InlineUniques(s.table, s.cols)),
             key  |-> s.key])]
    [] s.op = "drop_table" ->
         [cat EXCEPT !.tables = Without(@, {s.table}),
                     !.indexes = Without(@, {i \in DOMAIN @ : @[i].table = s.table})]
    [] s.op = "add_column" ->
         [cat EXCEPT !.tables[s.table].cols = With(@, s.column, TableColumn(s.def)),
                     !.tables[s.table].cons =
                       IF s.def.unique THEN With(@, UniqueConstraintName(s.table, s.column),
                                                 Body(UniqueConstraint(s.table, s.column)))
                       ELSE @]
    [] s.op = "drop_column" ->
         [cat EXCEPT !.tables[s.table].cols = Without(@, {s.column}),
                     !.tables[s.table].cons = Without(@, {n \in DOMAIN @ : s.column \in Over(@[n])}),
                     !.indexes = Without(@, {i \in DOMAIN @ : @[i].table = s.table
                                                              /\ @[i].column = s.column})]
    [] s.op = "alter_type"  -> [cat EXCEPT !.tables[s.table].cols[s.column].type = s.type]
    [] s.op = "set_default" -> [cat EXCEPT !.tables[s.table].cols[s.column].default = s.default]
    [] s.op = "add_constraint" ->
         [cat EXCEPT !.tables[s.table].cons = With(@, s.con.name, Body(s.con))]
    [] s.op = "drop_constraint" -> [cat EXCEPT !.tables[s.table].cons = Without(@, {s.name})]
    [] s.op = "rename_table" ->
         [cat EXCEPT !.tables = TablesRenamed(Rekeyed(@, s.table, s.new), s.table, s.new),
                     !.indexes = Retabled(@, s.table, s.new)]
    [] s.op = "rename_column" ->
         [cat EXCEPT !.tables[s.table] = ColumnRenamed(@, s.column, s.new),
                     !.indexes = Recolumned(@, s.table, s.column, s.new)]
    [] s.op = "create_index" ->
         [cat EXCEPT !.indexes = With(@, s.index, [table |-> s.table, column |-> s.column])]
    [] s.op = "drop_index"   -> [cat EXCEPT !.indexes = Without(@, {s.index})]
    [] s.op = "create_graph" -> [cat EXCEPT !.graph = s.graph]
    [] s.op = "drop_graph"   -> [cat EXCEPT !.graph = None]

\* A migration section, in one transaction: all of it or none.
After(before, r, s) == IF r.ok /\ Accepts(r.cat, s) THEN [ok |-> TRUE, cat |-> Effect(r.cat, s)]
                                                   ELSE [ok |-> FALSE, cat |-> before]
Run(cat, section) ==
  LET after[i \in 0..Len(section)] == IF i = 0 THEN [ok |-> TRUE, cat |-> cat]
                                      ELSE After(cat, after[i-1], section[i])
  IN after[Len(section)]
==============================================================================
