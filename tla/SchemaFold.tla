----------------------------- MODULE SchemaFold ------------------------------
(***************************************************************************)
(* Reading a migration directory back: the folder applies the Up sections  *)
(* statement by statement, without a database, and builds from what it has *)
(* accumulated the schema the history stands for.  A statement it cannot   *)
(* read or place makes the directory unreadable (ok becomes FALSE).        *)
(***************************************************************************)
EXTENDS SchemaModel

NewFolder == [cols |-> <<>>, cons |-> <<>>, indexes |-> <<>>, graph |-> None, ok |-> TRUE]

FoldedColumn(def) == [type |-> def.type, primary |-> def.primary, unique |-> def.unique,
                      default |-> def.default, check |-> None, ref |-> def.ref, was |-> <<>>]

Failed(f) == [f EXCEPT !.ok = FALSE]

\* (wrong) A name that says nothing is an error.
ApplyKnownConstraint(f, t, con, present) ==
  IF t \notin DOMAIN f.cols \/ ClassifyConstraint(t, con.name) = "unknown" THEN Failed(f)
  ELSE IF ClassifyConstraint(t, con.name) = "unique"
       THEN [f EXCEPT !.cols[t][con.name.column].unique = present]
       ELSE [f EXCEPT !.cons[t] = IF present THEN With(@, con.name, con) ELSE Without(@, {con.name})]

\* An ADD or DROP CONSTRAINT, filed by what its name says it is.  A name that
\* says nothing is ignored.
ApplyConstraint(f, t, con, present) ==
  LET role == ClassifyConstraint(t, con.name)
      c    == con.name.column
  IN IF t \notin DOMAIN f.cols THEN Failed(f)
     ELSE CASE role = "unique" -> IF c \in DOMAIN f.cols[t]
                                  THEN [f EXCEPT !.cols[t][c].unique = present]
                                  ELSE Failed(f)
            [] role = "unknown" -> f
            [] OTHER -> [f EXCEPT !.cons[t] = IF present THEN With(@, con.name, con)
                                              ELSE Without(@, {con.name})]

\* A table with the constraints written in it, each filed in the same way.
ApplyCreateTable(f, s) ==
  LET Role(con) == ClassifyConstraint(s.table, con.name)
      uniques   == {con.name.column : con \in {k \in s.cons : Role(k) = "unique"}}
      held      == {con \in s.cons : Role(con) \notin {"unique", "unknown"}}
      cols      == [c \in DOMAIN s.cols |->
                     [FoldedColumn(s.cols[c]) EXCEPT !.unique = @ \/ c \in uniques]]
  IN [f EXCEPT !.cols = With(@, s.table, cols),
               !.cons = With(@, s.table, [n \in {con.name : con \in held} |->
                                            CHOOSE con \in held : con.name = n]),
               !.ok   = @ /\ uniques \subseteq DOMAIN cols]

\* (wrong) The indexes outlive their table.
ApplyDropTableOnly(f, t) == [f EXCEPT !.cols = Without(@, {t}), !.cons = Without(@, {t})]

ApplyDropTable(f, t) ==
  [f EXCEPT !.cols = Without(@, {t}), !.cons = Without(@, {t}),
            !.indexes = Without(@, {i \in DOMAIN @ : @[i].table = t})]

\* (wrong) The references of other tables stay behind.
FoldRenameTableOnly(f, t, new) ==
  IF t \notin DOMAIN f.cols THEN Failed(f)
  ELSE [f EXCEPT !.cols = Rekeyed(@, t, new), !.cons = Rekeyed(@, t, new),
                 !.indexes = Retabled(@, t, new)]

FoldRenameTable(f, t, new) ==
  LET Refs(cols) == [c \in DOMAIN cols |-> [cols[c] EXCEPT !.ref = Sub(@, t, new)]]
  IN IF t \notin DOMAIN f.cols THEN Failed(f)
     ELSE [f EXCEPT !.cols = LET all == Rekeyed(@, t, new) IN [n \in DOMAIN all |-> Refs(all[n])],
                    !.cons = Rekeyed(@, t, new),
                    !.indexes = Retabled(@, t, new)]

FoldRenameColumn(f, t, c, new) ==
  IF t \notin DOMAIN f.cols \/ c \notin DOMAIN f.cols[t] THEN Failed(f)
  ELSE [f EXCEPT
          !.cols[t] = Rekeyed(@, c, new),
          !.cons[t] = [n \in DOMAIN @ |-> [@[n] EXCEPT !.columns = Renamed(@, c, new)]],
          !.indexes = Recolumned(@, t, c, new)]

FoldSetDefault(f, t, c, default) ==
  IF t \notin DOMAIN f.cols \/ c \notin DOMAIN f.cols[t] THEN Failed(f)
  ELSE [f EXCEPT !.cols[t][c].default = default]

FoldedColumns(f, t) == IF t \in DOMAIN f.cols THEN f.cols[t] ELSE <<>>

\* Other columns for a table, which the folder knows from then on.
WithColumnsOf(f, t, cols) ==
  IF t \in DOMAIN f.cols THEN [f EXCEPT !.cols[t] = cols]
  ELSE [f EXCEPT !.cols = With(@, t, cols), !.cons = With(@, t, <<>>)]

FoldAddColumn(f, t, c, def) == WithColumnsOf(f, t, With(FoldedColumns(f, t), c, FoldedColumn(def)))
FoldDropColumn(f, t, c)     == WithColumnsOf(f, t, Without(FoldedColumns(f, t), {c}))

\* The reader knows ALTER COLUMN ... SET and DROP DEFAULT, and no other.
Apply(f, s) ==
  CASE s.op = "create_table" -> ApplyCreateTable(f, s)
    [] s.op = "drop_table"   -> ApplyDropTable(f, s.table)
    [] s.op = "add_column"   -> FoldAddColumn(f, s.table, s.column, s.def)
    [] s.op = "drop_column"  -> FoldDropColumn(f, s.table, s.column)
    [] s.op = "alter_type"   -> Failed(f)
    [] s.op = "set_default"  -> FoldSetDefault(f, s.table, s.column, s.default)
    [] s.op = "add_constraint"  -> ApplyConstraint(f, s.table, s.con, TRUE)
    [] s.op = "drop_constraint" -> ApplyConstraint(f, s.table, [name |-> s.name], FALSE)
    [] s.op = "rename_table"    -> FoldRenameTable(f, s.table, s.new)
    [] s.op = "rename_column"   -> FoldRenameColumn(f, s.table, s.column, s.new)
    [] s.op = "create_index" ->
         [f EXCEPT !.indexes = With(@, s.index, [table |-> s.table, column |-> s.column])]
    [] s.op = "drop_index"   -> [f EXCEPT !.indexes = Without(@, {s.index})]
    [] s.op = "create_graph" -> [f EXCEPT !.graph = s.graph]
    [] s.op = "drop_graph"   -> [f EXCEPT !.graph = None]

\* One more migration folded: its Up section.
Applied(f, s) == IF f.ok THEN Apply(f, s) ELSE f
FoldSection(f, section) ==
  LET after[i \in 0..Len(section)] == IF i = 0 THEN f ELSE Applied(after[i-1], section[i])
  IN after[Len(section)]
------------------------------------------------------------------------------
(* The schema a folder stands for. *)

\* The constraints of t whose name says they are of that role.
Filed(f, t, role) ==
  IF t \notin DOMAIN f.cons THEN {}
  ELSE {k \in Range(f.cons[t]) : ClassifyConstraint(t, k.name) = role}

AttachConstraints(f, t, vt) ==
  LET keys     == Filed(f, t, "natural_key")
      checks   == Filed(f, t, "table_check")
      On(c)    == {k \in Filed(f, t, "column_check") : k.name.column = c}
      Check(c) == IF On(c) = {} THEN None ELSE (CHOOSE k \in On(c) : TRUE).expr
      Before(k) == {j \in checks : j.name.n < k.name.n}
      Nth(i)   == CHOOSE k \in checks : Cardinality(Before(k)) = i - 1
  IN [vt EXCEPT
        !.key = IF keys = {} THEN None
                ELSE LET k == CHOOSE k \in keys : TRUE IN [name |-> k.name, columns |-> k.columns],
        !.checks = [i \in 1..Cardinality(checks) |-> Nth(i).expr],
        !.cols = [c \in DOMAIN @ |-> [@[c] EXCEPT !.check = Check(c)]]]

\* A check filed under a column that is not there.
Dangling(f) ==
  \E t \in DOMAIN f.cons : \E k \in Filed(f, t, "column_check") : k.name.column \notin DOMAIN f.cols[t]

\* A folded vertex table says neither who owns it nor what it was called.
FoldedVertex(f, t, props) ==
  AttachConstraints(f, t, [cols |-> FoldedColumns(f, t), key |-> None, checks |-> <<>>,
                           props |-> props, was |-> <<>>, unmanaged |-> FALSE])

\* (wrong) The named constraints are left out.
BuildColumnsOnly(f) ==
  [named |-> FALSE, edges |-> <<>>, indexes |-> f.indexes,
   vertices |-> [t \in DOMAIN f.cols |->
                  [cols |-> f.cols[t], key |-> None, checks |-> <<>>, props |-> {}, was |-> <<>>,
                   unmanaged |-> FALSE]]]

\* Without a graph every table is a vertex, and none has a label.
BuildTablesOnly(f) ==
  [named |-> FALSE, edges |-> <<>>, indexes |-> f.indexes,
   vertices |-> [t \in DOMAIN f.cols |-> FoldedVertex(f, t, {})]]

\* With one, the graph says which tables are vertices and which are edges; a
\* key it names for a table without columns is kept.
Build(f) ==
  IF f.graph = None THEN BuildTablesOnly(f)
  ELSE LET Vertex(t) == FoldedVertex(f, t, f.graph.vertices[t].props)
           key(t)    == f.graph.vertices[t].key
       IN [named |-> TRUE, indexes |-> f.indexes,
           vertices |-> [t \in DOMAIN f.graph.vertices |->
              IF Vertex(t).key = None /\ key(t) # <<>> /\ DOMAIN Vertex(t).cols = {}
              THEN [Vertex(t) EXCEPT !.key = [name |-> NaturalKeyConstraintName(t), columns |-> key(t)]]
              ELSE Vertex(t)],
           edges |-> [e \in DOMAIN f.graph.edges |->
              [cols |-> FoldedColumns(f, e), unmanaged |-> FALSE,
               src |-> f.graph.edges[e].src, dst |-> f.graph.edges[e].dst]]]
==============================================================================
