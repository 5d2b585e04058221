-------------------------- MODULE FoldMirror_proofs --------------------------
(***************************************************************************)
(* Reading a directory back gives the tables the database has: whatever    *)
(* statements it holds, in whatever order, one statement read and the same *)
(* statement run lead from equal tables to equal tables, unless one of the *)
(* two refuses it.  Of constraints and indexes that is so in a history of  *)
(* plain edits, thanks to the order in which the differ writes.            *)
(***************************************************************************)
EXTENDS ReadBack_proofs

(* The invariant.                                                          *)

ColumnsMirrored(cols, table) ==
  /\ "cols" \in DOMAIN table
  /\ table.cols = [x \in DOMAIN cols |-> TableColumn(cols[x])]
  /\ \A x \in DOMAIN cols : {"default", "ref"} \subseteq DOMAIN cols[x]

Mirrors(f, c) ==
  /\ f.graph = c.graph
  /\ DOMAIN c.tables = DOMAIN f.cols \union Theirs
  /\ \A t \in DOMAIN f.cols : ColumnsMirrored(f.cols[t], c.tables[t])

MirrorInv ==
  /\ refused => plan = <<>>
  /\ folder.ok /\ ~refused => Mirrors(folder, catalog)
------------------------------------------------------------------------------
(* Columns.                                                                *)

LEMMA FoldedIsMirrored ==
  ASSUME NEW def
  PROVE  /\ TableColumn(FoldedColumn(def)) = TableColumn(def)
         /\ {"default", "ref"} \subseteq DOMAIN FoldedColumn(def)
BY DEF TableColumn, FoldedColumn

\* A column with one more, or one less, or one under a new name.
LEMMA MoreIsMirrored ==
  ASSUME NEW cols, NEW table, ColumnsMirrored(cols, table), NEW x, NEW def,
         NEW new, "cols" \in DOMAIN new,
         new.cols = With(table.cols, x, TableColumn(def))
  PROVE  ColumnsMirrored(With(cols, x, FoldedColumn(def)), new)
<1> DEFINE more == With(cols, x, FoldedColumn(def))
<1>1. DOMAIN more = DOMAIN cols \union {x} /\ DOMAIN new.cols = DOMAIN more
  BY DEF With, ColumnsMirrored
<1>2. ASSUME NEW y \in DOMAIN more
      PROVE  new.cols[y] = TableColumn(more[y]) /\ {"default", "ref"} \subseteq DOMAIN more[y]
  BY FoldedIsMirrored DEF With, ColumnsMirrored
<1>3. new.cols = [y \in DOMAIN more |-> new.cols[y]]
  BY <1>1 DEF With
<1> HIDE DEF more
<1>4. ColumnsMirrored(more, new)
  BY <1>2, <1>3 DEF ColumnsMirrored
<1> QED BY <1>4 DEF more

LEMMA LessIsMirrored ==
  ASSUME NEW cols, NEW table, ColumnsMirrored(cols, table), NEW x,
         NEW new, "cols" \in DOMAIN new, new.cols = Without(table.cols, {x})
  PROVE  ColumnsMirrored(Without(cols, {x}), new)
BY DEF ColumnsMirrored, Without, Restrict

LEMMA RekeyedIsMirrored ==
  ASSUME NEW cols, NEW table, ColumnsMirrored(cols, table), NEW x \in DOMAIN cols, NEW y,
         NEW new, "cols" \in DOMAIN new, new.cols = Rekeyed(table.cols, x, y)
  PROVE  ColumnsMirrored(Rekeyed(cols, x, y), new)
BY DEF ColumnsMirrored, Rekeyed

Defaulting(cols, x, d) == [cols EXCEPT ![x] = [@ EXCEPT !.default = d]]

LEMMA DefaultIsMirrored ==
  ASSUME NEW cols, NEW table, ColumnsMirrored(cols, table), NEW x, NEW d,
         NEW new, "cols" \in DOMAIN new,
         new.cols = Defaulting(table.cols, x, d)
  PROVE  ColumnsMirrored(Defaulting(cols, x, d), new)
<1> USE DEF Defaulting
<1> DEFINE changed == Defaulting(cols, x, d)
<1>1. DOMAIN changed = DOMAIN cols /\ DOMAIN new.cols = DOMAIN cols
  BY DEF ColumnsMirrored
<1>2. ASSUME NEW y \in DOMAIN cols
      PROVE  new.cols[y] = TableColumn(changed[y]) /\ {"default", "ref"} \subseteq DOMAIN changed[y]
  <2>1. CASE y = x
    <3>1. changed[y] = [cols[y] EXCEPT !.default = d]
      BY <2>1
    <3>2. new.cols[y] = [TableColumn(cols[y]) EXCEPT !.default = d]
      BY <2>1 DEF ColumnsMirrored
    <3> HIDE DEF changed
    <3> QED BY <3>1, <3>2 DEF ColumnsMirrored, TableColumn
  <2>2. CASE y # x
    BY <2>2 DEF ColumnsMirrored
  <2> QED BY <2>1, <2>2
<1>3. new.cols = [y \in DOMAIN changed |-> new.cols[y]]
  BY <1>1 DEF ColumnsMirrored
<1> HIDE DEF changed
<1>4. ColumnsMirrored(changed, new)
  BY <1>1, <1>2, <1>3 DEF ColumnsMirrored
<1> QED BY <1>4 DEF changed

\* What says whether a column is UNIQUE is not what the table's columns say.
Marked(cols, x, u) == [cols EXCEPT ![x] = [@ EXCEPT !.unique = u]]

LEMMA UniqueIsMirrored ==
  ASSUME NEW cols, NEW table, ColumnsMirrored(cols, table), NEW x, NEW u
  PROVE  ColumnsMirrored(Marked(cols, x, u), table)
<1> USE DEF Marked
<1> DEFINE changed == Marked(cols, x, u)
<1>1. ASSUME NEW y \in DOMAIN cols
      PROVE  TableColumn(changed[y]) = TableColumn(cols[y]) /\ {"default", "ref"} \subseteq DOMAIN changed[y]
  <2>1. changed[y] = cols[y] \/ changed[y] = [cols[y] EXCEPT !.unique = u]
    OBVIOUS
  <2> HIDE DEF changed
  <2>2. {"default", "ref"} \subseteq DOMAIN cols[y]
    BY DEF ColumnsMirrored
  <2>3. CASE changed[y] = [cols[y] EXCEPT !.unique = u]
    <3>1. DOMAIN changed[y] = DOMAIN cols[y]
      BY <2>3
    <3>2. /\ changed[y].type = cols[y].type /\ changed[y].primary = cols[y].primary
          /\ changed[y].default = cols[y].default /\ changed[y].ref = cols[y].ref
      BY <2>3
    <3> QED BY <2>2, <3>1, <3>2 DEF TableColumn
  <2> QED BY <2>1, <2>2, <2>3
<1>2. DOMAIN changed = DOMAIN cols
  OBVIOUS
<1> HIDE DEF changed
<1>3. ColumnsMirrored(changed, table)
  BY <1>1, <1>2 DEF ColumnsMirrored
<1> QED BY <1>3 DEF changed
\* References to a table follow it to its new name on both sides.
RefsMoved(cols, t, new) == [x \in DOMAIN cols |-> [cols[x] EXCEPT !.ref = Sub(@, t, new)]]

LEMMA RepointedIsMirrored ==
  ASSUME NEW cols, NEW table, ColumnsMirrored(cols, table), NEW t, NEW new
  PROVE  ColumnsMirrored(RefsMoved(cols, t, new), Repointed(table, t, new))
<1>1. ASSUME NEW x \in DOMAIN cols
      PROVE  /\ TableColumn(RefsMoved(cols, t, new)[x]) = [TableColumn(cols[x]) EXCEPT !.ref = Sub(@, t, new)]
             /\ {"default", "ref"} \subseteq DOMAIN RefsMoved(cols, t, new)[x]
  <2> DEFINE moved == [cols[x] EXCEPT !.ref = Sub(@, t, new)]
  <2>1. {"default", "ref"} \subseteq DOMAIN cols[x] /\ RefsMoved(cols, t, new)[x] = moved
    BY DEF ColumnsMirrored, RefsMoved
  <2>2. /\ moved.type = cols[x].type /\ moved.primary = cols[x].primary
        /\ moved.default = cols[x].default /\ moved.ref = Sub(cols[x].ref, t, new)
        /\ DOMAIN moved = DOMAIN cols[x]
    BY <2>1
  <2> HIDE DEF moved
  <2> QED BY <2>1, <2>2 DEF TableColumn
<1>2. Repointed(table, t, new).cols = [x \in DOMAIN table.cols |-> [table.cols[x] EXCEPT !.ref = Sub(@, t, new)]]
  BY DEF Repointed, ColumnsMirrored
<1>3. "cols" \in DOMAIN Repointed(table, t, new)
  BY DEF Repointed, ColumnsMirrored
<1>4. DOMAIN table.cols = DOMAIN cols /\ \A x \in DOMAIN cols : table.cols[x] = TableColumn(cols[x])
  BY DEF ColumnsMirrored
<1>5. DOMAIN RefsMoved(cols, t, new) = DOMAIN cols
  BY DEF RefsMoved
<1>6. Repointed(table, t, new).cols = [x \in DOMAIN cols |-> TableColumn(RefsMoved(cols, t, new)[x])]
  BY <1>1, <1>2, <1>4
<1> QED BY <1>1, <1>3, <1>5, <1>6 DEF ColumnsMirrored

CreatedColumns(defs, uniques) ==
  [x \in DOMAIN defs |-> [FoldedColumn(defs[x]) EXCEPT !.unique = @ \/ x \in uniques]]

LEMMA CreatedIsMirrored ==
  ASSUME NEW defs, NEW uniques, NEW table, "cols" \in DOMAIN table,
         table.cols = [x \in DOMAIN defs |-> TableColumn(defs[x])]
  PROVE  ColumnsMirrored(CreatedColumns(defs, uniques), table)
<1> DEFINE col(x) == [FoldedColumn(defs[x]) EXCEPT !.unique = @ \/ x \in uniques]
<1>1. ASSUME NEW x \in DOMAIN defs
      PROVE  TableColumn(col(x)) = TableColumn(defs[x]) /\ {"default", "ref"} \subseteq DOMAIN col(x)
  BY DEF TableColumn, FoldedColumn
<1> HIDE DEF col
<1>2. ColumnsMirrored([x \in DOMAIN defs |-> col(x)], table)
  BY <1>1 DEF ColumnsMirrored
<1> QED BY <1>2 DEF col, CreatedColumns
------------------------------------------------------------------------------
(* Statements.                                                             *)

\* One table changes, on both sides.
LEMMA TableMirrors ==
  ASSUME NEW f, NEW c, Mirrors(f, c), NEW t \in DOMAIN f.cols, NEW g, NEW e, NEW cols, NEW table,
         ColumnsMirrored(cols, table), g.cols = [f.cols EXCEPT ![t] = cols],
         e.tables = [c.tables EXCEPT ![t] = table], g.graph = f.graph, e.graph = c.graph
  PROVE  Mirrors(g, e)
BY DEF Mirrors

\* The tables stay as they are, or a statement is about the graph only.
LEMMA SameMirrors ==
  ASSUME NEW f, NEW c, Mirrors(f, c), NEW g, NEW e,
         g.cols = f.cols, e.tables = c.tables, g.graph = e.graph
  PROVE  Mirrors(g, e)
BY DEF Mirrors

LEMMA CreateTableMirrors ==
  ASSUME NEW f, NEW c, NEW s, NEW d, Mirrors(f, c), FolderSpares(d, f), CatalogSpares(c),
         s.op = "create_table", s.table \notin Theirs
  PROVE  Mirrors(Apply(f, s), Effect(c, s))
<1> DEFINE uniques == {con.name.column : con \in {k \in s.cons : ClassifyConstraint(s.table, k.name) = "unique"}}
           cols == CreatedColumns(s.cols, uniques)
           g == Apply(f, s)
           e == Effect(c, s)
<1>1. g.cols = With(f.cols, s.table, cols) /\ g.graph = f.graph
  BY DEF Apply, ApplyCreateTable, FolderSpares, CreatedColumns
<1>2. PICK cons : e = [c EXCEPT !.tables = With(@, s.table,
                                 [cols |-> [x \in DOMAIN s.cols |-> TableColumn(s.cols[x])],
                                  cons |-> cons, key |-> s.key])]
  BY DEF Effect
<1> DEFINE table == [cols |-> [x \in DOMAIN s.cols |-> TableColumn(s.cols[x])], cons |-> cons, key |-> s.key]
<1>3. e.tables = With(c.tables, s.table, table) /\ e.graph = c.graph
  BY <1>2, Zenon DEF CatalogSpares
<1>4. ColumnsMirrored(cols, table)
  <2> HIDE DEF uniques
  <2>1. "cols" \in DOMAIN table /\ table.cols = [x \in DOMAIN s.cols |-> TableColumn(s.cols[x])]
    OBVIOUS
  <2> HIDE DEF table
  <2> QED BY <2>1, CreatedIsMirrored
<1> HIDE DEF g, e, cols, table
<1>5. Mirrors(g, e)
  BY <1>1, <1>3, <1>4 DEF Mirrors, With
<1> QED BY <1>5 DEF g, e
LEMMA DropTableMirrors ==
  ASSUME NEW f, NEW c, NEW s, NEW d, Mirrors(f, c), FolderSpares(d, f), CatalogSpares(c),
         s.op = "drop_table", s.table \notin Theirs
  PROVE  Mirrors(Apply(f, s), Effect(c, s))
<1> DEFINE g == Apply(f, s)
           e == Effect(c, s)
<1>1. g.cols = Without(f.cols, {s.table}) /\ g.graph = f.graph
  BY DEF Apply, ApplyDropTable, FolderSpares
<1>2. e.tables = Without(c.tables, {s.table}) /\ e.graph = c.graph
  BY DEF Effect, CatalogSpares
<1> HIDE DEF g, e
<1>3. Mirrors(g, e)
  BY <1>1, <1>2 DEF Mirrors, Without, Restrict
<1> QED BY <1>3 DEF g, e

\* A statement PostgreSQL accepts is about a table it has, and if that is not of
\* theirs then the folder has it.
LEMMA AcceptedIsFolded ==
  ASSUME NEW f, NEW c, NEW s, Mirrors(f, c), Accepts(c, s), s.table \notin Theirs,
         s.op \in {"add_column", "drop_column", "alter_type", "set_default", "rename_column",
                   "rename_table", "add_constraint", "drop_constraint"}
  PROVE  s.table \in DOMAIN f.cols /\ ColumnsMirrored(f.cols[s.table], c.tables[s.table])
BY DEF Mirrors, Accepts, HasColumns

LEMMA AddColumnMirrors ==
  ASSUME NEW f, NEW c, NEW s, NEW d, Mirrors(f, c), FolderSpares(d, f), CatalogSpares(c),
         s.op = "add_column", s.table \notin Theirs, Accepts(c, s)
  PROVE  Mirrors(Apply(f, s), Effect(c, s))
<1> DEFINE t == s.table
           g == Apply(f, s)
           e == Effect(c, s)
           cols == With(f.cols[t], s.column, FoldedColumn(s.def))
           table == e.tables[t]
<1>1. t \in DOMAIN f.cols /\ ColumnsMirrored(f.cols[t], c.tables[t]) /\ t \in DOMAIN c.tables
  BY AcceptedIsFolded DEF Mirrors
<1>2. g = [f EXCEPT !.cols[t] = cols]
  BY <1>1 DEF Apply, FoldAddColumn, WithColumnsOf, FoldedColumns
<1>3. PICK cons : e = [c EXCEPT !.tables[t].cols = With(c.tables[t].cols, s.column, TableColumn(s.def)),
                                !.tables[t].cons = cons]
  BY Zenon DEF Effect
<1>4. g.cols = [f.cols EXCEPT ![t] = cols] /\ g.graph = f.graph
  BY <1>2 DEF FolderSpares
<1>5. /\ e.tables = [c.tables EXCEPT ![t] = table] /\ e.graph = c.graph
      /\ "cols" \in DOMAIN table /\ table.cols = With(c.tables[t].cols, s.column, TableColumn(s.def))
  <2> DEFINE more == With(c.tables[t].cols, s.column, TableColumn(s.def))
  <2>1. e = [c EXCEPT !.tables[t].cols = more, !.tables[t].cons = cons]
    BY <1>3
  <2> HIDE DEF more, e
  <2>2. /\ e.tables = [c.tables EXCEPT ![t] = e.tables[t]] /\ e.graph = c.graph
        /\ "cols" \in DOMAIN e.tables[t] /\ e.tables[t].cols = more
    BY <1>1, <2>1 DEF CatalogSpares, ColumnsMirrored
  <2> QED BY <2>2 DEF more
<1> HIDE DEF table, e, g
<1>6. ColumnsMirrored(cols, table)
  BY <1>1, <1>5, MoreIsMirrored
<1> HIDE DEF cols
<1>7. Mirrors(g, e)
  BY <1>1, <1>4, <1>5, <1>6, TableMirrors
<1> QED BY <1>7 DEF g, e

LEMMA DropColumnMirrors ==
  ASSUME NEW f, NEW c, NEW s, NEW d, Mirrors(f, c), FolderSpares(d, f), CatalogSpares(c),
         s.op = "drop_column", s.table \notin Theirs, Accepts(c, s)
  PROVE  Mirrors(Apply(f, s), Effect(c, s))
<1> DEFINE t == s.table
           g == Apply(f, s)
           e == Effect(c, s)
           cols == Without(f.cols[t], {s.column})
           table == e.tables[t]
<1>1. t \in DOMAIN f.cols /\ ColumnsMirrored(f.cols[t], c.tables[t]) /\ t \in DOMAIN c.tables
  BY AcceptedIsFolded DEF Mirrors
<1>2. g = [f EXCEPT !.cols[t] = cols]
  BY <1>1 DEF Apply, FoldDropColumn, WithColumnsOf, FoldedColumns
<1>3. PICK cons, indexes : e = [c EXCEPT !.tables[t].cols = Without(c.tables[t].cols, {s.column}),
                                         !.tables[t].cons = cons, !.indexes = indexes]
  BY Zenon DEF Effect
<1>4. g.cols = [f.cols EXCEPT ![t] = cols] /\ g.graph = f.graph
  BY <1>2 DEF FolderSpares
<1>5. /\ e.tables = [c.tables EXCEPT ![t] = table] /\ e.graph = c.graph
      /\ "cols" \in DOMAIN table /\ table.cols = Without(c.tables[t].cols, {s.column})
  <2> DEFINE less == Without(c.tables[t].cols, {s.column})
  <2>1. e = [c EXCEPT !.tables[t].cols = less, !.tables[t].cons = cons, !.indexes = indexes]
    BY <1>3
  <2> HIDE DEF less, e
  <2>2. /\ e.tables = [c.tables EXCEPT ![t] = e.tables[t]] /\ e.graph = c.graph
        /\ "cols" \in DOMAIN e.tables[t] /\ e.tables[t].cols = less
    BY <1>1, <2>1 DEF CatalogSpares, ColumnsMirrored
  <2> QED BY <2>2 DEF less
<1> HIDE DEF table, e, g
<1>6. ColumnsMirrored(cols, table)
  BY <1>1, <1>5, LessIsMirrored
<1> HIDE DEF cols
<1>7. Mirrors(g, e)
  BY <1>1, <1>4, <1>5, <1>6, TableMirrors
<1> QED BY <1>7 DEF g, e

LEMMA SetDefaultMirrors ==
  ASSUME NEW f, NEW c, NEW s, NEW d, Mirrors(f, c), FolderSpares(d, f), CatalogSpares(c),
         s.op = "set_default", s.table \notin Theirs, Accepts(c, s), Apply(f, s).ok
  PROVE  Mirrors(Apply(f, s), Effect(c, s))
<1> DEFINE t == s.table
           g == Apply(f, s)
           e == Effect(c, s)
           cols == Defaulting(f.cols[t], s.column, s.default)
           table == e.tables[t]
<1>1. t \in DOMAIN f.cols /\ ColumnsMirrored(f.cols[t], c.tables[t]) /\ t \in DOMAIN c.tables
  BY AcceptedIsFolded DEF Mirrors
<1>2. g = [f EXCEPT !.cols[t] = cols]
  <2>1. g = FoldSetDefault(f, t, s.column, s.default)
    BY DEF Apply
  <2>2. ~Failed(f).ok
    BY DEF Failed, FolderSpares
  <2> QED BY <2>1, <2>2 DEF FoldSetDefault, Defaulting
<1>3. e = [c EXCEPT !.tables[t].cols[s.column].default = s.default]
  BY DEF Effect
<1>4. g.cols = [f.cols EXCEPT ![t] = cols] /\ g.graph = f.graph
  BY <1>2 DEF FolderSpares
<1>5. /\ e.tables = [c.tables EXCEPT ![t] = table] /\ e.graph = c.graph
      /\ "cols" \in DOMAIN table
      /\ table.cols = Defaulting(c.tables[t].cols, s.column, s.default)
  <2>1. /\ DOMAIN e.tables = DOMAIN c.tables /\ e.graph = c.graph
        /\ e.tables = [c.tables EXCEPT ![t].cols[s.column].default = s.default]
    BY <1>3 DEF CatalogSpares
  <2> HIDE DEF e
  <2>2. e.tables[t] = [c.tables[t] EXCEPT !.cols[s.column].default = s.default]
    BY <1>1, <2>1
  <2>3. "cols" \in DOMAIN e.tables[t] /\ e.tables[t].cols = Defaulting(c.tables[t].cols, s.column, s.default)
    BY <1>1, <2>2 DEF Defaulting, ColumnsMirrored
  <2>4. e.tables = [c.tables EXCEPT ![t] = e.tables[t]]
    BY <1>1, <2>1, <2>2
  <2> QED BY <2>1, <2>3, <2>4
<1> HIDE DEF table, e, g
<1>6. ColumnsMirrored(cols, table)
  BY <1>1, <1>5, DefaultIsMirrored
<1> HIDE DEF cols
<1>7. Mirrors(g, e)
  BY <1>1, <1>4, <1>5, <1>6, TableMirrors
<1> QED BY <1>7 DEF g, e

LEMMA RenameColumnMirrors ==
  ASSUME NEW f, NEW c, NEW s, NEW d, Mirrors(f, c), FolderSpares(d, f), CatalogSpares(c),
         s.op = "rename_column", s.table \notin Theirs, Accepts(c, s), Apply(f, s).ok
  PROVE  Mirrors(Apply(f, s), Effect(c, s))
<1> DEFINE t == s.table
           g == Apply(f, s)
           e == Effect(c, s)
           cols == Rekeyed(f.cols[t], s.column, s.new)
           table == e.tables[t]
<1>1. t \in DOMAIN f.cols /\ ColumnsMirrored(f.cols[t], c.tables[t]) /\ t \in DOMAIN c.tables
  BY AcceptedIsFolded DEF Mirrors
<1>2. /\ s.column \in DOMAIN f.cols[t]
      /\ \E cons, indexes : g = [f EXCEPT !.cols[t] = cols, !.cons[t] = cons, !.indexes = indexes]
  <2>1. g = FoldRenameColumn(f, t, s.column, s.new)
    BY DEF Apply
  <2>2. ~Failed(f).ok
    BY DEF Failed, FolderSpares
  <2> QED BY <2>1, <2>2, Zenon DEF FoldRenameColumn
<1>3. PICK indexes : e = [c EXCEPT !.tables[t] = ColumnRenamed(c.tables[t], s.column, s.new),
                                   !.indexes = indexes]
  BY Zenon DEF Effect
<1>4. g.cols = [f.cols EXCEPT ![t] = cols] /\ g.graph = f.graph
  BY <1>2 DEF FolderSpares
<1>5. /\ e.tables = [c.tables EXCEPT ![t] = table] /\ e.graph = c.graph
      /\ table = ColumnRenamed(c.tables[t], s.column, s.new)
  BY <1>1, <1>3 DEF CatalogSpares
<1> HIDE DEF table, e, g
<1>6. "cols" \in DOMAIN table /\ table.cols = Rekeyed(c.tables[t].cols, s.column, s.new)
  BY <1>1, <1>5 DEF ColumnRenamed, ColumnsMirrored
<1>7. ColumnsMirrored(cols, table)
  BY <1>1, <1>2, <1>6, RekeyedIsMirrored
<1> HIDE DEF cols
<1>8. Mirrors(g, e)
  BY <1>1, <1>4, <1>5, <1>7, TableMirrors
<1> QED BY <1>8 DEF g, e
LEMMA RenameTableMirrors ==
  ASSUME NEW f, NEW c, NEW s, NEW d, Mirrors(f, c), FolderSpares(d, f), CatalogSpares(c),
         s.op = "rename_table", s.table \notin Theirs, Accepts(c, s), Apply(f, s).ok
  PROVE  Mirrors(Apply(f, s), Effect(c, s))
<1> DEFINE t == s.table
           g == Apply(f, s)
           e == Effect(c, s)
           folded == Rekeyed(f.cols, t, s.new)
           tables == Rekeyed(c.tables, t, s.new)
<1>1. t \in DOMAIN f.cols
  BY AcceptedIsFolded
<1>2. /\ g.cols = [n \in DOMAIN folded |-> RefsMoved(folded[n], t, s.new)]
      /\ g.graph = f.graph
  <2>1. g = FoldRenameTable(f, t, s.new)
    BY DEF Apply
  <2> QED BY <1>1, <2>1 DEF FoldRenameTable, RefsMoved, FolderSpares
<1>3. e.tables = TablesRenamed(tables, t, s.new) /\ e.graph = c.graph
  BY DEF Effect, CatalogSpares
<1>4. DOMAIN tables = DOMAIN folded \union Theirs
  BY <1>1 DEF Rekeyed, Mirrors
<1>5. \A n \in DOMAIN folded : ColumnsMirrored(folded[n], tables[n])
  BY <1>1 DEF Rekeyed, Mirrors
<1> HIDE DEF g, e, folded, tables
<1>6. \A n \in DOMAIN folded : ColumnsMirrored(g.cols[n], e.tables[n])
  BY <1>2, <1>3, <1>4, <1>5, RepointedIsMirrored DEF TablesRenamed
<1>7. DOMAIN e.tables = DOMAIN g.cols \union Theirs /\ DOMAIN g.cols = DOMAIN folded
  BY <1>2, <1>3, <1>4 DEF TablesRenamed
<1>8. Mirrors(g, e)
  BY <1>2, <1>3, <1>6, <1>7 DEF Mirrors
<1> QED BY <1>8 DEF g, e

\* The constraints of a table change in the database, and what the folder knows
\* of those of a column changes in the folder.
LEMMA ConstraintsAside ==
  ASSUME NEW f, NEW c, Mirrors(f, c), NEW t \in DOMAIN f.cols, NEW e, NEW table,
         e.tables = [c.tables EXCEPT ![t] = table], e.graph = c.graph,
         "cols" \in DOMAIN table, table.cols = c.tables[t].cols
  PROVE  Mirrors(f, e)
<1>1. DOMAIN e.tables = DOMAIN c.tables /\ t \in DOMAIN c.tables
  BY DEF Mirrors
<1>2. ASSUME NEW n \in DOMAIN f.cols PROVE ColumnsMirrored(f.cols[n], e.tables[n])
  <2>1. CASE n = t
    BY <1>1, <2>1 DEF Mirrors, ColumnsMirrored
  <2>2. CASE n # t
    BY <2>2 DEF Mirrors
  <2> QED BY <2>1, <2>2
<1> QED BY <1>1, <1>2 DEF Mirrors

LEMMA UniqueAside ==
  ASSUME NEW f, NEW c, Mirrors(f, c), NEW t \in DOMAIN f.cols, NEW g, NEW x, NEW u,
         g.cols = [f.cols EXCEPT ![t] = Marked(@, x, u)], g.graph = f.graph
  PROVE  Mirrors(g, c)
<1> DEFINE cols == Marked(f.cols[t], x, u)
<1>1. ColumnsMirrored(f.cols[t], c.tables[t])
  BY DEF Mirrors
<1>2. ColumnsMirrored(cols, c.tables[t])
  BY <1>1, UniqueIsMirrored
<1>3. g.cols = [f.cols EXCEPT ![t] = cols]
  OBVIOUS
<1> HIDE DEF cols
<1> QED BY <1>2, <1>3 DEF Mirrors

\* A constraint is added or dropped.
Constrained(c, t, cons) == [c EXCEPT !.tables[t].cons = cons]

LEMMA ConstraintMirrors ==
  ASSUME NEW f, NEW c, NEW d, Mirrors(f, c), FolderSpares(d, f), CatalogSpares(c),
         NEW t \in DOMAIN f.cols, NEW con, NEW present, ApplyConstraint(f, t, con, present).ok, NEW cons
  PROVE  Mirrors(ApplyConstraint(f, t, con, present), Constrained(c, t, cons))
<1> DEFINE x == con.name.column
           role == ClassifyConstraint(t, con.name)
           g == ApplyConstraint(f, t, con, present)
           e == Constrained(c, t, cons)
           table == [c.tables[t] EXCEPT !.cons = cons]
<1>1. t \in DOMAIN f.cols /\ ColumnsMirrored(f.cols[t], c.tables[t])
  BY DEF Mirrors
<1>2. Mirrors(f, e)
  <2>1. e.tables = [c.tables EXCEPT ![t] = table] /\ e.graph = c.graph
    BY DEF CatalogSpares, Constrained
  <2>2. "cols" \in DOMAIN table /\ table.cols = c.tables[t].cols
    BY <1>1 DEF ColumnsMirrored
  <2> HIDE DEF e, table
  <2> QED BY <1>1, <2>1, <2>2, ConstraintsAside
<1>3. ~Failed(f).ok
  BY DEF Failed, FolderSpares
<1> HIDE DEF e
<1>4. CASE role = "unique"
  <2>1. g = [f EXCEPT !.cols[t][x].unique = present]
    BY <1>1, <1>3, <1>4 DEF ApplyConstraint
  <2>2. g.cols = [f.cols EXCEPT ![t] = Marked(@, x, present)] /\ g.graph = f.graph
    BY <2>1 DEF FolderSpares, Marked
  <2> HIDE DEF g, x
  <2>3. Mirrors(g, e)
    BY <1>1, <1>2, <2>2, UniqueAside
  <2> QED BY <2>3 DEF g, e
<1>5. CASE role # "unique"
  <2>1. g = f \/ \E kept : g = [f EXCEPT !.cons[t] = kept]
    BY <1>1, <1>5, Zenon DEF ApplyConstraint
  <2>2. g.cols = f.cols /\ g.graph = f.graph
    BY <2>1 DEF FolderSpares
  <2> HIDE DEF g
  <2>3. Mirrors(g, e)
    BY <1>2, <2>2 DEF Mirrors
  <2> QED BY <2>3 DEF g, e
<1> QED BY <1>4, <1>5

\* Whatever statement the folder reads and PostgreSQL accepts.
LEMMA StatementMirrors ==
  ASSUME NEW f, NEW c, NEW s, NEW d, Mirrors(f, c), FolderSpares(d, f), CatalogSpares(c),
         OfOurs(s) \/ OfGraph(s), Accepts(c, s), Apply(f, s).ok
  PROVE  Mirrors(Apply(f, s), Effect(c, s))
<1>1. CASE OfGraph(s)
  <2>1. CASE s = DropGraph
    <3>1. s.op = "drop_graph"
      BY <2>1 DEF DropGraph
    <3>2. Apply(f, s) = [f EXCEPT !.graph = None] /\ Effect(c, s) = [c EXCEPT !.graph = None]
      BY <3>1 DEF Apply, Effect
    <3> QED BY <3>2, SameMirrors DEF FolderSpares, CatalogSpares
  <2>2. CASE \E gr : s = CreateGraph(gr)
    <3>1. s.op = "create_graph"
      BY <2>2 DEF CreateGraph
    <3>2. Apply(f, s) = [f EXCEPT !.graph = s.graph] /\ Effect(c, s) = [c EXCEPT !.graph = s.graph]
      BY <3>1 DEF Apply, Effect
    <3> QED BY <3>2, SameMirrors DEF FolderSpares, CatalogSpares
  <2> QED BY <1>1, <2>1, <2>2 DEF OfGraph
<1>2. CASE OfOurs(s)
  <2>0. s.table \notin Theirs /\ ~Failed(f).ok
    BY <1>2 DEF OfOurs, Failed, FolderSpares
  <2>1. CASE s.op = "alter_type"
    BY <2>0, <2>1 DEF Apply
  <2>2. CASE s.op = "add_constraint"
    <3>1. Apply(f, s) = ApplyConstraint(f, s.table, s.con, TRUE)
      BY <2>2 DEF Apply
    <3>2. PICK cons : Effect(c, s) = [c EXCEPT !.tables[s.table].cons = cons]
      BY <2>2, Zenon DEF Effect
    <3> DEFINE con == s.con
               present == TRUE
    <3>3. ApplyConstraint(f, s.table, con, present).ok
      BY <3>1
    <3>4. s.table \in DOMAIN f.cols
      BY <2>0, <2>2, AcceptedIsFolded
    <3> HIDE DEF con, present
    <3>5. Mirrors(ApplyConstraint(f, s.table, con, present), Constrained(c, s.table, cons))
      BY <3>3, <3>4, ConstraintMirrors
    <3> QED BY <3>1, <3>2, <3>5 DEF con, present, Constrained
  <2>3. CASE s.op = "drop_constraint"
    <3>1. Apply(f, s) = ApplyConstraint(f, s.table, [name |-> s.name], FALSE)
      BY <2>3 DEF Apply
    <3>2. PICK cons : Effect(c, s) = [c EXCEPT !.tables[s.table].cons = cons]
      BY <2>3, Zenon DEF Effect
    <3> DEFINE con == [name |-> s.name]
               present == FALSE
    <3>3. ApplyConstraint(f, s.table, con, present).ok
      BY <3>1
    <3>4. s.table \in DOMAIN f.cols
      BY <2>0, <2>3, AcceptedIsFolded
    <3> HIDE DEF con, present
    <3>5. Mirrors(ApplyConstraint(f, s.table, con, present), Constrained(c, s.table, cons))
      BY <3>3, <3>4, ConstraintMirrors
    <3> QED BY <3>1, <3>2, <3>5 DEF con, present, Constrained
  <2>4. CASE s.op \in {"create_index", "drop_index"}
    <3>1. \E indexes : Apply(f, s) = [f EXCEPT !.indexes = indexes]
      BY <2>4, Zenon DEF Apply
    <3>2. \E indexes : Effect(c, s) = [c EXCEPT !.indexes = indexes]
      BY <2>4, Zenon DEF Effect
    <3>3. /\ Apply(f, s).cols = f.cols /\ Apply(f, s).graph = f.graph
          /\ Effect(c, s).tables = c.tables /\ Effect(c, s).graph = c.graph
      BY <3>1, <3>2 DEF FolderSpares, CatalogSpares
    <3> QED BY <3>3 DEF Mirrors
  <2> QED BY <1>2, <2>0, <2>1, <2>2, <2>3, <2>4, CreateTableMirrors, DropTableMirrors, AddColumnMirrors,
             DropColumnMirrors, SetDefaultMirrors, RenameTableMirrors, RenameColumnMirrors
          DEF OfOurs, TableOps
<1> QED BY <1>1, <1>2
LEMMA AppliedMirrors ==
  ASSUME NEW f, NEW c, NEW s, NEW d, f.ok => Mirrors(f, c), FolderSpares(d, f), CatalogSpares(c),
         OfOurs(s) \/ OfGraph(s), Accepts(c, s), Applied(f, s).ok
  PROVE  Mirrors(Applied(f, s), Effect(c, s))
<1>1. f.ok
  BY DEF Applied
<1>2. Applied(f, s) = Apply(f, s)
  BY <1>1 DEF Applied
<1> QED BY <1>1, <1>2, StatementMirrors

\* A section, read and run to its end.
LEMMA SectionMirrors ==
  ASSUME NEW d, NEW f, NEW c, NEW section, FolderSpares(d, f), CatalogSpares(c), f.ok => Mirrors(f, c),
         Spares(section), \A i \in DOMAIN section : Mapped(d, section[i])
  PROVE  FoldSection(f, section).ok /\ Run(c, section).ok
           => Mirrors(FoldSection(f, section), Run(c, section).cat)
<1>1. Len(section) \in Nat /\ DOMAIN section = 1..Len(section)
  BY DEF Spares, List
<1>s2. PICK folded : FoldsOf(folded, f, section)
  BY <1>1, FoldHasSteps
<1>2. /\ folded[0] = f
      /\ \A i \in 1..Len(section) : folded[i] = Applied(folded[i-1], section[i])
      /\ FoldSection(f, section) = folded[Len(section)]
  BY <1>s2 DEF FoldsOf
<1>3. PICK run : StepsOf(run, c, section)
  BY <1>1, RunHasSteps
<1> DEFINE n == Len(section)
           Agree(i) == /\ FolderSpares(d, folded[i]) /\ CatalogSpares(run[i].cat)
                       /\ folded[i].ok /\ run[i].ok => Mirrors(folded[i], run[i].cat)
           S == {i \in 0..n : Agree(i)}
<1>4. /\ n \in Nat /\ DOMAIN section = 1..n /\ 0 \in 0..n /\ n \in 0..n
      /\ folded[0] = f /\ run[0] = [ok |-> TRUE, cat |-> c]
      /\ \A i \in 1..n : /\ folded[i] = Applied(folded[i-1], section[i])
                         /\ run[i] = After(c, run[i-1], section[i])
      /\ FoldSection(f, section) = folded[n] /\ Run(c, section) = run[n]
  BY <1>1, <1>2, <1>3 DEF StepsOf
<1> HIDE DEF n
<1>5. 0 \in S
  <2>1. run[0].cat = c
    BY <1>4
  <2> QED BY <1>4, <2>1
<1>6. ASSUME NEW i \in 1..n, i-1 \in S PROVE i \in S
  <2>1. i \in 0..n /\ i \in DOMAIN section
    BY <1>4
  <2> DEFINE s == section[i]
  <2>2. Agree(i-1)
    BY <1>6
  <2>3. folded[i] = Applied(folded[i-1], s) /\ run[i] = After(c, run[i-1], s)
    BY <1>4
  <2>4. (OfOurs(s) \/ OfGraph(s)) /\ Mapped(d, s)
    BY <2>1 DEF Spares
  <2> HIDE DEF s
  <2>5. FolderSpares(d, folded[i])
    BY <2>2, <2>3, <2>4, AppliedSpares
  <2>6. CASE run[i-1].ok /\ Accepts(run[i-1].cat, s)
    <3>1. run[i].cat = Effect(run[i-1].cat, s) /\ run[i].ok
      BY <2>3, <2>6 DEF After
    <3>2. CatalogSpares(run[i].cat)
      BY <2>2, <2>4, <3>1, EffectSpares
    <3>3. folded[i].ok => Mirrors(folded[i], run[i].cat)
      BY <2>2, <2>3, <2>4, <2>6, <3>1, AppliedMirrors
    <3> QED BY <2>1, <2>5, <3>2, <3>3
  <2>7. CASE ~(run[i-1].ok /\ Accepts(run[i-1].cat, s))
    <3>1. run[i].cat = c /\ ~run[i].ok
      BY <2>3, <2>7 DEF After
    <3> QED BY <2>1, <2>5, <3>1
  <2> QED BY <2>6, <2>7
<1> HIDE DEF S
<1>7. n \in S
  BY <1>4, <1>5, <1>6, UpToInduction
<1> QED BY <1>4, <1>7 DEF S
------------------------------------------------------------------------------
(* Histories.                                                              *)

KeepsMirror == KeepingInv /\ (Families[family].keeps => MirrorInv)

LEMMA MirrorInit == Init => KeepsMirror
<1> SUFFICES ASSUME Init PROVE KeepsMirror
  OBVIOUS
<1>1. /\ folder.graph = catalog.graph
      /\ DOMAIN folder.cols = {} /\ DOMAIN catalog.tables = Theirs
  BY DEF Init, NewFolder, Database, EmptyCatalog, Theirs
<1>2. Mirrors(folder, catalog)
  BY <1>1 DEF Mirrors
<1> QED BY <1>2, KeepingInit DEF Init, MirrorInv, KeepsMirror

LEMMA MirrorStep == KeepsMirror /\ [Next]_vars => KeepsMirror'
<1> SUFFICES ASSUME KeepsMirror, [Next]_vars, Families[family].keeps PROVE MirrorInv'
  <2>1. ASSUME [Next]_vars PROVE family' = family
    BY <2>1, Zenon DEF Next, vars, Generate, WriteFile, Crash
  <2> QED BY <2>1, KeepingStep DEF KeepsMirror
<1>1. ASSUME NEW d \in Families[family].schemas, Generate(d) PROVE MirrorInv'
  BY <1>1 DEF KeepsMirror, MirrorInv, Generate
<1>2. ASSUME WriteFile PROVE MirrorInv'
  <2> DEFINE file == Head(plan)
  <2>1. /\ folder' = FoldSection(folder, file.up)
        /\ catalog' = Run(catalog, file.up).cat
        /\ refused' = ~Run(catalog, file.up).ok
        /\ plan' = (IF Run(catalog, file.up).ok THEN Tail(plan) ELSE <<>>)
        /\ plan # <<>>
    BY <1>2 DEF WriteFile
  <2>2. SparingInv /\ (folder.ok => Mirrors(folder, catalog))
    BY <2>1 DEF KeepsMirror, KeepingInv, MirrorInv
  <2>3. file = plan[1] /\ 1 \in DOMAIN plan
    BY <2>1, <2>2 DEF SparingInv, List
  <2>4. SparingFile(desired, file)
    BY <2>2, <2>3 DEF SparingInv
  <2> HIDE DEF file
  <2>5. FoldSection(folder, file.up).ok /\ Run(catalog, file.up).ok
          => Mirrors(FoldSection(folder, file.up), Run(catalog, file.up).cat)
    BY <2>2, <2>4, SectionMirrors DEF SparingInv, SparingFile
  <2>6. refused' => plan' = <<>>
    BY <2>1
  <2>7. folder'.ok /\ ~refused' => Mirrors(folder', catalog')
    BY <2>1, <2>5
  <2> QED BY <2>6, <2>7 DEF MirrorInv
<1>3. ASSUME Crash PROVE MirrorInv'
  BY <1>3 DEF KeepsMirror, MirrorInv, Crash
<1>4. ASSUME UNCHANGED vars PROVE MirrorInv'
  BY <1>4 DEF KeepsMirror, MirrorInv, vars
<1> QED BY <1>1, <1>2, <1>3, <1>4 DEF Next

\* At every moment of every history, also between two files of a generation and
\* after one that died, the tables and the graph that reading the directory gives
\* are those of the database, with every column, default and reference: what the
\* differ takes for the prior schema is there to be altered.  It is so for the
\* prefix of a section as well, so it does not depend on which statements the
\* differ writes or how it orders them, only on their being about tables of ours.
THEOREM FoldAlwaysMirrorsTheTables == Spec => [](Families[family].keeps => FoldMirrorsTheTables)
<1>1. Spec => []KeepsMirror
  BY MirrorInit, MirrorStep, PTL DEF Spec
<1>2. KeepsMirror => (Families[family].keeps => FoldMirrorsTheTables)
  BY DEF KeepsMirror, MirrorInv, Mirrors, ColumnsMirrored, FoldMirrorsTheTables, Readable, Theirs
<1> QED BY <1>1, <1>2, PTL
------------------------------------------------------------------------------
(* Constraints and indexes, in a history of plain edits.  DROP COLUMN takes  *)
(* what is over the column with it, and the reader does not know that: the   *)
(* two stay together because by then nothing is over it any more.          *)

Uniques(t, cols) == {UniqueConstraintName(t, x) : x \in {y \in DOMAIN cols : cols[y].unique}}

TableTwins(t, cols, cons, table) ==
  /\ "cons" \in DOMAIN table
  /\ DOMAIN table.cons = Uniques(t, cols) \union DOMAIN cons
  /\ \A x \in DOMAIN cols : /\ "unique" \in DOMAIN cols[x]
                            /\ cols[x].unique => Over(table.cons[UniqueConstraintName(t, x)]) = {x}
  /\ \A n \in DOMAIN cons : IsHeld(t, n) /\ Over(table.cons[n]) = Over(cons[n])

Twins(f, c) ==
  /\ IsFolder(f) /\ f.ok = TRUE
  /\ f.indexes = c.indexes /\ f.indexes = [i \in DOMAIN f.indexes |-> f.indexes[i]]
  /\ DOMAIN f.cons = DOMAIN f.cols
  /\ \A t \in DOMAIN f.cols : TableTwins(t, f.cols[t], f.cons[t], c.tables[t])

LEMMA NamesOfUniques ==
  ASSUME NEW t
  PROVE  /\ \A x, y : UniqueConstraintName(t, x) = UniqueConstraintName(t, y) => x = y
         /\ \A x, n : IsHeld(t, n) => n # UniqueConstraintName(t, x)
         /\ \A x : Over(Body(UniqueConstraint(t, x))) = {x}
         /\ \A x : UniqueConstraint(t, x).name = UniqueConstraintName(t, x)
<1>1. \A x : UniqueConstraintName(t, x).column = x /\ UniqueConstraintName(t, x).role = "unique"
  BY DEF UniqueConstraintName
<1>2. ASSUME NEW x PROVE Over(Body(UniqueConstraint(t, x))) = {x}
  <2>1. Body(UniqueConstraint(t, x)).columns = <<x>> /\ Body(UniqueConstraint(t, x)).expr = None
    BY DEF Body, UniqueConstraint
  <2>2. Range(<<x>>) = {x}
    BY DEF Range
  <2> QED BY <2>1, <2>2 DEF Over
<1>3. \A x : UniqueConstraint(t, x).name = UniqueConstraintName(t, x)
  BY DEF UniqueConstraint
<1> QED BY <1>1, <1>2, <1>3 DEF IsHeld

LEMMA BodyIsOver ==
  ASSUME NEW con
  PROVE  Over(Body(con)) = Over(con)
BY DEF Over, Body

\* A named constraint less, or one more.
LEMMA HeldLess ==
  ASSUME NEW t, NEW cols, NEW cons, NEW table, TableTwins(t, cols, cons, table), NEW n, IsHeld(t, n),
         NEW new, "cons" \in DOMAIN new, new.cons = Without(table.cons, {n})
  PROVE  TableTwins(t, cols, Without(cons, {n}), new)
<1>1. n \notin Uniques(t, cols)
  BY NamesOfUniques DEF Uniques
<1>2. /\ DOMAIN new.cons = Uniques(t, cols) \union DOMAIN Without(cons, {n})
      /\ \A m \in DOMAIN new.cons : new.cons[m] = table.cons[m]
      /\ DOMAIN Without(cons, {n}) = DOMAIN cons \ {n}
      /\ \A m \in DOMAIN Without(cons, {n}) : Without(cons, {n})[m] = cons[m]
  BY <1>1 DEF TableTwins, Without, Restrict
<1>3. \A x \in DOMAIN cols : cols[x].unique => UniqueConstraintName(t, x) \in Uniques(t, cols)
  BY DEF Uniques
<1> QED BY <1>2, <1>3 DEF TableTwins

LEMMA HeldMore ==
  ASSUME NEW t, NEW cols, NEW cons, NEW table, TableTwins(t, cols, cons, table), NEW con, IsHeld(t, con.name),
         NEW new, "cons" \in DOMAIN new, new.cons = With(table.cons, con.name, Body(con))
  PROVE  TableTwins(t, cols, With(cons, con.name, con), new)
<1> DEFINE n == con.name
           more == With(cons, n, con)
<1>1. \A x : UniqueConstraintName(t, x) # n
  BY NamesOfUniques
<1>2. /\ DOMAIN new.cons = DOMAIN table.cons \union {n} /\ new.cons[n] = Body(con)
      /\ \A m \in DOMAIN table.cons : m # n => new.cons[m] = table.cons[m]
      /\ DOMAIN more = DOMAIN cons \union {n} /\ more[n] = con
      /\ \A m \in DOMAIN cons : m # n => more[m] = cons[m]
  BY DEF With
<1> HIDE DEF more
<1>3. \A x \in DOMAIN cols : cols[x].unique => UniqueConstraintName(t, x) \in Uniques(t, cols)
  BY DEF Uniques
<1>4. IsHeld(t, n) /\ Over(Body(con)) = Over(con)
  BY BodyIsOver
<1> HIDE DEF n
<1>5. /\ DOMAIN new.cons = Uniques(t, cols) \union DOMAIN more
      /\ \A m \in DOMAIN more : IsHeld(t, m) /\ Over(new.cons[m]) = Over(more[m])
  BY <1>2, <1>4 DEF TableTwins
<1>6. \A x \in DOMAIN cols : /\ "unique" \in DOMAIN cols[x]
                             /\ cols[x].unique => Over(new.cons[UniqueConstraintName(t, x)]) = {x}
  BY <1>1, <1>2, <1>3 DEF TableTwins
<1>7. TableTwins(t, cols, more, new)
  BY <1>5, <1>6 DEF TableTwins
<1> QED BY <1>7 DEF more, n

\* A column that is no longer UNIQUE, or is now.
LEMMA MarkedColumns ==
  ASSUME NEW cols, NEW x \in DOMAIN cols, "unique" \in DOMAIN cols[x], NEW u
  PROVE  /\ DOMAIN Marked(cols, x, u) = DOMAIN cols
         /\ Marked(cols, x, u)[x].unique = u /\ "unique" \in DOMAIN Marked(cols, x, u)[x]
         /\ \A y \in DOMAIN cols : y # x => Marked(cols, x, u)[y] = cols[y]
BY DEF Marked

LEMMA UniqueLess ==
  ASSUME NEW t, NEW cols, NEW cons, NEW table, TableTwins(t, cols, cons, table), NEW x \in DOMAIN cols,
         NEW u, ~u, NEW new, "cons" \in DOMAIN new, new.cons = Without(table.cons, {UniqueConstraintName(t, x)})
  PROVE  TableTwins(t, Marked(cols, x, u), cons, new)
<1> DEFINE marked == Marked(cols, x, u)
           Name(y) == UniqueConstraintName(t, y)
<1>1. /\ DOMAIN marked = DOMAIN cols /\ marked[x].unique = u /\ "unique" \in DOMAIN marked[x]
      /\ \A y \in DOMAIN cols : y # x => marked[y] = cols[y]
  <2>1. "unique" \in DOMAIN cols[x]
    BY DEF TableTwins
  <2> QED BY ONLY <2>1, x \in DOMAIN cols, MarkedColumns DEF marked
<1> HIDE DEF marked
<1>2. /\ \A y : Name(y) = Name(x) => y = x
      /\ \A n \in DOMAIN cons : n # Name(x)
  BY NamesOfUniques DEF TableTwins
<1>3. Uniques(t, marked) = Uniques(t, cols) \ {Name(x)}
  BY <1>1, <1>2 DEF Uniques
<1>4. /\ DOMAIN new.cons = DOMAIN table.cons \ {Name(x)}
      /\ \A n \in DOMAIN new.cons : new.cons[n] = table.cons[n]
  BY DEF Without, Restrict
<1>5. DOMAIN new.cons = Uniques(t, marked) \union DOMAIN cons
  BY <1>2, <1>3, <1>4 DEF TableTwins
<1>6. ASSUME NEW y \in DOMAIN marked
      PROVE  "unique" \in DOMAIN marked[y] /\ (marked[y].unique => Over(new.cons[Name(y)]) = {y})
  <2>1. CASE y = x
    BY <1>1, <2>1
  <2>2. CASE y # x
    <3>1. cols[y].unique => Name(y) \in Uniques(t, cols) /\ Name(y) # Name(x)
      BY <1>1, <1>2, <2>2 DEF Uniques
    <3> HIDE DEF Name
    <3>2. cols[y].unique => new.cons[Name(y)] = table.cons[Name(y)]
      BY <1>4, <3>1 DEF TableTwins
    <3>3. cols[y].unique => Over(table.cons[Name(y)]) = {y}
      BY <1>1 DEF TableTwins, Name
    <3> QED BY <1>1, <2>2, <3>2, <3>3 DEF TableTwins
  <2> QED BY <2>1, <2>2
<1>7. \A n \in DOMAIN cons : new.cons[n] = table.cons[n]
  BY <1>4, <1>5
<1>8. TableTwins(t, marked, cons, new)
  BY <1>5, <1>6, <1>7 DEF TableTwins
<1> QED BY <1>8 DEF marked

LEMMA UniqueMore ==
  ASSUME NEW t, NEW cols, NEW cons, NEW table, TableTwins(t, cols, cons, table), NEW x \in DOMAIN cols,
         NEW u, u, NEW new, "cons" \in DOMAIN new,
         new.cons = With(table.cons, UniqueConstraintName(t, x), Body(UniqueConstraint(t, x)))
  PROVE  TableTwins(t, Marked(cols, x, u), cons, new)
<1> DEFINE marked == Marked(cols, x, u)
           Name(y) == UniqueConstraintName(t, y)
           body == Body(UniqueConstraint(t, x))
<1>1. /\ DOMAIN marked = DOMAIN cols /\ marked[x].unique = u /\ "unique" \in DOMAIN marked[x]
      /\ \A y \in DOMAIN cols : y # x => marked[y] = cols[y]
  <2>1. "unique" \in DOMAIN cols[x]
    BY DEF TableTwins
  <2> QED BY ONLY <2>1, x \in DOMAIN cols, MarkedColumns DEF marked
<1> HIDE DEF marked
<1>2. /\ \A y : Name(y) = Name(x) => y = x
      /\ \A n \in DOMAIN cons : n # Name(x)
      /\ Over(body) = {x}
  BY NamesOfUniques DEF TableTwins
<1>3. Uniques(t, marked) = Uniques(t, cols) \union {Name(x)}
  BY <1>1, <1>2 DEF Uniques
<1> HIDE DEF body
<1>4. /\ DOMAIN new.cons = DOMAIN table.cons \union {Name(x)} /\ new.cons[Name(x)] = body
      /\ \A n \in DOMAIN table.cons : n # Name(x) => new.cons[n] = table.cons[n]
  BY DEF With, body
<1>5. DOMAIN new.cons = Uniques(t, marked) \union DOMAIN cons
  BY <1>3, <1>4 DEF TableTwins
<1>6. ASSUME NEW y \in DOMAIN marked
      PROVE  "unique" \in DOMAIN marked[y] /\ (marked[y].unique => Over(new.cons[Name(y)]) = {y})
  <2>1. CASE y = x
    BY <1>1, <1>2, <1>4, <2>1
  <2>2. CASE y # x
    <3>1. cols[y].unique => Name(y) \in Uniques(t, cols) /\ Name(y) # Name(x)
      BY <1>1, <1>2, <2>2 DEF Uniques
    <3> HIDE DEF Name
    <3>2. cols[y].unique => new.cons[Name(y)] = table.cons[Name(y)]
      BY <1>4, <3>1 DEF TableTwins
    <3>3. cols[y].unique => Over(table.cons[Name(y)]) = {y}
      BY <1>1 DEF TableTwins, Name
    <3> QED BY <1>1, <2>2, <3>2, <3>3 DEF TableTwins
  <2> QED BY <2>1, <2>2
<1>7. \A n \in DOMAIN cons : new.cons[n] = table.cons[n]
  BY <1>2, <1>4 DEF TableTwins
<1>8. TableTwins(t, marked, cons, new)
  BY <1>5, <1>6, <1>7 DEF TableTwins
<1> QED BY <1>8 DEF marked
\* A column that goes with nothing over it but its own UNIQUE, or a column more.
Clear(cons, x) == \A n \in DOMAIN cons : x \notin Over(cons[n])

LEMMA ColumnLess ==
  ASSUME NEW t, NEW cols, NEW cons, NEW table, TableTwins(t, cols, cons, table), NEW x, Clear(cons, x),
         NEW new, "cons" \in DOMAIN new,
         new.cons = Without(table.cons, {n \in DOMAIN table.cons : x \in Over(table.cons[n])})
  PROVE  TableTwins(t, Without(cols, {x}), cons, new)
<1> DEFINE less == Without(cols, {x})
           Name(y) == UniqueConstraintName(t, y)
<1>1. /\ DOMAIN less = DOMAIN cols \ {x}
      /\ \A y \in DOMAIN less : less[y] = cols[y]
  BY DEF Without, Restrict
<1> HIDE DEF less
<1>2. /\ DOMAIN new.cons = {n \in DOMAIN table.cons : x \notin Over(table.cons[n])}
      /\ \A n \in DOMAIN new.cons : new.cons[n] = table.cons[n]
  BY DEF Without, Restrict
<1>3. \A n \in DOMAIN cons : n \in DOMAIN new.cons /\ Over(new.cons[n]) = Over(cons[n]) /\ IsHeld(t, n)
  BY <1>2 DEF TableTwins, Clear
<1>4. \A y \in DOMAIN cols : cols[y].unique => Name(y) \in DOMAIN table.cons /\ Over(table.cons[Name(y)]) = {y}
  BY DEF TableTwins, Uniques
<1>5. \A y \in DOMAIN less : less[y].unique => Name(y) \in DOMAIN new.cons /\ Over(new.cons[Name(y)]) = {y}
  <2> HIDE DEF Name
  <2> QED BY <1>1, <1>2, <1>4
<1>6. \A n \in DOMAIN new.cons : n \in Uniques(t, less) \union DOMAIN cons
  <2>1. ASSUME NEW n \in DOMAIN new.cons, n \notin DOMAIN cons PROVE n \in Uniques(t, less)
    <3>1. n \in Uniques(t, cols) /\ x \notin Over(table.cons[n])
      BY <1>2, <2>1 DEF TableTwins
    <3>2. PICK y \in DOMAIN cols : cols[y].unique /\ n = Name(y)
      BY <3>1 DEF Uniques
    <3>3. y # x
      BY <1>4, <3>1, <3>2
    <3> QED BY <1>1, <3>2, <3>3 DEF Uniques
  <2> QED BY <2>1
<1>7. \A n \in Uniques(t, less) : n \in DOMAIN new.cons
  BY <1>5 DEF Uniques
<1>8. DOMAIN new.cons = Uniques(t, less) \union DOMAIN cons
  BY <1>3, <1>6, <1>7
<1>9. \A y \in DOMAIN less : "unique" \in DOMAIN less[y]
  BY <1>1 DEF TableTwins
<1>10. TableTwins(t, less, cons, new)
  BY <1>3, <1>5, <1>8, <1>9 DEF TableTwins
<1> QED BY <1>10 DEF less

LEMMA ColumnMore ==
  ASSUME NEW t, NEW cols, NEW cons, NEW table, TableTwins(t, cols, cons, table), NEW x, x \notin DOMAIN cols,
         NEW def, NEW new, "cons" \in DOMAIN new,
         new.cons = IF def.unique
                    THEN With(table.cons, UniqueConstraintName(t, x), Body(UniqueConstraint(t, x)))
                    ELSE table.cons
  PROVE  TableTwins(t, With(cols, x, FoldedColumn(def)), cons, new)
<1> DEFINE more == With(cols, x, FoldedColumn(def))
           Name(y) == UniqueConstraintName(t, y)
           body == Body(UniqueConstraint(t, x))
<1>1. /\ DOMAIN more = DOMAIN cols \union {x} /\ "unique" \in DOMAIN more[x] /\ more[x].unique = def.unique
      /\ \A y \in DOMAIN cols : more[y] = cols[y]
  BY DEF With, FoldedColumn
<1> HIDE DEF more
<1>2. Over(body) = {x}
  BY NamesOfUniques
<1>3. Name(x) \notin DOMAIN table.cons
  BY NamesOfUniques DEF TableTwins, Uniques
<1>4. \A y \in DOMAIN cols : cols[y].unique => Name(y) \in DOMAIN table.cons /\ Over(table.cons[Name(y)]) = {y}
  BY DEF TableTwins, Uniques
<1>5. Uniques(t, more) = Uniques(t, cols) \union (IF def.unique THEN {Name(x)} ELSE {})
  BY <1>1 DEF Uniques
<1> HIDE DEF Name, body
<1>6. /\ DOMAIN new.cons = DOMAIN table.cons \union (IF def.unique THEN {Name(x)} ELSE {})
      /\ \A n \in DOMAIN table.cons : new.cons[n] = table.cons[n]
      /\ def.unique => new.cons[Name(x)] = body
  BY <1>3 DEF With, Name, body
<1>7. ASSUME NEW y \in DOMAIN more
      PROVE  "unique" \in DOMAIN more[y] /\ (more[y].unique => Over(new.cons[Name(y)]) = {y})
  <2>1. CASE y = x
    BY <1>1, <1>2, <1>6, <2>1
  <2>2. CASE y # x
    BY <1>1, <1>4, <1>6, <2>2 DEF TableTwins
  <2> QED BY <2>1, <2>2
<1>8. DOMAIN new.cons = Uniques(t, more) \union DOMAIN cons
  BY <1>5, <1>6 DEF TableTwins
<1>9. \A n \in DOMAIN cons : IsHeld(t, n) /\ Over(new.cons[n]) = Over(cons[n])
  BY <1>6 DEF TableTwins
<1>10. TableTwins(t, more, cons, new)
  BY <1>7, <1>8, <1>9 DEF TableTwins, Name
<1> QED BY <1>10 DEF more

LEMMA DefaultTwins ==
  ASSUME NEW t, NEW cols, NEW cons, NEW table, TableTwins(t, cols, cons, table), NEW x, NEW d,
         NEW new, "cons" \in DOMAIN new, new.cons = table.cons
  PROVE  TableTwins(t, Defaulting(cols, x, d), cons, new)
<1> DEFINE changed == Defaulting(cols, x, d)
<1>1. DOMAIN changed = DOMAIN cols
  BY DEF Defaulting
<1>2. ASSUME NEW y \in DOMAIN cols PROVE "unique" \in DOMAIN changed[y] /\ changed[y].unique = cols[y].unique
  <2>1. "unique" \in DOMAIN cols[y]
    BY DEF TableTwins
  <2>2. changed[y] = cols[y] \/ changed[y] = [cols[y] EXCEPT !.default = d]
    BY DEF Defaulting
  <2> HIDE DEF changed
  <2> QED BY <2>1, <2>2
<1> HIDE DEF changed
<1>3. Uniques(t, changed) = Uniques(t, cols)
  BY <1>1, <1>2 DEF Uniques
<1>4. TableTwins(t, changed, cons, new)
  BY <1>1, <1>2, <1>3 DEF TableTwins
<1> QED BY <1>4 DEF changed

\* A new table, with the named constraints K.
ByName(K) == [n \in {k.name : k \in K} |-> CHOOSE k \in K : k.name = n]

LEMMA TableMade ==
  ASSUME NEW t, NEW defs, NEW K, \A k \in K : IsHeld(t, k.name), NEW table, "cons" \in DOMAIN table,
         table.cons = Bodies(K \union InlineUniques(t, defs)),
         NEW cols, DOMAIN cols = DOMAIN defs, \A x \in DOMAIN defs : cols[x] = FoldedColumn(defs[x]),
         NEW cons, cons = ByName(K)
  PROVE  TableTwins(t, cols, cons, table)
<1> USE DEF ByName
<1> DEFINE S == InlineUniques(t, defs)
           All == K \union S
           Name(x) == UniqueConstraintName(t, x)
<1>1. /\ \A k \in S : \E x \in DOMAIN defs : defs[x].unique /\ k = UniqueConstraint(t, x)
      /\ \A x \in DOMAIN defs : defs[x].unique => UniqueConstraint(t, x) \in S
  BY DEF InlineUniques
<1> HIDE DEF S
<1>2. \A k \in S : \E x \in DOMAIN defs : defs[x].unique /\ k.name = Name(x)
  BY <1>1, NamesOfUniques
<1>3. \A k \in K : \A x : k.name # Name(x)
  BY NamesOfUniques
<1>4. \A x \in DOMAIN defs : "unique" \in DOMAIN cols[x] /\ cols[x].unique = defs[x].unique
  BY DEF FoldedColumn
<1>5. {k.name : k \in S} = Uniques(t, cols)
  BY <1>1, <1>4, NamesOfUniques DEF Uniques
<1>6. /\ DOMAIN table.cons = {k.name : k \in All}
      /\ \A n \in DOMAIN table.cons : table.cons[n] = Body(CHOOSE k \in All : k.name = n)
  BY DEF Bodies, S
<1>7. DOMAIN table.cons = Uniques(t, cols) \union DOMAIN cons
  <2>1. {k.name : k \in All} = {k.name : k \in K} \union {k.name : k \in S}
    OBVIOUS
  <2>2. DOMAIN cons = {k.name : k \in K}
    OBVIOUS
  <2> HIDE DEF All
  <2> QED BY <1>5, <1>6, <2>1, <2>2
<1>8. ASSUME NEW n \in DOMAIN cons PROVE IsHeld(t, n) /\ Over(table.cons[n]) = Over(cons[n])
  <2>1. \E k \in K : k.name = n
    OBVIOUS
  <2>2. \A k \in All : k.name = n <=> k \in K /\ k.name = n
    BY <1>2, <1>3, <2>1
  <2>3. (CHOOSE k \in All : k.name = n) = (CHOOSE k \in K : k.name = n)
    BY <2>2
  <2>4. cons[n] = CHOOSE k \in K : k.name = n
    OBVIOUS
  <2> HIDE DEF All
  <2>5. table.cons[n] = Body(cons[n])
    BY <1>6, <1>7, <2>3, <2>4
  <2> QED BY <2>1, <2>5, BodyIsOver
<1>9. ASSUME NEW x \in DOMAIN cols, cols[x].unique PROVE Over(table.cons[Name(x)]) = {x}
  <2> DEFINE k == CHOOSE con \in All : con.name = Name(x)
  <2>1. UniqueConstraint(t, x) \in All /\ UniqueConstraint(t, x).name = Name(x)
    BY <1>1, <1>4, <1>9, NamesOfUniques
  <2>2. k \in All /\ k.name = Name(x)
    BY <2>1
  <2>3. table.cons[Name(x)] = Body(k)
    <3>1. Name(x) \in {con.name : con \in All}
      BY <2>1
    <3> HIDE DEF All, Name
    <3> QED BY <1>6, <3>1
  <2> HIDE DEF k
  <2>4. k \in S
    BY <1>3, <2>2
  <2>5. PICK y \in DOMAIN defs : k = UniqueConstraint(t, y)
    BY <1>1, <2>4
  <2>6. Name(y) = Name(x)
    BY <2>2, <2>5, NamesOfUniques
  <2>7. y = x
    BY <2>6, NamesOfUniques
  <2> QED BY <2>3, <2>5, <2>7, NamesOfUniques
<1> QED BY <1>4, <1>7, <1>8, <1>9 DEF TableTwins
------------------------------------------------------------------------------
(* Statements, once more.                                                  *)

LEMMA OneTableTwins ==
  ASSUME NEW f, NEW c, Twins(f, c), NEW t, NEW g, IsFolder(g), g.ok = TRUE, NEW e,
         g.indexes = e.indexes, g.indexes = [i \in DOMAIN g.indexes |-> g.indexes[i]],
         DOMAIN g.cons = DOMAIN g.cols, DOMAIN g.cols \subseteq DOMAIN f.cols \union {t},
         \A n \in DOMAIN g.cols \ {t} : g.cols[n] = f.cols[n] /\ g.cons[n] = f.cons[n] /\ e.tables[n] = c.tables[n],
         t \in DOMAIN g.cols => TableTwins(t, g.cols[t], g.cons[t], e.tables[t])
  PROVE  Twins(g, e)
BY DEF Twins

\* The columns of a table change, its named constraints, and nothing else.
LEMMA ColumnsTwin ==
  ASSUME NEW f, NEW c, Twins(f, c), NEW t \in DOMAIN f.cols, DOMAIN f.cols \subseteq DOMAIN c.tables,
         NEW cols, NEW e, NEW table, e.tables = [c.tables EXCEPT ![t] = table], e.indexes = c.indexes,
         TableTwins(t, cols, f.cons[t], table)
  PROVE  Twins([f EXCEPT !.cols[t] = cols], e)
<1> DEFINE g == [f EXCEPT !.cols[t] = cols]
<1>1. /\ IsFolder(g) /\ g.cols = [f.cols EXCEPT ![t] = cols]
      /\ g.cons = f.cons /\ g.indexes = f.indexes /\ g.ok = f.ok
  BY ColumnsEdited DEF Twins
<1> HIDE DEF g
<1>2. /\ DOMAIN g.cols = DOMAIN f.cols /\ g.cols[t] = cols /\ e.tables[t] = table
      /\ \A n \in DOMAIN g.cols \ {t} : g.cols[n] = f.cols[n] /\ e.tables[n] = c.tables[n]
  BY <1>1
<1>3. Twins(g, e)
  BY <1>1, <1>2, OneTableTwins DEF Twins
<1> QED BY <1>3 DEF g

LEMMA HeldTwin ==
  ASSUME NEW f, NEW c, Twins(f, c), NEW t \in DOMAIN f.cols, DOMAIN f.cols \subseteq DOMAIN c.tables,
         NEW cons, NEW e, NEW table, e.tables = [c.tables EXCEPT ![t] = table], e.indexes = c.indexes,
         TableTwins(t, f.cols[t], cons, table)
  PROVE  Twins([f EXCEPT !.cons[t] = cons], e)
<1> DEFINE g == [f EXCEPT !.cons[t] = cons]
<1>1. /\ IsFolder(g) /\ g.cons = [f.cons EXCEPT ![t] = cons]
      /\ g.cols = f.cols /\ g.indexes = f.indexes /\ g.ok = f.ok
  BY HeldEdited DEF Twins
<1> HIDE DEF g
<1>2. /\ DOMAIN g.cons = DOMAIN f.cons /\ g.cons[t] = cons /\ e.tables[t] = table
      /\ \A n \in DOMAIN g.cols \ {t} : g.cons[n] = f.cons[n] /\ e.tables[n] = c.tables[n]
  BY <1>1 DEF Twins
<1>3. Twins(g, e)
  BY <1>1, <1>2, OneTableTwins DEF Twins
<1> QED BY <1>3 DEF g

\* The constraints of a table in the database.
TableOf(c, e, t, cons, table) ==
  /\ e.tables = [c.tables EXCEPT ![t] = table] /\ e.indexes = c.indexes
  /\ "cons" \in DOMAIN table /\ table.cons = cons

LEMMA ConstraintsEdited ==
  ASSUME NEW c, CatalogSpares(c), NEW t, "cons" \in DOMAIN c.tables[t], NEW cons
  PROVE  \E table : TableOf(c, Constrained(c, t, cons), t, cons, table)
<1> DEFINE table == [c.tables[t] EXCEPT !.cons = cons]
           e == Constrained(c, t, cons)
<1>1. e.tables = [c.tables EXCEPT ![t] = table] /\ e.indexes = c.indexes
  BY DEF CatalogSpares, Constrained
<1>2. "cons" \in DOMAIN table /\ table.cons = cons
  OBVIOUS
<1> HIDE DEF table, e
<1>3. TableOf(c, e, t, cons, table)
  BY <1>1, <1>2 DEF TableOf
<1> QED BY <1>3 DEF e

\* Folder and database at one statement about a table of ours.
Paired(f, c, s, d) ==
  /\ Mirrors(f, c) /\ Twins(f, c) /\ FolderSpares(d, f) /\ CatalogSpares(c)
  /\ s.table \notin Theirs /\ Accepts(c, s)

LEMMA PairedTables ==
  ASSUME NEW f, NEW c, NEW s, NEW d, Paired(f, c, s, d),
         s.op \in {"add_column", "drop_column", "set_default", "add_constraint", "drop_constraint"}
  PROVE  /\ s.table \in DOMAIN f.cols /\ s.table \in DOMAIN c.tables /\ DOMAIN f.cols \subseteq DOMAIN c.tables
         /\ TableTwins(s.table, f.cols[s.table], f.cons[s.table], c.tables[s.table])
         /\ "cons" \in DOMAIN c.tables[s.table]
         /\ ColumnsMirrored(f.cols[s.table], c.tables[s.table])
<1>1. s.table \in DOMAIN f.cols /\ ColumnsMirrored(f.cols[s.table], c.tables[s.table])
  BY AcceptedIsFolded DEF Paired
<1>2. DOMAIN f.cols \subseteq DOMAIN c.tables
  BY DEF Paired, Mirrors
<1>3. TableTwins(s.table, f.cols[s.table], f.cons[s.table], c.tables[s.table])
  BY <1>1 DEF Paired, Twins
<1> QED BY <1>1, <1>2, <1>3 DEF TableTwins

LEMMA DropHeldTwins ==
  ASSUME NEW f, NEW c, NEW t, NEW n, NEW d, Paired(f, c, DropConstraint(t, n), d), IsHeld(t, n)
  PROVE  Twins(Apply(f, DropConstraint(t, n)), Effect(c, DropConstraint(t, n)))
<1> DEFINE s == DropConstraint(t, n)
           less == Without(f.cons[t], {n})
           over == Without(c.tables[t].cons, {n})
<1>1. s.op = "drop_constraint" /\ s.table = t /\ s.name = n
  BY DEF DropConstraint
<1> HIDE DEF s
<1>2. /\ t \in DOMAIN f.cols /\ t \in DOMAIN c.tables /\ DOMAIN f.cols \subseteq DOMAIN c.tables
      /\ TableTwins(t, f.cols[t], f.cons[t], c.tables[t]) /\ "cons" \in DOMAIN c.tables[t]
      /\ Twins(f, c) /\ CatalogSpares(c)
  BY <1>1, PairedTables DEF s, Paired
<1>3. Apply(f, s) = [f EXCEPT !.cons[t] = less]
  <2>1. Apply(f, s) = ApplyConstraint(f, t, [name |-> n], FALSE)
    BY <1>1 DEF Apply
  <2>2. n.table = t /\ n.role \notin {"unique", "unknown"}
    BY DEF IsHeld
  <2> QED BY <1>2, <2>1, <2>2 DEF ApplyConstraint, ClassifyConstraint
<1>4. Effect(c, s) = Constrained(c, t, over)
  BY <1>1 DEF Effect, Constrained
<1> DEFINE e == Constrained(c, t, over)
<1> HIDE DEF less, over
<1> HIDE DEF e
<1>p. PICK table : TableOf(c, e, t, over, table)
  <2>1. CatalogSpares(c) /\ "cons" \in DOMAIN c.tables[t]
    BY <1>2
  <2> QED BY ONLY <2>1, ConstraintsEdited DEF e
<1>5. /\ e.tables = [c.tables EXCEPT ![t] = table] /\ e.indexes = c.indexes
      /\ "cons" \in DOMAIN table /\ table.cons = over
  BY <1>p DEF TableOf
<1>6. TableTwins(t, f.cols[t], less, table)
  BY <1>2, <1>5, HeldLess DEF less, over
<1> HIDE DEF e
<1>7. Twins([f EXCEPT !.cons[t] = less], e)
  BY <1>2, <1>5, <1>6, HeldTwin
<1> QED BY <1>3, <1>4, <1>7 DEF e, s

LEMMA AddHeldTwins ==
  ASSUME NEW f, NEW c, NEW t, NEW con, NEW d, Paired(f, c, AddConstraint(t, con), d), IsHeld(t, con.name)
  PROVE  Twins(Apply(f, AddConstraint(t, con)), Effect(c, AddConstraint(t, con)))
<1> DEFINE s == AddConstraint(t, con)
           more == With(f.cons[t], con.name, con)
           over == With(c.tables[t].cons, con.name, Body(con))
<1>1. s.op = "add_constraint" /\ s.table = t /\ s.con = con
  BY DEF AddConstraint
<1> HIDE DEF s
<1>2. /\ t \in DOMAIN f.cols /\ t \in DOMAIN c.tables /\ DOMAIN f.cols \subseteq DOMAIN c.tables
      /\ TableTwins(t, f.cols[t], f.cons[t], c.tables[t]) /\ "cons" \in DOMAIN c.tables[t]
      /\ Twins(f, c) /\ CatalogSpares(c)
  BY <1>1, PairedTables DEF s, Paired
<1>3. Apply(f, s) = [f EXCEPT !.cons[t] = more]
  <2>1. Apply(f, s) = ApplyConstraint(f, t, con, TRUE)
    BY <1>1 DEF Apply
  <2>2. con.name.table = t /\ con.name.role \notin {"unique", "unknown"}
    BY DEF IsHeld
  <2> QED BY <1>2, <2>1, <2>2 DEF ApplyConstraint, ClassifyConstraint
<1>4. Effect(c, s) = Constrained(c, t, over)
  BY <1>1 DEF Effect, Constrained
<1> DEFINE e == Constrained(c, t, over)
<1> HIDE DEF more, over
<1> HIDE DEF e
<1>p. PICK table : TableOf(c, e, t, over, table)
  <2>1. CatalogSpares(c) /\ "cons" \in DOMAIN c.tables[t]
    BY <1>2
  <2> QED BY ONLY <2>1, ConstraintsEdited DEF e
<1>5. /\ e.tables = [c.tables EXCEPT ![t] = table] /\ e.indexes = c.indexes
      /\ "cons" \in DOMAIN table /\ table.cons = over
  BY <1>p DEF TableOf
<1>6. TableTwins(t, f.cols[t], more, table)
  BY <1>2, <1>5, HeldMore DEF more, over
<1> HIDE DEF e
<1>7. Twins([f EXCEPT !.cons[t] = more], e)
  BY <1>2, <1>5, <1>6, HeldTwin
<1> QED BY <1>3, <1>4, <1>7 DEF e, s
\* What the folder makes of a UNIQUE constraint, added or dropped.
MarkedIn(g, f, t, x, u) == x \in DOMAIN f.cols[t] /\ g = [f EXCEPT !.cols[t] = Marked(f.cols[t], x, u)]

LEMMA UniqueIsMarked ==
  ASSUME NEW f, IsFolder(f), f.ok = TRUE, NEW t \in DOMAIN f.cols,
         NEW con, con.name.table = t, con.name.role = "unique", NEW x, con.name.column = x,
         NEW u, NEW g, g = ApplyConstraint(f, t, con, u), g.ok
  PROVE  MarkedIn(g, f, t, x, u)
<1>1. ApplyConstraint(f, t, con, u) = IF x \in DOMAIN f.cols[t] THEN [f EXCEPT !.cols[t][x].unique = u] ELSE Failed(f)
  BY DEF ApplyConstraint, ClassifyConstraint
<1>2. "ok" \in DOMAIN f
  BY DEF IsFolder
<1>3. ~Failed(f).ok
  BY <1>2 DEF Failed
<1>4. x \in DOMAIN f.cols[t]
  <2>1. CASE x \notin DOMAIN f.cols[t]
    <3>1. ApplyConstraint(f, t, con, u) = Failed(f)
      BY <1>1, <2>1, Zenon
    <3> QED BY <1>3, <3>1
  <2> QED BY <2>1
<1>5. ApplyConstraint(f, t, con, u) = [f EXCEPT !.cols[t][x].unique = u]
  BY <1>1, <1>4, Zenon
<1> QED BY <1>4, <1>5 DEF Marked, MarkedIn

LEMMA DropUniqueTwins ==
  ASSUME NEW f, NEW c, NEW t, NEW x, NEW d, Paired(f, c, DropUnique(<<t, x>>), d),
         Apply(f, DropUnique(<<t, x>>)).ok
  PROVE  Twins(Apply(f, DropUnique(<<t, x>>)), Effect(c, DropUnique(<<t, x>>)))
<1> DEFINE s == DropUnique(<<t, x>>)
           n == UniqueConstraintName(t, x)
           no == FALSE
           less == Marked(f.cols[t], x, no)
           over == Without(c.tables[t].cons, {n})
           con == [name |-> n]
<1>1. s.op = "drop_constraint" /\ s.table = t /\ s.name = n
  BY DEF DropUnique, DropConstraint
<1> HIDE DEF s
<1>2. /\ t \in DOMAIN f.cols /\ t \in DOMAIN c.tables /\ DOMAIN f.cols \subseteq DOMAIN c.tables
      /\ TableTwins(t, f.cols[t], f.cons[t], c.tables[t]) /\ "cons" \in DOMAIN c.tables[t]
      /\ Twins(f, c) /\ CatalogSpares(c)
  BY <1>1, PairedTables DEF s, Paired
<1>3. x \in DOMAIN f.cols[t] /\ Apply(f, s) = [f EXCEPT !.cols[t] = less]
  <2> DEFINE g == Apply(f, s)
  <2>1. g = ApplyConstraint(f, t, con, no)
    BY <1>1 DEF Apply
  <2>2. con.name.table = t /\ con.name.role = "unique" /\ con.name.column = x
    BY <1>1 DEF UniqueConstraintName
  <2>3. IsFolder(f) /\ f.ok = TRUE /\ t \in DOMAIN f.cols
    BY <1>2 DEF Twins
  <2>4. g.ok
    BY DEF s
  <2> HIDE DEF con, no, g
  <2>5. MarkedIn(g, f, t, x, no)
    BY ONLY <2>1, <2>2, <2>3, <2>4, UniqueIsMarked
  <2> QED BY <2>5 DEF MarkedIn, g
<1>4. Effect(c, s) = Constrained(c, t, over)
  BY <1>1 DEF Effect, Constrained
<1> DEFINE e == Constrained(c, t, over)
<1>5. ~no
  OBVIOUS
<1> HIDE DEF less, over, e, no
<1>p. PICK table : TableOf(c, e, t, over, table)
  <2>1. CatalogSpares(c) /\ "cons" \in DOMAIN c.tables[t]
    BY <1>2
  <2> QED BY ONLY <2>1, ConstraintsEdited DEF e
<1>6. /\ e.tables = [c.tables EXCEPT ![t] = table] /\ e.indexes = c.indexes
      /\ "cons" \in DOMAIN table /\ table.cons = over
  BY <1>p DEF TableOf
<1>7. TableTwins(t, less, f.cons[t], table)
  BY <1>2, <1>3, <1>5, <1>6, UniqueLess DEF less, over
<1>8. Twins([f EXCEPT !.cols[t] = less], e)
  BY <1>2, <1>6, <1>7, ColumnsTwin
<1> QED BY <1>3, <1>4, <1>8 DEF e, s

LEMMA AddUniqueTwins ==
  ASSUME NEW f, NEW c, NEW t, NEW x, NEW d, Paired(f, c, AddUnique(<<t, x>>), d),
         Apply(f, AddUnique(<<t, x>>)).ok
  PROVE  Twins(Apply(f, AddUnique(<<t, x>>)), Effect(c, AddUnique(<<t, x>>)))
<1> DEFINE s == AddUnique(<<t, x>>)
           con == UniqueConstraint(t, x)
           yes == TRUE
           more == Marked(f.cols[t], x, yes)
           over == With(c.tables[t].cons, UniqueConstraintName(t, x), Body(con))
<1>1. /\ s.op = "add_constraint" /\ s.table = t /\ s.con = con
      /\ con.name = UniqueConstraintName(t, x)
  BY DEF AddUnique, AddConstraint, UniqueConstraint
<1> HIDE DEF s
<1>2. /\ t \in DOMAIN f.cols /\ t \in DOMAIN c.tables /\ DOMAIN f.cols \subseteq DOMAIN c.tables
      /\ TableTwins(t, f.cols[t], f.cons[t], c.tables[t]) /\ "cons" \in DOMAIN c.tables[t]
      /\ Twins(f, c) /\ CatalogSpares(c)
  BY <1>1, PairedTables DEF s, Paired
<1> HIDE DEF con
<1>3. x \in DOMAIN f.cols[t] /\ Apply(f, s) = [f EXCEPT !.cols[t] = more]
  <2> DEFINE g == Apply(f, s)
  <2>1. g = ApplyConstraint(f, t, con, yes)
    BY <1>1 DEF Apply
  <2>2. con.name.table = t /\ con.name.role = "unique" /\ con.name.column = x
    BY <1>1 DEF UniqueConstraintName
  <2>3. IsFolder(f) /\ f.ok = TRUE /\ t \in DOMAIN f.cols
    BY <1>2 DEF Twins
  <2>4. g.ok
    BY DEF s
  <2> HIDE DEF con, yes, g
  <2>5. MarkedIn(g, f, t, x, yes)
    BY ONLY <2>1, <2>2, <2>3, <2>4, UniqueIsMarked
  <2> QED BY <2>5 DEF MarkedIn, g
<1>4. Effect(c, s) = Constrained(c, t, over)
  BY <1>1 DEF Effect, Constrained
<1> DEFINE e == Constrained(c, t, over)
<1>5. yes
  OBVIOUS
<1> HIDE DEF more, over, e, yes
<1>p. PICK table : TableOf(c, e, t, over, table)
  <2>1. CatalogSpares(c) /\ "cons" \in DOMAIN c.tables[t]
    BY <1>2
  <2> QED BY ONLY <2>1, ConstraintsEdited DEF e
<1>6. /\ e.tables = [c.tables EXCEPT ![t] = table] /\ e.indexes = c.indexes
      /\ "cons" \in DOMAIN table /\ table.cons = over
  BY <1>p DEF TableOf
<1>7. TableTwins(t, more, f.cons[t], table)
  BY <1>2, <1>3, <1>5, <1>6, UniqueMore DEF more, over, con
<1>8. Twins([f EXCEPT !.cols[t] = more], e)
  BY <1>2, <1>6, <1>7, ColumnsTwin
<1> QED BY <1>3, <1>4, <1>8 DEF e, s
\* A column that goes, one that comes, and another default.
LEMMA DropColumnTwins ==
  ASSUME NEW f, NEW c, NEW s, NEW d, Paired(f, c, s, d), s.op = "drop_column",
         Clear(f.cons[s.table], s.column),
         \A i \in DOMAIN f.indexes : ~(f.indexes[i].table = s.table /\ f.indexes[i].column = s.column)
  PROVE  Twins(Apply(f, s), Effect(c, s))
<1> DEFINE t == s.table
           x == s.column
           e == Effect(c, s)
           less == Without(f.cols[t], {x})
           fewer == Without(c.tables[t].cols, {x})
           over == Without(c.tables[t].cons, {n \in DOMAIN c.tables[t].cons : x \in Over(c.tables[t].cons[n])})
           kept == Without(c.indexes, {i \in DOMAIN c.indexes : c.indexes[i].table = t /\ c.indexes[i].column = x})
           table == e.tables[t]
<1>1. /\ t \in DOMAIN f.cols /\ t \in DOMAIN c.tables /\ DOMAIN f.cols \subseteq DOMAIN c.tables
      /\ TableTwins(t, f.cols[t], f.cons[t], c.tables[t]) /\ "cons" \in DOMAIN c.tables[t]
      /\ "cols" \in DOMAIN c.tables[t] /\ Twins(f, c) /\ CatalogSpares(c)
  BY PairedTables DEF Paired, ColumnsMirrored
<1>2. Apply(f, s) = [f EXCEPT !.cols[t] = less]
  BY <1>1 DEF Apply, FoldDropColumn, WithColumnsOf, FoldedColumns
<1>3. e = [c EXCEPT !.tables[t].cols = fewer, !.tables[t].cons = over, !.indexes = kept]
  BY Zenon DEF Effect
<1>4. kept = c.indexes
  <2>1. c.indexes = f.indexes /\ c.indexes = [i \in DOMAIN c.indexes |-> c.indexes[i]]
    BY <1>1 DEF Twins
  <2>2. {i \in DOMAIN c.indexes : c.indexes[i].table = t /\ c.indexes[i].column = x} = {}
    BY <2>1
  <2> QED BY <2>1, <2>2 DEF Without, Restrict
<1> HIDE DEF e, fewer, over, kept
<1>5. /\ e.tables = [c.tables EXCEPT ![t] = table] /\ e.indexes = c.indexes
      /\ "cons" \in DOMAIN table /\ table.cons = over
  BY <1>1, <1>3, <1>4 DEF CatalogSpares
<1> HIDE DEF table
<1>6. TableTwins(t, less, f.cons[t], table)
  BY <1>1, <1>5, ColumnLess DEF over
<1> HIDE DEF less
<1>7. Twins([f EXCEPT !.cols[t] = less], e)
  <2>1. Twins(f, c)
    BY <1>1
  <2>2. t \in DOMAIN f.cols
    BY <1>1
  <2>3. DOMAIN f.cols \subseteq DOMAIN c.tables
    BY <1>1
  <2>4. e.tables = [c.tables EXCEPT ![t] = table]
    BY <1>5
  <2>5. e.indexes = c.indexes
    BY <1>5
  <2> HIDE DEF t
  <2> QED BY ONLY <2>1, <2>2, <2>3, <2>4, <2>5, <1>6, ColumnsTwin
<1> QED BY <1>2, <1>7 DEF e

LEMMA AddColumnTwins ==
  ASSUME NEW f, NEW c, NEW s, NEW d, Paired(f, c, s, d), s.op = "add_column"
  PROVE  Twins(Apply(f, s), Effect(c, s))
<1> DEFINE t == s.table
           x == s.column
           e == Effect(c, s)
           name == UniqueConstraintName(t, x)
           body == Body(UniqueConstraint(t, x))
           more == With(f.cols[t], x, FoldedColumn(s.def))
           further == With(c.tables[t].cols, x, TableColumn(s.def))
           over == IF s.def.unique THEN With(c.tables[t].cons, name, body) ELSE c.tables[t].cons
           table == e.tables[t]
<1>1. /\ t \in DOMAIN f.cols /\ t \in DOMAIN c.tables /\ DOMAIN f.cols \subseteq DOMAIN c.tables
      /\ TableTwins(t, f.cols[t], f.cons[t], c.tables[t]) /\ "cons" \in DOMAIN c.tables[t]
      /\ "cols" \in DOMAIN c.tables[t] /\ Twins(f, c) /\ CatalogSpares(c)
  BY PairedTables DEF Paired, ColumnsMirrored
<1>2. Apply(f, s) = [f EXCEPT !.cols[t] = more]
  BY <1>1 DEF Apply, FoldAddColumn, WithColumnsOf, FoldedColumns
<1>3. e = [c EXCEPT !.tables[t].cols = further, !.tables[t].cons = over]
  BY Zenon DEF Effect
<1>4. x \notin DOMAIN f.cols[t]
  <2>1. x \notin DOMAIN c.tables[t].cols
    BY DEF Paired, Accepts
  <2>2. ColumnsMirrored(f.cols[t], c.tables[t])
    BY PairedTables
  <2> QED BY <2>1, <2>2 DEF ColumnsMirrored
<1> HIDE DEF e, further, over
<1>5. /\ e.tables = [c.tables EXCEPT ![t] = table] /\ e.indexes = c.indexes
      /\ "cons" \in DOMAIN table /\ table.cons = over
  BY <1>1, <1>3 DEF CatalogSpares
<1> HIDE DEF table
<1>6. TableTwins(t, more, f.cons[t], table)
  BY <1>1, <1>4, <1>5, ColumnMore DEF over
<1> HIDE DEF more
<1>7. Twins([f EXCEPT !.cols[t] = more], e)
  <2>1. Twins(f, c)
    BY <1>1
  <2>2. t \in DOMAIN f.cols
    BY <1>1
  <2>3. DOMAIN f.cols \subseteq DOMAIN c.tables
    BY <1>1
  <2>4. e.tables = [c.tables EXCEPT ![t] = table]
    BY <1>5
  <2>5. e.indexes = c.indexes
    BY <1>5
  <2> HIDE DEF t
  <2> QED BY ONLY <2>1, <2>2, <2>3, <2>4, <2>5, <1>6, ColumnsTwin
<1> QED BY <1>2, <1>7 DEF e

LEMMA SetDefaultTwins ==
  ASSUME NEW f, NEW c, NEW s, NEW d, Paired(f, c, s, d), s.op = "set_default", Apply(f, s).ok
  PROVE  Twins(Apply(f, s), Effect(c, s))
<1> DEFINE t == s.table
           e == Effect(c, s)
           changed == Defaulting(f.cols[t], s.column, s.default)
           table == e.tables[t]
<1>1. /\ t \in DOMAIN f.cols /\ t \in DOMAIN c.tables /\ DOMAIN f.cols \subseteq DOMAIN c.tables
      /\ TableTwins(t, f.cols[t], f.cons[t], c.tables[t]) /\ "cons" \in DOMAIN c.tables[t]
      /\ Twins(f, c) /\ CatalogSpares(c)
  BY PairedTables DEF Paired
<1>2. Apply(f, s) = [f EXCEPT !.cols[t] = changed]
  <2>1. Apply(f, s) = FoldSetDefault(f, t, s.column, s.default)
    BY DEF Apply
  <2>2. ~Failed(f).ok
    BY DEF Failed, FolderSpares, Paired
  <2> QED BY <2>1, <2>2 DEF FoldSetDefault, Defaulting
<1>3. e = [c EXCEPT !.tables[t].cols[s.column].default = s.default]
  BY DEF Effect
<1> HIDE DEF e
<1>4. e.tables = [c.tables EXCEPT ![t].cols[s.column].default = s.default] /\ e.indexes = c.indexes
  BY <1>1, <1>3 DEF CatalogSpares
<1>5. table = [c.tables[t] EXCEPT !.cols[s.column].default = s.default]
  BY <1>1, <1>4
<1>6. e.tables = [c.tables EXCEPT ![t] = table]
  BY <1>1, <1>4, <1>5
<1>7. "cons" \in DOMAIN table /\ table.cons = c.tables[t].cons
  BY <1>1, <1>5
<1> HIDE DEF table
<1>8. TableTwins(t, changed, f.cons[t], table)
  BY <1>1, <1>7, DefaultTwins
<1> HIDE DEF changed
<1>9. Twins([f EXCEPT !.cols[t] = changed], e)
  <2>1. e.indexes = c.indexes
    BY <1>4
  <2>2. Twins(f, c)
    BY <1>1
  <2>3. t \in DOMAIN f.cols
    BY <1>1
  <2>4. DOMAIN f.cols \subseteq DOMAIN c.tables
    BY <1>1
  <2> HIDE DEF t
  <2> QED BY ONLY <2>1, <2>2, <2>3, <2>4, <1>6, <1>8, ColumnsTwin
<1> QED BY <1>2, <1>9 DEF e
\* Whole tables.
LEMMA DropTableTwins ==
  ASSUME NEW f, NEW c, NEW s, Twins(f, c), CatalogSpares(c), DOMAIN f.cols \subseteq DOMAIN c.tables,
         s.op = "drop_table"
  PROVE  Twins(Apply(f, s), Effect(c, s))
<1> DEFINE t == s.table
           g == Apply(f, s)
           e == Effect(c, s)
           cols == Without(f.cols, {t})
           cons == Without(f.cons, {t})
           indexes == Without(f.indexes, {i \in DOMAIN f.indexes : f.indexes[i].table = t})
<1>1. g = [f EXCEPT !.cols = cols, !.cons = cons, !.indexes = indexes]
  BY DEF Apply, ApplyDropTable
<1>2. /\ e.tables = Without(c.tables, {t})
      /\ e.indexes = Without(c.indexes, {i \in DOMAIN c.indexes : c.indexes[i].table = t})
  BY DEF Effect, CatalogSpares
<1>3. e.indexes = indexes /\ indexes = [i \in DOMAIN indexes |-> indexes[i]]
  BY <1>2 DEF Twins, Without, Restrict
<1> HIDE DEF g, e, indexes
<1>4. /\ DOMAIN cols = DOMAIN f.cols \ {t} /\ DOMAIN cons = DOMAIN f.cols \ {t}
      /\ \A n \in DOMAIN cols : cols[n] = f.cols[n] /\ cons[n] = f.cons[n]
  BY DEF Twins, Without, Restrict
<1> HIDE DEF cols, cons
<1>5. g = [cols |-> cols, cons |-> cons, indexes |-> indexes, graph |-> f.graph, ok |-> f.ok]
  BY <1>1 DEF Twins, IsFolder
<1>6. /\ IsFolder(g) /\ g.ok = TRUE /\ g.cols = cols /\ g.cons = cons /\ g.indexes = indexes
  BY <1>5 DEF IsFolder, Twins
<1>7. ASSUME NEW n \in DOMAIN g.cols PROVE TableTwins(n, g.cols[n], g.cons[n], e.tables[n])
  <2>1. n \in DOMAIN f.cols \ {t} /\ n \in DOMAIN c.tables \ {t}
    BY <1>4, <1>6, <1>7
  <2>2. e.tables[n] = c.tables[n]
    BY <1>2, <2>1 DEF Without, Restrict
  <2> QED BY <1>4, <1>6, <2>1, <2>2 DEF Twins
<1>8. Twins(g, e)
  BY <1>3, <1>4, <1>6, <1>7 DEF Twins
<1> QED BY <1>8 DEF g, e

\* A table read as the columns cols and the named constraints cons, and made.
LEMMA TableReadTwins ==
  ASSUME NEW f, NEW c, Twins(f, c), DOMAIN f.cols \subseteq DOMAIN c.tables,
         NEW t, NEW cols, NEW cons, NEW g, ReadAs(g, f, t, cols, cons),
         NEW e, NEW table, e.tables = With(c.tables, t, table), e.indexes = c.indexes,
         TableTwins(t, cols, cons, table)
  PROVE  Twins(g, e)
<1>1. /\ IsFolder(g) /\ g.ok = TRUE /\ g.indexes = f.indexes
      /\ g.cols = With(f.cols, t, cols) /\ g.cons = With(f.cons, t, cons)
  BY DEF ReadAs
<1>2. /\ DOMAIN g.cols = DOMAIN f.cols \union {t} /\ DOMAIN g.cons = DOMAIN g.cols
      /\ g.cols[t] = cols /\ g.cons[t] = cons /\ e.tables[t] = table
      /\ \A n \in DOMAIN f.cols \ {t} : g.cols[n] = f.cols[n] /\ g.cons[n] = f.cons[n] /\ e.tables[n] = c.tables[n]
  BY <1>1 DEF Twins, With
<1>3. ASSUME NEW n \in DOMAIN g.cols PROVE TableTwins(n, g.cols[n], g.cons[n], e.tables[n])
  BY <1>2 DEF Twins
<1> QED BY <1>1, <1>2, <1>3 DEF Twins

LEMMA TableInDatabase ==
  ASSUME NEW c, CatalogSpares(c), NEW s, s.op = "create_table"
  PROVE  /\ Effect(c, s).tables = With(c.tables, s.table, [cols |-> [x \in DOMAIN s.cols |-> TableColumn(s.cols[x])],
                                                            cons |-> Bodies(s.cons \union InlineUniques(s.table, s.cols)),
                                                            key  |-> s.key])
         /\ Effect(c, s).indexes = c.indexes
<1> DEFINE table == [cols |-> [x \in DOMAIN s.cols |-> TableColumn(s.cols[x])],
                     cons |-> Bodies(s.cons \union InlineUniques(s.table, s.cols)), key  |-> s.key]
           e == Effect(c, s)
<1>1. e = [c EXCEPT !.tables = With(@, s.table, table)]
  BY DEF Effect
<1> HIDE DEF table, e
<1>2. e.tables = With(c.tables, s.table, table) /\ e.indexes = c.indexes
  BY <1>1 DEF CatalogSpares
<1> QED BY <1>2 DEF table, e

\* The table of a vertex type, and that of an edge.
LEMMA VertexTableTwins ==
  ASSUME NEW f, NEW c, Twins(f, c), DOMAIN f.cols \subseteq DOMAIN c.tables, CatalogSpares(c),
         NEW t, NEW vt, MadeTable(t, vt)
  PROVE  Twins(Apply(f, VertexTableDDL(t, vt)), Effect(c, VertexTableDDL(t, vt)))
<1> DEFINE s == VertexTableDDL(t, vt)
           g == Apply(f, s)
           e == Effect(c, s)
           defs == ColumnsDDL(vt.cols)
           K == TableConstraints(t, vt)
           cols == NewColumns(vt.cols)
           cons == NewHeld(t, vt)
           table == [cols |-> [x \in DOMAIN s.cols |-> TableColumn(s.cols[x])],
                     cons |-> Bodies(K \union InlineUniques(t, defs)), key |-> s.key]
<1>1. s.op = "create_table" /\ s.table = t /\ s.cols = defs /\ s.cons = K
  BY DEF VertexTableDDL
<1>2. ReadAs(g, f, t, cols, cons)
  BY VertexTableRead DEF Twins
<1> HIDE DEF s
<1>3. e.tables = With(c.tables, t, table) /\ e.indexes = c.indexes
  <2> HIDE DEF defs, K
  <2> QED BY <1>1, TableInDatabase
<1>4. "cons" \in DOMAIN table /\ table.cons = Bodies(K \union InlineUniques(t, defs))
  OBVIOUS
<1>5. DOMAIN cols = DOMAIN defs /\ \A x \in DOMAIN defs : cols[x] = FoldedColumn(defs[x])
  BY DEF NewColumns, ColumnsDDL
<1>6. cons = ByName(K)
  BY DEF ByName, NewHeld, HeldNames, HeldAs
<1>7. \A k \in K : IsHeld(t, k.name)
  BY ConstraintsAreHeld
<1> HIDE DEF g, e, defs, K, cols, cons, table
<1>8. TableTwins(t, cols, cons, table)
  BY ONLY <1>4, <1>5, <1>6, <1>7, TableMade
<1>9. Twins(g, e)
  BY <1>2, <1>3, <1>8, TableReadTwins
<1> QED BY <1>9 DEF g, e, s

LEMMA EdgeTableTwins ==
  ASSUME NEW f, NEW c, Twins(f, c), DOMAIN f.cols \subseteq DOMAIN c.tables, CatalogSpares(c), NEW t, NEW et
  PROVE  Twins(Apply(f, EdgeTableDDL(t, et)), Effect(c, EdgeTableDDL(t, et)))
<1> DEFINE s == EdgeTableDDL(t, et)
           g == Apply(f, s)
           e == Effect(c, s)
           defs == ColumnsDDL(et.cols)
           K == {}
           cols == NewColumns(et.cols)
           cons == <<>>
           table == [cols |-> [x \in DOMAIN s.cols |-> TableColumn(s.cols[x])],
                     cons |-> Bodies(K \union InlineUniques(t, defs)), key |-> s.key]
<1>1. s.op = "create_table" /\ s.table = t /\ s.cols = defs /\ s.cons = K
  BY DEF EdgeTableDDL
<1>2. ReadAs(g, f, t, cols, cons)
  BY EdgeTableRead DEF Twins
<1> HIDE DEF s
<1>3. e.tables = With(c.tables, t, table) /\ e.indexes = c.indexes
  <2> HIDE DEF defs, K
  <2> QED BY <1>1, TableInDatabase
<1>4. "cons" \in DOMAIN table /\ table.cons = Bodies(K \union InlineUniques(t, defs))
  OBVIOUS
<1>5. DOMAIN cols = DOMAIN defs /\ \A x \in DOMAIN defs : cols[x] = FoldedColumn(defs[x])
  BY DEF NewColumns, ColumnsDDL
<1>6. cons = ByName(K)
  BY DEF ByName
<1>7. \A k \in K : IsHeld(t, k.name)
  OBVIOUS
<1> HIDE DEF g, e, defs, K, cols, cons, table
<1>8. TableTwins(t, cols, cons, table)
  BY ONLY <1>4, <1>5, <1>6, <1>7, TableMade
<1>9. Twins(g, e)
  BY <1>2, <1>3, <1>8, TableReadTwins
<1> QED BY <1>9 DEF g, e, s

\* Indexes, and the graph.
LEMMA AsideTwins ==
  ASSUME NEW f, NEW c, Twins(f, c), CatalogSpares(c), NEW s,
         s.op \in {"create_index", "drop_index", "create_graph", "drop_graph"}
  PROVE  Twins(Apply(f, s), Effect(c, s))
<1> DEFINE g == Apply(f, s)
           e == Effect(c, s)
           made == With(f.indexes, s.index, [table |-> s.table, column |-> s.column])
           less == Without(f.indexes, {s.index})
<1>1. CASE s.op = "create_index"
  <2>1. g = [f EXCEPT !.indexes = made] /\ e = [c EXCEPT !.indexes = made]
    BY <1>1 DEF Apply, Effect, Twins
  <2>2. made = [i \in DOMAIN made |-> made[i]]
    BY DEF With
  <2> HIDE DEF g, e, made
  <2>3. /\ g.indexes = made /\ e.indexes = made /\ g.cols = f.cols /\ g.cons = f.cons /\ g.ok = f.ok
        /\ e.tables = c.tables /\ IsFolder(g)
    BY <2>1 DEF Twins, IsFolder, CatalogSpares
  <2>4. Twins(g, e)
    BY <2>2, <2>3 DEF Twins
  <2> QED BY <2>4 DEF g, e
<1>2. CASE s.op = "drop_index"
  <2>1. g = [f EXCEPT !.indexes = less] /\ e = [c EXCEPT !.indexes = less]
    BY <1>2 DEF Apply, Effect, Twins
  <2>2. less = [i \in DOMAIN less |-> less[i]]
    BY DEF Without, Restrict
  <2> HIDE DEF g, e, less
  <2>3. /\ g.indexes = less /\ e.indexes = less /\ g.cols = f.cols /\ g.cons = f.cons /\ g.ok = f.ok
        /\ e.tables = c.tables /\ IsFolder(g)
    BY <2>1 DEF Twins, IsFolder, CatalogSpares
  <2>4. Twins(g, e)
    BY <2>2, <2>3 DEF Twins
  <2> QED BY <2>4 DEF g, e
<1>3. CASE s.op \in {"create_graph", "drop_graph"}
  <2>1. \E v : g = [f EXCEPT !.graph = v] /\ e = [c EXCEPT !.graph = v]
    BY <1>3 DEF Apply, Effect
  <2> HIDE DEF g, e
  <2>3. /\ g.indexes = f.indexes /\ e.indexes = c.indexes /\ g.cols = f.cols /\ g.cons = f.cons /\ g.ok = f.ok
        /\ e.tables = c.tables /\ IsFolder(g)
    BY <2>1 DEF Twins, IsFolder, CatalogSpares
  <2>4. Twins(g, e)
    BY <2>3 DEF Twins
  <2> QED BY <2>4 DEF g, e
<1> QED BY <1>1, <1>2, <1>3

\* A statement of a plain history, read with f: what DROP COLUMN takes along is
\* nothing but the column's own UNIQUE.
NothingOver(f, s) ==
  /\ Clear(f.cons[s.table], s.column)
  /\ \A i \in DOMAIN f.indexes : ~(f.indexes[i].table = s.table /\ f.indexes[i].column = s.column)

AboutConstraints(s) ==
  \/ \E t, n : IsHeld(t, n) /\ s = DropConstraint(t, n)
  \/ \E t, con : IsHeld(t, con.name) /\ s = AddConstraint(t, con)
  \/ \E t, x : s = DropUnique(<<t, x>>)
  \/ \E t, x : s = AddUnique(<<t, x>>)

MakesATable(s) ==
  \/ \E t, vt : MadeTable(t, vt) /\ s = VertexTableDDL(t, vt)
  \/ \E t, et : s = EdgeTableDDL(t, et)

Handled(f, s) ==
  \/ OfGraph(s)
  \/ s.op \in {"drop_table", "add_column", "set_default", "create_index", "drop_index"}
  \/ AboutConstraints(s)
  \/ MakesATable(s)
  \/ s.op = "drop_column" /\ NothingOver(f, s)

LEMMA HandledTwins ==
  ASSUME NEW f, NEW c, NEW s, NEW d, Mirrors(f, c), Twins(f, c), FolderSpares(d, f), CatalogSpares(c),
         OfOurs(s) \/ OfGraph(s), Accepts(c, s), Apply(f, s).ok, Handled(f, s)
  PROVE  Twins(Apply(f, s), Effect(c, s))
<1>0. DOMAIN f.cols \subseteq DOMAIN c.tables
  BY DEF Mirrors
<1>1. CASE OfGraph(s)
  <2>1. s.op \in {"create_graph", "drop_graph"}
    BY <1>1 DEF OfGraph, CreateGraph, DropGraph
  <2> QED BY <2>1, AsideTwins
<1>2. CASE OfOurs(s)
  <2>1. Paired(f, c, s, d)
    BY <1>2 DEF Paired, OfOurs
  <2>2. CASE s.op = "drop_table"
    BY <1>0, <2>2, DropTableTwins
  <2>3. CASE s.op = "add_column"
    BY <2>1, <2>3, AddColumnTwins
  <2>4. CASE s.op = "set_default"
    BY <2>1, <2>4, SetDefaultTwins
  <2>5. CASE s.op \in {"create_index", "drop_index"}
    BY <2>5, AsideTwins
  <2>6. CASE AboutConstraints(s)
    <3>1. ASSUME NEW t, NEW n, IsHeld(t, n), s = DropConstraint(t, n) PROVE Twins(Apply(f, s), Effect(c, s))
      BY <2>1, <3>1, DropHeldTwins
    <3>2. ASSUME NEW t, NEW con, IsHeld(t, con.name), s = AddConstraint(t, con) PROVE Twins(Apply(f, s), Effect(c, s))
      BY <2>1, <3>2, AddHeldTwins
    <3>3. ASSUME NEW t, NEW x, s = DropUnique(<<t, x>>) PROVE Twins(Apply(f, s), Effect(c, s))
      BY <2>1, <3>3, DropUniqueTwins
    <3>4. ASSUME NEW t, NEW x, s = AddUnique(<<t, x>>) PROVE Twins(Apply(f, s), Effect(c, s))
      BY <2>1, <3>4, AddUniqueTwins
    <3> QED BY <2>6, <3>1, <3>2, <3>3, <3>4, Zenon DEF AboutConstraints
  <2>7. CASE MakesATable(s)
    <3>1. ASSUME NEW t, NEW vt, MadeTable(t, vt), s = VertexTableDDL(t, vt) PROVE Twins(Apply(f, s), Effect(c, s))
      BY <1>0, <3>1, VertexTableTwins
    <3>2. ASSUME NEW t, NEW et, s = EdgeTableDDL(t, et) PROVE Twins(Apply(f, s), Effect(c, s))
      BY <1>0, <3>2, EdgeTableTwins
    <3> QED BY <2>7, <3>1, <3>2, Zenon DEF MakesATable
  <2>8. CASE s.op = "drop_column" /\ NothingOver(f, s)
    BY <2>1, <2>8, DropColumnTwins DEF NothingOver
  <2> QED BY <1>1, <2>2, <2>3, <2>4, <2>5, <2>6, <2>7, <2>8 DEF Handled
<1> QED BY <1>1, <1>2

\* A section read from f on, every statement of which can be handled.
Carried(f, section) ==
  \A folded : FoldsOf(folded, f, section) =>
    \A i \in 1..Len(section) : folded[i-1].ok => Handled(folded[i-1], section[i])

LEMMA AppliedTwins ==
  ASSUME NEW f, NEW c, NEW s, NEW d, f.ok => Mirrors(f, c) /\ Twins(f, c), FolderSpares(d, f), CatalogSpares(c),
         OfOurs(s) \/ OfGraph(s), Accepts(c, s), Applied(f, s).ok, f.ok => Handled(f, s)
  PROVE  Mirrors(Applied(f, s), Effect(c, s)) /\ Twins(Applied(f, s), Effect(c, s))
<1>1. f.ok
  BY DEF Applied
<1>2. Applied(f, s) = Apply(f, s)
  BY <1>1 DEF Applied
<1>3. Mirrors(Apply(f, s), Effect(c, s))
  BY <1>1, <1>2, StatementMirrors
<1>4. Twins(Apply(f, s), Effect(c, s))
  BY <1>1, <1>2, HandledTwins
<1> QED BY <1>2, <1>3, <1>4

LEMMA SectionTwins ==
  ASSUME NEW d, NEW f, NEW c, NEW section, FolderSpares(d, f), CatalogSpares(c),
         f.ok => Mirrors(f, c) /\ Twins(f, c),
         Spares(section), \A i \in DOMAIN section : Mapped(d, section[i]), Carried(f, section)
  PROVE  FoldSection(f, section).ok /\ Run(c, section).ok
           => Twins(FoldSection(f, section), Run(c, section).cat)
<1>1. Len(section) \in Nat /\ DOMAIN section = 1..Len(section)
  BY DEF Spares, List
<1>s2. PICK folded : FoldsOf(folded, f, section)
  BY <1>1, FoldHasSteps
<1>2. /\ folded[0] = f
      /\ \A i \in 1..Len(section) : folded[i] = Applied(folded[i-1], section[i])
      /\ FoldSection(f, section) = folded[Len(section)]
  BY <1>s2 DEF FoldsOf
<1>c. \A i \in 1..Len(section) : folded[i-1].ok => Handled(folded[i-1], section[i])
  BY <1>s2 DEF Carried
<1>3. PICK run : StepsOf(run, c, section)
  BY <1>1, RunHasSteps
<1> DEFINE n == Len(section)
           Same(i) == Mirrors(folded[i], run[i].cat) /\ Twins(folded[i], run[i].cat)
           Agree(i) == /\ FolderSpares(d, folded[i]) /\ CatalogSpares(run[i].cat)
                       /\ folded[i].ok /\ run[i].ok => Same(i)
           S == {i \in 0..n : Agree(i)}
<1>4. /\ n \in Nat /\ DOMAIN section = 1..n /\ 0 \in 0..n /\ n \in 0..n
      /\ folded[0] = f /\ run[0] = [ok |-> TRUE, cat |-> c]
      /\ \A i \in 1..n : /\ folded[i] = Applied(folded[i-1], section[i])
                         /\ run[i] = After(c, run[i-1], section[i])
                         /\ folded[i-1].ok => Handled(folded[i-1], section[i])
      /\ FoldSection(f, section) = folded[n] /\ Run(c, section) = run[n]
  BY <1>1, <1>2, <1>3, <1>c DEF StepsOf
<1> HIDE DEF n
<1>5. 0 \in S
  <2>1. run[0].cat = c
    BY <1>4
  <2> QED BY <1>4, <2>1
<1>6. ASSUME NEW i \in 1..n, i-1 \in S PROVE i \in S
  <2>1. i \in 0..n /\ i \in DOMAIN section
    BY <1>4
  <2> DEFINE s == section[i]
  <2>2. Agree(i-1)
    BY <1>6
  <2>3. /\ folded[i] = Applied(folded[i-1], s) /\ run[i] = After(c, run[i-1], s)
        /\ folded[i-1].ok => Handled(folded[i-1], s)
    BY <1>4
  <2>4. (OfOurs(s) \/ OfGraph(s)) /\ Mapped(d, s)
    BY <2>1 DEF Spares
  <2> HIDE DEF s
  <2>5. FolderSpares(d, folded[i])
    BY <2>2, <2>3, <2>4, AppliedSpares
  <2>6. CASE run[i-1].ok /\ Accepts(run[i-1].cat, s)
    <3>1. run[i].cat = Effect(run[i-1].cat, s) /\ run[i].ok
      BY <2>3, <2>6 DEF After
    <3>2. CatalogSpares(run[i].cat)
      BY <2>2, <2>4, <3>1, EffectSpares
    <3>3. folded[i].ok => Same(i)
      BY <2>2, <2>3, <2>4, <2>6, <3>1, AppliedTwins
    <3> QED BY <2>1, <2>5, <3>2, <3>3
  <2>7. CASE ~(run[i-1].ok /\ Accepts(run[i-1].cat, s))
    <3>1. run[i].cat = c /\ ~run[i].ok
      BY <2>3, <2>7 DEF After
    <3> QED BY <2>1, <2>5, <3>1
  <2> QED BY <2>6, <2>7
<1> HIDE DEF S
<1>7. n \in S
  BY <1>4, <1>5, <1>6, UpToInduction
<1> QED BY <1>4, <1>7 DEF S
------------------------------------------------------------------------------
(* The sections of a plain history can be carried out so: the differ drops   *)
(* the constraints and the indexes of a table before its columns, and what   *)
(* it leaves is over columns that stay.                                     *)

\* A statement of the first list stands where it stood, and before the second.
LEMMA FirstComesFirst ==
  ASSUME NEW p, NEW q, List(p), List(q)
  PROVE  /\ List(p \o q) /\ Len(p) \in Nat /\ Len(p \o q) \in Nat /\ Len(p) <= Len(p \o q)
         /\ \A i \in 1..Len(p) : (p \o q)[i] = p[i]
         /\ \A i \in 1..Len(p \o q) : i \notin 1..Len(p) => (p \o q)[i] \in Range(q)
<1> DEFINE U == Range(p) \union Range(q)
<1>1. p \in Seq(U) /\ q \in Seq(U)
  BY DEF List
<1> HIDE DEF U
<1>2. /\ Len(p) \in Nat /\ Len(q) \in Nat /\ DOMAIN q = 1..Len(q)
      /\ p \o q \in Seq(U) /\ Len(p \o q) = Len(p) + Len(q)
      /\ \A i \in 1..Len(p) : (p \o q)[i] = p[i]
      /\ \A i \in 1..(Len(p) + Len(q)) : i > Len(p) => (p \o q)[i] = q[i - Len(p)]
  BY <1>1
<1>3. ASSUME NEW i \in 1..Len(p \o q), i \notin 1..Len(p) PROVE (p \o q)[i] \in Range(q)
  <2>1. i \in 1..(Len(p) + Len(q)) /\ i > Len(p) /\ i - Len(p) \in DOMAIN q
    BY <1>2, <1>3
  <2>2. (p \o q)[i] = q[i - Len(p)]
    BY <1>2, <2>1
  <2> QED BY <2>1, <2>2 DEF Range
<1>4. List(p \o q)
  <2>1. GoesThrough(p, Range(p)) /\ GoesThrough(q, Range(q))
    BY DEF GoesThrough
  <2> QED BY <2>1, JoinedGoThrough DEF GoesThrough
<1> QED BY <1>2, <1>3, <1>4

\* Before the statement at k stand all of T.
AllBefore(q, k, T) == \A s \in T : \E i \in 1..(k-1) : q[i] = s

\* A list that goes on after p still has at every later place all of p before it.
LEMMA AllOfItBefore ==
  ASSUME NEW p, NEW q, List(p), List(q), NEW k \in 1..Len(p \o q), k \notin 1..Len(p)
  PROVE  AllBefore(p \o q, k, Range(p))
<1>1. /\ Len(p) \in Nat /\ Len(p \o q) \in Nat /\ Len(p) <= Len(p \o q) /\ \A i \in 1..Len(p) : (p \o q)[i] = p[i]
  BY FirstComesFirst
<1>2. DOMAIN p = 1..Len(p) /\ \A i \in 1..Len(p) : i \in 1..(k-1)
  BY <1>1 DEF List
<1>3. ASSUME NEW s \in Range(p) PROVE \E i \in 1..(k-1) : (p \o q)[i] = s
  <2>1. PICK i \in 1..Len(p) : p[i] = s
    BY <1>2 DEF Range
  <2> QED BY <1>1, <1>2, <2>1
<1> QED BY <1>3 DEF AllBefore

DropsAColumn(s) == s.op = "drop_column"

Constrains(delta, from) ==
  {DropConstraint(k.table, k.con.name) : k \in delta.droppedConstraints}
  \union {DropIndex(i, from.indexes[i]) : i \in delta.droppedIndexes}
  \union {DropUnique(u) : u \in delta.droppedUniques}

\* When a column is dropped, all the constraints and indexes that go are gone.
LEMMA ColumnsComeLater ==
  ASSUME NEW d, PlainDelta(d), NEW from, NEW rest, List(rest),
         NEW k \in 1..Len(DropHalf(d, from) \o rest), k \in 1..Len(DropHalf(d, from)),
         DropsAColumn((DropHalf(d, from) \o rest)[k])
  PROVE  AllBefore(DropHalf(d, from) \o rest, k, Constrains(d, from))
<1> DEFINE T1 == {RenameTable(r.from, r.to) : r \in d.renames.tables}
           T2 == {RenameColumn(r.table, r.from, r.to) : r \in d.renames.columns}
           T3 == {DropConstraint(j.table, j.con.name) : j \in d.droppedConstraints}
           T4 == {DropIndex(i, from.indexes[i]) : i \in d.droppedIndexes}
           T5 == {DropUnique(u) : u \in d.droppedUniques}
           T6 == {DropColumn(u[1], u[2]) : u \in d.droppedColumns}
           D7 == Drops(d.dropped.edges)
           D8 == Drops(d.dropped.vertices)
           h == DropHalf(d, from)
<1>0. h = ((((((Listed(T1) \o Listed(T2)) \o Listed(T3)) \o Listed(T4)) \o Listed(T5))
                             \o Listed(T6)) \o D7) \o D8
  BY DEF DropHalf, Each
<1>1. IsFiniteSet(T1) /\ IsFiniteSet(T2) /\ T1 = {} /\ T2 = {}
  BY FS_EmptySet DEF PlainDelta
<1>2. IsFiniteSet(T3)
  <2> DEFINE g == [j \in d.droppedConstraints |-> DropConstraint(j.table, j.con.name)]
  <2>1. IsFiniteSet(DOMAIN g) /\ T3 = {g[x] : x \in DOMAIN g}
    BY DEF PlainDelta
  <2> HIDE DEF g, T3
  <2> QED BY <2>1, ImagesAreFinite
<1>3. IsFiniteSet(T4)
  <2> DEFINE g == [i \in d.droppedIndexes |-> DropIndex(i, from.indexes[i])]
  <2>1. IsFiniteSet(DOMAIN g) /\ T4 = {g[x] : x \in DOMAIN g}
    BY DEF PlainDelta
  <2> HIDE DEF g, T4
  <2> QED BY <2>1, ImagesAreFinite
<1>4. IsFiniteSet(T5)
  <2> DEFINE g == [u \in d.droppedUniques |-> DropUnique(u)]
  <2>1. IsFiniteSet(DOMAIN g) /\ T5 = {g[x] : x \in DOMAIN g}
    BY DEF PlainDelta
  <2> HIDE DEF g, T5
  <2> QED BY <2>1, ImagesAreFinite
<1>5. Constrains(d, from) = T3 \union T4 \union T5
  BY DEF Constrains
<1>6. \A s \in T3 \union T4 \union T5 : ~DropsAColumn(s)
  BY DEF DropsAColumn, DropConstraint, DropIndex, DropUnique
<1>7. List(D7) /\ List(D8) /\ List(Listed(T6))
  BY DropsGoThrough, ListedIsAList DEF PlainDelta, GoesThrough
<1> HIDE DEF T1, T2, T3, T4, T5, T6, D7, D8
<1> DEFINE q2 == Listed(T1) \o Listed(T2)
           q3 == q2 \o Listed(T3)
           q4 == q3 \o Listed(T4)
           a == q4 \o Listed(T5)
<1>8. GoesThrough(Listed(T1), T1) /\ GoesThrough(Listed(T2), T2) /\ GoesThrough(Listed(T3), T3)
      /\ GoesThrough(Listed(T4), T4) /\ GoesThrough(Listed(T5), T5)
  BY <1>1, <1>2, <1>3, <1>4, ListedHoldsTheSet
<1>9. GoesThrough(q2, T1 \union T2)
  BY <1>8, JoinedGoThrough
<1> HIDE DEF q2
<1>10. GoesThrough(q3, (T1 \union T2) \union T3)
  BY <1>8, <1>9, JoinedGoThrough
<1> HIDE DEF q3
<1>11. GoesThrough(q4, ((T1 \union T2) \union T3) \union T4)
  BY <1>8, <1>10, JoinedGoThrough
<1> HIDE DEF q4
<1>12. GoesThrough(a, (((T1 \union T2) \union T3) \union T4) \union T5)
  BY <1>8, <1>11, JoinedGoThrough
<1>13. h = ((a \o Listed(T6)) \o D7) \o D8
  BY <1>0 DEF a, q2, q3, q4
<1> HIDE DEF a, h
<1>14. List(a) /\ Range(a) = Constrains(d, from)
  <2>1. (((T1 \union T2) \union T3) \union T4) \union T5 = T3 \union T4 \union T5
    BY <1>1
  <2> QED BY <1>5, <1>12, <2>1 DEF GoesThrough
<1> DEFINE b == a \o Listed(T6)
           c == b \o D7
<1>15. List(b) /\ Len(a) \in Nat /\ Len(b) \in Nat /\ Len(a) <= Len(b) /\ \A i \in 1..Len(a) : b[i] = a[i]
  BY <1>7, <1>14, FirstComesFirst
<1> HIDE DEF b
<1>16. List(c) /\ Len(c) \in Nat /\ Len(b) <= Len(c) /\ \A i \in 1..Len(b) : c[i] = b[i]
  BY <1>7, <1>15, FirstComesFirst
<1> HIDE DEF c
<1>17. List(h) /\ Len(h) \in Nat /\ Len(c) <= Len(h) /\ \A i \in 1..Len(c) : h[i] = c[i]
  <2>1. h = c \o D8
    BY <1>13 DEF b, c
  <2> QED BY <1>7, <1>16, <2>1, FirstComesFirst
<1> DEFINE all == h \o rest
<1>18. Len(all) \in Nat /\ Len(h) <= Len(all) /\ \A i \in 1..Len(h) : all[i] = h[i]
  BY <1>17, FirstComesFirst
<1>19. k \in 1..Len(h) /\ DropsAColumn(all[k])
  BY DEF h
<1> HIDE DEF all
<1>20. \A i \in 1..Len(a) : all[i] = a[i]
  <2> TAKE i \in 1..Len(a)
  <2>1. i \in 1..Len(b) /\ i \in 1..Len(c) /\ i \in 1..Len(h)
    BY <1>15, <1>16, <1>17
  <2> QED BY <1>15, <1>16, <1>17, <1>18, <2>1
<1>21. DOMAIN a = 1..Len(a)
  BY <1>14 DEF List
<1>22. k \notin 1..Len(a)
  <2> SUFFICES ASSUME k \in 1..Len(a) PROVE FALSE
    OBVIOUS
  <2>1. all[k] = a[k] /\ a[k] \in Range(a)
    BY <1>20, <1>21 DEF Range
  <2> QED BY <1>5, <1>6, <1>14, <1>19, <2>1
<1>23. \A i \in 1..Len(a) : i \in 1..(k-1)
  BY <1>15, <1>17, <1>19, <1>22
<1>24. ASSUME NEW s \in Constrains(d, from) PROVE \E i \in 1..(k-1) : all[i] = s
  <2>1. PICK i \in 1..Len(a) : a[i] = s
    BY <1>14, <1>21 DEF Range
  <2> QED BY <1>20, <1>23, <2>1
<1> QED BY <1>24 DEF AllBefore, all, h

\* Where the reader is after the first n drops of a section.
SoFar(folded, f, q, n) == \A k \in 0..n : folded[k] = AfterDrops(f, {q[i] : i \in 1..k})

LEMMA DropsSoFar ==
  ASSUME NEW f, ReadableFolder(f), NEW q, NEW n \in Nat, n <= Len(q), Len(q) \in Nat,
         NEW S, DropFrom(f, S), \A i \in 1..n : q[i] \in S, NEW folded, FoldsOf(folded, f, q)
  PROVE  SoFar(folded, f, q, n)
<1> DEFINE Met(k) == {q[i] : i \in 1..k}
           T == {k \in 0..n : folded[k] = AfterDrops(f, Met(k))}
<1>2. folded[0] = f /\ \A i \in 1..n : folded[i] = Applied(folded[i-1], q[i])
  BY DEF FoldsOf
<1>4. 0 \in T
  <2>1. Met(0) = {} /\ 0 \in 0..n
    OBVIOUS
  <2> QED BY <1>2, <2>1, NothingDropped
<1>5. ASSUME NEW k \in 1..n, k-1 \in T PROVE k \in T
  <2>1. /\ folded[k-1] = AfterDrops(f, Met(k-1)) /\ k \in 0..n
        /\ folded[k] = Applied(folded[k-1], q[k]) /\ q[k] \in S
    BY <1>2, <1>5
  <2>2. Met(k-1) \subseteq S /\ Met(k) = Met(k-1) \union {q[k]}
    <3>1. 1..k = (1..(k-1)) \union {k} /\ 1..(k-1) \subseteq 1..n
      OBVIOUS
    <3> QED BY <3>1
  <2> HIDE DEF Met
  <2>3. Applied(AfterDrops(f, Met(k-1)), q[k]) = AfterDrops(f, Met(k-1) \union {q[k]})
    BY <2>1, <2>2, OneDropped
  <2> QED BY <2>1, <2>2, <2>3
<1>6. \A i \in 0..n : i \in T
  <2> HIDE DEF T
  <2> QED BY <1>4, <1>5, UpToInduction
<1> QED BY <1>6 DEF SoFar
\* A wanted schema whose constraints and indexes are on columns of it.
SoundTables(w) ==
  /\ \A t \in DOMAIN w.vertices : \A con \in TableConstraints(t, w.vertices[t]) :
       Over(con) \subseteq DOMAIN w.vertices[t].cols
  /\ \A i \in DOMAIN w.indexes : w.indexes[i].table \in DOMAIN w.vertices =>
       w.indexes[i].column \in DOMAIN w.vertices[w.indexes[i].table].cols

LEMMA ColumnIsFree ==
  ASSUME NEW f, NEW from, NEW w, Comparable(f, from, w), SoundTables(w),
         NEW d, DifferenceIs(d, f, from, w),
         NEW P, P \subseteq DropStmts(d, from), Constrains(d, from) \subseteq P,
         NEW s \in DropStmts(d, from), DropsAColumn(s)
  PROVE  NothingOver(AfterDrops(f, P), s)
<1> DEFINE S == DropStmts(d, from)
           g == AfterDrops(f, P)
<1>1. DropsAre(S, f, from, w) /\ DropFrom(f, S)
  BY WhatIsDropped, DropsWhatThereIs
<1>2. \A x \in S : x \in Constrains(d, from) \/ x.op \in {"drop_column", "drop_table"}
  BY DEF DropStmts, Constrains, DropColumn, DropTable
<1>3. /\ \A t, n : DropConstraint(t, n) \in S => DropConstraint(t, n) \in P
      /\ \A i, x : DropIndex(i, x) \in S => DropIndex(i, x) \in P
  BY <1>2 DEF DropConstraint, DropIndex
<1> HIDE DEF S
<1>4. PICK t \in DOMAIN f.cols : \E c \in DOMAIN f.cols[t] : s = DropColumn(t, c)
  <2>1. /\ \A t : ~DropsAColumn(DropTable(t)) /\ \A i, x : ~DropsAColumn(DropIndex(i, x))
        /\ \A u : ~DropsAColumn(DropUnique(u)) /\ \A t, n : ~DropsAColumn(DropConstraint(t, n))
    BY DEF DropsAColumn, DropTable, DropIndex, DropUnique, DropConstraint
  <2>2. s \in S
    BY DEF S
  <2>3. \/ \E t \in DOMAIN f.cols : s = DropTable(t)
        \/ \E i \in DOMAIN f.indexes : s = DropIndex(i, f.indexes[i])
        \/ \E t \in DOMAIN f.cols :
             \/ \E c \in DOMAIN f.cols[t] : s = DropColumn(t, c)
             \/ \E c \in DOMAIN f.cols[t] : s = DropUnique(<<t, c>>)
             \/ \E n \in DOMAIN f.cons[t] : s = DropConstraint(t, n)
    BY <1>1, <2>2 DEF DropFrom
  <2>4. DropsAColumn(s)
    OBVIOUS
  <2>5. ~(\E t : s = DropTable(t)) /\ ~(\E i, x : s = DropIndex(i, x)) /\ ~(\E u : s = DropUnique(u))
        /\ ~(\E t, n : s = DropConstraint(t, n))
    BY ONLY <2>1, <2>4
  <2> QED BY ONLY <2>3, <2>5
<1>5. PICK c \in DOMAIN f.cols[t] : s = DropColumn(t, c)
  BY <1>4
<1>6. t \in Both(from, w) /\ c \notin DOMAIN w.vertices[t].cols /\ s.table = t /\ s.column = c
  <2>1. DropColumn(t, c) \in S
    BY <1>5 DEF S
  <2>2. s.table = t /\ s.column = c
    BY <1>5 DEF DropColumn
  <2> QED BY <1>1, <2>1, <2>2 DEF DropsAre
<1>7. t \in DOMAIN w.vertices /\ t \notin Gone(from, w)
  BY <1>6 DEF Both, Gone, Comparable, Reflects, WantedSchema
<1>8. DropTable(t) \notin S /\ t \in Spared(f, P)
  <2>1. DropTable(t) \notin S
    BY <1>1, <1>7 DEF DropsAre
  <2> QED BY <2>1 DEF Spared, S
<1>9. g.cons[t] = HeldAfterDrops(t, f.cons[t], P) /\ g.indexes = IndexesAfterDrops(f.indexes, P)
  BY <1>8 DEF AfterDrops
<1>10. ASSUME NEW n \in DOMAIN g.cons[t] PROVE c \notin Over(g.cons[t][n])
  <2>1. n \in DOMAIN f.cons[t] /\ DropConstraint(t, n) \notin P /\ g.cons[t][n] = f.cons[t][n]
    BY <1>9, <1>10 DEF HeldAfterDrops
  <2>2. DropConstraint(t, n) \notin S
    BY <1>3, <2>1
  <2>3. IsHeld(t, n)
    BY <2>1 DEF Comparable, ReadableFolder
  <2>4. f.cons[t][n].name = n /\ f.cons[t][n] \in Range(f.cons[t])
    BY <2>1, RangeIsHeld
  <2>5. f.cons[t][n] \in TableConstraints(t, w.vertices[t])
    BY <1>1, <1>6, <2>2, <2>3, <2>4 DEF DropsAre
  <2>6. Over(f.cons[t][n]) \subseteq DOMAIN w.vertices[t].cols
    BY <1>7, <2>5 DEF SoundTables
  <2> QED BY <1>6, <2>1, <2>6
<1>11. ASSUME NEW i \in DOMAIN g.indexes, g.indexes[i].table = t PROVE g.indexes[i].column # c
  <2>1. i \in DOMAIN f.indexes /\ DropIndex(i, f.indexes[i]) \notin P /\ g.indexes[i] = f.indexes[i]
    BY <1>9, <1>11 DEF IndexesAfterDrops
  <2>2. DropIndex(i, f.indexes[i]) \notin S
    BY <1>3, <2>1
  <2>3. f.indexes[i].table \notin Gone(from, w)
    BY <1>7, <1>11, <2>1
  <2>4. SameIndex(f, w, i)
    BY <1>1, <2>1, <2>2, <2>3 DEF DropsAre
  <2>5. i \in DOMAIN w.indexes /\ w.indexes[i] = g.indexes[i]
    BY <2>1, <2>4 DEF SameIndex
  <2> QED BY <1>6, <1>7, <1>11, <2>5 DEF SoundTables
<1> HIDE DEF g
<1>12. NothingOver(g, s)
  BY <1>6, <1>10, <1>11 DEF NothingOver, Clear
<1> QED BY <1>12 DEF g

LEMMA OtherDropsAreHandled ==
  ASSUME NEW f, ReadableFolder(f), NEW S, DropFrom(f, S), NEW s \in S, ~DropsAColumn(s), NEW h
  PROVE  Handled(h, s)
<1>1. CASE \E t \in DOMAIN f.cols : s = DropTable(t)
  BY <1>1 DEF Handled, DropTable
<1>2. CASE \E i \in DOMAIN f.indexes : s = DropIndex(i, f.indexes[i])
  BY <1>2 DEF Handled, DropIndex
<1>3. ASSUME NEW t \in DOMAIN f.cols, NEW c, s = DropUnique(<<t, c>>) PROVE Handled(h, s)
  BY <1>3 DEF Handled, AboutConstraints
<1>4. ASSUME NEW t \in DOMAIN f.cols, NEW n \in DOMAIN f.cons[t], s = DropConstraint(t, n) PROVE Handled(h, s)
  <2>1. IsHeld(t, n)
    BY DEF ReadableFolder
  <2> QED BY <1>4, <2>1 DEF Handled, AboutConstraints
<1>5. \A t, c : s # DropColumn(t, c)
  BY DEF DropsAColumn, DropColumn
<1> QED BY <1>1, <1>2, <1>3, <1>4, <1>5 DEF DropFrom

LEMMA AddsAreHandled ==
  ASSUME NEW w, WantedSchema(w), NEW g, NEW S, AddTo(w, g, S), NEW s \in S, NEW h
  PROVE  Handled(h, s)
<1>1. ASSUME NEW v \in DOMAIN w.vertices, s = VertexTableDDL(v, w.vertices[v]) PROVE Handled(h, s)
  <2>1. MadeTable(v, w.vertices[v])
    BY DEF WantedSchema
  <2> QED BY <1>1, <2>1 DEF Handled, MakesATable
<1>2. ASSUME NEW e \in DOMAIN w.edges, s = EdgeTableDDL(e, w.edges[e]) PROVE Handled(h, s)
  BY <1>2 DEF Handled, MakesATable
<1>3. ASSUME NEW i \in DOMAIN w.indexes, s = IndexDDL(i, w.indexes[i]) PROVE Handled(h, s)
  BY <1>3 DEF Handled, IndexDDL
<1>4. ASSUME NEW t, NEW c, NEW col, s = AddColumn(t, c, col) PROVE Handled(h, s)
  BY <1>4 DEF Handled, AddColumn
<1>5. ASSUME NEW t, NEW c, NEW default, s = SetDefault(t, c, default) PROVE Handled(h, s)
  BY <1>5 DEF Handled, SetDefault
<1>6. ASSUME NEW t, NEW c, s = AddUnique(<<t, c>>) PROVE Handled(h, s)
  BY <1>6 DEF Handled, AboutConstraints
<1>7. ASSUME NEW t \in DOMAIN w.vertices, NEW k \in TableConstraints(t, w.vertices[t]), s = AddConstraint(t, k)
      PROVE  Handled(h, s)
  <2>1. MadeTable(t, w.vertices[t])
    BY DEF WantedSchema
  <2>2. IsHeld(t, k.name)
    BY <2>1, ConstraintsAreHeld
  <2> QED BY <1>7, <2>2 DEF Handled, AboutConstraints
<1>8. \/ \E v \in DOMAIN w.vertices : s = VertexTableDDL(v, w.vertices[v])
      \/ \E e \in DOMAIN w.edges : s = EdgeTableDDL(e, w.edges[e])
      \/ \E i \in DOMAIN w.indexes : s = IndexDDL(i, w.indexes[i])
      \/ \E t \in DOMAIN w.vertices :
           \/ \E c, col : s = AddColumn(t, c, col)
           \/ \E c, default : s = SetDefault(t, c, default)
           \/ \E c : s = AddUnique(<<t, c>>)
           \/ \E k \in TableConstraints(t, w.vertices[t]) : s = AddConstraint(t, k)
  <2>1. \/ \E v \in DOMAIN w.vertices \ DOMAIN g.cols : s = VertexTableDDL(v, w.vertices[v])
        \/ \E e \in DOMAIN w.edges \ DOMAIN g.cols : s = EdgeTableDDL(e, w.edges[e])
        \/ \E i \in DOMAIN w.indexes : s = IndexDDL(i, w.indexes[i])
        \/ \E t \in DOMAIN g.cols \intersect DOMAIN w.vertices :
             \/ \E c \in DOMAIN w.vertices[t].cols \ DOMAIN g.cols[t] : s = AddColumn(t, c, w.vertices[t].cols[c])
             \/ \E c \in DOMAIN g.cols[t] : s = SetDefault(t, c, w.vertices[t].cols[c].default)
             \/ \E c \in DOMAIN g.cols[t] : s = AddUnique(<<t, c>>)
             \/ \E k \in TableConstraints(t, w.vertices[t]) : s = AddConstraint(t, k)
    BY DEF AddTo
  <2> QED BY ONLY <2>1
<1>9. CASE \E t \in DOMAIN w.vertices :
             \/ \E c, col : s = AddColumn(t, c, col)
             \/ \E c, default : s = SetDefault(t, c, default)
             \/ \E c : s = AddUnique(<<t, c>>)
             \/ \E k \in TableConstraints(t, w.vertices[t]) : s = AddConstraint(t, k)
  <2>1. PICK t \in DOMAIN w.vertices :
             \/ \E c, col : s = AddColumn(t, c, col)
             \/ \E c, default : s = SetDefault(t, c, default)
             \/ \E c : s = AddUnique(<<t, c>>)
             \/ \E k \in TableConstraints(t, w.vertices[t]) : s = AddConstraint(t, k)
    BY <1>9
  <2> QED BY <1>4, <1>5, <1>6, <1>7, <2>1
<1> QED BY <1>1, <1>2, <1>3, <1>8, <1>9

\* What the differ writes of a sound schema over a directory it can compare with
\* it.  The drops come in the order diff.go:628 has them.
LEMMA UpCarried ==
  ASSUME NEW f, NEW from, NEW w, Comparable(f, from, w), SoundTables(w),
         NEW p, p.tables = {}, p.columns = {}
  PROVE  Carried(f, UpStructural(DiffSchemas(from, w, p, {}), from, w))
<1> DEFINE d == DiffSchemas(from, w, p, {})
           S == DropStmts(d, from)
           T == AddStmts(d, w)
           g == AfterDrops(f, S)
<1>1. DifferenceIs(d, f, from, w)
  BY TheDifference DEF Comparable
<1>2. d.renames.tables = {} /\ d.renames.columns = {}
  BY DEF DiffSchemas
<1> HIDE DEF d
<1>3. PlainDelta(d)
  BY <1>1, <1>2, PlainDifference
<1>4. DropFrom(f, S) /\ DropsAre(S, f, from, w)
  BY <1>1, DropsWhatThereIs, WhatIsDropped
<1>5. Left(g, f, from, w)
  BY <1>4, WhatIsLeft
<1>6. AddTo(w, g, T)
  <2> HIDE DEF g
  <2> QED BY <1>1, <1>5, AddsWhatIsWanted
<1> HIDE DEF g
<1>7. ReadableFolder(f) /\ WantedSchema(w) /\ IsFiniteSet(DOMAIN w.indexes)
  BY DEF Comparable
<1> DEFINE a == DropHalf(d, from)
           b == AddHalf(d, w)
           q == a \o b
<1>8. List(a) /\ Range(a) = S /\ List(b) /\ Range(b) = T
  BY <1>3, <1>7, DropHalfGoesThrough, AddHalfGoesThrough DEF GoesThrough
<1>9. UpStructural(d, from, w) = q
  BY <1>3, <1>7, UpInHalves
<1>10. \A k \in 1..Len(q) : k \in 1..Len(a) /\ DropsAColumn(q[k]) => AllBefore(q, k, Constrains(d, from))
  BY <1>3, <1>8, ColumnsComeLater
<1> HIDE DEF a, b, S, T
<1>11. /\ Len(a) \in Nat /\ Len(q) \in Nat /\ Len(a) <= Len(q) /\ \A i \in 1..Len(a) : q[i] = a[i] /\ q[i] \in S
       /\ \A i \in 1..Len(q) : i \notin 1..Len(a) => q[i] \in T
  <2>1. \A i \in 1..Len(a) : a[i] \in Range(a)
    BY <1>8 DEF List, Range
  <2> QED BY <1>8, <2>1, FirstComesFirst
<1> HIDE DEF q
<1>12. ASSUME NEW folded, FoldsOf(folded, f, q), NEW i \in 1..Len(q) PROVE Handled(folded[i-1], q[i])
  <2>1. CASE i \notin 1..Len(a)
    BY <1>6, <1>7, <1>11, <2>1, AddsAreHandled
  <2>2. CASE i \in 1..Len(a) /\ ~DropsAColumn(q[i])
    BY <1>4, <1>7, <1>11, <2>2, OtherDropsAreHandled
  <2>3. CASE i \in 1..Len(a) /\ DropsAColumn(q[i])
    <3> DEFINE P == {q[k] : k \in 1..(i-1)}
    <3>1. i-1 \in 0..Len(a) /\ \A k \in 1..Len(a) : q[k] \in S
      BY <1>11, <2>3
    <3>2. folded[i-1] = AfterDrops(f, P)
      <4>1. SoFar(folded, f, q, Len(a))
        BY <1>4, <1>7, <1>11, <1>12, <3>1, DropsSoFar
      <4> QED BY <3>1, <4>1 DEF SoFar
    <3>3. P \subseteq S
      <4>1. \A k \in 1..(i-1) : k \in 1..Len(a)
        BY <1>11, <2>3
      <4> QED BY <3>1, <4>1
    <3>4. Constrains(d, from) \subseteq P
      <4>1. AllBefore(q, i, Constrains(d, from))
        BY <1>10, <2>3
      <4> QED BY <4>1 DEF AllBefore
    <3> HIDE DEF P
    <3>5. q[i] \in S
      BY <1>11, <2>3
    <3>6. NothingOver(AfterDrops(f, P), q[i])
      BY <1>1, <2>3, <3>3, <3>4, <3>5, ColumnIsFree DEF S
    <3> QED BY <2>3, <3>2, <3>6 DEF Handled, DropsAColumn
  <2> QED BY <2>1, <2>2, <2>3
<1>13. Carried(f, q)
  BY <1>12 DEF Carried
<1> QED BY <1>9, <1>13 DEF d
------------------------------------------------------------------------------
(* The files of a generation, again.                                       *)

\* A file of the graph, and a section that can be carried out over the tables of
\* f, whatever graph there is by then.
GraphFile(file) == \E s : OfGraph(s) /\ file.up = <<s>>
CarriedOver(f, section) == \A h : ReadableFolder(h) /\ SameTables(f, h) => Carried(h, section)

\* Among the files still to write at most one is about tables, and it can be
\* carried out over the tables there are.
Ready(f, files) ==
  \A i \in DOMAIN files :
    \/ GraphFile(files[i])
    \/ CarriedOver(f, files[i].up) /\ \A j \in DOMAIN files : j # i => GraphFile(files[j])

LEMMA GraphFileCarried ==
  ASSUME NEW file, GraphFile(file), NEW f
  PROVE  Carried(f, file.up)
<1>1. PICK s : OfGraph(s) /\ file.up = <<s>>
  BY DEF GraphFile
<1>2. \A i \in 1..Len(file.up) : file.up[i] = s
  BY <1>1
<1> QED BY <1>1, <1>2 DEF Carried, Handled

LEMMA GraphFileKeepsTables ==
  ASSUME NEW file, GraphFile(file), NEW f, ReadableFolder(f)
  PROVE  SameTables(f, FoldSection(f, file.up))
<1>1. PICK s : OfGraph(s) /\ file.up = <<s>>
  BY DEF GraphFile
<1>2. CASE s = DropGraph
  BY <1>1, <1>2, GraphFolded
<1>3. ASSUME NEW g, s = CreateGraph(g) PROVE SameTables(f, FoldSection(f, file.up))
  BY <1>1, <1>3, GraphFolded
<1> QED BY <1>1, <1>2, <1>3 DEF OfGraph

\* A schema whose constraints and indexes are on columns it declares.
SoundSchema(d) == Sound({d})

LEMMA GenerationCarried ==
  ASSUME NEW schemas, Regular(schemas), NEW d0 \in schemas, NEW d \in schemas, Fits(d0, d), SoundSchema(d),
         NEW f, StandsFor(f, d0, schemas), f.graph \in {None, GraphDDL(d0)}
  PROVE  CarriedOver(f, DeltaTables(Build(f), d).up)
<1> DEFINE w == WithoutUnmanaged(d, d)
           delta == DeltaTables(Build(f), d)
<1>1. MadeSchema(d) /\ Fits(d, d)
  BY DEF Regular
<1>2. SoundTables(w)
  <2>1. /\ DOMAIN w.vertices = OwnedVertices(d) /\ \A t \in OwnedVertices(d) : w.vertices[t] = d.vertices[t]
        /\ w.indexes = d.indexes
    BY <1>1, WantedIsOwned
  <2> HIDE DEF w
  <2>2. /\ \A t \in OwnedVertices(d) : \A con \in TableConstraints(t, d.vertices[t]) :
             Over(con) \subseteq DOMAIN d.vertices[t].cols
        /\ \A i \in DOMAIN d.indexes : d.indexes[i].table \in OwnedVertices(d) =>
             d.indexes[i].column \in DOMAIN d.vertices[d.indexes[i].table].cols
    BY DEF SoundSchema, Sound
  <2> QED BY <2>1, <2>2 DEF SoundTables
<1>3. ASSUME NEW h, ReadableFolder(h), SameTables(f, h) PROVE Carried(h, delta.up)
  <2>1. Compares(delta, h, w)
    BY <1>3, GenerationCompares
  <2> HIDE DEF delta, w
  <2>2. PICK from, p : /\ Comparable(h, from, w) /\ p.tables = {} /\ p.columns = {}
                       /\ delta.up = UpStructural(DiffSchemas(from, w, p, {}), from, w)
    BY <2>1 DEF Compares
  <2> QED BY <1>2, <2>2, UpCarried
<1> QED BY <1>3 DEF CarriedOver

LEMMA PlanIsReady ==
  ASSUME NEW schemas, Regular(schemas), NEW d \in schemas, SoundSchema(d), NEW g \in BOOLEAN,
         NEW f, Stands(f, d, g, schemas)
  PROVE  Ready(f, Plan(Build(f), d, g))
<1> DEFINE delta == DeltaTables(Build(f), d)
           before == GraphDDL(Build(f))
           wanted == GraphDDL(d)
           graphChanged == g /\ before # wanted
           teardown == g /\ before # None /\ (delta.changed \/ graphChanged)
           build == g /\ wanted # None /\ (graphChanged \/ teardown)
           T == [up |-> <<DropGraph>>, down |-> <<CreateGraph(before)>>]
           U == [up |-> delta.up, down |-> delta.down]
           B == [up |-> <<CreateGraph(wanted)>>, down |-> <<DropGraph>>]
           first == IF teardown THEN <<T>> ELSE <<>>
           second == IF delta.changed THEN <<U>> ELSE <<>>
           third == IF build THEN <<B>> ELSE <<>>
<1>1. PICK d0 \in schemas : /\ StandsFor(f, d0, schemas) /\ UnownedEdges(d0) \subseteq UnownedEdges(d)
                            /\ f.graph \in {None, GraphDDL(d0)}
  BY DEF Stands
<1>2. Fits(d0, d)
  BY <1>1 DEF Regular
<1>3. CarriedOver(f, U.up)
  <2>1. U.up = delta.up
    OBVIOUS
  <2> QED BY <1>1, <1>2, <2>1, GenerationCarried
<1>4. GraphFile(T) /\ GraphFile(B)
  BY DEF GraphFile, OfGraph
<1>5. Plan(Build(f), d, g) = first \o second \o third
  BY DEF Plan
<1> HIDE DEF T, U, B, teardown, build, delta
<1> DEFINE files == first \o second \o third
<1>6. SUFFICES Ready(f, files)
  BY <1>5
<1>7. /\ Ready(f, <<>>) /\ Ready(f, <<B>>) /\ Ready(f, <<T>>) /\ Ready(f, <<T, B>>)
      /\ Ready(f, <<U>>) /\ Ready(f, <<U, B>>) /\ Ready(f, <<T, U>>) /\ Ready(f, <<T, U, B>>)
  BY <1>3, <1>4 DEF Ready
<1>8. CASE ~teardown /\ ~delta.changed /\ ~build
  <2>1. files = <<>>
    BY <1>8, FilesInARow
  <2> QED BY <1>6, <1>7, <2>1
<1>9. CASE ~teardown /\ ~delta.changed /\ build
  <2>1. files = <<B>>
    BY <1>9, FilesInARow
  <2> QED BY <1>6, <1>7, <2>1
<1>10. CASE ~teardown /\ delta.changed /\ ~build
  <2>1. files = <<U>>
    BY <1>10, FilesInARow
  <2> QED BY <1>6, <1>7, <2>1
<1>11. CASE ~teardown /\ delta.changed /\ build
  <2>1. files = <<U, B>>
    BY <1>11, FilesInARow
  <2> QED BY <1>6, <1>7, <2>1
<1>12. CASE teardown /\ ~delta.changed /\ ~build
  <2>1. files = <<T>>
    BY <1>12, FilesInARow
  <2> QED BY <1>6, <1>7, <2>1
<1>13. CASE teardown /\ ~delta.changed /\ build
  <2>1. files = <<T, B>>
    BY <1>13, FilesInARow
  <2> QED BY <1>6, <1>7, <2>1
<1>14. CASE teardown /\ delta.changed /\ ~build
  <2>1. files = <<T, U>>
    BY <1>14, FilesInARow
  <2> QED BY <1>6, <1>7, <2>1
<1>15. CASE teardown /\ delta.changed /\ build
  <2>1. files = <<T, U, B>>
    BY <1>15, FilesInARow
  <2> QED BY <1>6, <1>7, <2>1
<1> QED BY <1>8, <1>9, <1>10, <1>11, <1>12, <1>13, <1>14, <1>15

LEMMA ReadyOn ==
  ASSUME NEW f, ReadableFolder(f), NEW files, List(files), files # <<>>, Ready(f, files)
  PROVE  /\ Carried(f, Head(files).up)
         /\ Ready(FoldSection(f, Head(files).up), Tail(files))
<1> DEFINE file == Head(files)
           h == FoldSection(f, file.up)
           rest == Tail(files)
<1>1. /\ file = files[1] /\ 1 \in DOMAIN files
      /\ \A i \in DOMAIN rest : i+1 \in DOMAIN files /\ i+1 # 1 /\ rest[i] = files[i+1]
  BY DEF List
<1>2. \A i, j \in DOMAIN rest : j # i => j+1 # i+1
  BY DEF List
<1>3. SameTables(f, f)
  BY DEF SameTables
<1> HIDE DEF file, h, rest
<1>4. CASE GraphFile(file)
  <2>1. SameTables(f, h)
    BY <1>4, GraphFileKeepsTables DEF h
  <2>2. \A section : CarriedOver(f, section) => CarriedOver(h, section)
    BY <2>1 DEF CarriedOver, SameTables
  <2>3. Ready(h, rest)
    BY <1>1, <1>2, <2>2 DEF Ready
  <2> QED BY <1>4, <2>3, GraphFileCarried DEF file, h, rest
<1>5. CASE ~GraphFile(file)
  <2>1. CarriedOver(f, file.up) /\ \A j \in DOMAIN files : j # 1 => GraphFile(files[j])
    BY <1>1, <1>5 DEF Ready
  <2>2. Carried(f, file.up)
    BY <1>3, <2>1 DEF CarriedOver
  <2>3. Ready(h, rest)
    BY <1>1, <2>1 DEF Ready
  <2> QED BY <2>2, <2>3 DEF file, h, rest
<1> QED BY <1>4, <1>5
------------------------------------------------------------------------------
(* Histories of plain edits of sound schemas.                              *)

SoundHistory == Sound(Families[family].schemas)

TwinsInv ==
  /\ Ready(folder, plan)
  /\ folder.ok /\ ~refused => Twins(folder, catalog)

KeepsTwins == HistoryInv /\ KeepsMirror /\ (PlainHistory /\ SoundHistory => TwinsInv)

LEMMA NewFolderTwins == Twins(NewFolder, Database)
<1>1. /\ NewFolder.cols = <<>> /\ NewFolder.cons = <<>> /\ NewFolder.indexes = <<>> /\ NewFolder.ok = TRUE
      /\ NewFolder = [cols |-> NewFolder.cols, cons |-> NewFolder.cons, indexes |-> NewFolder.indexes,
                      graph |-> NewFolder.graph, ok |-> NewFolder.ok]
  BY DEF NewFolder
<1>2. DOMAIN <<>> = {} /\ <<>> = [i \in DOMAIN <<>> |-> <<>>[i]]
  OBVIOUS
<1>3. Database.indexes = <<>>
  BY DEF Database, EmptyCatalog
<1> QED BY <1>1, <1>2, <1>3 DEF Twins, IsFolder

LEMMA TwinsInit == Init => KeepsTwins
<1> SUFFICES ASSUME Init PROVE KeepsTwins
  OBVIOUS
<1>1. plan = <<>> /\ folder = NewFolder /\ catalog = Database
  BY DEF Init
<1>2. Ready(folder, plan)
  BY <1>1 DEF Ready
<1> QED BY <1>1, <1>2, NewFolderTwins, HistoryInit, MirrorInit DEF KeepsTwins, TwinsInv

LEMMA TwinsStep == KeepsTwins /\ [Next]_vars => KeepsTwins'
<1> SUFFICES ASSUME KeepsTwins, [Next]_vars, PlainHistory, SoundHistory PROVE TwinsInv'
  <2>1. ASSUME [Next]_vars PROVE family' = family
    BY <2>1, Zenon DEF Next, vars, Generate, WriteFile, Crash
  <2>2. ASSUME [Next]_vars PROVE PlainHistory' = PlainHistory /\ SoundHistory' = SoundHistory
    BY <2>1, <2>2 DEF PlainHistory, SoundHistory
  <2> QED BY <2>2, HistoryStep, MirrorStep DEF KeepsTwins
<1>0. TwinsInv /\ SettlingInv /\ Regular(Schemas(family)) /\ graph \in BOOLEAN /\ Families[family].keeps
  BY PlainIsRegular DEF KeepsTwins, HistoryInv, PlainHistory
<1>1. ASSUME NEW d \in Families[family].schemas, Generate(d) PROVE TwinsInv'
  <2>1. /\ plan' = Plan(Build(folder), d, graph) /\ folder' = folder /\ catalog' = catalog /\ refused' = refused
        /\ UnownedEdges(desired) \subseteq UnownedEdges(d)
    BY <1>0, <1>1 DEF Generate, Prior
  <2>2. d \in Schemas(family) /\ SoundSchema(d)
    BY DEF Schemas, SoundHistory, SoundSchema, Sound
  <2>3. Stands(folder, d, graph, Schemas(family))
    BY <1>0, <2>1 DEF SettlingInv, Stands
  <2>4. Ready(folder, Plan(Build(folder), d, graph))
    BY <1>0, <2>2, <2>3, PlanIsReady
  <2> QED BY <1>0, <2>1, <2>4 DEF TwinsInv
<1>2. ASSUME WriteFile PROVE TwinsInv'
  <2> DEFINE file == Head(plan)
  <2>1. /\ folder' = FoldSection(folder, file.up)
        /\ catalog' = Run(catalog, file.up).cat
        /\ refused' = ~Run(catalog, file.up).ok
        /\ plan' = (IF Run(catalog, file.up).ok THEN Tail(plan) ELSE <<>>)
        /\ plan # <<>>
    BY <1>2 DEF WriteFile
  <2>2. SparingInv /\ ~refused /\ (folder.ok => Mirrors(folder, catalog) /\ Twins(folder, catalog))
    BY <1>0, <2>1 DEF KeepsTwins, KeepsMirror, KeepingInv, MirrorInv, TwinsInv
  <2>3. file = plan[1] /\ 1 \in DOMAIN plan /\ List(plan)
    BY <2>1, <2>2 DEF SparingInv, List
  <2>4. SparingFile(desired, file)
    BY <2>2, <2>3 DEF SparingInv
  <2>5. ReadableFolder(folder)
    BY <1>0 DEF SettlingInv, Stands, StandsFor
  <2>6. Carried(folder, file.up) /\ Ready(FoldSection(folder, file.up), Tail(plan))
    BY <1>0, <2>1, <2>3, <2>5, ReadyOn DEF TwinsInv
  <2> HIDE DEF file
  <2>7. FoldSection(folder, file.up).ok /\ Run(catalog, file.up).ok
          => Twins(FoldSection(folder, file.up), Run(catalog, file.up).cat)
    BY <2>2, <2>4, <2>6, SectionTwins DEF SparingInv, SparingFile
  <2>8. folder'.ok /\ ~refused' => Twins(folder', catalog')
    BY <2>1, <2>7
  <2>9. Ready(folder', plan')
    BY <2>1, <2>6 DEF Ready
  <2> QED BY <2>8, <2>9 DEF TwinsInv
<1>3. ASSUME Crash PROVE TwinsInv'
  BY <1>0, <1>3 DEF TwinsInv, Crash, Ready
<1>4. ASSUME UNCHANGED vars PROVE TwinsInv'
  BY <1>0, <1>4 DEF TwinsInv, vars
<1> QED BY <1>1, <1>2, <1>3, <1>4 DEF Next

\* In a history of plain edits the folded directory has the database's indexes
\* and constraints too, under the names the database has them under, also
\* between two files of one generation.  This does depend on what the differ
\* writes: DROP COLUMN takes the constraints and indexes over the column with
\* it (fold.go:225 only drops the column), so the mirror holds because the
\* differ has dropped by name whatever is over a column that goes, before it
\* drops the column (diff.go:628), and because what it leaves is wanted, and
\* what is wanted is over columns that stay.
THEOREM FoldAlwaysMirrorsTheConstraints ==
  Spec => [](PlainHistory /\ SoundHistory => FoldMirrorsTheConstraints)
<1>1. Spec => []KeepsTwins
  BY TwinsInit, TwinsStep, PTL DEF Spec
<1>2. KeepsTwins => (PlainHistory /\ SoundHistory => FoldMirrorsTheConstraints)
  <2> SUFFICES ASSUME KeepsTwins, PlainHistory, SoundHistory, Readable, ~refused
               PROVE  FoldMirrorsTheConstraints
    BY DEF FoldMirrorsTheConstraints
  <2>1. Twins(folder, catalog)
    BY DEF KeepsTwins, TwinsInv, Readable
  <2>2. ASSUME NEW t \in DOMAIN folder.cols
        PROVE  DOMAIN catalog.tables[t].cons =
                 Uniques(t, folder.cols[t]) \union
                 {n \in DOMAIN folder.cons[t] : ClassifyConstraint(t, n) # "unknown"}
    <3>1. TableTwins(t, folder.cols[t], folder.cons[t], catalog.tables[t])
      BY <2>1 DEF Twins
    <3>2. \A n : IsHeld(t, n) => ClassifyConstraint(t, n) # "unknown"
      BY DEF IsHeld, ClassifyConstraint
    <3> QED BY <3>1, <3>2 DEF TableTwins
  <2> QED BY <2>1, <2>2 DEF Twins, Uniques, FoldMirrorsTheConstraints
<1> QED BY <1>1, <1>2, PTL
==============================================================================
