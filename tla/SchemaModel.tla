---------------------------- MODULE SchemaModel -----------------------------
(***************************************************************************)
(* The schema model every stage of gopgql shares, the statements the       *)
(* generator renders from it, and the naming rules that tie a constraint   *)
(* to the table and column it belongs to.                                  *)
(*                                                                         *)
(* A name is structured, [role, table, column, n], where the code has a    *)
(* string: what it means is read off the table part, as the code reads it  *)
(* off the prefix.  Column order, labels, NOT NULL and qualifiers are left *)
(* out: nothing below depends on them.                                     *)
(***************************************************************************)
EXTENDS Naturals, SequencesExt, TLC

CONSTANTS None, Alphabet      \* every table name, in alphabetical order

ASSUME AlphabetIsAList == Alphabet \in Seq(Range(Alphabet))

\* f without the keys in S, f with one more key, f with the key old turned into
\* new, and a list of columns with one renamed.
Without(f, S) == Restrict(f, DOMAIN f \ S)
With(f, k, v) == [x \in DOMAIN f \union {k} |-> IF x = k THEN v ELSE f[x]]
Rekeyed(f, old, new) ==
  [k \in (DOMAIN f \ {old}) \union {new} |-> IF k = new THEN f[old] ELSE f[k]]
Sub(x, old, new) == IF x = old THEN new ELSE x
Renamed(list, old, new) == [i \in DOMAIN list |-> Sub(list[i], old, new)]

\* Indexes when a table, or a column c of table t, has a new name.
Retabled(indexes, t, new) == [i \in DOMAIN indexes |-> [indexes[i] EXCEPT !.table = Sub(@, t, new)]]
Recolumned(indexes, t, c, new) ==
  [i \in DOMAIN indexes |-> IF indexes[i].table # t THEN indexes[i]
                            ELSE [indexes[i] EXCEPT !.column = Sub(@, c, new)]]

\* Tables in alphabetical order, and whatever else there is in some order; of
\* what a schema has there are finitely many.
InOrder(S) ==
  LET upTo[i \in 0..Len(Alphabet)] ==
        IF i = 0 THEN <<>>
        ELSE IF Alphabet[i] \in S THEN Append(upTo[i-1], Alphabet[i]) ELSE upTo[i-1]
  IN upTo[Len(Alphabet)]
Listed(S) == IF IsFiniteSet(S) THEN SetToSeq(S) ELSE <<>>
------------------------------------------------------------------------------
(* Constraint names. *)

UniqueConstraintName(t, c)      == [role |-> "unique", table |-> t, column |-> c, n |-> 0]
NaturalKeyConstraintName(t)     == [role |-> "natural_key", table |-> t, column |-> None, n |-> 0]
ColumnCheckConstraintName(t, c) == [role |-> "column_check", table |-> t, column |-> c, n |-> 0]
TableCheckConstraintName(t, n)  == [role |-> "table_check", table |-> t, column |-> None, n |-> n]

ClassifyConstraint(t, name) == IF name.table = t THEN name.role ELSE "unknown"
------------------------------------------------------------------------------
(* A schema: [named, vertices, edges, indexes].  A vertex table has columns,*)
(* a natural key [name, columns], table checks, the properties its graph    *)
(* element exposes, the names it may have had, and may belong to somebody   *)
(* else.  An edge table has its two key columns, each referencing an end.   *)

NoSchema == [named |-> FALSE, vertices |-> <<>>, edges |-> <<>>, indexes |-> <<>>]

Column(type) == [type |-> type, primary |-> FALSE, unique |-> FALSE, default |-> None,
                 check |-> None, ref |-> None, was |-> <<>>]

EdgeColumns(src, dst) == [source_id |-> [Column("uuid") EXCEPT !.ref = src],
                          target_id |-> [Column("uuid") EXCEPT !.ref = dst]]

\* The named constraints of a table: the natural key and every check.
TableConstraints(t, vt) ==
  (IF vt.key = None THEN {}
   ELSE {[name |-> vt.key.name, kind |-> "UNIQUE", columns |-> vt.key.columns, expr |-> None]})
  \union {[name |-> ColumnCheckConstraintName(t, c), kind |-> "CHECK", columns |-> <<>>,
           expr |-> vt.cols[c].check] : c \in {x \in DOMAIN vt.cols : vt.cols[x].check # None}}
  \union {[name |-> TableCheckConstraintName(t, i), kind |-> "CHECK", columns |-> <<>>,
           expr |-> vt.checks[i]] : i \in DOMAIN vt.checks}

\* What CREATE PROPERTY GRAPH says; None where a schema declares no graph.
GraphDDL(m) ==
  IF ~m.named \/ DOMAIN m.vertices = {} THEN None
  ELSE [vertices |-> [t \in DOMAIN m.vertices |->
                       [key   |-> IF m.vertices[t].key = None THEN <<>> ELSE m.vertices[t].key.columns,
                        props |-> m.vertices[t].props]],
        edges    |-> [e \in DOMAIN m.edges |-> [src |-> m.edges[e].src, dst |-> m.edges[e].dst]]]
------------------------------------------------------------------------------
(* Statements. *)

ColumnDDL(c) == [type |-> c.type, primary |-> c.primary, unique |-> c.unique /\ ~c.primary,
                 default |-> c.default, ref |-> c.ref]
ColumnsDDL(cols) == [c \in DOMAIN cols |-> ColumnDDL(cols[c])]

VertexTableDDL(t, vt) == [op |-> "create_table", table |-> t, cols |-> ColumnsDDL(vt.cols),
                          cons |-> TableConstraints(t, vt), key |-> {}]
EdgeTableDDL(e, et)   == [op |-> "create_table", table |-> e, cols |-> ColumnsDDL(et.cols),
                          cons |-> {}, key |-> {"source_id", "target_id"}]
IndexDDL(name, idx)   == [op |-> "create_index", index |-> name, table |-> idx.table, column |-> idx.column]

DropTable(t)          == [op |-> "drop_table", table |-> t]
DropIndex(name, idx)  == [op |-> "drop_index", index |-> name, table |-> idx.table]
AddColumn(t, c, col)  == [op |-> "add_column", table |-> t, column |-> c, def |-> ColumnDDL(col)]
DropColumn(t, c)      == [op |-> "drop_column", table |-> t, column |-> c]
AlterType(t, c, type) == [op |-> "alter_type", table |-> t, column |-> c, type |-> type]
SetDefault(t, c, d)   == [op |-> "set_default", table |-> t, column |-> c, default |-> d]
AddConstraint(t, con) == [op |-> "add_constraint", table |-> t, con |-> con]
DropConstraint(t, name) == [op |-> "drop_constraint", table |-> t, name |-> name]
RenameTable(t, new)   == [op |-> "rename_table", table |-> t, new |-> new]
RenameColumn(t, c, new) == [op |-> "rename_column", table |-> t, column |-> c, new |-> new]
CreateGraph(g)        == [op |-> "create_graph", graph |-> g]
DropGraph             == [op |-> "drop_graph"]

UniqueConstraint(t, c) == [name |-> UniqueConstraintName(t, c), kind |-> "UNIQUE",
                           columns |-> <<c>>, expr |-> None]
==============================================================================
