------------------------------ MODULE GraphTable -----------------------------
(***************************************************************************)
(* The statements of a compiled query, and the rows PostgreSQL answers     *)
(* them with.  The Go-side statement is the first fragment LEFT JOINed     *)
(* with the others, in key order; the SQL-side statement aggregates every  *)
(* level into a list, from the innermost one out.                          *)
(*                                                                         *)
(* A database is [elements, tables]: the elements of its graph, as         *)
(* CatalogOf has them, and table -> sequence of rows, a row a function     *)
(* from columns to values.  Keys are numbers, so that they have an order.  *)
(***************************************************************************)
EXTENDS GraphModel, QueryCompiler, Integers

TableOfElement(x) == [schema |-> x.schema, name |-> x.name]

\* A vertex or an edge a pattern binds is [element, row].
Rows(db, x) == {[element |-> x, row |-> i] : i \in DOMAIN db.tables[TableOfElement(x)]}
Cell(db, b, column) == db.tables[TableOfElement(b.element)][b.row][column]
Cells(db, b, columns) == [i \in DOMAIN columns |-> Cell(db, b, columns[i])]

Labelled(db, kind, labels) ==
  {x \in db.elements : x.kind = kind /\ DOMAIN x.labels \intersect labels # {}}

\* What a position can read: the properties its labels give the element.
Exposed(x, labels) == UNION {x.labels[l] : l \in DOMAIN x.labels \intersect labels}
Property(db, b, labels, p) == IF p \in Exposed(b.element, labels) THEN Cell(db, b, p) ELSE Null
------------------------------------------------------------------------------
(* The database takes a statement whose labels and properties all exist.   *)

Uses(l) == Range(l.identity) \union {l.fields[i].column : i \in DOMAIN l.fields}
           \union {l.preds[i].column : i \in DOMAIN l.preds}

Executes(db, root) ==
  \A l \in Range(Walk(root)) :
    /\ \A label \in l.labels : Labelled(db, "vertex", {label}) # {}
    /\ l.edge # None => Labelled(db, "edge", {l.edge.label}) # {}
    /\ \A p \in Uses(l) : \E x \in Labelled(db, "vertex", l.labels) : p \in Exposed(x, l.labels)
------------------------------------------------------------------------------
(* SQL's comparisons: NULL is equal to nothing, and not unequal either.    *)

SqlEqual(a, b) == a # Null /\ b # Null /\ a = b
KeysEqual(j, k) == \A i \in DOMAIN j : SqlEqual(j[i], k[i])

DistinctGuard(j, k) == IF Len(j) = 1 THEN j[1] # Null /\ k[1] # Null /\ j[1] # k[1]
                       ELSE \E i \in DOMAIN j : j[i] # k[i]

\* ASC, which puts NULLs last.
Before(a, b) == a # Null /\ (b = Null \/ a < b)
KeyBefore(j, k) == \E i \in DOMAIN j : /\ Before(j[i], k[i])
                                       /\ \A h \in 1..(i - 1) : j[h] = k[h]
------------------------------------------------------------------------------
(* One fragment.                                                           *)

\* The rows of an edge table that lead from one bound vertex to another.
Connects(db, e, dir, v, w) ==
  LET src == IF dir = "OUT" THEN v ELSE w
      dst == IF dir = "OUT" THEN w ELSE v
      ends == e.element.ends
  IN  /\ src.element.alias = ends.src /\ dst.element.alias = ends.dst
      /\ KeysEqual(Cells(db, e, ends.srcKey), Cells(db, src, ends.srcRef))
      /\ KeysEqual(Cells(db, e, ends.dstKey), Cells(db, dst, ends.dstRef))

KeyCells(db, b, l) == [i \in DOMAIN l.identity |-> Property(db, b, l.labels, l.identity[i])]

Matches(db, l, b) ==
  \A i \in DOMAIN l.preds :
    SqlEqual(Property(db, b, l.labels, l.preds[i].column), l.preds[i].value)

Bindable(db, l) ==
  {b \in UNION {Rows(db, x) : x \in Labelled(db, "vertex", l.labels)} : Matches(db, l, b)}

EdgeRows(db, rel) == UNION {Rows(db, x) : x \in Labelled(db, "edge", {rel.label})}

\* Every way of binding the pattern's vertices and edges, its predicates met.
Bindings(db, positions) ==
  FoldLeft(LAMBDA bs, l :
             {[vs |-> Append(t[1].vs, t[3]), es |-> Append(t[1].es, t[2])] :
                t \in {u \in bs \X EdgeRows(db, l.edge) \X Bindable(db, l) :
                         Connects(db, u[2], l.edge.dir, Last(u[1].vs), u[3])}},
           {[vs |-> <<b>>, es |-> <<>>] : b \in Bindable(db, positions[1])},
           Tail(positions))

\* Both sides name the identity columns of the earlier position.
Guarded(db, positions, b) ==
  \A g \in IsomorphismGuards(positions) :
    LET Of(i) == KeyCells(db, b.vs[i], [positions[i] EXCEPT !.identity = positions[g[1]].identity])
    IN  DistinctGuard(Of(g[1]), Of(g[2]))

\* What a level projects of the row it binds: its key and its fields.
ProjectedCells(db, l, b) ==
  [key    |-> KeyCells(db, b, l),
   fields |-> [i \in DOMAIN l.fields |-> Property(db, b, l.labels, l.fields[i].column)]]

\* One row for each binding: join, the key of the branch point; at, path -> what
\* the level there projects.
FragmentRows(db, root, head) ==
  LET positions == PatternPositions(root, head)
      own == {i \in DOMAIN positions : IsPrefix(head.path, positions[i].path)}
      bs == {b \in Bindings(db, positions) : Guarded(db, positions, b)}
      Row(b) == [join |-> KeyCells(db, b.vs[1], positions[1]),
                 at   |-> [p \in {positions[i].path : i \in own} |->
                             LET i == CHOOSE j \in own : positions[j].path = p
                             IN  ProjectedCells(db, positions[i], b.vs[i])]]
      rows == SetToSeq(bs)
  IN  [i \in DOMAIN rows |-> Row(rows[i])]
------------------------------------------------------------------------------
(* The joins.  A branch that matched nothing leaves NULLs.                 *)

Absent(l) == [key    |-> [i \in DOMAIN l.identity |-> Null],
              fields |-> [i \in DOMAIN l.fields |-> Null]]

NoMatch(head) ==
  LET own == {l \in Range(Walk(head)) : l.frag = head.frag}
  IN  [p \in {l.path : l \in own} |-> Absent(CHOOSE l \in own : l.path = p)]

\* branchJoinOn.
JoinsOn(root, head, row, branch) ==
  /\ KeysEqual(branch.join, row[Front(head.path)].key)
  /\ \A g \in OnGuards(root, head) : DistinctGuard(branch.at[g[2].path].key, row[g[1].path].key)

LeftJoin(root, head, rows, branches) ==
  FlattenSeq([i \in DOMAIN rows |->
    LET on == SelectSeq(branches, LAMBDA b : JoinsOn(root, head, rows[i], b))
    IN  IF on = <<>> THEN <<rows[i] @@ NoMatch(head)>>
        ELSE [j \in DOMAIN on |-> rows[i] @@ on[j].at]])

\* The fragments' rows, by the path of their head.
Fragments(db, root) ==
  [p \in {h.path : h \in Range(Heads(root))} |->
     FragmentRows(db, root, CHOOSE h \in Range(Heads(root)) : h.path = p)]

Joined(root, heads, fragments) ==
  FoldLeft(LAMBDA rows, h : LeftJoin(root, h, rows, fragments[h.path]),
           [i \in DOMAIN fragments[<<>>] |-> fragments[<<>>][i].at],
           Tail(heads))

\* The SELECT list: of every fragment in turn, the key and the fields of every
\* level it holds.
OutputColumns(root) ==
  LET Of(h) == SelectSeq(Walk(h), LAMBDA l : l.frag = h.frag)
      levels == FlattenSeq([i \in DOMAIN Heads(root) |-> Of(Heads(root)[i])])
      Outs(l) == [i \in DOMAIN l.identity |-> <<l.path, "k", i>>]
                     \o [i \in DOMAIN l.fields |-> <<l.path, "c", i>>]
  IN  FlattenSeq([i \in DOMAIN levels |-> Outs(levels[i])])

\* render: every fragment, ordered by every level's key.
RowKey(walk, row) == FlattenSeq([i \in DOMAIN walk |-> row[walk[i].path].key])

FlatRows(db, root) ==
  LET walk == Walk(root)
  IN  SortSeq(Joined(root, Heads(root), Fragments(db, root)),
              LAMBDA r, s : KeyBefore(RowKey(walk, r), RowKey(walk, s)))
------------------------------------------------------------------------------
(* renderShaped.  A level's relation has a row for each distinct path down *)
(* to it: [group, key, object], group the keys on the path.                *)

\* The spine and the branches that lead to the fragment of l.
FlatSource(root, l, fragments) ==
  Joined(root, SelectSeq(Heads(root), LAMBDA h : IsPrefix(h.path, l.frag)), fragments)

SelectDistinct(rows) == SetToSeq(Range(rows))

Present(key) == \E i \in DOMAIN key : key[i] # Null

\* The list a child's aggregate holds for one row of its parent; where the join
\* finds no group, COALESCE makes it empty.
ChildAggregate(rows, group) ==
  LET mine == SelectSeq(rows, LAMBDA r : /\ KeysEqual(group, SubSeq(r.group, 1, Len(group)))
                                         /\ Present(r.key))
      sorted == SortSeq(mine, LAMBDA r, s : KeyBefore(r.key, s.key))
  IN  [i \in DOMAIN sorted |-> sorted[i].object]

ObjectOf(l, fields, lists) == [fields |-> fields, lists |-> lists]

RECURSIVE LevelRel(_, _, _)
LevelRel(root, l, fragments) ==
  LET walk == Ancestors(root, l) \o <<l>>
      source == FlatSource(root, l, fragments)
      base == SelectDistinct([i \in DOMAIN source |->
                [group  |-> RowKey(walk, source[i]),
                 key    |-> source[i][l.path].key,
                 fields |-> source[i][l.path].fields]])
      kids == [k \in DOMAIN l.kids |-> LevelRel(root, l.kids[k], fragments)]
  IN  [i \in DOMAIN base |->
        [group  |-> base[i].group, key |-> base[i].key,
         object |-> ObjectOf(l, base[i].fields,
                             [k \in DOMAIN l.kids |-> ChildAggregate(kids[k], base[i].group)])]]

\* The root's list has no FILTER.
ShapedRow(db, root) ==
  LET rel == LevelRel(root, root, Fragments(db, root))
      sorted == SortSeq(rel, LAMBDA r, s : KeyBefore(r.key, s.key))
  IN  [i \in DOMAIN sorted |-> sorted[i].object]
==============================================================================
