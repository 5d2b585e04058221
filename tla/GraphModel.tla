----------------------------- MODULE GraphModel ------------------------------
(***************************************************************************)
(* The property graph the generator builds from a document, what it checks *)
(* before it emits anything, and what PostgreSQL requires of the CREATE    *)
(* PROPERTY GRAPH it emits.                                                *)
(*                                                                         *)
(* A graph is [vertices, edges], two sets.  A vertex element is [ref,      *)
(* label, props, extra, types, key, unmanaged]: props is the sequence of   *)
(* columns its own label exposes, extra the set of shared labels [label,   *)
(* props], types the type of every column, primary whether one of them is  *)
(* the primary key, key the columns of its KEY clause.  An edge element is *)
(* [ref, alias, label, unmanaged, src, dst, types, props], its ends [key,  *)
(* schema, table, ref].                                                    *)
(***************************************************************************)
EXTENDS Sdl

\* The columns of several lists, each once, in the order first seen.
Distinct(list) == FoldLeft(LAMBDA acc, c : IF c \in Range(acc) THEN acc ELSE Append(acc, c),
                           <<>>, list)
------------------------------------------------------------------------------
(* Vertices. *)

ScalarMapping == [Int |-> "integer", Float |-> "double precision", String |-> "text",
                  Boolean |-> "boolean", ID |-> "uuid", DateTime |-> "timestamptz",
                  JSON |-> "jsonb"]

\* The type of the column a field maps to: its own @column(type:), or the
\* scalar's; a list is an array.
ColumnType(f) == [base  |-> IF f.columnType # None THEN f.columnType ELSE ScalarMapping[f.type],
                  array |-> f.list]

Mappable(def) == \A f \in Range(Columns(def)) : f.type \in DOMAIN ScalarMapping

Vertex(def) ==
  LET cols == Columns(def)
  IN  [ref   |-> TableRef(def), label |-> def.label, unmanaged |-> def.readonly,
       props |-> [i \in DOMAIN cols |-> ColumnName(cols[i])],
       types |-> [c \in {ColumnName(f) : f \in Range(cols)} |->
                   ColumnType(CHOOSE f \in Range(cols) : ColumnName(f) = c)],
       primary |-> \E f \in Range(cols) : f.name = "id" /\ f.type = "ID",
       key   |-> IF def.key = None THEN <<>>
                 ELSE [i \in DOMAIN def.key |-> ColumnName(FieldNamed(def, def.key[i]))],
       extra |-> {}]

\* Every implementor carries the label of a labelled interface, and exposes the
\* interface's own fields under it: by the name of the field.
LabelledInterfaces(doc) == {i \in Interfaces(doc) : doc.types[i].label # None}

SharedLabel(def) ==
  LET cols == Columns(def)
  IN  [label |-> def.label, props |-> [i \in DOMAIN cols |-> cols[i].name]]

AttachInterfaceLabels(doc, t) ==
  {SharedLabel(doc.types[i]) : i \in {i \in LabelledInterfaces(doc) : t \in Implementors(doc, i)}}

SharedLabelsAreSound(doc) ==
  \A i \in LabelledInterfaces(doc) :
    /\ Columns(doc.types[i]) # <<>>
    /\ \A t \in Implementors(doc, i) : doc.types[t].label # doc.types[i].label

Vertices(doc) ==
  {[Vertex(doc.types[t]) EXCEPT !.extra = AttachInterfaceLabels(doc, t)] : t \in Nodes(doc)}

\* @index on a column.  An unmanaged table gets none.
FieldIndexes(doc) ==
  UNION {{[table |-> TableRef(doc.types[t]), columns |-> <<ColumnName(f)>>] :
            f \in {g \in Range(Columns(doc.types[t])) : "index" \in g.marks}} :
         t \in {u \in Nodes(doc) : ~doc.types[u].readonly}}
------------------------------------------------------------------------------
(* Edges. *)

EdgeTable(rel) == [schema |-> rel.schema,
                   name   |-> IF rel.table # None THEN rel.table ELSE rel.label]

\* The relationships, each where it is declared.
Declarations(doc) ==
  UNION {{[type |-> t, at |-> i, field |-> doc.types[t].fields[i]] :
            i \in {j \in DOMAIN doc.types[t].fields : doc.types[t].fields[j].rel # None}} :
         t \in Nodes(doc)}

Precedes(t, u) == \E i, j \in DOMAIN Alphabet : i < j /\ Alphabet[i] = t /\ Alphabet[j] = u

\* Two passes, OUT before IN; in each, types by name, fields as they are written.
Earlier(r, s) ==
  \/ r.field.rel.dir = "OUT" /\ s.field.rel.dir = "IN"
  \/ /\ r.field.rel.dir = s.field.rel.dir
     /\ Precedes(r.type, s.type) \/ (r.type = s.type /\ r.at < s.at)

End(def, key, refs) == [key |-> key, schema |-> def.schema, table |-> TableOf(def), ref |-> refs]

\* (wrong) Read as if every relationship pointed outwards.
EdgeOutwards(doc, r) ==
  LET rel == r.field.rel
  IN  [ref |-> EdgeTable(rel), alias |-> None, label |-> rel.label, unmanaged |-> FALSE,
       types |-> [c \in {"source_id", "target_id"} |-> [base |-> "uuid", array |-> FALSE]],
       src |-> End(doc.types[r.type], <<"source_id">>, <<"id">>),
       dst |-> End(doc.types[r.field.type], <<"target_id">>, <<"id">>),
       props |-> <<"source_id", "target_id">>]

Edge(doc, r) ==
  LET rel    == r.field.rel
      here   == doc.types[r.type]
      there  == doc.types[r.field.type]
      src    == IF rel.dir = "IN" THEN there ELSE here
      dst    == IF rel.dir = "IN" THEN here ELSE there
      mapped == rel.src # <<>>
  IN  [ref |-> EdgeTable(rel), alias |-> None, label |-> rel.label, unmanaged |-> mapped,
       types |-> IF mapped THEN <<>>
                 ELSE [c \in {"source_id", "target_id"} |-> [base |-> "uuid", array |-> FALSE]],
       src   |-> IF mapped THEN End(src, rel.src, IdentityColumns(src))
                 ELSE End(src, <<"source_id">>, <<"id">>),
       dst   |-> IF mapped THEN End(dst, rel.dst, IdentityColumns(dst))
                 ELSE End(dst, <<"target_id">>, <<"id">>),
       props |-> IF mapped THEN Distinct(rel.src \o rel.dst) ELSE <<"source_id", "target_id">>]

\* One edge for each label on a table: the first declaration met makes it.
SameEdge(e, r) == e.ref = EdgeTable(r.field.rel) /\ e.label = r.field.rel.label

CollectEdges(doc) ==
  {Edge(doc, r) : r \in {s \in Declarations(doc) :
                          \A q \in Declarations(doc) : Earlier(q, s) => ~SameEdge(Edge(doc, q), s)}}

\* An edge whose bare table name is taken goes by its label.
AliasEdges(vertices, edges) ==
  {[e EXCEPT !.alias =
      IF Cardinality({v \in vertices : v.ref.name = e.ref.name})
         + Cardinality({f \in edges : f.ref.name = e.ref.name}) > 1
      THEN e.label ELSE e.ref.name] : e \in edges}

Build(doc) ==
  LET vertices == Vertices(doc)
  IN  [vertices |-> vertices, edges |-> AliasEdges(vertices, CollectEdges(doc))]

\* The index the generator adds for every edge table it creates.
EdgeIndexes(graph) == {[table |-> e.ref, columns |-> e.dst.key] : e \in {x \in graph.edges : ~x.unmanaged}}
------------------------------------------------------------------------------
(* What the generator checks. *)

Elements(graph) ==
  {[kind |-> "vertex", element |-> v] : v \in graph.vertices}
  \union {[kind |-> "edge", element |-> e] : e \in graph.edges}

ElementAlias(x) == IF x.kind = "vertex" THEN x.element.ref.name ELSE x.element.alias

KeysAreProperties(graph) ==
  /\ \A v \in graph.vertices : Range(v.key) \subseteq Range(v.props)
  /\ \A e \in graph.edges : Range(e.src.key) \union Range(e.dst.key) \subseteq Range(e.props)

DestinationsAreIndexed(graph, indexes) ==
  \A e \in graph.edges : e.unmanaged \/ [table |-> e.ref, columns |-> e.dst.key] \in indexes

CreatedOnce(graph) ==
  \A e, f \in graph.edges : ~e.unmanaged /\ ~f.unmanaged /\ e.ref = f.ref => e = f

AliasesAreUnique(graph) ==
  \A x, y \in Elements(graph) : ElementAlias(x) = ElementAlias(y) => x = y

\* Every exposure of a label: the table, the properties under it, their types.
LabelUses(graph) ==
  (UNION {{[label |-> v.label, ref |-> v.ref, props |-> v.props, types |-> v.types, known |-> TRUE]}
            \union {[label |-> x.label, ref |-> v.ref, props |-> x.props, types |-> v.types,
                     known |-> TRUE] : x \in v.extra} : v \in graph.vertices})
  \union {[label |-> e.label, ref |-> e.ref, props |-> e.props, types |-> e.types,
           known |-> ~e.unmanaged] : e \in graph.edges}

\* (wrong) Every label is looked at by itself: a property may have a type of its
\* own under each.
PropertiesAlign(uses) ==
  /\ \A x, y \in uses : x.label = y.label => x.props = y.props
  /\ \A x \in uses : x.known => Range(x.props) \subseteq DOMAIN x.types

\* Tables that share a label expose the same properties under it, and a
\* property has one type in the whole graph, as far as the types are known.
LabelsAlign(uses) ==
  /\ \A x, y \in uses : x.label = y.label => x.props = y.props
  /\ \A x \in uses : x.known => Range(x.props) \subseteq DOMAIN x.types
  /\ \A x, y \in {u \in uses : u.known} : \A p \in Range(x.props) \intersect Range(y.props) :
       x.types[p] = y.types[p]

\* What the document declares, counted a second time.
NothingDropped(graph, doc) ==
  \A t \in Nodes(doc) :
    /\ \E v \in graph.vertices : v.label = doc.types[t].label
    /\ \A f \in Range(doc.types[t].fields) :
         f.rel # None => \E e \in graph.edges : SameEdge(e, [type |-> t, field |-> f])

Built(graph, doc) ==
  /\ KeysAreProperties(graph)
  /\ DestinationsAreIndexed(graph, FieldIndexes(doc) \union EdgeIndexes(graph))
  /\ CreatedOnce(graph)
  /\ AliasesAreUnique(graph)
  /\ LabelsAlign(LabelUses(graph))
  /\ NothingDropped(graph, doc)

\* BuildWith succeeds: the graph is the one Build describes.
Generates(doc) == /\ \A t \in Nodes(doc) : Mappable(doc.types[t])
                  /\ SharedLabelsAreSound(doc)
                  /\ Built(Build(doc), doc)
------------------------------------------------------------------------------
(* PostgreSQL: what CREATE PROPERTY GRAPH leaves in the catalogs, and when *)
(* it is accepted.  An unqualified table is found in the first schema of   *)
(* the search path.                                                        *)

Public == "public"
ASSUME PublicIsASchema == Public # None
Namespace(schema) == IF schema = None THEN Public ELSE schema

Catalogued(ref, kind, alias, labels, ends) ==
  [schema |-> Namespace(ref.schema), name |-> ref.name, kind |-> kind, alias |-> alias,
   labels |-> labels, ends |-> ends]

CataloguedVertex(v) ==
  Catalogued(v.ref, "vertex", v.ref.name,
             [l \in {v.label} \union {x.label : x \in v.extra} |->
                IF l = v.label THEN Range(v.props)
                ELSE UNION {Range(x.props) : x \in {y \in v.extra : y.label = l}}], None)

CataloguedEdge(e) ==
  Catalogued(e.ref, "edge", e.alias, [l \in {e.label} |-> Range(e.props)],
             [src |-> e.src.table, dst |-> e.dst.table,
              srcKey |-> e.src.key, srcRef |-> e.src.ref,
              dstKey |-> e.dst.key, dstRef |-> e.dst.ref])

CatalogOf(graph) == {CataloguedVertex(v) : v \in graph.vertices}
                    \union {CataloguedEdge(e) : e \in graph.edges}

\* A table of the database is [types, primary]: the type of every column, and
\* whether it has a primary key.
KeyOfElement(x) == [schema |-> Namespace(x.element.ref.schema), name |-> x.element.ref.name]

Owned(graph) == {x \in Elements(graph) : ~x.element.unmanaged}

\* An edge's table gets a primary key of its two key columns.
CreatedTables(graph) ==
  [k \in {KeyOfElement(x) : x \in Owned(graph)} |->
     LET x == CHOOSE y \in Owned(graph) : KeyOfElement(y) = k
     IN  [types |-> x.element.types, primary |-> x.kind = "edge" \/ x.element.primary]]

Published(x) == UNION Range(x.labels)

\* What identifies the rows of an element: its KEY clause, or, where there is
\* none, as for every edge, the primary key of its table.
Identified(x, table) ==
  IF x.kind = "vertex" /\ x.element.key # <<>>
  THEN Range(x.element.key) \subseteq DOMAIN table.types
  ELSE table.primary

\* The end of an edge is a vertex of the graph, and each of the edge's columns
\* stands for one of the vertex's.  (That PostgreSQL can compare the two is left
\* out.)
Refers(end, table, v, there) ==
  /\ v.ref.name = end.table
  /\ Len(end.key) = Len(end.ref)
  /\ Range(end.key) \subseteq DOMAIN table.types
  /\ Range(end.ref) \subseteq DOMAIN there.types

\* Every alias is one element's; every table is there, with the columns the
\* labels expose; a label exposes the same properties everywhere, and a property
\* has one type in the whole graph; rows are identified; edges end at vertices.
PostgresTakes(graph, tables) ==
  LET elements == CatalogOf(graph)
      Types(x) == tables[[schema |-> x.schema, name |-> x.name]].types
      Table(kind, element) == tables[KeyOfElement([kind |-> kind, element |-> element])]
  IN  /\ \A x, y \in elements : x.alias = y.alias => x = y
      /\ \A x \in elements : /\ [schema |-> x.schema, name |-> x.name] \in DOMAIN tables
                             /\ Published(x) \subseteq DOMAIN Types(x)
      /\ \A x, y \in elements :
           /\ \A l \in DOMAIN x.labels \intersect DOMAIN y.labels : x.labels[l] = y.labels[l]
           /\ \A p \in Published(x) \intersect Published(y) : Types(x)[p] = Types(y)[p]
      /\ \A x \in Elements(graph) : Identified(x, tables[KeyOfElement(x)])
      /\ \A e \in graph.edges : \A end \in {e.src, e.dst} : \E v \in graph.vertices :
           Refers(end, Table("edge", e), v, Table("vertex", v))
==============================================================================
