---------------------------- MODULE CheckRun_proofs ----------------------------
(***************************************************************************)
(* The graph the generator builds from any accepted document has every     *)
(* relationship the document declares, and PostgreSQL takes it.            *)
(*                                                                         *)
(* gopgql check reads a graph in three statements and outside any          *)
(* transaction.  Still a clean report of it is true of some moment of the  *)
(* check, although somebody alters the graph once meanwhile; and a graph   *)
(* just made has a clean report.                                           *)
(***************************************************************************)
EXTENDS CheckRun, Conformance_proofs

GeneratorSpec == Written /\ [][Generating]_generatorVars

\* A graph is handed on only when it is what Build makes of an accepted
\* document and every check has passed.
GenInv ==
  /\ stage \in {"parsed", "generated", "live", "rejected"} => Accepted(scene.doc)
  /\ graph # None \/ stage \in {"generated", "live"} =>
       /\ Accepted(scene.doc)
       /\ Generates(scene.doc)
       /\ graph = Build(scene.doc)
  /\ stage = "rejected" => ~Taken(graph)

LEMMA GeneratorStarts == Written => GenInv
BY DEF Written, GenInv

LEMMA GeneratorSteps == GenInv /\ [Generating]_generatorVars => GenInv'
<1> SUFFICES ASSUME GenInv, [Generating]_generatorVars
             PROVE  GenInv'
  OBVIOUS
<1>1. CASE ParseDocument
  BY <1>1 DEF ParseDocument, GenInv
<1>2. CASE BuildGraph
  BY <1>2 DEF BuildGraph, GenInv
<1>3. CASE CreateGraph
  <2>1. scene' = scene /\ graph' = graph
    BY <1>3 DEF CreateGraph
  <2>2. Taken(graph)' = Taken(graph)
    BY <2>1 DEF Taken, TablesAreNew, AllTables
  <2> QED BY <1>3, <2>1, <2>2 DEF CreateGraph, GenInv
<1>4. CASE UNCHANGED generatorVars
  <2>1. Taken(graph)' = Taken(graph)
    BY <1>4 DEF generatorVars, Taken, TablesAreNew, AllTables
  <2> QED BY <1>4, <2>1 DEF generatorVars, GenInv
<1> QED BY <1>1, <1>2, <1>3, <1>4 DEF Generating

\* The generator hands out no graph that it has refused (BuildWith), and
\* nothing PostgreSQL has rejected is counted as made.
THEOREM GeneratorInvariant == GeneratorSpec => []GenInv
BY GeneratorStarts, GeneratorSteps, PTL DEF GeneratorSpec
------------------------------------------------------------------------------
(* The edges. *)

\* An edge of the graph is the edge of a declared relationship, under an alias.
LEMMA EdgesAreDeclared ==
  ASSUME NEW doc, NEW e \in Build(doc).edges
  PROVE  \E r \in Declarations(doc) :
           LET c == Edge(doc, r)
           IN  /\ e.ref = c.ref /\ e.label = c.label
               /\ e.src = c.src /\ e.dst = c.dst
               /\ e.types = c.types /\ e.props = c.props /\ e.unmanaged = c.unmanaged
<1>1. e \in AliasEdges(Vertices(doc), CollectEdges(doc))
  BY DEF Build
<1>2. PICK c \in CollectEdges(doc) : \E a : e = [c EXCEPT !.alias = a]
  BY <1>1 DEF AliasEdges
<1>3. PICK r \in Declarations(doc) : c = Edge(doc, r)
  BY DEF CollectEdges
<1>4. /\ e.ref = c.ref /\ e.label = c.label /\ e.src = c.src /\ e.dst = c.dst
      /\ e.types = c.types /\ e.props = c.props /\ e.unmanaged = c.unmanaged
  BY <1>2, <1>3 DEF Edge
<1> QED BY <1>3, <1>4

\* A relationship is declared by a field of a type.
LEMMA DeclarationsAreFields ==
  ASSUME NEW doc, NEW r \in Declarations(doc)
  PROVE  /\ r.type \in Nodes(doc)
         /\ r.field \in Range(doc.types[r.type].fields)
         /\ r.field.rel # None
         /\ RelationshipOf(r.type, r.field) \in Relationships(doc)
<1>1. PICK t, i :
        /\ t \in Nodes(doc) /\ i \in DOMAIN doc.types[t].fields
        /\ doc.types[t].fields[i].rel # None
        /\ r = [type |-> t, at |-> i, field |-> doc.types[t].fields[i]]
  BY DEF Declarations
<1>2. r.field \in Range(doc.types[t].fields) /\ r.type = t /\ r.field.rel # None
  BY <1>1 DEF Range
<1> QED BY <1>1, <1>2 DEF Relationships

\* What sdl accepts of a relationship.
LEMMA AcceptedRelationship ==
  ASSUME NEW doc, Accepted(doc), NEW r \in Declarations(doc)
  PROVE  /\ r.field.type \in Nodes(doc)
         /\ ValidRelationshipMapping(doc, r.type, r.field)
BY DeclarationsAreFields DEF Accepted, ValidNode, ValidRelField

\* The ends of an edge are the tables of the two types, by their keys, in the
\* direction the relationship says.
LEMMA EdgeEnds ==
  ASSUME NEW doc, Accepted(doc), NEW r \in Declarations(doc)
  PROVE  LET e == Edge(doc, r)
             q == RelationshipOf(r.type, r.field)
         IN  /\ q.src \in Nodes(doc) /\ q.dst \in Nodes(doc)
             /\ e.label = q.label /\ e.ref = q.ref
             /\ e.src.table = TableOf(doc.types[q.src]) /\ e.src.ref = IdentityColumns(doc.types[q.src])
             /\ e.dst.table = TableOf(doc.types[q.dst]) /\ e.dst.ref = IdentityColumns(doc.types[q.dst])
<1> DEFINE rel   == r.field.rel
           here  == doc.types[r.type]
           there == doc.types[r.field.type]
<1>1. rel.src = <<>> => IdentityColumns(here) = <<"id">> /\ IdentityColumns(there) = <<"id">>
  BY AcceptedRelationship DEF ValidRelationshipMapping, MapsTable, IdentityColumns
<1>2. r.type \in Nodes(doc) /\ r.field.type \in Nodes(doc)
  BY DeclarationsAreFields, AcceptedRelationship
<1>3. CASE rel.dir = "IN"
  BY <1>1, <1>2, <1>3 DEF Edge, End, RelationshipOf
<1>4. CASE rel.dir # "IN"
  BY <1>1, <1>2, <1>4 DEF Edge, End, RelationshipOf
<1> QED BY <1>3, <1>4

\* Every relationship of an accepted document for which the generator finds an
\* edge of the same label on the same table has the edge it means.
LEMMA RelationshipsAreBuilt ==
  ASSUME NEW doc, Accepted(doc), Generates(doc), LabelsTellRelationshipsApart(doc)
  PROVE  RelationshipsAreEdges(doc, Build(doc))
<1> SUFFICES ASSUME NEW r \in Relationships(doc)
             PROVE  \E e \in Build(doc).edges :
                      /\ e.label = r.label /\ e.ref = r.ref
                      /\ e.src.table = TableOf(doc.types[r.src])
                      /\ e.src.ref = IdentityColumns(doc.types[r.src])
                      /\ e.dst.table = TableOf(doc.types[r.dst])
                      /\ e.dst.ref = IdentityColumns(doc.types[r.dst])
  BY DEF RelationshipsAreEdges
<1>1. PICK t, f :
        t \in Nodes(doc) /\ f \in Range(doc.types[t].fields) /\ f.rel # None /\ r = RelationshipOf(t, f)
  BY DEF Relationships
<1>2. PICK e \in Build(doc).edges : e.ref = r.ref /\ e.label = r.label
  BY <1>1 DEF Generates, Built, NothingDropped, SameEdge, RelationshipOf
<1>3. PICK s \in Declarations(doc) :
        e.ref = Edge(doc, s).ref /\ e.label = Edge(doc, s).label
        /\ e.src = Edge(doc, s).src /\ e.dst = Edge(doc, s).dst
  BY EdgesAreDeclared
<1> DEFINE q == RelationshipOf(s.type, s.field)
<1>4. q \in Relationships(doc) /\ q.label = r.label /\ q.ref = r.ref
  BY <1>2, <1>3, DeclarationsAreFields, EdgeEnds
<1>5. q = r
  BY <1>4 DEF LabelsTellRelationshipsApart
<1> QED BY <1>2, <1>3, <1>5, EdgeEnds

\* Every relationship the document declares is an edge between the tables of
\* its two types, in the direction it says.
THEOREM RelationshipsAlwaysConnect == GeneratorSpec => []RelationshipsConnect
<1>1. GenInv => RelationshipsConnect
  BY RelationshipsAreBuilt DEF GenInv, RelationshipsConnect
<1> QED BY <1>1, GeneratorInvariant, PTL
------------------------------------------------------------------------------
(* The vertices. *)

\* A vertex of the graph is that of a type, with its shared labels.
LEMMA VerticesAreTypes ==
  ASSUME NEW doc
  PROVE  /\ \A v \in Build(doc).vertices : Range(v.props) = DOMAIN v.types
         /\ \A t \in Nodes(doc) : \E v \in Build(doc).vertices : v.ref.name = TableOf(doc.types[t])
<1>1. Build(doc).vertices = Vertices(doc)
  BY DEF Build
<1>2. ASSUME NEW t \in Nodes(doc), NEW v, v = [Vertex(doc.types[t]) EXCEPT !.extra = AttachInterfaceLabels(doc, t)]
      PROVE  Range(v.props) = DOMAIN v.types /\ v.ref.name = TableOf(doc.types[t])
  <2> DEFINE def  == doc.types[t]
             cols == Columns(def)
  <2>1. /\ v.props = [i \in DOMAIN cols |-> ColumnName(cols[i])]
        /\ DOMAIN v.types = {ColumnName(f) : f \in Range(cols)}
        /\ v.ref = TableRef(def)
    BY <1>2 DEF Vertex
  <2>2. Range(v.props) = {ColumnName(f) : f \in Range(cols)}
    BY <2>1 DEF Range
  <2> QED BY <2>1, <2>2 DEF TableRef
<1> QED BY <1>1, <1>2 DEF Vertices

\* A vertex is a type's, and every type has one.
LEMMA VerticesOfTypes ==
  ASSUME NEW doc
  PROVE  /\ \A v \in Build(doc).vertices : \E t \in Nodes(doc) :
              v.unmanaged = Vertex(doc.types[t]).unmanaged /\ v.primary = Vertex(doc.types[t]).primary
         /\ \A t \in Nodes(doc) : \E v \in Build(doc).vertices :
              v.ref.name = TableOf(doc.types[t]) /\ v.props = Vertex(doc.types[t]).props
<1>1. Build(doc).vertices = Vertices(doc)
  BY DEF Build
<1>2. ASSUME NEW t \in Nodes(doc), NEW v, v = [Vertex(doc.types[t]) EXCEPT !.extra = AttachInterfaceLabels(doc, t)]
      PROVE  /\ v.unmanaged = Vertex(doc.types[t]).unmanaged /\ v.primary = Vertex(doc.types[t]).primary
             /\ v.ref.name = TableOf(doc.types[t]) /\ v.props = Vertex(doc.types[t]).props
  BY <1>2 DEF Vertex, TableRef
<1> QED BY <1>1, <1>2 DEF Vertices
------------------------------------------------------------------------------
(* The graph in the catalogs. *)

\* What is catalogued is an element of the graph, under its alias.
LEMMA CataloguedElements ==
  ASSUME NEW g, NEW x \in CatalogOf(g)
  PROVE  \E y \in Elements(g) :
           /\ x = IF y.kind = "vertex" THEN CataloguedVertex(y.element) ELSE CataloguedEdge(y.element)
           /\ y.kind = "vertex" => y.element \in g.vertices
           /\ y.kind # "vertex" => y.kind = "edge" /\ y.element \in g.edges
           /\ x.kind = y.kind
           /\ x.alias = ElementAlias(y)
           /\ [schema |-> x.schema, name |-> x.name] = KeyOfElement(y)
<1>1. ASSUME NEW v \in g.vertices, x = CataloguedVertex(v)
      PROVE  [kind |-> "vertex", element |-> v] \in Elements(g)
             /\ x.kind = "vertex" /\ x.alias = ElementAlias([kind |-> "vertex", element |-> v])
             /\ [schema |-> x.schema, name |-> x.name] = KeyOfElement([kind |-> "vertex", element |-> v])
  BY <1>1 DEF Elements, CataloguedVertex, Catalogued, ElementAlias, KeyOfElement
<1>2. ASSUME NEW e \in g.edges, x = CataloguedEdge(e)
      PROVE  [kind |-> "edge", element |-> e] \in Elements(g)
             /\ x.kind = "edge" /\ x.alias = ElementAlias([kind |-> "edge", element |-> e])
             /\ [schema |-> x.schema, name |-> x.name] = KeyOfElement([kind |-> "edge", element |-> e])
  BY <1>2 DEF Elements, CataloguedEdge, Catalogued, ElementAlias, KeyOfElement
<1>3. CASE \E v \in g.vertices : x = CataloguedVertex(v)
  <2>1. PICK v \in g.vertices : x = CataloguedVertex(v)
    BY <1>3
  <2> DEFINE y == [kind |-> "vertex", element |-> v]
  <2>2. y.kind = "vertex" /\ y.element = v
    OBVIOUS
  <2>3. y \in Elements(g) /\ x.kind = "vertex" /\ x.alias = ElementAlias(y)
        /\ [schema |-> x.schema, name |-> x.name] = KeyOfElement(y)
    BY <1>1, <2>1
  <2> HIDE DEF y
  <2> QED BY <2>1, <2>2, <2>3
<1>4. CASE \E e \in g.edges : x = CataloguedEdge(e)
  <2>1. PICK e \in g.edges : x = CataloguedEdge(e)
    BY <1>4
  <2> DEFINE y == [kind |-> "edge", element |-> e]
  <2>2. y.kind = "edge" /\ y.element = e
    OBVIOUS
  <2>3. y \in Elements(g) /\ x.kind = "edge" /\ x.alias = ElementAlias(y)
        /\ [schema |-> x.schema, name |-> x.name] = KeyOfElement(y)
    BY <1>2, <2>1
  <2> HIDE DEF y
  <2> QED BY <2>1, <2>2, <2>3
<1> QED BY <1>3, <1>4 DEF CatalogOf

\* What a label exposes in the catalogs is what an element uses it for.
LEMMA CataloguedLabels ==
  ASSUME NEW g, LabelsAlign(LabelUses(g)), NEW y \in Elements(g), NEW x,
         x = IF y.kind = "vertex" THEN CataloguedVertex(y.element) ELSE CataloguedEdge(y.element),
         y.kind = "vertex" => y.element \in g.vertices,
         y.kind # "vertex" => y.kind = "edge" /\ y.element \in g.edges,
         NEW l \in DOMAIN x.labels
  PROVE  \E u \in LabelUses(g) :
           /\ u.label = l
           /\ x.labels[l] = Range(u.props)
           /\ u.types = y.element.types
           /\ y.kind = "vertex" \/ ~y.element.unmanaged => u.known
           /\ y.kind = "edge" => u.props = y.element.props
<1>1. CASE y.kind = "vertex"
  <2> DEFINE v == y.element
             own == [label |-> v.label, ref |-> v.ref, props |-> v.props, types |-> v.types, known |-> TRUE]
             Shared(z) == [label |-> z.label, ref |-> v.ref, props |-> z.props, types |-> v.types, known |-> TRUE]
  <2>1. own \in LabelUses(g) /\ \A z \in v.extra : Shared(z) \in LabelUses(g)
    <3> DEFINE All(w) == {[label |-> w.label, ref |-> w.ref, props |-> w.props, types |-> w.types, known |-> TRUE]}
                         \union {[label |-> z.label, ref |-> w.ref, props |-> z.props, types |-> w.types,
                                  known |-> TRUE] : z \in w.extra}
    <3>1. own \in All(v) /\ \A z \in v.extra : Shared(z) \in All(v)
      OBVIOUS
    <3>2. UNION {All(w) : w \in g.vertices} \subseteq LabelUses(g)
      BY DEF LabelUses
    <3>3. All(v) \subseteq UNION {All(w) : w \in g.vertices}
      <4> HIDE DEF All
      <4> QED BY <1>1
    <3> HIDE DEF own, Shared, All
    <3> QED BY <3>1, <3>2, <3>3
  <2>2. /\ DOMAIN x.labels = {v.label} \union {z.label : z \in v.extra}
        /\ x.labels[l] = IF l = v.label THEN Range(v.props)
                         ELSE UNION {Range(z.props) : z \in {w \in v.extra : w.label = l}}
    BY <1>1 DEF CataloguedVertex, Catalogued
  <2>3. CASE l = v.label
    <3>1. own.label = l /\ x.labels[l] = Range(own.props) /\ own.types = v.types /\ own.known
      BY <2>2, <2>3
    <3> HIDE DEF own
    <3> QED BY <1>1, <2>1, <3>1
  <2>4. CASE l # v.label
    <3>1. PICK z \in v.extra : z.label = l
      BY <2>2, <2>4
    <3>2. \A w \in v.extra : w.label = l => w.props = z.props
      <4> SUFFICES ASSUME NEW w \in v.extra, w.label = l PROVE w.props = z.props
        OBVIOUS
      <4>1. Shared(w).label = Shared(z).label /\ Shared(w).props = w.props /\ Shared(z).props = z.props
        BY <3>1
      <4> QED BY <2>1, <3>1, <4>1 DEF LabelsAlign
    <3>3. x.labels[l] = Range(z.props)
      BY <2>2, <2>4, <3>1, <3>2
    <3>4. Shared(z) \in LabelUses(g)
      BY <2>1
    <3> QED BY <1>1, <3>1, <3>3, <3>4
  <2> QED BY <2>3, <2>4
<1>2. CASE y.kind # "vertex"
  <2> DEFINE e == y.element
             own == [label |-> e.label, ref |-> e.ref, props |-> e.props, types |-> e.types,
                     known |-> ~e.unmanaged]
  <2>1. own \in LabelUses(g)
    BY <1>2 DEF LabelUses
  <2>2. l = e.label /\ x.labels[l] = Range(e.props)
    BY <1>2 DEF CataloguedEdge, Catalogued
  <2>3. /\ own.label = l /\ x.labels[l] = Range(own.props) /\ own.types = e.types
        /\ own.known = ~e.unmanaged /\ own.props = e.props
    BY <2>2
  <2> HIDE DEF own
  <2> QED BY <1>2, <2>1, <2>3
<1> QED BY <1>1, <1>2
------------------------------------------------------------------------------
(* What PostgreSQL asks of the statement. *)

LEMMA OneAlias ==
  ASSUME NEW g, AliasesAreUnique(g), NEW x \in CatalogOf(g), NEW z \in CatalogOf(g), x.alias = z.alias
  PROVE  x = z
<1>1. PICK y \in Elements(g) :
        /\ x = IF y.kind = "vertex" THEN CataloguedVertex(y.element) ELSE CataloguedEdge(y.element)
        /\ x.alias = ElementAlias(y)
  BY CataloguedElements
<1>2. PICK w \in Elements(g) :
        /\ z = IF w.kind = "vertex" THEN CataloguedVertex(w.element) ELSE CataloguedEdge(w.element)
        /\ z.alias = ElementAlias(w)
  BY CataloguedElements
<1>3. y = w
  BY <1>1, <1>2 DEF AliasesAreUnique
<1> QED BY <1>1, <1>2, <1>3

LEMMA SameProperties ==
  ASSUME NEW g, LabelsAlign(LabelUses(g)), NEW x \in CatalogOf(g), NEW z \in CatalogOf(g),
         NEW l \in DOMAIN x.labels \intersect DOMAIN z.labels
  PROVE  x.labels[l] = z.labels[l]
<1>1. PICK u \in LabelUses(g) : u.label = l /\ x.labels[l] = Range(u.props)
  BY CataloguedElements, CataloguedLabels
<1>2. PICK w \in LabelUses(g) : w.label = l /\ z.labels[l] = Range(w.props)
  BY CataloguedElements, CataloguedLabels
<1>3. u.props = w.props
  BY <1>1, <1>2 DEF LabelsAlign
<1> QED BY <1>1, <1>2, <1>3

\* Every element has its table, made for it or mapped, with its properties and
\* of the types the graph says.
LEMMA TablesAreThere ==
  ASSUME NEW doc, graph = Build(doc), LabelsAlign(LabelUses(graph)), TablesAreNew(graph),
         MappedTablesFit(graph), NEW y \in Elements(graph)
  PROVE  LET table == AllTables(graph)[KeyOfElement(y)]
         IN  /\ KeyOfElement(y) \in DOMAIN AllTables(graph)
             /\ Range(y.element.props) \subseteq DOMAIN table.types
             /\ \A c \in DOMAIN y.element.types : table.types[c] = y.element.types[c]
             /\ y \in Owned(graph) => table.primary = (y.kind = "edge" \/ y.element.primary)
<1> DEFINE k == KeyOfElement(y)
           made == CreatedTables(graph)
<1>1. CASE y \in Owned(graph)
  <2>1. k \in DOMAIN made
    BY <1>1 DEF CreatedTables
  <2>2. \A z \in Owned(graph) : KeyOfElement(z) = k => z = y
    BY <1>1 DEF TablesAreNew
  <2>3. (CHOOSE z \in Owned(graph) : KeyOfElement(z) = k) = y
    BY <1>1, <2>2
  <2>4. made[k] = [types |-> y.element.types, primary |-> y.kind = "edge" \/ y.element.primary]
    BY <1>1, <2>1, <2>3 DEF CreatedTables
  <2>5. k \in DOMAIN AllTables(graph) /\ AllTables(graph)[k] = made[k]
    BY <2>1 DEF AllTables
  <2>6. Range(y.element.props) \subseteq DOMAIN y.element.types
    <3>1. CASE y.kind = "vertex"
      BY <3>1, VerticesAreTypes DEF Elements
    <3>2. CASE y.kind # "vertex"
      <4>1. y.kind = "edge" /\ y.element \in graph.edges /\ ~y.element.unmanaged
        BY <1>1, <3>2 DEF Elements, Owned
      <4> DEFINE e == y.element
                 use == [label |-> e.label, ref |-> e.ref, props |-> e.props, types |-> e.types,
                         known |-> ~e.unmanaged]
      <4>2. use \in LabelUses(graph)
        BY <4>1 DEF LabelUses
      <4>3. use.known /\ use.props = e.props /\ use.types = e.types
        BY <4>1
      <4> HIDE DEF use
      <4> QED BY <4>2, <4>3 DEF LabelsAlign
    <3> QED BY <3>1, <3>2
  <2> QED BY <1>1, <2>4, <2>5, <2>6
<1>2. CASE y \notin Owned(graph)
  BY <1>2 DEF MappedTablesFit
<1> QED BY <1>1, <1>2

\* What the labels of a catalogued element expose are properties of the element;
\* where the generator knows its types, it has compared them.
LEMMA PublishedProperties ==
  ASSUME NEW doc, graph = Build(doc), LabelsAlign(LabelUses(graph)), NEW x \in CatalogOf(graph)
  PROVE  \E y \in Elements(graph) :
           /\ [schema |-> x.schema, name |-> x.name] = KeyOfElement(y)
           /\ Published(x) \subseteq Range(y.element.props)
           /\ \/ y.kind = "edge" /\ y \notin Owned(graph)
              \/ \A p \in Published(x) : \E u \in LabelUses(graph) :
                   p \in Range(u.props) /\ u.known /\ u.types = y.element.types /\ p \in DOMAIN u.types
<1>1. PICK y \in Elements(graph) :
        /\ x = IF y.kind = "vertex" THEN CataloguedVertex(y.element) ELSE CataloguedEdge(y.element)
        /\ y.kind = "vertex" => y.element \in graph.vertices
        /\ y.kind # "vertex" => y.kind = "edge" /\ y.element \in graph.edges
        /\ [schema |-> x.schema, name |-> x.name] = KeyOfElement(y)
  BY CataloguedElements
<1>2. ASSUME NEW p \in Published(x)
      PROVE  \E u \in LabelUses(graph) :
               /\ p \in Range(u.props)
               /\ u.types = y.element.types
               /\ y.kind = "vertex" \/ ~y.element.unmanaged => u.known
               /\ u.known => p \in DOMAIN u.types
               /\ y.kind = "edge" => u.props = y.element.props
  <2>1. PICK l \in DOMAIN x.labels : p \in x.labels[l]
    BY DEF Published, Range
  <2>2. PICK u \in LabelUses(graph) :
          /\ x.labels[l] = Range(u.props)
          /\ u.types = y.element.types
          /\ y.kind = "vertex" \/ ~y.element.unmanaged => u.known
          /\ y.kind = "edge" => u.props = y.element.props
    BY <1>1, CataloguedLabels
  <2>3. u.known => Range(u.props) \subseteq DOMAIN u.types
    BY DEF LabelsAlign
  <2> QED BY <2>1, <2>2, <2>3
<1>3. CASE y.kind = "vertex"
  <2>1. DOMAIN y.element.types = Range(y.element.props)
    BY <1>1, <1>3, VerticesAreTypes
  <2> QED BY <1>1, <1>2, <1>3, <2>1
<1>4. CASE y.kind # "vertex"
  <2>1. y \notin Owned(graph) \/ ~y.element.unmanaged
    BY DEF Owned
  <2> QED BY <1>1, <1>2, <1>4, <2>1
<1> QED BY <1>3, <1>4

LEMMA ColumnsAreThere ==
  ASSUME NEW doc, graph = Build(doc), LabelsAlign(LabelUses(graph)), TablesAreNew(graph),
         MappedTablesFit(graph), NEW x \in CatalogOf(graph)
  PROVE  LET k == [schema |-> x.schema, name |-> x.name]
         IN  k \in DOMAIN AllTables(graph) /\ Published(x) \subseteq DOMAIN AllTables(graph)[k].types
<1>1. PICK y \in Elements(graph) :
        [schema |-> x.schema, name |-> x.name] = KeyOfElement(y) /\ Published(x) \subseteq Range(y.element.props)
  BY PublishedProperties
<1> QED BY <1>1, TablesAreThere

\* A property has one type: the generator has compared what it knows, and the
\* types it does not know are granted.
LEMMA OneType ==
  ASSUME NEW doc, graph = Build(doc), LabelsAlign(LabelUses(graph)), TablesAreNew(graph),
         MappedTablesFit(graph), NEW x \in CatalogOf(graph), NEW z \in CatalogOf(graph),
         NEW p \in Published(x) \intersect Published(z)
  PROVE  AllTables(graph)[[schema |-> x.schema, name |-> x.name]].types[p]
           = AllTables(graph)[[schema |-> z.schema, name |-> z.name]].types[p]
<1> DEFINE Types(e) == AllTables(graph)[KeyOfElement(e)].types
           Known(e) == \E u \in LabelUses(graph) :
                         p \in Range(u.props) /\ u.known /\ u.types = e.element.types /\ p \in DOMAIN u.types
<1>1. PICK y \in Elements(graph) :
        /\ [schema |-> x.schema, name |-> x.name] = KeyOfElement(y)
        /\ p \in Range(y.element.props)
        /\ (y.kind = "edge" /\ y \notin Owned(graph)) \/ Known(y)
  BY PublishedProperties
<1>2. PICK w \in Elements(graph) :
        /\ [schema |-> z.schema, name |-> z.name] = KeyOfElement(w)
        /\ p \in Range(w.element.props)
        /\ (w.kind = "edge" /\ w \notin Owned(graph)) \/ Known(w)
  BY PublishedProperties
<1>3. ASSUME NEW e \in Elements(graph), NEW f \in Elements(graph), e.kind = "edge", e \notin Owned(graph),
             p \in Range(e.element.props), p \in Range(f.element.props)
      PROVE  Types(e)[p] = Types(f)[p]
  BY <1>3 DEF MappedTablesFit
<1>4. CASE Known(y) /\ Known(w)
  <2>1. PICK u \in LabelUses(graph) :
          p \in Range(u.props) /\ u.known /\ u.types = y.element.types /\ p \in DOMAIN u.types
    BY <1>4
  <2>2. PICK q \in LabelUses(graph) :
          p \in Range(q.props) /\ q.known /\ q.types = w.element.types /\ p \in DOMAIN q.types
    BY <1>4
  <2>3. u.types[p] = q.types[p]
    BY <2>1, <2>2 DEF LabelsAlign
  <2>4. Types(y)[p] = y.element.types[p] /\ Types(w)[p] = w.element.types[p]
    BY <2>1, <2>2, TablesAreThere
  <2> QED BY <1>1, <1>2, <2>1, <2>2, <2>3, <2>4
<1>5. CASE ~(Known(y) /\ Known(w))
  <2> HIDE DEF Known, Types
  <2>1. Types(y)[p] = Types(w)[p]
    BY <1>1, <1>2, <1>3, <1>5
  <2> QED BY <1>1, <1>2, <2>1 DEF Types
<1> QED BY <1>4, <1>5

\* The rows of every element are identified.
LEMMA ElementsAreIdentified ==
  ASSUME NEW doc, graph = Build(doc), LabelsAlign(LabelUses(graph)), KeysAreProperties(graph),
         RowsAreIdentified(doc), TablesAreNew(graph), MappedTablesFit(graph), NEW y \in Elements(graph)
  PROVE  Identified(y, AllTables(graph)[KeyOfElement(y)])
<1> DEFINE table == AllTables(graph)[KeyOfElement(y)]
<1>1. CASE y.kind = "vertex" /\ y.element.key # <<>>
  <2>1. y.element \in graph.vertices
    BY <1>1 DEF Elements
  <2>2. Range(y.element.key) \subseteq DOMAIN table.types
    BY <2>1, TablesAreThere DEF KeysAreProperties
  <2> QED BY <1>1, <2>2 DEF Identified
<1>2. CASE ~(y.kind = "vertex" /\ y.element.key # <<>>)
  <2>1. CASE y \notin Owned(graph)
    BY <1>2, <2>1 DEF MappedTablesFit, Identified
  <2>2. CASE y \in Owned(graph)
    <3>1. CASE y.kind = "edge"
      BY <1>2, <2>2, <3>1, TablesAreThere DEF Identified
    <3>2. CASE y.kind # "edge"
      <4>1. y.kind = "vertex" /\ y.element \in graph.vertices /\ ~y.element.unmanaged
        BY <2>2, <3>2 DEF Elements, Owned
      <4>2. y.element.primary
        <5>1. PICK t \in Nodes(doc) : /\ y.element.unmanaged = Vertex(doc.types[t]).unmanaged
                                      /\ y.element.primary = Vertex(doc.types[t]).primary
          BY <4>1, VerticesOfTypes
        <5>2. Vertex(doc.types[t]).unmanaged \/ Vertex(doc.types[t]).primary
          BY DEF RowsAreIdentified
        <5> QED BY <4>1, <5>1, <5>2
      <4>3. table.primary
        BY <2>2, <4>2, TablesAreThere
      <4> QED BY <1>2, <4>3 DEF Identified
    <3> QED BY <3>1, <3>2
  <2> QED BY <2>1, <2>2
<1> QED BY <1>1, <1>2

\* As many columns of an edge stand for a vertex as identify it.
LEMMA KeysMatch ==
  ASSUME NEW doc, Accepted(doc), NEW r \in Declarations(doc)
  PROVE  LET e == Edge(doc, r)
         IN  Len(e.src.key) = Len(e.src.ref) /\ Len(e.dst.key) = Len(e.dst.ref)
<1> DEFINE rel   == r.field.rel
           here  == doc.types[r.type]
           there == doc.types[r.field.type]
<1>1. CASE rel.src = <<>>
  BY <1>1 DEF Edge, End
<1>2. CASE rel.src # <<>>
  <2>1. /\ Len(rel.src) = Len(IdentityColumns(IF rel.dir = "IN" THEN there ELSE here))
        /\ Len(rel.dst) = Len(IdentityColumns(IF rel.dir = "IN" THEN here ELSE there))
    BY <1>2, AcceptedRelationship DEF ValidRelationshipMapping, MapsTable
  <2> QED BY <1>2, <2>1 DEF Edge, End
<1> QED BY <1>1, <1>2

LEMMA EndsAreVertices ==
  ASSUME NEW doc, Accepted(doc), graph = Build(doc), LabelsAlign(LabelUses(graph)), KeysAreProperties(graph),
         RowsAreIdentified(doc), TablesAreNew(graph), MappedTablesFit(graph),
         NEW e \in graph.edges, NEW end \in {e.src, e.dst}
  PROVE  \E v \in graph.vertices :
           Refers(end, AllTables(graph)[KeyOfElement([kind |-> "edge", element |-> e])],
                  v, AllTables(graph)[KeyOfElement([kind |-> "vertex", element |-> v])])
<1> DEFINE AsEdge == [kind |-> "edge", element |-> e]
           AsVertex(v) == [kind |-> "vertex", element |-> v]
<1>1. PICK r \in Declarations(doc) : e.src = Edge(doc, r).src /\ e.dst = Edge(doc, r).dst
  BY EdgesAreDeclared
<1>2. Len(end.key) = Len(end.ref)
  BY <1>1, KeysMatch
<1>3. PICK t \in Nodes(doc) : end.table = TableOf(doc.types[t]) /\ end.ref = IdentityColumns(doc.types[t])
  BY <1>1, EdgeEnds
<1>4. PICK v \in graph.vertices : v.ref.name = end.table /\ v.props = Vertex(doc.types[t]).props
  BY <1>3, VerticesOfTypes
<1>5. AsEdge \in Elements(graph) /\ AsEdge.element = e
  BY DEF Elements
<1>6. AsVertex(v) \in Elements(graph) /\ AsVertex(v).element = v
  BY DEF Elements
<1> HIDE DEF AsEdge, AsVertex
<1>7. Range(end.key) \subseteq DOMAIN AllTables(graph)[KeyOfElement(AsEdge)].types
  BY <1>5, TablesAreThere DEF KeysAreProperties
<1>8. Range(end.ref) \subseteq Range(v.props)
  BY <1>3, <1>4 DEF RowsAreIdentified
<1>9. Range(end.ref) \subseteq DOMAIN AllTables(graph)[KeyOfElement(AsVertex(v))].types
  BY <1>6, <1>8, TablesAreThere
<1>10. Refers(end, AllTables(graph)[KeyOfElement(AsEdge)], v, AllTables(graph)[KeyOfElement(AsVertex(v))])
  BY <1>2, <1>4, <1>7, <1>9 DEF Refers
<1> QED BY <1>10 DEF AsEdge, AsVertex

LEMMA CheckedGraphIsTaken ==
  ASSUME NEW doc, Accepted(doc), Generates(doc), graph = Build(doc),
         RowsAreIdentified(doc), TablesAreNew(graph), MappedTablesFit(graph)
  PROVE  PostgresTakes(graph, AllTables(graph))
<1>1. AliasesAreUnique(graph) /\ LabelsAlign(LabelUses(graph)) /\ KeysAreProperties(graph)
  BY DEF Generates, Built
<1>2. \A x, y \in CatalogOf(graph) : x.alias = y.alias => x = y
  BY <1>1, OneAlias
<1>3. \A x \in CatalogOf(graph) :
        LET k == [schema |-> x.schema, name |-> x.name]
        IN  k \in DOMAIN AllTables(graph) /\ Published(x) \subseteq DOMAIN AllTables(graph)[k].types
  BY <1>1, ColumnsAreThere
<1>4. \A x, y \in CatalogOf(graph) : \A l \in DOMAIN x.labels \intersect DOMAIN y.labels :
        x.labels[l] = y.labels[l]
  BY <1>1, SameProperties
<1>5. \A x, y \in CatalogOf(graph) : \A p \in Published(x) \intersect Published(y) :
        AllTables(graph)[[schema |-> x.schema, name |-> x.name]].types[p]
          = AllTables(graph)[[schema |-> y.schema, name |-> y.name]].types[p]
  BY <1>1, OneType
<1>6. \A x \in Elements(graph) : Identified(x, AllTables(graph)[KeyOfElement(x)])
  BY <1>1, ElementsAreIdentified
<1>7. \A e \in graph.edges : \A end \in {e.src, e.dst} : \E v \in graph.vertices :
        Refers(end, AllTables(graph)[KeyOfElement([kind |-> "edge", element |-> e])],
               v, AllTables(graph)[KeyOfElement([kind |-> "vertex", element |-> v])])
  BY <1>1, EndsAreVertices
<1> QED BY <1>2, <1>3, <1>4, <1>5, <1>6, <1>7 DEF PostgresTakes

\* PostgreSQL takes every graph that passed the checks of the generator, over
\* tables that are what the document says of them.
THEOREM PostgresAlwaysTakesTheGraph == GeneratorSpec => []PostgresTakesTheGraph
<1>1. GenInv => PostgresTakesTheGraph
  BY CheckedGraphIsTaken DEF GenInv, PostgresTakesTheGraph, Taken
<1> QED BY <1>1, GeneratorInvariant, PTL
------------------------------------------------------------------------------
(* The tables behind a position. *)

\* A vertex of the catalogs has the name of its type's table, and the labels of
\* the type and of the labelled interfaces it implements.
LEMMA CataloguedTypes ==
  ASSUME NEW doc
  PROVE  /\ \A t \in Nodes(doc) : \E x \in CatalogOf(Build(doc)) :
              /\ x.kind = "vertex" /\ x.name = TableOf(doc.types[t])
              /\ DOMAIN x.labels = {doc.types[t].label} \union
                   {doc.types[i].label : i \in {i \in LabelledInterfaces(doc) : t \in Implementors(doc, i)}}
         /\ \A x \in CatalogOf(Build(doc)) : x.kind = "vertex" => \E t \in Nodes(doc) :
              /\ x.name = TableOf(doc.types[t])
              /\ DOMAIN x.labels = {doc.types[t].label} \union
                   {doc.types[i].label : i \in {i \in LabelledInterfaces(doc) : t \in Implementors(doc, i)}}
<1> DEFINE V(t) == [Vertex(doc.types[t]) EXCEPT !.extra = AttachInterfaceLabels(doc, t)]
           Given(t) == {doc.types[i].label : i \in {i \in LabelledInterfaces(doc) : t \in Implementors(doc, i)}}
<1>1. Build(doc).vertices = {V(t) : t \in Nodes(doc)}
  BY DEF Build, Vertices
<1>2. ASSUME NEW t \in Nodes(doc)
      PROVE  LET x == CataloguedVertex(V(t))
             IN  /\ x.kind = "vertex" /\ x.name = TableOf(doc.types[t])
                 /\ DOMAIN x.labels = {doc.types[t].label} \union Given(t)
  <2> DEFINE v == V(t)
  <2>1. v.ref.name = TableOf(doc.types[t]) /\ v.label = doc.types[t].label
        /\ v.extra = AttachInterfaceLabels(doc, t)
    BY DEF Vertex, TableRef
  <2>2. {z.label : z \in AttachInterfaceLabels(doc, t)} = Given(t)
    <3>1. \A i : SharedLabel(doc.types[i]).label = doc.types[i].label
      BY DEF SharedLabel
    <3> QED BY <3>1 DEF AttachInterfaceLabels
  <2> HIDE DEF V, Given
  <2>3. /\ CataloguedVertex(v).kind = "vertex" /\ CataloguedVertex(v).name = v.ref.name
        /\ DOMAIN CataloguedVertex(v).labels = {v.label} \union {z.label : z \in v.extra}
    BY DEF CataloguedVertex, Catalogued
  <2>4. {z.label : z \in v.extra} = Given(t)
    BY <2>1, <2>2
  <2> HIDE DEF v
  <2> QED BY <2>1, <2>3, <2>4 DEF v
<1>3. \A x \in CatalogOf(Build(doc)) : x.kind = "vertex" => \E t \in Nodes(doc) : x = CataloguedVertex(V(t))
  <2>1. \A e : CataloguedEdge(e).kind = "edge"
    BY DEF CataloguedEdge, Catalogued
  <2> HIDE DEF V
  <2> QED BY <1>1, <2>1 DEF CatalogOf
<1>4. \A t \in Nodes(doc) : CataloguedVertex(V(t)) \in CatalogOf(Build(doc))
  <2> HIDE DEF V
  <2> QED BY <1>1 DEF CatalogOf
<1> HIDE DEF V
<1> QED BY <1>2, <1>3, <1>4

\* With labels that tell the types apart a position's labels match the tables of
\* its own types: that of a node, those of the implementors of an interface.
LEMMA LabelsMatchTables ==
  ASSUME NEW doc, LabelsTellTypesApart(doc), NEW p \in Positions(doc)
  PROVE  TargetOf(doc, p).tables =
           {x.name : x \in {y \in CatalogOf(Build(doc)) :
                              y.kind = "vertex" /\ DOMAIN y.labels \intersect TargetOf(doc, p).labels # {}}}
<1> DEFINE L(t) == doc.types[t].label
           Given(t) == {L(i) : i \in {i \in LabelledInterfaces(doc) : t \in Implementors(doc, i)}}
           Own == IF p \in Nodes(doc) THEN {p} ELSE Implementors(doc, p)
           T == TargetOf(doc, p)
<1>1. T.tables = {TableOf(doc.types[t]) : t \in Own} /\ Own \subseteq Nodes(doc)
  BY DEF TargetOf, NodeTarget, InterfaceTarget, Implementors
<1>2. \A t, u \in Nodes(doc) \union LabelledInterfaces(doc) : L(t) = L(u) => t = u
  BY DEF LabelsTellTypesApart
<1>3. \A i \in LabelledInterfaces(doc) : i \notin Nodes(doc)
  BY DEF LabelledInterfaces, Interfaces, Nodes, OfKind
<1>4. \/ T.labels = {L(t) : t \in Own}
      \/ p \in LabelledInterfaces(doc) /\ T.labels = {L(p)} /\ Own = Implementors(doc, p)
  BY <1>3 DEF TargetOf, NodeTarget, InterfaceTarget, Positions, LabelledInterfaces
<1>5. ASSUME NEW t \in Nodes(doc)
      PROVE  ({L(t)} \union Given(t)) \intersect T.labels # {} <=> t \in Own
  <2> HIDE DEF L, Own, T
  <2>1. CASE T.labels = {L(u) : u \in Own}
    <3>1. L(t) \in T.labels <=> t \in Own
      BY <1>1, <1>2, <2>1
    <3>2. \A i \in LabelledInterfaces(doc) : L(i) \notin T.labels
      BY <1>1, <1>2, <1>3, <2>1
    <3> QED BY <3>1, <3>2
  <2>2. CASE p \in LabelledInterfaces(doc) /\ T.labels = {L(p)} /\ Own = Implementors(doc, p)
    <3>1. L(t) \notin T.labels
      BY <1>2, <1>3, <2>2
    <3>2. \A i \in LabelledInterfaces(doc) : L(i) \in T.labels <=> i = p
      BY <1>2, <2>2
    <3>3. t \in Own <=> p \in LabelledInterfaces(doc) /\ t \in Implementors(doc, p)
      BY <2>2
    <3> QED BY <3>1, <3>2, <3>3
  <2> QED BY <1>4, <2>1, <2>2
<1>6. /\ \A t \in Nodes(doc) : \E x \in CatalogOf(Build(doc)) :
           x.kind = "vertex" /\ x.name = TableOf(doc.types[t]) /\ DOMAIN x.labels = {L(t)} \union Given(t)
      /\ \A x \in CatalogOf(Build(doc)) : x.kind = "vertex" => \E t \in Nodes(doc) :
           x.name = TableOf(doc.types[t]) /\ DOMAIN x.labels = {L(t)} \union Given(t)
  BY CataloguedTypes
<1> DEFINE Match(x) == x.kind = "vertex" /\ DOMAIN x.labels \intersect T.labels # {}
<1> HIDE DEF Own, T, Given, L
<1>7. ASSUME NEW t \in Own
      PROVE  \E x \in CatalogOf(Build(doc)) : Match(x) /\ x.name = TableOf(doc.types[t])
  <2>1. t \in Nodes(doc)
    BY <1>1
  <2>2. PICK x \in CatalogOf(Build(doc)) :
          x.kind = "vertex" /\ x.name = TableOf(doc.types[t]) /\ DOMAIN x.labels = {L(t)} \union Given(t)
    BY <1>6, <2>1
  <2>3. Match(x)
    BY <1>5, <2>1, <2>2
  <2> QED BY <2>2, <2>3
<1>8. ASSUME NEW x \in CatalogOf(Build(doc)), Match(x)
      PROVE  \E t \in Own : x.name = TableOf(doc.types[t])
  <2>1. PICK t \in Nodes(doc) : x.name = TableOf(doc.types[t]) /\ DOMAIN x.labels = {L(t)} \union Given(t)
    BY <1>6, <1>8
  <2>2. t \in Own
    BY <1>5, <1>8, <2>1
  <2> QED BY <2>1, <2>2
<1>9. T.tables = {x.name : x \in {y \in CatalogOf(Build(doc)) : Match(y)}}
  <2> HIDE DEF Match
  <2> QED BY <1>1, <1>7, <1>8
<1> QED BY <1>9 DEF T

\* A position is known by exactly the tables its labels match, so the compiler
\* guards against one row in two places where it must.
THEOREM PositionsAlwaysKnowTheirTables == GeneratorSpec => []PositionsKnowTheirTables
<1>1. GenInv => PositionsKnowTheirTables
  BY LabelsMatchTables DEF GenInv, PositionsKnowTheirTables
<1> QED BY <1>1, GeneratorInvariant, PTL
------------------------------------------------------------------------------
runVars == <<generatorVars, checkVars>>
------------------------------------------------------------------------------
(* A graph just made. *)

LEMMA RefsAreKeys ==
  ASSUME NEW doc, NEW k \in Refs(Build(doc))
  PROVE  k = Key(k.schema, k.name)
<1> DEFINE g == Build(doc)
<1>1. PICK y \in Elements(g) : k = y.element.ref
  BY DEF Refs
<1>2. y.element \in g.vertices \/ y.element \in g.edges
  BY DEF Elements
<1>3. CASE y.element \in g.vertices
  <2>1. PICK t \in Nodes(doc) :
          y.element = [Vertex(doc.types[t]) EXCEPT !.extra = AttachInterfaceLabels(doc, t)]
    BY <1>3 DEF Build, Vertices
  <2>2. y.element.ref = TableRef(doc.types[t])
    BY <2>1 DEF Vertex
  <2> QED BY <1>1, <2>2 DEF TableRef, Key
<1>4. CASE y.element \in g.edges
  <2>1. PICK r \in Declarations(doc) : y.element.ref = Edge(doc, r).ref
    BY <1>4, EdgesAreDeclared
  <2>2. y.element.ref = EdgeTable(r.field.rel)
    BY <2>1 DEF Edge
  <2> QED BY <1>1, <2>2 DEF EdgeTable, Key
<1> QED BY <1>2, <1>3, <1>4

LEMMA ElementsAreCatalogued ==
  ASSUME NEW g, NEW y \in Elements(g)
  PROVE  \E x \in CatalogOf(g) : /\ x.alias = ElementAlias(y)
                                 /\ x.schema = Namespace(y.element.ref.schema)
                                 /\ x.name = y.element.ref.name
<1>1. \/ y.kind = "vertex" /\ y.element \in g.vertices
      \/ y.kind = "edge" /\ y.element \in g.edges
  BY DEF Elements
<1>2. ASSUME NEW v
      PROVE  LET x == CataloguedVertex(v)
             IN  x.alias = v.ref.name /\ x.schema = Namespace(v.ref.schema) /\ x.name = v.ref.name
  BY DEF CataloguedVertex, Catalogued
<1>3. ASSUME NEW e
      PROVE  LET x == CataloguedEdge(e)
             IN  x.alias = e.alias /\ x.schema = Namespace(e.ref.schema) /\ x.name = e.ref.name
  BY DEF CataloguedEdge, Catalogued
<1> QED BY <1>1, <1>2, <1>3 DEF CatalogOf, ElementAlias

\* Nothing keeps the two sides of a check apart where PostgreSQL holds what the
\* generator built, if no table is two elements.
LEMMA FreshIsComparable ==
  ASSUME NEW doc, NEW g, g = Build(doc), Generates(doc), OneElementForEachTable(CatalogOf(g))
  PROVE  Comparable(g, CatalogOf(g))
<1> DEFINE C == CatalogOf(g)
           A(x) == AlignedKey(DesiredView(g), KeyOf(x))
<1>1. \A k \in Refs(g) : k = Key(k.schema, k.name)
  BY RefsAreKeys
<1>2. ASSUME NEW j \in Refs(g), NEW k \in Refs(g), j.name = k.name, Namespace(j.schema) = Namespace(k.schema)
      PROVE  j = k
  <2>1. PICK y, w : y \in Elements(g) /\ w \in Elements(g) /\ j = y.element.ref /\ k = w.element.ref
    BY DEF Refs
  <2>2. PICK x \in C : /\ x.alias = ElementAlias(y)
                       /\ x.schema = Namespace(j.schema) /\ x.name = j.name
    BY <2>1, ElementsAreCatalogued
  <2>3. PICK z \in C : /\ z.alias = ElementAlias(w)
                       /\ z.schema = Namespace(k.schema) /\ z.name = k.name
    BY <2>1, ElementsAreCatalogued
  <2>4. x = z
    BY <1>2, <2>2, <2>3 DEF OneElementForEachTable
  <2>5. y = w
    BY <2>1, <2>2, <2>3, <2>4 DEF Generates, Built, AliasesAreUnique
  <2> QED BY <2>1, <2>5
<1>3. /\ DOMAIN DesiredView(g) = Refs(g)
      /\ \A x \in C : \E k \in Refs(g) : Stands(g, k, x)
  BY RefsAreCatalogued
<1>4. ASSUME NEW x \in C, NEW k \in Refs(g), Stands(g, k, x)
      PROVE  /\ A(x) = k
             /\ x.schema # None
             /\ KeyOf(x) \notin Refs(g) => x.schema = Public
  <2>1. x.name = k.name /\ x.schema = Namespace(k.schema)
    BY <1>4 DEF Stands
  <2>2. /\ KeyOf(x) = Key(x.schema, x.name) /\ KeyOf(x).name = x.name /\ KeyOf(x).schema = x.schema
        /\ Bare(KeyOf(x)) = Key(None, x.name)
    BY DEF KeyOf, Key, Bare
  <2>3. CASE k.schema # None
    <3>1. KeyOf(x) = k /\ x.schema # None
      BY <1>1, <2>1, <2>2, <2>3 DEF Namespace
    <3> QED BY <1>3, <3>1 DEF AlignedKey
  <2>4. CASE k.schema = None
    <3>1. x.schema = Public /\ Bare(KeyOf(x)) = k
      BY <1>1, <2>1, <2>2, <2>4 DEF Namespace
    <3>2. KeyOf(x) \in Refs(g) => KeyOf(x) = k
      BY <1>2, <2>1, <2>2, <3>1, PublicIsASchema DEF Namespace
    <3> QED BY <1>3, <3>1, <3>2, PublicIsASchema DEF AlignedKey
  <2> QED BY <2>3, <2>4
<1>5. \A x, y \in C : A(x) = A(y) => x = y
  <2> SUFFICES ASSUME NEW x \in C, NEW y \in C, A(x) = A(y) PROVE x = y
    OBVIOUS
  <2>1. PICK k \in Refs(g) : Stands(g, k, x)
    BY <1>3
  <2>2. PICK j \in Refs(g) : Stands(g, j, y)
    BY <1>3
  <2>3. A(x) = k /\ A(y) = j
    BY <1>4, <2>1, <2>2
  <2>4. k = j
    BY <2>3
  <2>5. x.schema = y.schema /\ x.name = y.name
    BY <2>1, <2>2, <2>4 DEF Stands
  <2> QED BY <2>5 DEF OneElementForEachTable
<1>6. \A x \in C : /\ x.schema # None
                   /\ KeyOf(x) \notin Refs(g) /\ Bare(KeyOf(x)) \in Refs(g) => x.schema = Public
                   /\ x.kind \in {"vertex", "edge"}
  <2>1. \A x \in C : x.kind \in {"vertex", "edge"}
    <3>1. \A v : CataloguedVertex(v).kind = "vertex"
      BY DEF CataloguedVertex, Catalogued
    <3>2. \A e : CataloguedEdge(e).kind = "edge"
      BY DEF CataloguedEdge, Catalogued
    <3> QED BY <3>1, <3>2 DEF CatalogOf
  <2> HIDE DEF C
  <2> QED BY <1>3, <1>4, <2>1
<1>7. OneLabelOnEachEdge(C)
  <2>1. \A v : CataloguedVertex(v).kind = "vertex"
    BY DEF CataloguedVertex, Catalogued
  <2>2. \A e : DOMAIN CataloguedEdge(e).labels = {e.label}
    BY DEF CataloguedEdge, Catalogued
  <2> QED BY <2>1, <2>2 DEF CatalogOf, OneLabelOnEachEdge
<1> HIDE DEF A
<1> QED BY <1>1, <1>2, <1>5, <1>6, <1>7 DEF Comparable, A
------------------------------------------------------------------------------
(* Two reads that are not of one moment. *)

\* A document with a graph does not come out clean against nothing.
LEMMA NothingIsNeverClean ==
  ASSUME NEW g, HasGraph(g), NEW labels
  PROVE  {} \notin PossibleReports(g, ElementsOf({}), labels)
<1> DEFINE want == DesiredView(g)
           actual == ActualView(ElementsOf({}), labels)
<1>1. DOMAIN actual = {}
  BY DEF ActualView, ElementsOf
<1>2. PICK k : k \in DOMAIN want
  <2>1. PICK v \in g.vertices : TRUE
    BY DEF HasGraph
  <2>2. [kind |-> "vertex", element |-> v] \in Elements(g)
    BY DEF Elements
  <2>3. v.ref \in Refs(g)
    BY <2>2 DEF Refs
  <2> QED BY <2>3, RefsAreCatalogued
<1> HIDE DEF want, actual
<1>3. \A got \in Align(want, actual) : DOMAIN got = {}
  <2>1. \A S \in Survivors(want, actual) : S = {}
    BY <1>1 DEF Survivors
  <2> QED BY <2>1 DEF Align
<1>4. ASSUME NEW got \in Align(want, actual)
      PROVE  Check(want, got) # {}
  <2>1. Finding("MissingElement", k, None) \in Check(want, got)
    BY <1>2, <1>3 DEF Check
  <2> QED BY <2>1
<1> QED BY <1>4 DEF PossibleReports, want, actual

\* An element the label query did not see yet has no label, and every element of
\* the document has one.
LEMMA CleanMeansLabelled ==
  ASSUME NEW g, NEW elements, Comparable(g, elements), NEW labels,
         {} \in PossibleReports(g, ElementsOf(elements), labels), NEW x \in elements
  PROVE  ElementView(ReflectedLabels(x, labels)).labels # {}
<1> DEFINE want == DesiredView(g)
           actual == ActualView(ElementsOf(elements), labels)
           k == AlignedKey(want, KeyOf(x))
<1>1. PICK got \in Align(want, actual) : Check(want, got) = {}
  BY DEF PossibleReports
<1>2. DOMAIN actual = Keys(elements) /\ actual[KeyOf(x)] = ElementView(ReflectedLabels(x, labels))
  BY ViewOfElements
<1>3. want = DesiredView(g)
  OBVIOUS
<1>4. /\ DOMAIN want = Refs(g)
      /\ \A j \in Refs(g) : \E c : Stands(g, j, c)
      /\ \A j \in Refs(g) : \A c : Stands(g, j, c) => want[j] = Seen(c)
  BY WantedIsCatalogued
<1> HIDE DEF want, actual
<1>5. k \in DOMAIN got /\ got[k] = actual[KeyOf(x)]
  <2>1. /\ DOMAIN got = {AlignedKey(want, KeyOf(y)) : y \in elements}
        /\ \A y \in elements : got[AlignedKey(want, KeyOf(y))] = actual[KeyOf(y)]
    BY <1>1, <1>2, <1>3, NothingIsLost
  <2> QED BY <2>1
<1>6. k \in DOMAIN want
  <2>1. k \notin DOMAIN want => Finding("UnexpectedElement", k, None) \in Check(want, got)
    BY <1>5 DEF Check
  <2> QED BY <1>1, <2>1
<1>7. want[k].labels = got[k].labels
  <2>1. CheckElement(k, want[k], got[k]) = {}
    BY <1>1, <1>5, <1>6 DEF Check
  <2> QED BY <2>1 DEF CheckElement
<1>8. PICK c : Stands(g, k, c) /\ want[k] = Seen(c)
  BY <1>4, <1>6
<1>9. DOMAIN c.labels # {}
  <2>1. c \in CatalogOf(g)
    BY <1>8 DEF Stands
  <2>2. \A v : v.label \in DOMAIN CataloguedVertex(v).labels
    BY DEF CataloguedVertex, Catalogued
  <2>3. \A e : e.label \in DOMAIN CataloguedEdge(e).labels
    BY DEF CataloguedEdge, Catalogued
  <2> QED BY <2>1, <2>2, <2>3 DEF CatalogOf
<1> QED BY <1>2, <1>5, <1>7, <1>8, <1>9 DEF Seen, ElementView

\* The one element an ALTER changes keeps its kind and its table.
LEMMA RelabellingIsUnseen ==
  ASSUME NEW elements, NEW x \in elements, NEW labels
  PROVE  ElementsOf(Relabelled(elements, x, labels)) = ElementsOf(elements)
<1> DEFINE R(y) == [kind |-> y.kind, schema |-> y.schema, name |-> y.name]
           new == [schema |-> x.schema, name |-> x.name, kind |-> x.kind, alias |-> x.alias,
                   labels |-> labels, ends |-> x.ends]
<1>1. R(new) = R(x)
  OBVIOUS
<1>2. Relabelled(elements, x, labels) = (elements \ {x}) \union {new}
  BY DEF Relabelled
<1> HIDE DEF R, new
<1>3. {R(y) : y \in (elements \ {x}) \union {new}} = {R(y) : y \in elements}
  BY <1>1
<1> QED BY <1>2, <1>3 DEF ElementsOf, R

\* An ALTER drops elements, adds one, or changes the labels of one.
LEMMA KindsOfAlter ==
  ASSUME NEW a, NEW columns, NEW b \in Drifted(a, columns)
  PROVE  \/ b \subseteq a
         \/ \E x \in a : \E labels : b = Relabelled(a, x, labels)
         \/ \E new : b = a \union {new}
<1>1. CASE b \in DropElement(a)
  BY <1>1 DEF DropElement
<1>2. CASE b \in AddElement(a)
  BY <1>2 DEF AddElement
<1>3. CASE b \in DropProperty(a)
  <2> DEFINE New(x, l, p) == Relabelled(a, x, [x.labels EXCEPT ![l] = @ \ {p}])
  <2>1. DropProperty(a) =
          UNION {UNION {{New(x, l, p) : p \in x.labels[l]} :
                        l \in {m \in DOMAIN x.labels : Alone(a, m)}} : x \in a}
    BY DEF DropProperty
  <2>2. \A x, l, p : \E labels : New(x, l, p) = Relabelled(a, x, labels)
    OBVIOUS
  <2> HIDE DEF New
  <2> QED BY <1>3, <2>1, <2>2
<1>4. CASE b \in AddProperty(a, columns)
  <2> DEFINE New(x, l, p) == Relabelled(a, x, [x.labels EXCEPT ![l] = @ \union {p}])
  <2>1. AddProperty(a, columns) =
          UNION {UNION {{New(x, l, p) : p \in columns[Key(x.schema, x.name)] \ x.labels[l]} :
                        l \in {m \in DOMAIN x.labels : Alone(a, m)}} :
                 x \in {y \in a : Key(y.schema, y.name) \in DOMAIN columns}}
    BY DEF AddProperty
  <2>2. \A x, l, p : \E labels : New(x, l, p) = Relabelled(a, x, labels)
    OBVIOUS
  <2> HIDE DEF New
  <2> QED BY <1>4, <2>1, <2>2
<1>5. CASE b \in AddLabel(a)
  BY <1>5 DEF AddLabel
<1>6. CASE b \in DropLabel(a)
  BY <1>6 DEF DropLabel
<1> QED BY <1>1, <1>2, <1>3, <1>4, <1>5, <1>6 DEF Drifted

\* The labels read before one ALTER and the elements read after it: a clean
\* report of the two is true of the one or of the other.
LEMMA OneAlterBetween ==
  ASSUME NEW g, NEW a, NEW b, NEW columns, b \in Drifted(a, columns),
         Comparable(g, a), Comparable(g, b),
         {} \in PossibleReports(g, ElementsOf(b), LabelsOf(a))
  PROVE  Conforms(g, a) \/ Conforms(g, b)
<1>1. CASE b \subseteq a
  <2>1. ShownAsTheyAre(b, LabelsOf(a))
    BY <1>1, LabelsReadBack DEF ShownAsTheyAre
  <2> QED BY <2>1, ReportsAreExact
<1>2. CASE \E x \in a : \E labels : b = Relabelled(a, x, labels)
  <2>1. ElementsOf(b) = ElementsOf(a)
    BY <1>2, RelabellingIsUnseen
  <2> QED BY <2>1, CheckIsExact DEF ReportsOn
<1>3. CASE \E new : b = a \union {new}
  <2>1. PICK new : b = a \union {new}
    BY <1>3
  <2>2. CASE KeyOf(new) \in Keys(a)
    <3>1. PICK y \in a : KeyOf(y) = KeyOf(new)
      BY <2>2 DEF Keys
    <3>2. y = new
      BY <2>1, <3>1, KeysTellElementsApart
    <3>3. b = a
      BY <2>1, <3>1, <3>2
    <3> QED BY <3>3, CheckIsExact DEF ReportsOn
  <2>3. CASE KeyOf(new) \notin Keys(a)
    <3>1. DOMAIN LabelsOf(a) = Keys(a)
      BY DEF LabelsOf, Keys, KeyOf
    <3>2. ReflectedLabels(new, LabelsOf(a)) = <<>>
      <4>1. KeyOf(new) \notin DOMAIN LabelsOf(a) /\ DOMAIN <<>> = {}
        BY <2>3, <3>1
      <4> HIDE DEF LabelsOf
      <4> QED BY <4>1 DEF ReflectedLabels, KeyOf
    <3>3. ElementView(ReflectedLabels(new, LabelsOf(a))).labels = {}
      BY <3>2 DEF ElementView
    <3> QED BY <2>1, <3>3, CleanMeansLabelled
  <2> QED BY <2>2, <2>3
<1> QED BY <1>1, <1>2, <1>3, KindsOfAlter
------------------------------------------------------------------------------
(* The invariant. *)

RunInv == GenInv /\ CheckInv

LEMMA RunStarts == CheckInit => RunInv
BY GeneratorStarts
   DEF CheckInit, Written, Unchecked, RunInv, CheckInv, CatalogInv, LookedUpInv, LabelsInv, ReflectedInv,
       Checking, Reports, Done

LEMMA GeneratingPreserves ==
  ASSUME RunInv, Generating, UNCHANGED checkVars
  PROVE  RunInv'
<1> USE DEF RunInv, CheckInv
<1>1. GenInv'
  BY GeneratorSteps
<1>2. CatalogInv' /\ ~Checking' /\ stage' # "reflected" /\ stage' # "done"
  <2>1. CASE ParseDocument
    BY <2>1 DEF ParseDocument, CatalogInv, Checking, checkVars
  <2>2. CASE BuildGraph
    BY <2>2 DEF BuildGraph, CatalogInv, Checking, checkVars
  <2>3. CASE CreateGraph
    <3>1. graph = Build(scene.doc) /\ Generates(scene.doc) /\ UNCHANGED <<scene, graph>>
      BY <2>3 DEF CreateGraph, GenInv
    <3>2. catalog' # None => /\ Generated'
                             /\ catalog'.oid \in Nat
                             /\ catalog'.elements = CatalogOf(graph)'
      BY <2>3, <3>1 DEF CreateGraph, CatalogInv, Generated
    <3> QED BY <2>3, <3>2 DEF CreateGraph, CatalogInv, Checking, checkVars
  <2> QED BY <2>1, <2>2, <2>3 DEF Generating
<1> QED BY <1>1, <1>2 DEF LookedUpInv, LabelsInv, ReflectedInv, Checking, Reports, Done

\* A check leaves the generator's part as it is.
LEMMA ChecksKeepGenInv ==
  ASSUME GenInv, Checks
  PROVE  GenInv'
<1>1. UNCHANGED <<scene, graph>> /\ (stage' = stage \/ stage' \notin {"parsed", "generated", "live", "rejected"})
  BY DEF Checks, Alter, LookUp, ReadLabels, ReadElements, CheckConformance
<1>2. graph # None \/ stage = "live" => Accepted(scene.doc) /\ Generates(scene.doc) /\ graph = Build(scene.doc)
  BY DEF GenInv
<1> QED BY <1>1, <1>2 DEF GenInv, Taken, TablesAreNew, AllTables

\* Whoever alters the graph counts as one, records what the graph becomes, and
\* leaves under the oid that was looked up nothing or what one ALTER makes.
LEMMA AlterPreserves ==
  ASSUME CheckInv, Alter
  PROVE  CheckInv'
<1> USE DEF CheckInv
<1>1. /\ catalog # None /\ UNCHANGED <<scene, stage, graph, reflected, reply>>
      /\ Generated /\ catalog.oid \in Nat /\ Generated'
  BY DEF Alter, CatalogInv, Generated
<1>2. PICK when \in {"before", "during"} :
        /\ when = IF Checking THEN "during" ELSE "before"
        /\ altered' = [altered EXCEPT ![when] = @ + 1]
  BY DEF Alter
<1>3. /\ altered' \in [before : Nat, during : Nat]
      /\ ~Untouched'
      /\ Checking => altered'.during = altered.during + 1
      /\ ~Checking => altered'.during = altered.during
  BY <1>2 DEF CatalogInv, Untouched
<1>4. \/ catalog' = None
      \/ catalog' = [oid |-> catalog.oid + 1, elements |-> CatalogOf(graph)]
      \/ \E elements \in Drifted(catalog.elements, AllColumns(graph)) :
           catalog' = [oid |-> catalog.oid, elements |-> elements]
  BY DEF Alter
<1>5. /\ catalog' # None => catalog'.oid \in Nat
      /\ catalog' # None /\ catalog'.oid = catalog.oid =>
           catalog'.elements \in Drifted(catalog.elements, AllColumns(graph))
  BY <1>1, <1>4
<1>6. held' = IF Checking /\ catalog' # None THEN held \union {catalog'.elements} ELSE held
  BY DEF Alter
<1>7. CatalogInv'
  BY <1>1, <1>3, <1>5 DEF CatalogInv, Alter, Checking
<1>8. LookedUpInv'
  <2> SUFFICES ASSUME Checking PROVE LookedUpInv'
    BY <1>1 DEF LookedUpInv, Checking
  <2>1. altered'.during # 0
    <3>1. altered.during \in Nat /\ altered'.during = altered.during + 1
      BY <1>3 DEF CatalogInv
    <3> QED BY <3>1
  <2>2. reflected.oid \in Nat
    BY DEF LookedUpInv
  <2>3. catalog' # None => catalog'.elements \in held'
    BY <1>6
  <2> QED BY <1>1, <2>1, <2>2, <2>3 DEF LookedUpInv
<1>9. ASSUME stage = "labels read", altered'.during <= 1
      PROVE  \E a \in held' \union {{}} :
               /\ reflected.labels = LabelsOf(a)
               /\ OneStepApart(a, Found(catalog, reflected.oid))'
               /\ altered'.during = 0 => a \in held'
  <2>1. Checking
    BY <1>9 DEF Checking
  <2>2. altered.during \in Nat /\ altered'.during = altered.during + 1
    BY <1>3, <2>1 DEF CatalogInv
  <2>3. altered.during = 0 /\ altered'.during # 0 /\ altered.during <= 1
    <3>1. altered'.during <= 1
      BY <1>9
    <3> QED BY <2>2, <3>1
  <2>4. catalog.oid = reflected.oid /\ held = {catalog.elements}
    BY <2>1, <2>3 DEF LookedUpInv
  <2>5. PICK a \in held : reflected.labels = LabelsOf(a)
    BY <1>9, <2>3 DEF LabelsInv
  <2>6. PICK b : b = Found(catalog', reflected.oid)
    OBVIOUS
  <2>7. b = {} \/ (b \in held' /\ b \in Drifted(a, AllColumns(graph)))
    <3>1. catalog' # None /\ catalog'.oid = reflected.oid => b = catalog'.elements
      BY <2>6 DEF Found
    <3>2. ~(catalog' # None /\ catalog'.oid = reflected.oid) => b = {}
      BY <2>6 DEF Found
    <3> QED BY <1>5, <1>6, <2>1, <2>4, <2>5, <3>1, <3>2
  <2>8. a \in held'
    BY <1>6, <2>5
  <2>9. AllColumns(graph)' = AllColumns(graph) /\ Found(catalog, reflected.oid)' = b
    BY <1>1, <2>6 DEF AllColumns, AllTables, Found
  <2>10. OneStepApart(a, Found(catalog, reflected.oid))'
    BY <2>7, <2>8, <2>9 DEF OneStepApart
  <2> QED BY <2>3, <2>5, <2>8, <2>10
<1>10. LabelsInv'
  <2>1. stage' = stage /\ reflected' = reflected
    BY <1>1
  <2> QED BY <1>9, <2>1 DEF LabelsInv
<1>11. ReflectedInv'
  <2>1. stage # "reflected" /\ stage # "done"
    BY DEF Alter, Checking
  <2> QED BY <1>1, <2>1 DEF ReflectedInv, Reports, Done
<1> QED BY <1>7, <1>8, <1>10, <1>11

LEMMA LookUpPreserves ==
  ASSUME GenInv, CheckInv, LookUp
  PROVE  CheckInv'
<1> USE DEF CheckInv
<1>1. UNCHANGED <<scene, graph, catalog, altered>> /\ stage = "live" /\ altered.during = 0
  BY DEF LookUp, CatalogInv
<1>2. CASE catalog = None
  <2>1. reply' = Refused /\ stage' = "done" /\ UNCHANGED <<reflected, held>>
    BY <1>2 DEF LookUp
  <2> QED BY <1>1, <1>2, <2>1
          DEF CatalogInv, LookedUpInv, LabelsInv, ReflectedInv, Checking, Reports, Done, Untouched, Generated, Refused
<1>3. CASE catalog # None
  <2>1. /\ reflected' = [Nothing EXCEPT !.oid = catalog.oid]
        /\ held' = {catalog.elements} /\ stage' = "looked up" /\ UNCHANGED reply
    BY <1>3 DEF LookUp
  <2>2. reflected'.oid = catalog.oid /\ DOMAIN reflected' = DOMAIN Nothing
    BY <2>1 DEF Nothing
  <2>3. CatalogInv'
    BY <1>1, <1>3, <2>1, <2>2 DEF CatalogInv, Untouched, Generated, Nothing
  <2>4. LookedUpInv'
    BY <1>1, <1>3, <2>1, <2>2 DEF CatalogInv, LookedUpInv, Checking, Generated
  <2> QED BY <2>1, <2>3, <2>4 DEF LabelsInv, ReflectedInv, Reports, Done
<1> QED BY <1>2, <1>3

LEMMA ReadLabelsPreserves ==
  ASSUME CheckInv, ReadLabels
  PROVE  CheckInv'
<1> USE DEF CheckInv
<1>1. /\ UNCHANGED <<scene, graph, catalog, altered, held, reply>>
      /\ stage = "looked up" /\ stage' = "labels read"
      /\ reflected' = [reflected EXCEPT !.labels = ReflectLabels(catalog, reflected.oid)]
  BY DEF ReadLabels
<1>2. /\ reflected'.oid = reflected.oid /\ DOMAIN reflected' = DOMAIN Nothing
      /\ reflected'.labels = LabelsOf(Found(catalog, reflected.oid))
  BY <1>1 DEF CatalogInv, Nothing, ReflectLabels
<1>3. CatalogInv'
  BY <1>1, <1>2 DEF CatalogInv, Untouched, Generated, Nothing
<1>4. LookedUpInv'
  BY <1>1, <1>2 DEF LookedUpInv, Checking, Generated
<1>5. LabelsInv'
  <2> DEFINE a == Found(catalog, reflected.oid)
  <2>1. a \in held \union {{}} /\ (altered.during = 0 => a \in held)
    BY <1>1 DEF Found, LookedUpInv, Checking
  <2>2. Found(catalog, reflected.oid)' = a
    BY <1>1, <1>2 DEF Found
  <2> HIDE DEF a
  <2>3. reflected'.labels = LabelsOf(a)
    BY <1>2 DEF a
  <2> QED BY <1>1, <2>1, <2>2, <2>3 DEF LabelsInv, OneStepApart
<1> QED BY <1>1, <1>3, <1>4, <1>5 DEF ReflectedInv, Reports, Done

LEMMA ReadElementsPreserves ==
  ASSUME CheckInv, ReadElements
  PROVE  CheckInv'
<1> USE DEF CheckInv
<1>1. /\ UNCHANGED <<scene, graph, catalog, altered, held, reply>>
      /\ stage = "labels read" /\ stage' = "reflected"
      /\ reflected' = [reflected EXCEPT !.elements = ReflectElements(catalog, reflected.oid)]
  BY DEF ReadElements
<1>b. PICK b : b = Found(catalog, reflected.oid)
  OBVIOUS
<1>2. /\ reflected'.labels = reflected.labels /\ DOMAIN reflected' = DOMAIN Nothing
      /\ reflected'.elements = ElementsOf(b)
  BY <1>1, <1>b DEF CatalogInv, Nothing, ReflectElements
<1>3. CatalogInv'
  BY <1>1, <1>2 DEF CatalogInv, Untouched, Generated, Nothing
<1>4. Generated' /\ Untouched' = Untouched
  BY <1>1 DEF LookedUpInv, Checking, Generated, Untouched
<1>5. ASSUME altered'.during <= 1
      PROVE  \E a, c \in held \union {{}} :
               /\ reflected'.labels = LabelsOf(a) /\ reflected'.elements = ElementsOf(c)
               /\ OneStepApart(a, c)'
               /\ Untouched => a = CatalogOf(graph) /\ c = a
  <2>1. PICK a \in held \union {{}} :
          /\ reflected.labels = LabelsOf(a)
          /\ OneStepApart(a, b)
          /\ altered.during = 0 => a \in held
    BY <1>1, <1>5, <1>b DEF LabelsInv
  <2>2. b \in held \union {{}}
    BY <1>1, <1>b DEF Found, LookedUpInv, Checking
  <2>3. OneStepApart(a, b)'
    <3>1. AllColumns(graph)' = AllColumns(graph) /\ held' = held
      BY <1>1 DEF AllColumns, AllTables
    <3> QED BY <2>1, <3>1 DEF OneStepApart
  <2>4. Untouched => a = CatalogOf(graph) /\ b = a
    <3> SUFFICES ASSUME Untouched PROVE a = CatalogOf(graph) /\ b = a
      OBVIOUS
    <3>1. altered.during = 0
      BY DEF Untouched
    <3>2. catalog # None /\ catalog.oid = reflected.oid /\ held = {catalog.elements}
      BY <1>1, <3>1 DEF LookedUpInv, Checking
    <3>3. a = catalog.elements /\ b = catalog.elements
      BY <1>b, <2>1, <3>1, <3>2 DEF Found
    <3> QED BY <3>2, <3>3 DEF CatalogInv
  <2> QED BY <1>2, <2>1, <2>2, <2>3, <2>4
<1>6. ReflectedInv'
  <2>1. ~Done' /\ UNCHANGED <<graph, held>>
    BY <1>1 DEF Done
  <2> QED BY <1>4, <1>5, <2>1 DEF ReflectedInv
<1> QED BY <1>1, <1>3, <1>6 DEF LookedUpInv, LabelsInv, Checking

LEMMA ComparingPreserves ==
  ASSUME CheckInv, CheckConformance
  PROVE  CheckInv'
<1> USE DEF CheckInv
<1>1. /\ UNCHANGED <<scene, graph, catalog, reflected, altered, held>>
      /\ stage = "reflected" /\ stage' = "done"
  BY DEF CheckConformance
<1>2. PICK findings \in PossibleReports(graph, reflected.elements, reflected.labels) :
        reply' = [findings |-> findings]
  BY DEF CheckConformance
<1>3. CatalogInv'
  BY <1>1 DEF CatalogInv, Untouched, Generated
<1>4. ReflectedInv'
  BY <1>1, <1>2 DEF ReflectedInv, Generated, OneStepApart, Untouched, AllColumns, AllTables, Done
<1> QED BY <1>1, <1>3, <1>4 DEF LookedUpInv, LabelsInv, Checking

LEMMA RunInvariant == CheckSpec => []RunInv
<1>1. RunInv /\ [CheckNext]_runVars => RunInv'
  <2> SUFFICES ASSUME RunInv, [CheckNext]_runVars
               PROVE  RunInv'
    OBVIOUS
  <2>1. CASE Generating /\ UNCHANGED checkVars
    BY <2>1, GeneratingPreserves
  <2>2. CASE Checks
    <3>1. GenInv'
      BY <2>2, ChecksKeepGenInv DEF RunInv
    <3>2. CheckInv'
      BY <2>2, AlterPreserves, LookUpPreserves, ReadLabelsPreserves, ReadElementsPreserves, ComparingPreserves
         DEF RunInv, Checks
    <3> QED BY <3>1, <3>2 DEF RunInv
  <2>3. CASE UNCHANGED runVars
    <3>1. UNCHANGED <<scene, stage, graph, catalog, reflected, altered, held, reply>>
      BY <2>3 DEF runVars, generatorVars, checkVars
    <3>2. GenInv'
      BY <3>1 DEF RunInv, GenInv, Taken, TablesAreNew, AllTables
    <3>3. Generated' = Generated /\ Untouched' = Untouched /\ Checking' = Checking /\ Done' = Done
      BY <3>1 DEF Generated, Untouched, Checking, Done
    <3>4. CatalogInv' /\ LookedUpInv'
      BY <3>1, <3>3 DEF RunInv, CheckInv, CatalogInv, LookedUpInv
    <3>5. \A a, b : OneStepApart(a, b)' = OneStepApart(a, b)
      BY <3>1 DEF OneStepApart, AllColumns, AllTables
    <3>6. LabelsInv'
      BY <3>1, <3>5 DEF RunInv, CheckInv, LabelsInv, Found, OneStepApart, AllColumns, AllTables
    <3>7. ReflectedInv'
      BY <3>1, <3>3, <3>5 DEF RunInv, CheckInv, ReflectedInv, Reports
    <3> QED BY <3>2, <3>4, <3>6, <3>7 DEF RunInv, CheckInv
  <2> QED BY <2>1, <2>2, <2>3 DEF CheckNext
<1> QED BY <1>1, RunStarts, PTL DEF CheckSpec, runVars

\* At every moment of every check, on every document and with everybody altering
\* the graph as they like: what has been read is what the graph looked up was,
\* at one moment or on two sides of the one alteration there was.
THEOREM CheckInvariant == CheckSpec => []CheckInv
<1>1. RunInv => CheckInv
  BY DEF RunInv
<1> QED BY <1>1, RunInvariant, PTL
------------------------------------------------------------------------------
(* What a check is worth. *)

\* Every graph just made, in tables of one element each, has a clean report.
THEOREM FreshGraphsConform == CheckSpec => []FreshGraphConforms
<1>1. RunInv => FreshGraphConforms
  <2> SUFFICES ASSUME RunInv, Reports, Untouched, OneElementForEachTable(CatalogOf(graph))
               PROVE  reply.findings = {}
    BY DEF FreshGraphConforms, Untouched
  <2>1. Generated /\ altered.during <= 1
    BY DEF RunInv, CheckInv, ReflectedInv, Untouched
  <2>2. /\ reflected.labels = LabelsOf(CatalogOf(graph))
        /\ reflected.elements = ElementsOf(CatalogOf(graph))
    BY <2>1 DEF RunInv, CheckInv, ReflectedInv
  <2>3. PICK findings \in PossibleReports(graph, reflected.elements, reflected.labels) :
          reply = [findings |-> findings]
    BY DEF RunInv, CheckInv, ReflectedInv, Reports
  <2>4. Comparable(graph, CatalogOf(graph))
    BY <2>1, FreshIsComparable DEF Generated
  <2>5. findings = {}
    BY <2>2, <2>3, <2>4, CheckIsExact DEF ReportsOn, Conforms
  <2> QED BY <2>3, <2>5
<1> QED BY <1>1, RunInvariant, PTL

\* A clean report is true of some moment of the check, whatever the document and
\* the graph, although somebody may alter the graph once between the reads, or
\* drop it and make it again.
THEOREM CleanReportsAreTrue == CheckSpec => []CleanReportMeansConforming
<1>1. RunInv => CleanReportMeansConforming
  <2> SUFFICES ASSUME RunInv, Reports, reply.findings = {}, altered.during <= 1,
                      \A elements \in held : Comparable(graph, elements)
               PROVE  \E elements \in held : Conforms(graph, elements)
    BY DEF CleanReportMeansConforming
  <2>1. HasGraph(graph)
    BY DEF RunInv, CheckInv, ReflectedInv, Generated
  <2>2. PICK a, b : /\ a \in held \union {{}} /\ b \in held \union {{}}
                    /\ reflected.labels = LabelsOf(a) /\ reflected.elements = ElementsOf(b)
                    /\ OneStepApart(a, b)
    BY DEF RunInv, CheckInv, ReflectedInv
  <2>3. {} \in PossibleReports(graph, ElementsOf(b), LabelsOf(a))
    BY <2>2 DEF RunInv, CheckInv, ReflectedInv, Reports
  <2>4. b # {}
    BY <2>1, <2>3, NothingIsNeverClean
  <2>5. CASE a = b
    <3>1. a \in held
      BY <2>2, <2>4, <2>5
    <3> QED BY <2>3, <2>5, <3>1, CheckIsExact DEF ReportsOn
  <2>6. CASE a \in held /\ b \in held /\ b \in Drifted(a, AllColumns(graph))
    BY <2>3, <2>6, OneAlterBetween
  <2> QED BY <2>2, <2>4, <2>5, <2>6 DEF OneStepApart
<1> QED BY <1>1, RunInvariant, PTL
================================================================================
