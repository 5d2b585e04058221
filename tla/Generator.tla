------------------------------ MODULE Generator ------------------------------
(***************************************************************************)
(* A document on its way from its text to a live graph: sdl refuses it or  *)
(* not, the generator builds and checks the graph, and a migration makes   *)
(* its tables and hands the statement to PostgreSQL.  A scene fixes the    *)
(* document, doc, and the tables that are somebody else's, foreign.        *)
(***************************************************************************)
EXTENDS GraphModel

CONSTANTS Scenes        \* a sequence of sets of scenes, each checked by itself

VARIABLES
  scene,     \* what is being asked
  stage,     \* how far it has come
  graph,     \* the graph the generator built
  catalog    \* the graph in the database, [oid, elements], or None

generatorVars == <<scene, stage, graph, catalog>>

Written == /\ scene \in UNION Range(Scenes)
           /\ stage = "written"
           /\ graph = None
           /\ catalog = None

ParseDocument ==
  /\ stage = "written"
  /\ stage' = IF Accepted(scene.doc) THEN "parsed" ELSE "refused"
  /\ UNCHANGED <<scene, graph, catalog>>

\* (wrong) The graph is handed out beside the error.
BuildGraphAnyway ==
  /\ stage = "parsed"
  /\ graph' = Build(scene.doc)
  /\ stage' = IF Generates(scene.doc) THEN "generated" ELSE "refused"
  /\ UNCHANGED <<scene, catalog>>

BuildGraph ==
  /\ stage = "parsed"
  /\ IF Generates(scene.doc)
     THEN graph' = Build(scene.doc) /\ stage' = "generated"
     ELSE stage' = "refused" /\ UNCHANGED graph
  /\ UNCHANGED <<scene, catalog>>

\* Every table: those made here, and those there already.
AllTables(g) ==
  LET made == CreatedTables(g)
  IN  [k \in DOMAIN made \union DOMAIN scene.foreign |->
         IF k \in DOMAIN made THEN made[k] ELSE scene.foreign[k]]

AllColumns(g) == [k \in DOMAIN AllTables(g) |-> DOMAIN AllTables(g)[k].types]

\* No table is made twice, or where there is one.
TablesAreNew(g) ==
  /\ \A x, y \in Owned(g) : KeyOfElement(x) = KeyOfElement(y) => x = y
  /\ \A x \in Owned(g) : KeyOfElement(x) \notin DOMAIN scene.foreign

Taken(g) == TablesAreNew(g) /\ PostgresTakes(g, AllTables(g))

\* A graph of no vertices is no graph: no migration has a statement for it.
HasGraph(g) == g.vertices # {}

CreateGraph ==
  /\ stage = "generated"
  /\ \/ /\ HasGraph(graph)
        /\ Taken(graph)
        /\ catalog' = [oid |-> 1, elements |-> CatalogOf(graph)]
        /\ stage' = "live"
     \/ /\ HasGraph(graph)
        /\ ~Taken(graph)
        /\ stage' = "rejected"
        /\ UNCHANGED catalog
     \/ /\ ~HasGraph(graph)
        /\ stage' = "live"
        /\ UNCHANGED catalog
  /\ UNCHANGED <<scene, graph>>

Generating == ParseDocument \/ BuildGraph \/ CreateGraph
------------------------------------------------------------------------------
(* What the documents and the tables are asked to respect.                 *)

\* The table of a relationship and the types at its ends.
RelationshipOf(t, f) ==
  [label |-> f.rel.label, ref |-> EdgeTable(f.rel),
   src |-> IF f.rel.dir = "IN" THEN f.type ELSE t,
   dst |-> IF f.rel.dir = "IN" THEN t ELSE f.type]

Relationships(doc) ==
  UNION {{RelationshipOf(t, f) : f \in {g \in Range(doc.types[t].fields) : g.rel # None}} : t \in Nodes(doc)}

\* A label leads from one type to one other by one table.
LabelsTellRelationshipsApart(doc) ==
  \A r, s \in Relationships(doc) :
    r.label = s.label => /\ r.ref = s.ref => r = s
                         /\ r.src = s.src /\ r.dst = s.dst => r = s

\* No two types, and no type and interface, share a label they did not get from
\* an interface.
LabelsTellTypesApart(doc) ==
  \A t, u \in Nodes(doc) \union LabelledInterfaces(doc) : doc.types[t].label = doc.types[u].label => t = u

\* What identifies a row is a column of its table, under the name edges know it
\* by, and of a table made here the primary key.  sdl takes an id that is
\* @ignored or kept in a column of another name; then it is not.
RowsAreIdentified(doc) ==
  \A t \in Nodes(doc) :
    LET v == Vertex(doc.types[t])
    IN  /\ Range(IdentityColumns(doc.types[t])) \subseteq Range(v.props)
        /\ v.unmanaged \/ v.primary

\* What an element maps rather than makes is there: a table somebody else made,
\* with the columns the document gives it and of the types it gives them, and
\* with a primary key where the document declares none.  Of a mapped edge the
\* document gives no types, and the generator leaves them to PostgreSQL: they
\* are those of the same properties elsewhere in the graph.
MappedTablesFit(g) ==
  LET tables == AllTables(g)
      Types(x) == tables[KeyOfElement(x)].types
      mapped == Elements(g) \ Owned(g)
  IN  /\ \A x \in mapped :
           /\ KeyOfElement(x) \in DOMAIN tables
           /\ Range(x.element.props) \subseteq DOMAIN Types(x)
           /\ \A c \in DOMAIN x.element.types : Types(x)[c] = x.element.types[c]
           /\ tables[KeyOfElement(x)].primary \/ (x.kind = "vertex" /\ x.element.key # <<>>)
      /\ \A x \in {z \in mapped : z.kind = "edge"}, y \in Elements(g) :
           \A p \in Range(x.element.props) \intersect Range(y.element.props) :
             Types(x)[p] = Types(y)[p]
------------------------------------------------------------------------------
RelationshipsAreEdges(doc, g) ==
  \A r \in Relationships(doc) :
    \E e \in g.edges :
      /\ e.label = r.label /\ e.ref = r.ref
      /\ e.src.table = TableOf(doc.types[r.src]) /\ e.src.ref = IdentityColumns(doc.types[r.src])
      /\ e.dst.table = TableOf(doc.types[r.dst]) /\ e.dst.ref = IdentityColumns(doc.types[r.dst])

\* Every relationship the document declares is an edge between the tables of
\* its two types, by their keys, in the direction it says: none is dropped, and
\* none leads elsewhere (collectEdges).
RelationshipsConnect ==
  graph # None /\ LabelsTellRelationshipsApart(scene.doc) => RelationshipsAreEdges(scene.doc, graph)

\* generator.go says of validateNothingDropped that a mapping that loses an
\* element for any reason is caught there: so every declared relationship is an
\* edge between its two types, whatever the labels.
DeclaredRelationshipsConnect == graph # None => RelationshipsAreEdges(scene.doc, graph)

\* The tables a position is known by, which decide where the compiler guards
\* against one row in two places (overlaps), are those its labels match.
PositionsKnowTheirTables ==
  graph # None /\ LabelsTellTypesApart(scene.doc) =>
    \A p \in Positions(scene.doc) :
      TargetOf(scene.doc, p).tables =
        {x.name : x \in {y \in CatalogOf(graph) :
                           y.kind = "vertex" /\ DOMAIN y.labels \intersect TargetOf(scene.doc, p).labels # {}}}

\* PostgreSQL takes the graph the generator has checked: over tables that are
\* what the document says of them, no graph that validateInvariants and
\* validateLabelAlignment let pass has an alias, a label, a property, its type
\* or an end of an edge that CREATE PROPERTY GRAPH would refuse.
PostgresTakesTheGraph ==
  /\ graph # None
  /\ RowsAreIdentified(scene.doc) /\ TablesAreNew(graph) /\ MappedTablesFit(graph)
  => stage # "rejected"
==============================================================================
