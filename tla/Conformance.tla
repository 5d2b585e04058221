----------------------------- MODULE Conformance -----------------------------
(***************************************************************************)
(* gopgql check: what the catalogs say of the graph, read in three         *)
(* statements, against what the document describes.  An element is reduced *)
(* to its table, its labels and its properties.                            *)
(*                                                                         *)
(* The catalogs hold [oid, elements] under the graph's name, or None.      *)
(***************************************************************************)
EXTENDS GraphModel

Key(schema, name) == [schema |-> schema, name |-> name]

\* What the catalogs have under an oid: nothing once the graph is dropped, also
\* when it was made again.
Found(graph, oid) ==
  IF graph = None THEN {}
  ELSE IF graph.oid # oid THEN {}
  ELSE graph.elements

\* reflectLabels: table -> its labels and the properties under each.
LabelsOf(elements) ==
  [k \in {Key(x.schema, x.name) : x \in elements} |->
     [l \in UNION {DOMAIN x.labels : x \in {y \in elements : Key(y.schema, y.name) = k}} |->
        UNION {x.labels[l] : x \in {y \in elements : Key(y.schema, y.name) = k /\ l \in DOMAIN y.labels}}]]

ReflectLabels(graph, oid) == LabelsOf(Found(graph, oid))

\* reflectElements: [kind, schema, name].
ElementsOf(elements) == {[kind |-> x.kind, schema |-> x.schema, name |-> x.name] : x \in elements}

\* (wrong) The elements are found by the graph's name.
ReflectElementsByName(graph, oid) == IF graph = None THEN {} ELSE ElementsOf(graph.elements)

ReflectElements(graph, oid) == ElementsOf(Found(graph, oid))

\* In the order of the statement.
FirstOf(S) == CHOOSE l \in S : \A m \in S \ {l} : Precedes(l, m)

\* Reflect keeps every label of a vertex, the first of an edge.
ReflectedLabels(x, labels) ==
  LET k == Key(x.schema, x.name)
      own == IF k \in DOMAIN labels THEN labels[k] ELSE <<>>
      first == FirstOf(DOMAIN own)
  IN  IF x.kind = "vertex" \/ DOMAIN own = {} THEN own ELSE [l \in {first} |-> own[first]]

\* The view of a graph: table -> [labels, properties], the properties pooled.
ElementView(labels) == [labels |-> DOMAIN labels, properties |-> UNION {labels[l] : l \in DOMAIN labels}]

ActualView(elements, labels) ==
  [k \in {Key(x.schema, x.name) : x \in elements} |->
     ElementView(ReflectedLabels(CHOOSE x \in elements : Key(x.schema, x.name) = k, labels))]

DesiredView(graph) ==
  LET catalog == CatalogOf(graph)
      refs == {x.element.ref : x \in Elements(graph)}
  IN  [k \in refs |->
         ElementView((CHOOSE c \in catalog : c.name = k.name /\ c.schema = Namespace(k.schema)).labels)]

\* (wrong) Tables are compared as PostgreSQL names them.
AsReflected(want, got) == {got}

\* A reflected table goes by its bare name where the document asked for that.
Bare(k) == Key(None, k.name)
AlignedKey(want, k) == IF k \notin DOMAIN want /\ Bare(k) \in DOMAIN want THEN Bare(k) ELSE k

\* Of the tables that come to one name the last one written stays, and Go's map
\* order decides which.
Survivors(want, got) ==
  {S \in SUBSET DOMAIN got :
     /\ \A j \in DOMAIN got : \E i \in S : AlignedKey(want, i) = AlignedKey(want, j)
     /\ \A i, j \in S : AlignedKey(want, i) = AlignedKey(want, j) => i = j}

Align(want, got) ==
  {[k \in {AlignedKey(want, j) : j \in S} |-> got[CHOOSE j \in S : AlignedKey(want, j) = k]] :
     S \in Survivors(want, got)}

Finding(kind, k, what) == [kind |-> kind, element |-> k, what |-> what]

\* (wrong) Nothing is too much.
CheckElementIsThere(k, want, got) ==
  (IF want.labels = got.labels THEN {} ELSE {Finding("LabelMismatch", k, got.labels)})
  \union {Finding("MissingProperty", k, p) : p \in want.properties \ got.properties}

CheckElement(k, want, got) ==
  (IF want.labels = got.labels THEN {} ELSE {Finding("LabelMismatch", k, got.labels)})
  \union {Finding("MissingProperty", k, p) : p \in want.properties \ got.properties}
  \union {Finding("UnexpectedProperty", k, p) : p \in got.properties \ want.properties}

Check(want, got) ==
  {Finding("MissingElement", k, None) : k \in DOMAIN want \ DOMAIN got}
  \union {Finding("UnexpectedElement", k, None) : k \in DOMAIN got \ DOMAIN want}
  \union UNION {CheckElement(k, want[k], got[k]) : k \in DOMAIN want \intersect DOMAIN got}

PossibleReports(graph, elements, labels) ==
  LET want == DesiredView(graph)
  IN  {Check(want, got) : got \in Align(want, ActualView(elements, labels))}
------------------------------------------------------------------------------
(* What it is to conform: the same tables, with the same labels, and the   *)
(* same properties.                                                        *)

Pooled(elements) ==
  {[schema |-> x.schema, name |-> x.name, labels |-> DOMAIN x.labels,
    properties |-> UNION {x.labels[l] : l \in DOMAIN x.labels}] : x \in elements}

Conforms(graph, elements) == Pooled(elements) = Pooled(CatalogOf(graph))

OneElementForEachTable(elements) ==
  \A x, y \in elements : x.schema = y.schema /\ x.name = y.name => x = y

OneLabelOnEachEdge(elements) ==
  \A x \in elements : x.kind = "edge" => \E l \in DOMAIN x.labels : DOMAIN x.labels = {l}

KeyOf(x) == Key(x.schema, x.name)
Refs(graph) == {x.element.ref : x \in Elements(graph)}

\* The tables of the document have one element each, and an unqualified table is
\* found in the default schema. No two tables of the database come to one name,
\* and an edge in it has one label.
Comparable(graph, elements) ==
  LET want == DesiredView(graph)
  IN  /\ \A k \in Refs(graph) : k = Key(k.schema, k.name)
      /\ \A j, k \in Refs(graph) : j.name = k.name /\ Namespace(j.schema) = Namespace(k.schema) => j = k
      /\ OneElementForEachTable(CatalogOf(graph))
      /\ \A x, y \in elements : AlignedKey(want, KeyOf(x)) = AlignedKey(want, KeyOf(y)) => x = y
      /\ \A x \in elements :
           /\ x.schema # None
           /\ KeyOf(x) \notin Refs(graph) /\ Bare(KeyOf(x)) \in Refs(graph) => x.schema = Public
           /\ x.kind \in {"vertex", "edge"}
      /\ OneLabelOnEachEdge(elements)
------------------------------------------------------------------------------
(* What somebody else does to the graph, one ALTER at a time.              *)

CONSTANTS Strays,       \* tables of somebody else, [schema, name]
          NewLabel      \* a label of somebody else

Alone(elements, l) == Cardinality({x \in elements : l \in DOMAIN x.labels}) = 1

DropElement(elements) ==
  {elements \ ({x} \union {e \in elements : e.kind = "edge" /\ x.kind = "vertex"
                                            /\ x.alias \in {e.ends.src, e.ends.dst}}) : x \in elements}

AddElement(elements) ==
  {elements \union {[schema |-> s.schema, name |-> s.name, kind |-> "vertex", alias |-> NewLabel,
                     labels |-> [l \in {NewLabel} |-> {"id"}], ends |-> None]} :
     s \in {t \in Strays : \A z \in elements : z.alias # NewLabel /\ NewLabel \notin DOMAIN z.labels}}

\* One element gets other labels, or other properties under them.
Relabelled(elements, x, labels) ==
  (elements \ {x}) \union {[schema |-> x.schema, name |-> x.name, kind |-> x.kind, alias |-> x.alias,
                            labels |-> labels, ends |-> x.ends]}

\* Properties and labels change where no other table shares the label.
DropProperty(elements) ==
  UNION {UNION {{Relabelled(elements, x, [x.labels EXCEPT ![l] = @ \ {p}]) : p \in x.labels[l]} :
                l \in {m \in DOMAIN x.labels : Alone(elements, m)}} : x \in elements}

AddProperty(elements, columns) ==
  UNION {UNION {{Relabelled(elements, x, [x.labels EXCEPT ![l] = @ \union {p}]) :
                   p \in columns[Key(x.schema, x.name)] \ x.labels[l]} :
                l \in {m \in DOMAIN x.labels : Alone(elements, m)}} :
         x \in {y \in elements : Key(y.schema, y.name) \in DOMAIN columns}}

AddLabel(elements) ==
  {Relabelled(elements, x, [l \in DOMAIN x.labels \union {NewLabel} |->
                              IF l = NewLabel THEN UNION {x.labels[m] : m \in DOMAIN x.labels} ELSE x.labels[l]]) :
     x \in {y \in elements : \A z \in elements : NewLabel \notin DOMAIN z.labels}}

DropLabel(elements) ==
  UNION {{Relabelled(elements, x, [m \in DOMAIN x.labels \ {l} |-> x.labels[m]]) : l \in DOMAIN x.labels} :
         x \in {y \in elements : Cardinality(DOMAIN y.labels) > 1}}

Drifted(elements, columns) ==
  DropElement(elements) \union AddElement(elements) \union DropProperty(elements)
  \union AddProperty(elements, columns) \union AddLabel(elements) \union DropLabel(elements)
==============================================================================
