-------------------------- MODULE Conformance_proofs --------------------------
(***************************************************************************)
(* gopgql check says of a graph that nobody alters meanwhile exactly what  *)
(* is the case: its report is clean if and only if the graph conforms, for *)
(* every graph a document can describe and every graph the database can    *)
(* have, as far as the two can be compared at all (Comparable).            *)
(***************************************************************************)
EXTENDS Conformance, TLAPS

Keys(elements) == {KeyOf(x) : x \in elements}

\* One element as a check reads it.
Seen(x) == ElementView(x.labels)

\* The label table that was read shows every one of these elements as it is.
ShownAsTheyAre(elements, labels) ==
  \A x \in elements : ElementView(ReflectedLabels(x, labels)) = Seen(x)

\* The reports of a check during which the graph keeps these elements.
ReportsOn(graph, elements) == PossibleReports(graph, ElementsOf(elements), LabelsOf(elements))
------------------------------------------------------------------------------
(* What is read from the catalogs. *)

LEMMA KeysAreEqual ==
  ASSUME NEW s, NEW n, NEW t, NEW m, Key(s, n) = Key(t, m)
  PROVE  s = t /\ n = m
<1>1. Key(s, n).schema = s /\ Key(s, n).name = n /\ Key(t, m).schema = t /\ Key(t, m).name = m
  BY DEF Key
<1> QED BY <1>1

LEMMA KeysTellElementsApart ==
  ASSUME NEW graph, NEW elements, Comparable(graph, elements),
         NEW x \in elements, NEW y \in elements, KeyOf(x) = KeyOf(y)
  PROVE  x = y
BY DEF Comparable

\* What the label query returned says of x only by its kind and its key.
LEMMA KeysDecideLabels ==
  ASSUME NEW x, NEW e, NEW labels, e.kind = x.kind, KeyOf(e) = KeyOf(x)
  PROVE  ReflectedLabels(e, labels) = ReflectedLabels(x, labels)
BY DEF ReflectedLabels, KeyOf

\* The view has one entry for each element read, with what the label query says
\* of it.
LEMMA ViewOfElements ==
  ASSUME NEW graph, NEW elements, Comparable(graph, elements), NEW labels
  PROVE  LET actual == ActualView(ElementsOf(elements), labels)
         IN  /\ DOMAIN actual = Keys(elements)
             /\ \A x \in elements : actual[KeyOf(x)] = ElementView(ReflectedLabels(x, labels))
<1> DEFINE es == ElementsOf(elements)
           actual == ActualView(es, labels)
<1>1. /\ \A e \in es : \E x \in elements : KeyOf(e) = KeyOf(x) /\ e.kind = x.kind
      /\ \A x \in elements : \E e \in es : KeyOf(e) = KeyOf(x) /\ e.kind = x.kind
  <2> DEFINE Read(x) == [kind |-> x.kind, schema |-> x.schema, name |-> x.name]
  <2>1. \A x : KeyOf(Read(x)) = KeyOf(x) /\ Read(x).kind = x.kind
    BY DEF KeyOf
  <2>2. es = {Read(x) : x \in elements}
    BY DEF ElementsOf
  <2> HIDE DEF es, Read
  <2> QED BY <2>1, <2>2
<1>2. actual = [k \in {KeyOf(e) : e \in es} |->
                  ElementView(ReflectedLabels(CHOOSE e \in es : KeyOf(e) = k, labels))]
  BY DEF ActualView, KeyOf
<1> HIDE DEF es, actual
<1>3. {KeyOf(e) : e \in es} = Keys(elements)
  BY <1>1 DEF Keys
<1>4. ASSUME NEW x \in elements
      PROVE  actual[KeyOf(x)] = ElementView(ReflectedLabels(x, labels))
  <2>1. PICK e \in es : /\ e = (CHOOSE d \in es : KeyOf(d) = KeyOf(x))
                        /\ KeyOf(e) = KeyOf(x)
    <3>1. \E d \in es : KeyOf(d) = KeyOf(x)
      BY <1>1
    <3> QED BY <3>1
  <2>2. PICK y \in elements : KeyOf(e) = KeyOf(y) /\ e.kind = y.kind
    BY <1>1
  <2>3. y = x
    BY <2>1, <2>2, KeysTellElementsApart
  <2>4. ReflectedLabels(e, labels) = ReflectedLabels(x, labels)
    BY <2>2, <2>3, KeysDecideLabels
  <2>5. KeyOf(x) \in {KeyOf(d) : d \in es}
    BY <2>1
  <2> QED BY <1>2, <2>1, <2>4, <2>5
<1> QED BY <1>2, <1>3, <1>4 DEF actual, es

\* The label query shows every element it has read from as it is: no two share a
\* key, and an edge has no second label to lose.
LEMMA LabelsReadBack ==
  ASSUME NEW graph, NEW elements, Comparable(graph, elements)
  PROVE  ShownAsTheyAre(elements, LabelsOf(elements))
<1> DEFINE ls == LabelsOf(elements)
<1>1. ls = [k \in Keys(elements) |->
              [l \in UNION {DOMAIN x.labels : x \in {y \in elements : KeyOf(y) = k}} |->
                 UNION {x.labels[l] : x \in {y \in elements : KeyOf(y) = k /\ l \in DOMAIN y.labels}}]]
  BY DEF LabelsOf, KeyOf, Keys
<1> SUFFICES ASSUME NEW x \in elements
             PROVE  ElementView(ReflectedLabels(x, ls)) = Seen(x)
  BY DEF ShownAsTheyAre
<1> HIDE DEF ls
<1>2. {y \in elements : KeyOf(y) = KeyOf(x)} = {x}
  BY KeysTellElementsApart
<1> DEFINE own == ls[KeyOf(x)]
<1>3. DOMAIN own = DOMAIN x.labels /\ \A l \in DOMAIN x.labels : own[l] = x.labels[l]
  <2>1. UNION {DOMAIN y.labels : y \in {z \in elements : KeyOf(z) = KeyOf(x)}} = DOMAIN x.labels
    BY <1>2
  <2>2. ASSUME NEW l \in DOMAIN x.labels
        PROVE  UNION {y.labels[l] : y \in {z \in elements : KeyOf(z) = KeyOf(x) /\ l \in DOMAIN z.labels}} = x.labels[l]
    <3>1. {z \in elements : KeyOf(z) = KeyOf(x) /\ l \in DOMAIN z.labels} = {x}
      BY <1>2
    <3> QED BY <3>1
  <2>3. own = [l \in UNION {DOMAIN y.labels : y \in {z \in elements : KeyOf(z) = KeyOf(x)}} |->
                 UNION {y.labels[l] : y \in {z \in elements : KeyOf(z) = KeyOf(x) /\ l \in DOMAIN z.labels}}]
    <3>1. KeyOf(x) \in Keys(elements)
      BY DEF Keys
    <3> QED BY <1>1, <3>1
  <2> QED BY <2>1, <2>2, <2>3
<1>4. KeyOf(x) \in DOMAIN ls /\ Key(x.schema, x.name) = KeyOf(x)
  BY <1>1 DEF Keys, KeyOf
<1> HIDE DEF own
<1>5. ElementView(own) = Seen(x)
  BY <1>3 DEF ElementView, Seen
<1>6. CASE x.kind = "vertex" \/ DOMAIN own = {}
  <2>1. ReflectedLabels(x, ls) = own
    BY <1>4, <1>6 DEF ReflectedLabels, own
  <2> QED BY <1>5, <2>1
<1>7. CASE ~(x.kind = "vertex" \/ DOMAIN own = {})
  <2>1. x.kind = "edge"
    BY <1>7 DEF Comparable
  <2>2. PICK l \in DOMAIN x.labels : DOMAIN x.labels = {l}
    BY <2>1 DEF Comparable, OneLabelOnEachEdge
  <2>3. FirstOf(DOMAIN own) = l
    BY <1>3, <2>2 DEF FirstOf
  <2>4. ReflectedLabels(x, ls) = [m \in {l} |-> own[l]]
    BY <1>4, <1>7, <2>3 DEF ReflectedLabels, own
  <2>5. own[l] = x.labels[l]
    BY <1>3
  <2> QED BY <2>2, <2>4, <2>5 DEF ElementView, Seen
<1> QED BY <1>6, <1>7

\* Aligning only drops a schema, and names tell the tables apart: nothing is
\* lost, whatever order the map has.
LEMMA NothingIsLost ==
  ASSUME NEW graph, NEW elements, Comparable(graph, elements),
         NEW want, want = DesiredView(graph), NEW actual, DOMAIN actual = Keys(elements)
  PROVE  /\ \A got \in Align(want, actual) :
              /\ DOMAIN got = {AlignedKey(want, KeyOf(x)) : x \in elements}
              /\ \A x \in elements : got[AlignedKey(want, KeyOf(x))] = actual[KeyOf(x)]
         /\ Align(want, actual) # {}
<1> DEFINE A(k) == AlignedKey(want, k)
<1>1. ASSUME NEW j \in DOMAIN actual, NEW k \in DOMAIN actual, A(j) = A(k)
      PROVE  j = k
  <2>1. \A x, y \in elements : A(KeyOf(x)) = A(KeyOf(y)) => x = y
    BY DEF Comparable
  <2> HIDE DEF A
  <2> QED BY <1>1, <2>1 DEF Keys
<1>2. Survivors(want, actual) = {DOMAIN actual}
  <2>1. ASSUME NEW S \in Survivors(want, actual)
        PROVE  S = DOMAIN actual
    <3>1. S \subseteq DOMAIN actual /\ \A j \in DOMAIN actual : \E i \in S : A(i) = A(j)
      BY DEF Survivors
    <3> HIDE DEF A
    <3> QED BY <1>1, <3>1
  <2>2. DOMAIN actual \in Survivors(want, actual)
    BY <1>1 DEF Survivors
  <2> QED BY <2>1, <2>2
<1> DEFINE view == [k \in {A(j) : j \in DOMAIN actual} |-> actual[CHOOSE j \in DOMAIN actual : A(j) = k]]
<1>3. Align(want, actual) = {view}
  BY <1>2 DEF Align
<1>4. DOMAIN view = {A(KeyOf(x)) : x \in elements}
  <2> HIDE DEF A
  <2> QED BY DEF Keys
<1>5. ASSUME NEW x \in elements
      PROVE  view[A(KeyOf(x))] = actual[KeyOf(x)]
  <2>1. KeyOf(x) \in DOMAIN actual
    BY DEF Keys
  <2> HIDE DEF A
  <2>2. (CHOOSE j \in DOMAIN actual : A(j) = A(KeyOf(x))) = KeyOf(x)
    BY <1>1, <2>1
  <2> QED BY <2>1, <2>2
<1> HIDE DEF view
<1> QED BY <1>3, <1>4, <1>5
------------------------------------------------------------------------------
(* What the document wants. *)

\* An element of the graph and an element of the catalogs it makes.
Stands(graph, k, c) == c \in CatalogOf(graph) /\ c.name = k.name /\ c.schema = Namespace(k.schema)

LEMMA RefsAreCatalogued ==
  ASSUME NEW graph
  PROVE  /\ DOMAIN DesiredView(graph) = Refs(graph)
         /\ \A k \in Refs(graph) : \E c : Stands(graph, k, c)
         /\ \A c \in CatalogOf(graph) : \E k \in Refs(graph) : Stands(graph, k, c)
<1>1. DOMAIN DesiredView(graph) = Refs(graph)
  BY DEF DesiredView, Refs
<1>v. /\ \A v : CataloguedVertex(v).name = v.ref.name /\ CataloguedVertex(v).schema = Namespace(v.ref.schema)
      /\ \A e : CataloguedEdge(e).name = e.ref.name /\ CataloguedEdge(e).schema = Namespace(e.ref.schema)
  BY DEF CataloguedVertex, CataloguedEdge, Catalogued
<1>r. Refs(graph) = {v.ref : v \in graph.vertices} \union {e.ref : e \in graph.edges}
  <2> DEFINE AsVertex(v) == [kind |-> "vertex", element |-> v]
             AsEdge(e) == [kind |-> "edge", element |-> e]
  <2>1. \A x : AsVertex(x).element = x /\ AsEdge(x).element = x
    OBVIOUS
  <2>2. Elements(graph) = {AsVertex(v) : v \in graph.vertices} \union {AsEdge(e) : e \in graph.edges}
    BY DEF Elements
  <2> HIDE DEF AsVertex, AsEdge
  <2>3. ASSUME NEW x \in Elements(graph)
        PROVE  x.element.ref \in {v.ref : v \in graph.vertices} \union {e.ref : e \in graph.edges}
    BY <2>1, <2>2
  <2>4. ASSUME NEW v \in graph.vertices
        PROVE  v.ref \in Refs(graph)
    <3>1. AsVertex(v) \in Elements(graph) /\ AsVertex(v).element = v
      BY <2>1, <2>2
    <3> QED BY <3>1 DEF Refs
  <2>5. ASSUME NEW e \in graph.edges
        PROVE  e.ref \in Refs(graph)
    <3>1. AsEdge(e) \in Elements(graph) /\ AsEdge(e).element = e
      BY <2>1, <2>2
    <3> QED BY <3>1 DEF Refs
  <2>6. Refs(graph) \subseteq {v.ref : v \in graph.vertices} \union {e.ref : e \in graph.edges}
    BY <2>3 DEF Refs
  <2> QED BY <2>4, <2>5, <2>6
<1>2. ASSUME NEW k \in Refs(graph)
      PROVE  \E c : Stands(graph, k, c)
  <2>1. CASE \E v \in graph.vertices : k = v.ref
    <3>1. PICK v \in graph.vertices : k = v.ref
      BY <2>1
    <3> QED BY <3>1, <1>v DEF Stands, CatalogOf
  <2>2. CASE \E e \in graph.edges : k = e.ref
    <3>1. PICK e \in graph.edges : k = e.ref
      BY <2>2
    <3> QED BY <3>1, <1>v DEF Stands, CatalogOf
  <2> QED BY <1>r, <2>1, <2>2
<1>3. ASSUME NEW c \in CatalogOf(graph)
      PROVE  \E k \in Refs(graph) : Stands(graph, k, c)
  <2>1. CASE \E v \in graph.vertices : c = CataloguedVertex(v)
    BY <2>1, <1>v, <1>r DEF Stands
  <2>2. CASE \E e \in graph.edges : c = CataloguedEdge(e)
    BY <2>2, <1>v, <1>r DEF Stands
  <2> QED BY <2>1, <2>2 DEF CatalogOf
<1> QED BY <1>1, <1>2, <1>3

\* The document has one view of each of its tables.
LEMMA WantedIsCatalogued ==
  ASSUME NEW graph, NEW elements, Comparable(graph, elements)
  PROVE  /\ DOMAIN DesiredView(graph) = Refs(graph)
         /\ \A k \in Refs(graph) : \E c : Stands(graph, k, c)
         /\ \A c \in CatalogOf(graph) : \E k \in Refs(graph) : Stands(graph, k, c)
         /\ \A k \in Refs(graph) : \A c : Stands(graph, k, c) => DesiredView(graph)[k] = Seen(c)
<1>1. ASSUME NEW k \in Refs(graph), NEW c, Stands(graph, k, c)
      PROVE  DesiredView(graph)[k] = Seen(c)
  <2>1. c = CHOOSE d \in CatalogOf(graph) : d.name = k.name /\ d.schema = Namespace(k.schema)
    BY <1>1 DEF Stands, Comparable, OneElementForEachTable
  <2> QED BY <2>1 DEF DesiredView, Refs, Seen
<1> QED BY <1>1, RefsAreCatalogued

LEMMA StandsForOne ==
  ASSUME NEW graph, NEW elements, Comparable(graph, elements),
         NEW j \in Refs(graph), NEW k \in Refs(graph), NEW c, Stands(graph, j, c), Stands(graph, k, c)
  PROVE  j = k
  BY DEF Stands, Comparable
------------------------------------------------------------------------------
(* The comparison. *)

LEMMA SeenAlike ==
  ASSUME NEW x, NEW c
  PROVE  /\ Seen(x).labels = DOMAIN x.labels
         /\ Seen(x).properties = UNION {x.labels[l] : l \in DOMAIN x.labels}
         /\ Seen(x) = Seen(c) <=> Seen(x).labels = Seen(c).labels /\ Seen(x).properties = Seen(c).properties
  BY DEF Seen, ElementView

\* A report is clean when both sides have the same elements and see them alike.
LEMMA CleanIsEqual ==
  ASSUME NEW want, NEW got,
         \A k \in DOMAIN want : \E c : want[k] = Seen(c),
         \A k \in DOMAIN got : \E x : got[k] = Seen(x)
  PROVE  Check(want, got) = {} <=> DOMAIN want = DOMAIN got /\ \A k \in DOMAIN want : want[k] = got[k]
<1>1. ASSUME Check(want, got) = {}
      PROVE  DOMAIN want = DOMAIN got /\ \A k \in DOMAIN want : want[k] = got[k]
  <2>1. DOMAIN want = DOMAIN got
    <3>1. ASSUME NEW k \in DOMAIN want, k \notin DOMAIN got
          PROVE  FALSE
      <4>1. Finding("MissingElement", k, None) \in Check(want, got)
        BY <3>1 DEF Check
      <4> QED BY <1>1, <4>1
    <3>2. ASSUME NEW k \in DOMAIN got, k \notin DOMAIN want
          PROVE  FALSE
      <4>1. Finding("UnexpectedElement", k, None) \in Check(want, got)
        BY <3>2 DEF Check
      <4> QED BY <1>1, <4>1
    <3> QED BY <3>1, <3>2
  <2>2. ASSUME NEW k \in DOMAIN want
        PROVE  want[k] = got[k]
    <3>1. CheckElement(k, want[k], got[k]) = {}
      BY <1>1, <2>1 DEF Check
    <3>2. want[k].labels = got[k].labels
      BY <3>1 DEF CheckElement
    <3>3. want[k].properties = got[k].properties
      <4>1. want[k].properties \ got[k].properties = {}
        BY <3>1 DEF CheckElement
      <4>2. got[k].properties \ want[k].properties = {}
        BY <3>1 DEF CheckElement
      <4> QED BY <4>1, <4>2
    <3> QED BY <2>1, <3>2, <3>3, SeenAlike
  <2> QED BY <2>1, <2>2
<1>2. ASSUME DOMAIN want = DOMAIN got, \A k \in DOMAIN want : want[k] = got[k]
      PROVE  Check(want, got) = {}
  <2>1. \A k \in DOMAIN want : CheckElement(k, want[k], got[k]) = {}
    BY <1>2 DEF CheckElement
  <2> QED BY <1>2, <2>1 DEF Check
<1> QED BY <1>1, <1>2

\* An element goes by the name the document has for its table.
LEMMA AlignedIsInPlace ==
  ASSUME NEW graph, NEW elements, Comparable(graph, elements), NEW x \in elements,
         NEW k \in Refs(graph)
  PROVE  k = AlignedKey(DesiredView(graph), KeyOf(x)) <=> x.name = k.name /\ x.schema = Namespace(k.schema)
<1>1. DOMAIN DesiredView(graph) = Refs(graph)
  BY WantedIsCatalogued
<1>2. /\ KeyOf(x).name = x.name /\ KeyOf(x).schema = x.schema
      /\ Bare(KeyOf(x)).name = x.name /\ Bare(KeyOf(x)).schema = None
      /\ Bare(KeyOf(x)) = Key(None, x.name) /\ KeyOf(x) = Key(x.schema, x.name)
  BY DEF KeyOf, Bare, Key
<1>3. x.schema # None /\ (KeyOf(x) \notin Refs(graph) /\ Bare(KeyOf(x)) \in Refs(graph) => x.schema = Public)
  BY DEF Comparable
<1>4. k = Key(k.schema, k.name)
  BY DEF Comparable
<1>5. \A j \in Refs(graph) : j.name = k.name /\ Namespace(j.schema) = Namespace(k.schema) => j = k
  BY DEF Comparable
<1>6. ASSUME k = AlignedKey(DesiredView(graph), KeyOf(x))
      PROVE  x.name = k.name /\ x.schema = Namespace(k.schema)
  BY <1>1, <1>2, <1>3, <1>6 DEF AlignedKey, Namespace
<1>7. ASSUME x.name = k.name, x.schema = Namespace(k.schema)
      PROVE  k = AlignedKey(DesiredView(graph), KeyOf(x))
  <2>1. CASE KeyOf(x) \in Refs(graph)
    BY <2>1, <1>1, <1>2, <1>3, <1>5, <1>7 DEF AlignedKey, Namespace
  <2>2. CASE KeyOf(x) \notin Refs(graph) /\ Bare(KeyOf(x)) \in Refs(graph)
    BY <2>2, <1>1, <1>2, <1>3, <1>5, <1>7 DEF AlignedKey, Namespace
  <2>3. CASE KeyOf(x) \notin Refs(graph) /\ Bare(KeyOf(x)) \notin Refs(graph)
    <3>1. k.schema = None \/ k.schema = x.schema
      BY <1>7 DEF Namespace
    <3> QED BY <2>3, <3>1, <1>2, <1>4, <1>7
  <2> QED BY <2>1, <2>2, <2>3
<1> QED BY <1>6, <1>7

\* Two elements count as one table with the same labels and properties.
Alike(x, c) == x.schema = c.schema /\ x.name = c.name /\ Seen(x) = Seen(c)

LEMMA ConformsIsAlike ==
  ASSUME NEW graph, NEW elements
  PROVE  Conforms(graph, elements) <=>
           /\ \A x \in elements : \E c \in CatalogOf(graph) : Alike(x, c)
           /\ \A c \in CatalogOf(graph) : \E x \in elements : Alike(x, c)
<1> DEFINE P(x) == [schema |-> x.schema, name |-> x.name, labels |-> DOMAIN x.labels,
                    properties |-> UNION {x.labels[l] : l \in DOMAIN x.labels}]
<1>1. \A x, c : P(x) = P(c) <=> Alike(x, c)
  <2>1. ASSUME NEW x, NEW c
        PROVE  P(x) = P(c) <=> Alike(x, c)
    <3>1. /\ P(x).schema = x.schema /\ P(x).name = x.name
          /\ P(x).labels = Seen(x).labels /\ P(x).properties = Seen(x).properties
      BY SeenAlike
    <3>2. /\ P(c).schema = c.schema /\ P(c).name = c.name
          /\ P(c).labels = Seen(c).labels /\ P(c).properties = Seen(c).properties
      BY SeenAlike
    <3>3. Alike(x, c) => P(x) = P(c)
      BY SeenAlike DEF Alike
    <3>4. P(x) = P(c) => Alike(x, c)
      <4> HIDE DEF P
      <4> QED BY <3>1, <3>2, SeenAlike DEF Alike
    <3> QED BY <3>3, <3>4
  <2> QED BY <2>1
<1>2. Conforms(graph, elements) <=> {P(x) : x \in elements} = {P(c) : c \in CatalogOf(graph)}
  BY DEF Conforms, Pooled
<1> HIDE DEF P
<1> QED BY <1>1, <1>2
------------------------------------------------------------------------------
(* The theorem. *)

\* A check that read these elements, and was shown every one as it is, has a
\* clean report to give exactly when they conform, and then no other.
LEMMA ReportsAreExact ==
  ASSUME NEW graph, NEW elements, Comparable(graph, elements),
         NEW labels, ShownAsTheyAre(elements, labels)
  PROVE  LET reports == PossibleReports(graph, ElementsOf(elements), labels)
         IN  /\ {} \in reports => Conforms(graph, elements)
             /\ Conforms(graph, elements) => reports = {{}}
<1> DEFINE want == DesiredView(graph)
           actual == ActualView(ElementsOf(elements), labels)
           A(x) == AlignedKey(want, KeyOf(x))
           reports == PossibleReports(graph, ElementsOf(elements), labels)
<1>1. reports = {Check(want, got) : got \in Align(want, actual)}
  BY DEF PossibleReports
<1>2. DOMAIN actual = Keys(elements) /\ \A x \in elements : actual[KeyOf(x)] = Seen(x)
  BY ViewOfElements DEF ShownAsTheyAre
<1>3. /\ DOMAIN want = Refs(graph)
      /\ \A k \in Refs(graph) : \E c : Stands(graph, k, c)
      /\ \A c \in CatalogOf(graph) : \E k \in Refs(graph) : Stands(graph, k, c)
      /\ \A k \in Refs(graph) : \A c : Stands(graph, k, c) => want[k] = Seen(c)
  BY WantedIsCatalogued
<1>4. \A x \in elements : \A k \in Refs(graph) :
        k = A(x) <=> x.name = k.name /\ x.schema = Namespace(k.schema)
  BY AlignedIsInPlace
<1> HIDE DEF want, actual, A, reports
<1>5. /\ \A got \in Align(want, actual) :
           DOMAIN got = {A(x) : x \in elements} /\ \A x \in elements : got[A(x)] = Seen(x)
      /\ Align(want, actual) # {}
  <2>1. want = DesiredView(graph)
    BY DEF want
  <2> QED BY <1>2, <2>1, NothingIsLost DEF A
<1>6. ASSUME NEW got \in Align(want, actual)
      PROVE  Check(want, got) = {} <=> Conforms(graph, elements)
  <2>1. Check(want, got) = {} <=> DOMAIN want = DOMAIN got /\ \A k \in DOMAIN want : want[k] = got[k]
    <3>1. \A k \in DOMAIN want : \E c : want[k] = Seen(c)
      BY <1>3
    <3>2. \A k \in DOMAIN got : \E x : got[k] = Seen(x)
      <4>1. ASSUME NEW k \in DOMAIN got
            PROVE  \E x : got[k] = Seen(x)
        <5>1. DOMAIN got = {A(x) : x \in elements} /\ \A x \in elements : got[A(x)] = Seen(x)
          BY <1>5
        <5>2. PICK x \in elements : k = A(x)
          BY <5>1
        <5> QED BY <5>1, <5>2
      <4> QED BY <4>1
    <3> QED BY <3>1, <3>2, CleanIsEqual
  <2>2. ASSUME DOMAIN want = DOMAIN got, \A k \in DOMAIN want : want[k] = got[k]
        PROVE  Conforms(graph, elements)
    <3>1. ASSUME NEW x \in elements, NEW k \in Refs(graph), NEW c, k = A(x), Stands(graph, k, c)
          PROVE  Alike(x, c)
      <4>1. want[k] = Seen(c) /\ k \in DOMAIN want
        BY <3>1, <1>3
      <4>2. got[k] = Seen(x)
        BY <3>1, <1>5
      <4>3. Seen(x) = Seen(c)
        BY <4>1, <4>2, <2>2
      <4>4. x.name = k.name /\ x.schema = Namespace(k.schema)
        BY <3>1, <1>4
      <4> QED BY <3>1, <4>3, <4>4 DEF Alike, Stands
    <3>2. \A x \in elements : A(x) \in Refs(graph)
      BY <2>2, <1>3, <1>5
    <3>3. \A x \in elements : \E c \in CatalogOf(graph) : Alike(x, c)
      BY <3>1, <3>2, <1>3 DEF Stands
    <3>4. \A c \in CatalogOf(graph) : \E x \in elements : Alike(x, c)
      <4>1. \A k \in Refs(graph) : \E x \in elements : k = A(x)
        <5>1. Refs(graph) = {A(x) : x \in elements}
          BY <2>2, <1>3, <1>5
        <5> QED BY <5>1
      <4> QED BY <3>1, <4>1, <1>3
    <3> QED BY <3>3, <3>4, ConformsIsAlike
  <2>3. ASSUME Conforms(graph, elements)
        PROVE  DOMAIN want = DOMAIN got /\ \A k \in DOMAIN want : want[k] = got[k]
    <3>1. /\ \A x \in elements : \E c \in CatalogOf(graph) : Alike(x, c)
          /\ \A c \in CatalogOf(graph) : \E x \in elements : Alike(x, c)
      BY <2>3, ConformsIsAlike
    <3>2. ASSUME NEW x \in elements, NEW k \in Refs(graph), NEW c, Stands(graph, k, c), Alike(x, c)
          PROVE  k = A(x) /\ want[k] = got[k]
      <4>1. k = A(x)
        BY <3>2, <1>4 DEF Alike, Stands
      <4> QED BY <3>2, <4>1, <1>3, <1>5 DEF Alike
    <3>3. \A x \in elements : A(x) \in Refs(graph)
      BY <3>1, <3>2, <1>3
    <3>4. ASSUME NEW k \in Refs(graph)
          PROVE  \E x \in elements : k = A(x) /\ want[k] = got[k]
      <4>1. PICK c : Stands(graph, k, c)
        BY <1>3
      <4>2. PICK x \in elements : Alike(x, c)
        BY <3>1, <4>1 DEF Stands
      <4> QED BY <3>2, <4>1, <4>2
    <3> QED BY <3>3, <3>4, <1>3, <1>5
  <2> QED BY <2>1, <2>2, <2>3
<1> QED BY <1>1, <1>5, <1>6 DEF reports

\* While nobody alters the graph a check says what is the case: it has a clean
\* report to give exactly when the graph in the database has the tables, labels
\* and properties the document describes, and then it gives no other, whatever
\* order Go's maps have (Reflect, view, align, Check).
THEOREM CheckIsExact ==
  ASSUME NEW graph, NEW elements, Comparable(graph, elements)
  PROVE  /\ {} \in ReportsOn(graph, elements) => Conforms(graph, elements)
         /\ Conforms(graph, elements) => ReportsOn(graph, elements) = {{}}
BY LabelsReadBack, ReportsAreExact DEF ReportsOn
==============================================================================
