--------------------------- MODULE ReadBack_proofs ---------------------------
(***************************************************************************)
(* Whatever gopgql writes it reads back as what was asked for.  In a       *)
(* history of plain edits the folded directory always stands for a schema  *)
(* of the SDL's (StandsFor), table by table and constraint by constraint:  *)
(*   - a folder that stands for a schema is read back as one alike to it,  *)
(*     so that the differ finds exactly what has changed since;            *)
(*   - the statements for that difference, folded, settle the folder to    *)
(*     the schema wanted (UpSettles, from Folding_proofs);                 *)
(*   - and the files of a generation lead there by folders that stand for  *)
(*     something, wherever a crash or a refused file ends it (Leads).      *)
(***************************************************************************)
EXTENDS Folding_proofs

\* The folder f has t as the table vt says, whatever else it says of a column.
Settled == {"type", "unique", "default"}
Holds(f, t, vt) ==
  /\ MadeTable(t, vt)
  /\ DOMAIN f.cols[t] = DOMAIN vt.cols
  /\ \A c \in DOMAIN vt.cols : \A a \in Settled : f.cols[t][c][a] = vt.cols[c][a]
  /\ DOMAIN f.cons[t] = HeldNames(t, vt)
  /\ \A k \in TableConstraints(t, vt) : f.cons[t][k.name] = k

LEMMA HeldAreTheConstraints ==
  ASSUME NEW f, NEW t, NEW vt, Holds(f, t, vt)
  PROVE  Range(f.cons[t]) = TableConstraints(t, vt)
<1>1. ASSUME NEW k \in TableConstraints(t, vt) PROVE k \in Range(f.cons[t])
  <2>1. k.name \in DOMAIN f.cons[t] /\ f.cons[t][k.name] = k
    BY DEF Holds, HeldNames
  <2> QED BY <2>1 DEF Range
<1>2. ASSUME NEW k \in Range(f.cons[t]) PROVE k \in TableConstraints(t, vt)
  <2>1. PICK n \in DOMAIN f.cons[t] : k = f.cons[t][n]
    BY DEF Range
  <2>2. PICK j \in TableConstraints(t, vt) : n = j.name
    BY DEF Holds, HeldNames
  <2> QED BY <2>1, <2>2 DEF Holds
<1> QED BY <1>1, <1>2

\* The three kinds of constraints of a table, and how each is filed.
KeyOf(vt) == [name |-> vt.key.name, kind |-> "UNIQUE", columns |-> vt.key.columns, expr |-> None]
OnColumn(t, vt, c) ==
  [name |-> ColumnCheckConstraintName(t, c), kind |-> "CHECK", columns |-> <<>>, expr |-> vt.cols[c].check]

OnTable(t, vt, i) ==
  [name |-> TableCheckConstraintName(t, i), kind |-> "CHECK", columns |-> <<>>, expr |-> vt.checks[i]]

LEMMA ConstraintsByKind ==
  ASSUME NEW t, NEW vt, MadeTable(t, vt)
  PROVE  /\ \A k \in TableConstraints(t, vt) :
              \/ vt.key # None /\ k = KeyOf(vt)
              \/ \E c \in DOMAIN vt.cols : vt.cols[c].check # None /\ k = OnColumn(t, vt, c)
              \/ \E i \in DOMAIN vt.checks : k = OnTable(t, vt, i)
         /\ vt.key # None => KeyOf(vt) \in TableConstraints(t, vt)
         /\ \A c \in DOMAIN vt.cols : vt.cols[c].check # None => OnColumn(t, vt, c) \in TableConstraints(t, vt)
         /\ \A i \in DOMAIN vt.checks : OnTable(t, vt, i) \in TableConstraints(t, vt)
BY DEF TableConstraints, KeyOf, OnColumn, OnTable

LEMMA KindsAreFiled ==
  ASSUME NEW t, NEW vt, MadeTable(t, vt)
  PROVE  /\ vt.key # None => ClassifyConstraint(t, KeyOf(vt).name) = "natural_key"
         /\ \A c : ClassifyConstraint(t, OnColumn(t, vt, c).name) = "column_check" /\ OnColumn(t, vt, c).name.column = c
         /\ \A i : ClassifyConstraint(t, OnTable(t, vt, i).name) = "table_check" /\ OnTable(t, vt, i).name.n = i
<1>1. vt.key # None => ClassifyConstraint(t, KeyOf(vt).name) = "natural_key"
  BY DEF MadeTable, KeyOf, ClassifyConstraint, NaturalKeyConstraintName
<1>2. \A c : ClassifyConstraint(t, OnColumn(t, vt, c).name) = "column_check" /\ OnColumn(t, vt, c).name.column = c
  BY DEF OnColumn, ClassifyConstraint, ColumnCheckConstraintName
<1>3. \A i : ClassifyConstraint(t, OnTable(t, vt, i).name) = "table_check" /\ OnTable(t, vt, i).name.n = i
  BY DEF OnTable, ClassifyConstraint, TableCheckConstraintName
<1> QED BY <1>1, <1>2, <1>3

LEMMA ConstraintsFiled ==
  ASSUME NEW f, NEW t \in DOMAIN f.cons, NEW vt, Holds(f, t, vt)
  PROVE  /\ Filed(f, t, "natural_key") = IF vt.key = None THEN {} ELSE {KeyOf(vt)}
         /\ Filed(f, t, "column_check") = {OnColumn(t, vt, c) : c \in {x \in DOMAIN vt.cols : vt.cols[x].check # None}}
         /\ Filed(f, t, "table_check") = {OnTable(t, vt, i) : i \in DOMAIN vt.checks}
<1>0. MadeTable(t, vt)
  BY DEF Holds
<1>1. \A role : Filed(f, t, role) = {k \in TableConstraints(t, vt) : ClassifyConstraint(t, k.name) = role}
  BY HeldAreTheConstraints DEF Filed
<1>2. Filed(f, t, "natural_key") = IF vt.key = None THEN {} ELSE {KeyOf(vt)}
  BY <1>0, <1>1, ConstraintsByKind, KindsAreFiled
<1>3. Filed(f, t, "column_check") = {OnColumn(t, vt, c) : c \in {x \in DOMAIN vt.cols : vt.cols[x].check # None}}
  BY <1>0, <1>1, ConstraintsByKind, KindsAreFiled
<1>4. Filed(f, t, "table_check") = {OnTable(t, vt, i) : i \in DOMAIN vt.checks}
  BY <1>0, <1>1, ConstraintsByKind, KindsAreFiled
<1> QED BY <1>2, <1>3, <1>4

\* Numbered things are as many as their numbers.
LEMMA NumberedAreCounted ==
  ASSUME NEW g, NEW n \in Nat, DOMAIN g = 1..n, \A i, j \in 1..n : g[i] = g[j] => i = j
  PROVE  Cardinality({g[i] : i \in 1..n}) = n
<1> DEFINE T == {g[i] : i \in 1..n}
           h == [i \in 1..n |-> g[i]]
<1>1. h \in [1..n -> T]
  OBVIOUS
<1>2. \A y \in T : \E x \in 1..n : h[x] = y
  OBVIOUS
<1>3. \A i, j \in 1..n : h[i] = h[j] => i = j
  OBVIOUS
<1>4. h \in Bijection(1..n, T)
  <2> HIDE DEF T, h
  <2> QED BY <1>1, <1>2, <1>3 DEF Bijection, Injection, Surjection, IsInjective
<1>5. IsFiniteSet(1..n) /\ Cardinality(1..n) = n
  BY FS_Interval
<1> HIDE DEF T, h
<1>6. Cardinality(T) = n
  BY <1>4, <1>5, FS_Bijection DEF ExistsBijection
<1> QED BY <1>6 DEF T

\* Table checks read back in their order.
LEMMA ChecksReadBack ==
  ASSUME NEW f, NEW t \in DOMAIN f.cons, NEW vt, Holds(f, t, vt), NEW props
  PROVE  FoldedVertex(f, t, props).checks = vt.checks
<1> DEFINE checks == Filed(f, t, "table_check")
           Before(k) == {j \in checks : j.name.n < k.name.n}
           Nth(i) == CHOOSE k \in checks : Cardinality(Before(k)) = i - 1
           n == Len(vt.checks)
           g == [i \in 1..n |-> OnTable(t, vt, i)]
<1>1. n \in Nat /\ DOMAIN vt.checks = 1..n /\ vt.checks = [i \in 1..n |-> vt.checks[i]]
  BY DEF Holds, MadeTable, ProperTable
<1>2. FoldedVertex(f, t, props).checks = [i \in 1..Cardinality(checks) |-> Nth(i).expr]
  BY DEF FoldedVertex, AttachConstraints
<1>3. checks = {g[i] : i \in 1..n}
  <2>1. checks = {OnTable(t, vt, i) : i \in DOMAIN vt.checks}
    BY ConstraintsFiled
  <2>2. {g[i] : i \in 1..n} = {OnTable(t, vt, i) : i \in 1..n}
    OBVIOUS
  <2> HIDE DEF g, checks
  <2> QED BY <1>1, <2>1, <2>2
<1>4. \A i \in 1..n : g[i].name.n = i /\ g[i].expr = vt.checks[i]
  BY DEF OnTable, TableCheckConstraintName
<1>5. DOMAIN g = 1..n
  OBVIOUS
<1> HIDE DEF g, n, checks
<1>6. Cardinality(checks) = n
  BY <1>1, <1>3, <1>4, <1>5, NumberedAreCounted
<1>7. ASSUME NEW i \in 1..n PROVE Cardinality(Before(g[i])) = i - 1
  <2>1. Before(g[i]) = {g[j] : j \in 1..(i-1)}
    BY <1>1, <1>3, <1>4
  <2> DEFINE h == [j \in 1..(i-1) |-> g[j]]
  <2>2. /\ DOMAIN h = 1..(i-1) /\ i-1 \in Nat /\ {g[j] : j \in 1..(i-1)} = {h[j] : j \in 1..(i-1)}
        /\ \A j, k \in 1..(i-1) : h[j] = h[k] => j = k
    BY <1>1, <1>4
  <2> HIDE DEF h, Before
  <2> QED BY <2>1, <2>2, NumberedAreCounted
<1>8. ASSUME NEW i \in 1..n PROVE Nth(i) = g[i]
  <2>1. g[i] \in checks /\ Cardinality(Before(g[i])) = i - 1
    BY <1>3, <1>7
  <2>2. \A k \in checks : \E j \in 1..n : k = g[j] /\ Cardinality(Before(k)) = j - 1
    BY <1>3, <1>7
  <2> HIDE DEF Before
  <2>3. \A k \in checks : Cardinality(Before(k)) = i - 1 => k = g[i]
    BY <1>1, <2>2
  <2> QED BY <2>1, <2>3
<1> HIDE DEF Nth
<1> QED BY <1>1, <1>2, <1>4, <1>6, <1>8

\* A table reads back as what it was made of.
LEMMA TableReadsBack ==
  ASSUME NEW f, ReadableFolder(f), NEW t \in DOMAIN f.cols, NEW vt, Holds(f, t, vt), NEW props
  PROVE  /\ AlikeTables(FoldedVertex(f, t, props), vt)
         /\ FoldedVertex(f, t, props).props = props
<1> DEFINE F == FoldedVertex(f, t, props)
           keys == Filed(f, t, "natural_key")
           On(c) == {k \in Filed(f, t, "column_check") : k.name.column = c}
           Check(c) == IF On(c) = {} THEN None ELSE (CHOOSE k \in On(c) : TRUE).expr
           Key == IF keys = {} THEN None
                  ELSE LET k == CHOOSE k \in keys : TRUE IN [name |-> k.name, columns |-> k.columns]
<1>0. t \in DOMAIN f.cons /\ MadeTable(t, vt) /\ FoldedColumns(f, t) = f.cols[t]
  BY DEF ReadableFolder, FoldedColumns, Holds
<1>1. /\ F.key = Key /\ F.props = props
      /\ F.cols = [c \in DOMAIN f.cols[t] |-> [f.cols[t][c] EXCEPT !.check = Check(c)]]
  BY <1>0 DEF FoldedVertex, AttachConstraints
<1>2. F.checks = vt.checks
  BY <1>0, ChecksReadBack
<1> HIDE DEF F
<1>3. Key = vt.key
  <2>1. CASE vt.key = None
    BY <1>0, <2>1, ConstraintsFiled
  <2>2. CASE vt.key # None
    <3>1. keys = {KeyOf(vt)}
      BY <1>0, <2>2, ConstraintsFiled
    <3> HIDE DEF keys
    <3>2. Key = [name |-> KeyOf(vt).name, columns |-> KeyOf(vt).columns]
      BY <3>1
    <3> QED BY <1>0, <2>2, <3>2 DEF KeyOf, MadeTable, ProperTable
  <2> QED BY <2>1, <2>2
<1>4. ASSUME NEW c \in DOMAIN vt.cols PROVE Check(c) = vt.cols[c].check
  <2>1. Filed(f, t, "column_check") = {OnColumn(t, vt, x) : x \in {y \in DOMAIN vt.cols : vt.cols[y].check # None}}
    BY <1>0, ConstraintsFiled
  <2>2. \A x : OnColumn(t, vt, x).name.column = x /\ OnColumn(t, vt, x).expr = vt.cols[x].check
    BY DEF OnColumn, ColumnCheckConstraintName
  <2>3. CASE vt.cols[c].check = None
    BY <2>1, <2>2, <2>3
  <2>4. CASE vt.cols[c].check # None
    <3>1. On(c) = {OnColumn(t, vt, c)}
      BY <2>1, <2>2, <2>4
    <3> HIDE DEF On
    <3> QED BY <2>2, <3>1
  <2> QED BY <2>3, <2>4
<1> HIDE DEF Key, Check
<1>5. DOMAIN F.cols = DOMAIN vt.cols
  BY <1>1 DEF Holds
<1>6. ASSUME NEW c \in DOMAIN vt.cols PROVE \A a \in Compared : F.cols[c][a] = vt.cols[c][a]
  <2> DEFINE col == f.cols[t][c]
             new == [col EXCEPT !.check = Check(c)]
  <2>1. c \in DOMAIN f.cols[t] /\ IsColumn(col)
    BY DEF Holds, ReadableFolder
  <2>2. F.cols[c] = new
    BY <1>1, <2>1
  <2>3. col.type = vt.cols[c].type /\ col.unique = vt.cols[c].unique /\ col.default = vt.cols[c].default
    BY DEF Holds, Settled
  <2> HIDE DEF col
  <2>4. new.type = col.type /\ new.unique = col.unique /\ new.default = col.default /\ new.check = Check(c)
    BY <2>1 DEF IsColumn
  <2> HIDE DEF new
  <2> QED BY <1>4, <2>2, <2>3, <2>4 DEF Compared
<1> QED BY <1>1, <1>2, <1>3, <1>5, <1>6 DEF AlikeTables, F

\* Whatever a folder holds, the schema it stands for is one the differ reads.
KeysAreKeys(f) ==
  \A t \in DOMAIN f.cons : \A k \in Range(f.cons[t]) :
    k.columns = [i \in DOMAIN k.columns |-> k.columns[i]]

FlagsAreFlags(f) == \A t \in DOMAIN f.cols : \A c \in DOMAIN f.cols[t] : f.cols[t][c].unique \in BOOLEAN

LEMMA FoldedIsProper ==
  ASSUME NEW f, ReadableFolder(f), KeysAreKeys(f), FlagsAreFlags(f), NEW t, NEW props
  PROVE  ProperTable(FoldedVertex(f, t, props))
<1> DEFINE F == FoldedVertex(f, t, props)
           keys == Filed(f, t, "natural_key")
           checks == Filed(f, t, "table_check")
           On(c) == {k \in Filed(f, t, "column_check") : k.name.column = c}
           Check(c) == IF On(c) = {} THEN None ELSE (CHOOSE k \in On(c) : TRUE).expr
           Key == IF keys = {} THEN None
                  ELSE LET k == CHOOSE k \in keys : TRUE IN [name |-> k.name, columns |-> k.columns]
           Nth(i) == CHOOSE k \in checks : Cardinality({j \in checks : j.name.n < k.name.n}) = i - 1
           cols == FoldedColumns(f, t)
<1>1. /\ F.key = Key /\ F.props = props
      /\ F.checks = [i \in 1..Cardinality(checks) |-> Nth(i).expr]
      /\ F.cols = [c \in DOMAIN cols |-> [cols[c] EXCEPT !.check = Check(c)]]
      /\ {"cols", "props", "key", "checks"} \subseteq DOMAIN F
  BY DEF FoldedVertex, AttachConstraints
<1>2. Key # None => /\ Key = [name |-> Key.name, columns |-> Key.columns]
                    /\ Key.columns = [i \in DOMAIN Key.columns |-> Key.columns[i]]
  <2>1. ASSUME keys # {}
        PROVE  /\ Key = [name |-> Key.name, columns |-> Key.columns]
               /\ Key.columns = [i \in DOMAIN Key.columns |-> Key.columns[i]]
    <3> DEFINE k == CHOOSE k \in keys : TRUE
    <3>1. k \in keys
      BY <2>1
    <3>2. k.columns = [i \in DOMAIN k.columns |-> k.columns[i]]
      <4> HIDE DEF k
      <4> QED BY <3>1 DEF Filed, KeysAreKeys
    <3>3. Key = [name |-> k.name, columns |-> k.columns]
      BY <2>1
    <3> HIDE DEF k, Key
    <3> QED BY <3>2, <3>3
  <2> HIDE DEF keys
  <2> QED BY <2>1
<1>3. ASSUME NEW c \in DOMAIN F.cols PROVE ProperColumn(F.cols[c])
  <2> DEFINE col == cols[c]
             new == [col EXCEPT !.check = Check(c)]
  <2>1. c \in DOMAIN cols /\ F.cols[c] = new
    <3> HIDE DEF F, cols, Check
    <3> QED BY <1>1
  <2>2. IsColumn(col) /\ col.unique \in BOOLEAN
    <3>1. t \in DOMAIN f.cols /\ cols = f.cols[t]
      BY <2>1 DEF FoldedColumns
    <3> HIDE DEF cols
    <3> QED BY <2>1, <3>1 DEF ReadableFolder, FlagsAreFlags
  <2> HIDE DEF col, Check
  <2>3. {"type", "primary", "unique", "default", "check", "ref"} \subseteq DOMAIN new /\ new.unique = col.unique
    BY <2>2 DEF IsColumn
  <2> HIDE DEF new
  <2> QED BY <2>1, <2>2, <2>3 DEF ProperColumn
<1>4. F.checks = [i \in DOMAIN F.checks |-> F.checks[i]]
  BY <1>1
<1> HIDE DEF F, Key
<1> QED BY <1>1, <1>2, <1>3, <1>4 DEF ProperTable, F
------------------------------------------------------------------------------
(* What the differ is given.                                               *)

\* s is m without the tables in T and without the edges in E or of somebody else.
StripsTo(m, T, E, s) ==
  /\ DOMAIN s.vertices = DOMAIN m.vertices \ T
  /\ \A t \in DOMAIN s.vertices : s.vertices[t] = m.vertices[t]
  /\ DOMAIN s.edges = DOMAIN m.edges \ (T \union E \union Unmanaged(m.edges))
  /\ \A e \in DOMAIN s.edges : s.edges[e] = m.edges[e]
  /\ (\A i \in DOMAIN m.indexes : m.indexes[i].table \notin T) => s.indexes = m.indexes

LEMMA StrippedSchema ==
  ASSUME NEW m, Proper(m), NEW T, NEW E
  PROVE  StripsTo(m, T, E, StripTables(m, T, E))
<1> DEFINE S == StripTables(m, T, E)
<1>1. /\ S.vertices = Without(m.vertices, T)
      /\ S.edges = Without(m.edges, T \union E \union Unmanaged(m.edges))
      /\ S.indexes = Without(m.indexes, {i \in DOMAIN m.indexes : m.indexes[i].table \in T})
  BY DEF StripTables, Proper
<1> HIDE DEF S
<1>2. ASSUME \A i \in DOMAIN m.indexes : m.indexes[i].table \notin T PROVE S.indexes = m.indexes
  <2>1. {i \in DOMAIN m.indexes : m.indexes[i].table \in T} = {}
    BY <1>2
  <2>2. Without(m.indexes, {}) = [i \in DOMAIN m.indexes |-> m.indexes[i]]
    <3>1. DOMAIN m.indexes \ {} = DOMAIN m.indexes
      OBVIOUS
    <3> QED BY <3>1 DEF Without, Restrict
  <2>3. m.indexes = [i \in DOMAIN m.indexes |-> m.indexes[i]]
    BY DEF Proper, ProperIndexes
  <2>4. S.indexes = Without(m.indexes, {})
    BY <1>1, <2>1
  <2> QED BY <2>2, <2>3, <2>4
<1>3. /\ DOMAIN S.vertices = DOMAIN m.vertices \ T
      /\ \A t \in DOMAIN S.vertices : S.vertices[t] = m.vertices[t]
  BY <1>1 DEF Without, Restrict
<1> DEFINE D == T \union E \union Unmanaged(m.edges)
<1>4. S.edges = Without(m.edges, D)
  BY <1>1
<1> HIDE DEF D
<1>5. DOMAIN S.edges = DOMAIN m.edges \ D /\ \A e \in DOMAIN S.edges : S.edges[e] = m.edges[e]
  BY <1>4 DEF Without, Restrict
<1> QED BY <1>2, <1>3, <1>5 DEF S, D, StripsTo

\* A directory of d0 is given a schema d in which nothing changes hands.
Fits(d0, d) ==
  /\ UnownedEdges(d0) \subseteq UnownedEdges(d)
  /\ OwnedVertices(d0) \intersect UnownedTables(d) = {} /\ OwnedEdges(d0) \intersect UnownedEdges(d) = {}
  /\ OwnedVertices(d) \intersect UnownedTables(d0) = {}

LEMMA TablesAreEdges == \A d : UnownedTables(d) \subseteq UnownedEdges(d)
BY DEF UnownedTables, UnownedEdges

\* What is wanted are the owned tables, and they are there with their indexes.
LEMMA WantedIsOwned ==
  ASSUME NEW d, MadeSchema(d), Fits(d, d)
  PROVE  LET w == WithoutUnmanaged(d, d)
         IN  /\ Proper(w) /\ WantedSchema(w)
             /\ DOMAIN w.vertices = OwnedVertices(d) /\ DOMAIN w.edges = OwnedEdges(d)
             /\ \A t \in OwnedVertices(d) : w.vertices[t] = d.vertices[t]
             /\ \A e \in OwnedEdges(d) : w.edges[e] = d.edges[e]
             /\ w.indexes = d.indexes
<1> DEFINE w == WithoutUnmanaged(d, d)
           T == UnownedTables(d)
           E == UnownedEdges(d)
<1>1. /\ w = StripTables(d, T, E) /\ Proper(d) /\ T \subseteq E
      /\ OwnedVertices(d) \intersect T = {} /\ OwnedEdges(d) \intersect E = {}
  BY TablesAreEdges DEF WithoutUnmanaged, MadeSchema, Fits
<1>2. DOMAIN d.vertices \ T = OwnedVertices(d)
  BY <1>1 DEF OwnedVertices, UnownedTables
<1>3. DOMAIN d.edges \ (T \union E \union Unmanaged(d.edges)) = OwnedEdges(d)
  <2> HIDE DEF T, E
  <2> QED BY <1>1 DEF OwnedEdges
<1>4. \A i \in DOMAIN d.indexes : d.indexes[i].table \notin T
  <2> HIDE DEF T, E
  <2> QED BY <1>1 DEF MadeSchema
<1> HIDE DEF T, E
<1>5. StripsTo(d, T, E, w)
  BY <1>1, StrippedSchema
<1>6. /\ DOMAIN w.vertices = OwnedVertices(d) /\ DOMAIN w.edges = OwnedEdges(d)
      /\ \A t \in OwnedVertices(d) : w.vertices[t] = d.vertices[t]
      /\ \A e \in OwnedEdges(d) : w.edges[e] = d.edges[e]
      /\ w.indexes = d.indexes
  BY <1>5, <1>2, <1>3, <1>4 DEF StripsTo
<1>7. Proper(w)
  BY <1>1, ProperWithoutUnmanaged
<1> HIDE DEF w
<1>8. WantedSchema(w)
  BY <1>6 DEF WantedSchema, MadeSchema
<1> QED BY <1>6, <1>7, <1>8 DEF w

\* The folder f stands for the schema d: it holds what is owned of d and nothing
\* else.  Without a graph the differ does not look into an edge table, so there
\* it may have kept what a vertex table of that name had; of the types of its
\* columns it is known that some schema has them.
Known(schemas, f, t) ==
  \A c \in DOMAIN f.cols[t] : \E e \in schemas :
    /\ t \in Owned(e) /\ c \in DOMAIN OwnedTable(e, t).cols
    /\ f.cols[t][c].type = OwnedTable(e, t).cols[c].type

StandsFor(f, d, schemas) ==
  /\ ReadableFolder(f)
  /\ DOMAIN f.cols = Owned(d)
  /\ f.indexes = d.indexes
  /\ \A t \in Owned(d) : Known(schemas, f, t) /\ \E vt : Holds(f, t, vt)
  /\ \A t \in OwnedVertices(d) : Holds(f, t, d.vertices[t])

\* The schema m describes the folder f: which of its tables are edges is m's own
\* affair.
Describes(m, f) ==
  /\ DOMAIN m.vertices \intersect DOMAIN m.edges = {}
  /\ DOMAIN m.vertices \union DOMAIN m.edges = DOMAIN f.cols
  /\ m.indexes = f.indexes
  /\ \A t \in DOMAIN m.vertices : \E props : m.vertices[t] = FoldedVertex(f, t, props)

\* In q, m has its edges, or what is wanted as one where it has none.
HasEdgesOf(q, m, f, like) ==
  DOMAIN q.edges = IF DOMAIN m.edges # {} THEN DOMAIN m.edges ELSE DOMAIN f.cols \intersect DOMAIN like.edges

LEMMA ClassifiedDescribes ==
  ASSUME NEW m, {"vertices", "edges", "indexes"} \subseteq DOMAIN m, NEW f, Describes(m, f), NEW like
  PROVE  Describes(ClassifyLike(m, like), f) /\ HasEdgesOf(ClassifyLike(m, like), m, f, like)
<1> DEFINE q == ClassifyLike(m, like)
<1>1. CASE DOMAIN m.edges # {}
  BY <1>1 DEF ClassifyLike, HasEdgesOf
<1>2. CASE DOMAIN m.edges = {}
  <2> DEFINE edges == DOMAIN m.vertices \intersect DOMAIN like.edges
  <2>1. /\ DOMAIN q.edges = edges /\ DOMAIN q.vertices = DOMAIN m.vertices \ edges
        /\ \A t \in DOMAIN q.vertices : q.vertices[t] = m.vertices[t]
        /\ q.indexes = m.indexes
    BY <1>2 DEF ClassifyLike, Without, Restrict
  <2>2. DOMAIN m.vertices = DOMAIN f.cols
    BY <1>2 DEF Describes
  <2> HIDE DEF q
  <2>3. Describes(q, f)
    BY <1>2, <2>1, <2>2 DEF Describes
  <2> QED BY <1>2, <2>1, <2>2, <2>3 DEF q, HasEdgesOf
<1> QED BY <1>1, <1>2

LEMMA HeldHasColumns ==
  ASSUME NEW f, NEW t, NEW vt, Holds(f, t, vt)
  PROVE  DOMAIN f.cols[t] # {}
BY DEF Holds, MadeTable

\* What Build makes of a folder that stands for d0: as long as the folder has the
\* graph d0 asks for, exactly what d0 knows is described.
LEMMA BuildOfStanding ==
  ASSUME NEW f, NEW d0, NEW schemas, StandsFor(f, d0, schemas), MadeSchema(d0),
         f.graph \in {None, GraphDDL(d0)}
  PROVE  LET m == Build(f)
         IN  /\ m.indexes = f.indexes /\ {"named", "vertices", "edges", "indexes"} = DOMAIN m
             /\ f.graph = None => DOMAIN m.vertices = Owned(d0) /\ DOMAIN m.edges = {}
             /\ f.graph # None => DOMAIN m.vertices = DOMAIN d0.vertices /\ DOMAIN m.edges = DOMAIN d0.edges
             /\ Unmanaged(m.edges) = {}
             /\ \A t \in DOMAIN m.vertices \intersect Owned(d0) :
                  \E props : m.vertices[t] = FoldedVertex(f, t, props)
<1> DEFINE m == Build(f)
<1>1. CASE f.graph = None
  <2>1. m = BuildTablesOnly(f)
    BY <1>1 DEF Build
  <2>2. /\ m.indexes = f.indexes /\ {"named", "vertices", "edges", "indexes"} = DOMAIN m
        /\ DOMAIN m.vertices = Owned(d0) /\ DOMAIN m.edges = {}
        /\ \A t \in DOMAIN m.vertices : m.vertices[t] = FoldedVertex(f, t, {})
    BY <2>1 DEF BuildTablesOnly, StandsFor
  <2> HIDE DEF m
  <2>3. Unmanaged(m.edges) = {}
    BY <2>2 DEF Unmanaged
  <2> QED BY <1>1, <2>2, <2>3 DEF m
<1>2. CASE f.graph # None
  <2> DEFINE g == f.graph
             Vertex(t) == FoldedVertex(f, t, g.vertices[t].props)
             key(t) == g.vertices[t].key
  <2>1. g = GraphDDL(d0) /\ DOMAIN g.vertices = DOMAIN d0.vertices /\ DOMAIN g.edges = DOMAIN d0.edges
    <3>1. g = GraphDDL(d0)
      BY <1>2
    <3> QED BY <1>2, <3>1 DEF GraphDDL
  <2>2. /\ m.indexes = f.indexes /\ {"named", "vertices", "edges", "indexes"} = DOMAIN m
        /\ DOMAIN m.vertices = DOMAIN g.vertices /\ DOMAIN m.edges = DOMAIN g.edges
        /\ \A t \in DOMAIN m.vertices :
             m.vertices[t] = IF Vertex(t).key = None /\ key(t) # <<>> /\ DOMAIN Vertex(t).cols = {}
                             THEN [Vertex(t) EXCEPT !.key = [name |-> NaturalKeyConstraintName(t), columns |-> key(t)]]
                             ELSE Vertex(t)
        /\ \A e \in DOMAIN m.edges : m.edges[e].unmanaged = FALSE
    BY <1>2 DEF Build
  <2> HIDE DEF m, g
  <2>3. ASSUME NEW t \in DOMAIN m.vertices \intersect Owned(d0) PROVE m.vertices[t] = Vertex(t)
    <3>1. PICK vt : Holds(f, t, vt)
      BY DEF StandsFor
    <3>2. AlikeTables(Vertex(t), vt)
      <4>1. ReadableFolder(f) /\ t \in DOMAIN f.cols
        BY DEF StandsFor
      <4> QED BY <3>1, <4>1, TableReadsBack
    <3>3. DOMAIN Vertex(t).cols # {}
      <4> HIDE DEF Vertex
      <4> QED BY <3>1, <3>2 DEF AlikeTables, Holds, MadeTable
    <3> QED BY <2>2, <3>3
  <2>4. Unmanaged(m.edges) = {}
    BY <2>2 DEF Unmanaged
  <2> QED BY <1>2, <2>1, <2>2, <2>3, <2>4 DEF m, g
<1> QED BY <1>1, <1>2

LEMMA StandingIsProper ==
  ASSUME NEW f, NEW d0, NEW schemas, StandsFor(f, d0, schemas)
  PROVE  KeysAreKeys(f) /\ FlagsAreFlags(f)
<1>1. DOMAIN f.cons = Owned(d0) /\ DOMAIN f.cols = Owned(d0)
  BY DEF StandsFor, ReadableFolder
<1>2. ASSUME NEW t \in Owned(d0), NEW k \in Range(f.cons[t])
      PROVE  k.columns = [i \in DOMAIN k.columns |-> k.columns[i]]
  <2>1. PICK vt : Holds(f, t, vt)
    BY DEF StandsFor
  <2>2. k \in TableConstraints(t, vt) /\ MadeTable(t, vt)
    BY <2>1, HeldAreTheConstraints DEF Holds
  <2>3. CASE vt.key # None /\ k = KeyOf(vt)
    <3>1. k.columns = vt.key.columns
      BY <2>3 DEF KeyOf
    <3> QED BY <2>2, <2>3, <3>1 DEF MadeTable, ProperTable
  <2>4. CASE k.columns = <<>>
    BY <2>4
  <2>5. \A c, i : OnColumn(t, vt, c).columns = <<>> /\ OnTable(t, vt, i).columns = <<>>
    BY DEF OnColumn, OnTable
  <2> QED BY <2>2, <2>3, <2>4, <2>5, ConstraintsByKind
<1>3. ASSUME NEW t \in Owned(d0), NEW c \in DOMAIN f.cols[t] PROVE f.cols[t][c].unique \in BOOLEAN
  <2>1. PICK vt : Holds(f, t, vt)
    BY DEF StandsFor
  <2>2. c \in DOMAIN vt.cols /\ f.cols[t][c].unique = vt.cols[c].unique
    BY <2>1 DEF Holds, Settled
  <2> QED BY <2>1, <2>2 DEF Holds, MadeTable, ProperTable, ProperColumn
<1> QED BY <1>1, <1>2, <1>3 DEF KeysAreKeys, FlagsAreFlags

LEMMA RekeyedIsProper ==
  ASSUME NEW F, ProperTable(F), NEW name, NEW columns, columns = [i \in DOMAIN columns |-> columns[i]]
  PROVE  ProperTable([F EXCEPT !.key = [name |-> name, columns |-> columns]])
<1> DEFINE key == [name |-> name, columns |-> columns]
           G == [F EXCEPT !.key = key]
<1>1. key = [name |-> key.name, columns |-> key.columns] /\ key.columns = [i \in DOMAIN key.columns |-> key.columns[i]]
  OBVIOUS
<1> HIDE DEF key
<1>2. /\ DOMAIN G = DOMAIN F /\ G.key = key /\ G.cols = F.cols /\ G.checks = F.checks
      /\ {"cols", "props", "key", "checks"} \subseteq DOMAIN F
  BY DEF ProperTable
<1> HIDE DEF G
<1>3. ProperTable(G)
  BY <1>1, <1>2 DEF ProperTable
<1> QED BY <1>3 DEF G, key

\* What the directory stands for is a schema of the form the differ compares.
LEMMA BuildIsProper ==
  ASSUME NEW f, NEW d0, NEW schemas, StandsFor(f, d0, schemas), MadeSchema(d0),
         f.graph \in {None, GraphDDL(d0)}
  PROVE  Proper(Build(f))
<1> DEFINE m == Build(f)
<1>1. m.indexes = f.indexes /\ {"named", "vertices", "edges", "indexes"} = DOMAIN m
  BY BuildOfStanding
<1>2. ProperIndexes(f.indexes)
  BY DEF StandsFor, MadeSchema, Proper
<1>3. \A t, props : ProperTable(FoldedVertex(f, t, props))
  <2>1. ReadableFolder(f) /\ KeysAreKeys(f) /\ FlagsAreFlags(f)
    BY StandingIsProper DEF StandsFor
  <2> QED BY <2>1, FoldedIsProper
<1>4. ASSUME NEW t \in DOMAIN m.vertices PROVE ProperTable(m.vertices[t])
  <2>1. CASE f.graph = None
    <3>1. m.vertices[t] = FoldedVertex(f, t, {})
      BY <2>1 DEF Build, BuildTablesOnly
    <3> QED BY <1>3, <3>1
  <2>2. CASE f.graph # None
    <3> DEFINE g == f.graph
               V == FoldedVertex(f, t, g.vertices[t].props)
               key == g.vertices[t].key
               W == [V EXCEPT !.key = [name |-> NaturalKeyConstraintName(t), columns |-> key]]
    <3>1. m.vertices[t] = IF V.key = None /\ key # <<>> /\ DOMAIN V.cols = {} THEN W ELSE V
      BY <2>2 DEF Build
    <3>2. g = GraphDDL(d0) /\ t \in DOMAIN d0.vertices
      <4>1. g = GraphDDL(d0) /\ DOMAIN m.vertices = DOMAIN d0.vertices
        BY <2>2, BuildOfStanding
      <4> QED BY <4>1
    <3>3. key = IF d0.vertices[t].key = None THEN <<>> ELSE d0.vertices[t].key.columns
      <4> HIDE DEF m
      <4> QED BY <2>2, <3>2 DEF GraphDDL
    <3>4. key = [i \in DOMAIN key |-> key[i]]
      <4>1. <<>> = [i \in DOMAIN <<>> |-> <<>>[i]]
        OBVIOUS
      <4> DEFINE k == d0.vertices[t].key
      <4>2. k # None => k.columns = [i \in DOMAIN k.columns |-> k.columns[i]]
        BY <3>2 DEF MadeSchema, Proper, ProperTable
      <4>3. key = IF k = None THEN <<>> ELSE k.columns
        BY <3>3
      <4> HIDE DEF key, k
      <4>4. CASE k = None
        BY <4>1, <4>3, <4>4
      <4>5. CASE k # None
        BY <4>2, <4>3, <4>5
      <4> QED BY <4>4, <4>5
    <3>5. ProperTable(V)
      BY <1>3
    <3> HIDE DEF V, key
    <3>6. ProperTable(W)
      BY <3>4, <3>5, RekeyedIsProper
    <3> QED BY <3>1, <3>5, <3>6
  <2> QED BY <2>1, <2>2
<1> HIDE DEF m
<1>5. Proper(m)
  BY <1>1, <1>2, <1>4 DEF Proper
<1> QED BY <1>5 DEF m

\* The prior state the differ is given describes the folder; its edges are those
\* of d0 where the graph says so, and what is wanted as an edge where there are
\* none to go by.
Had(f, d) == ClassifyLike(WithoutUnmanaged(Build(f), d), WithoutUnmanaged(d, d))

LEMMA PriorDescribes ==
  ASSUME NEW f, NEW d0, NEW d, NEW schemas, StandsFor(f, d0, schemas), MadeSchema(d0), Fits(d0, d),
         f.graph \in {None, GraphDDL(d0)}, MadeSchema(d), Fits(d, d)
  PROVE  /\ Proper(Had(f, d)) /\ Describes(Had(f, d), f)
         /\ DOMAIN Had(f, d).edges = IF f.graph # None /\ OwnedEdges(d0) # {} THEN OwnedEdges(d0)
                                     ELSE Owned(d0) \intersect OwnedEdges(d)
<1> DEFINE m == Build(f)
           T == UnownedTables(d)
           E == UnownedEdges(d)
           s == WithoutUnmanaged(m, d)
           w == WithoutUnmanaged(d, d)
<1>1. Proper(m) /\ Proper(s) /\ Proper(Had(f, d))
  <2>1. Proper(m)
    BY BuildIsProper
  <2> HIDE DEF m
  <2>2. Proper(s)
    BY <2>1, ProperWithoutUnmanaged
  <2>3. Had(f, d) = ClassifyLike(s, w)
    BY DEF Had, m
  <2> HIDE DEF s, w
  <2> QED BY <2>1, <2>2, <2>3, ProperClassified
<1>2. StripsTo(m, T, E, s)
  BY <1>1, StrippedSchema DEF WithoutUnmanaged
<1>3. /\ m.indexes = f.indexes /\ {"named", "vertices", "edges", "indexes"} = DOMAIN m
      /\ f.graph = None => DOMAIN m.vertices = Owned(d0) /\ DOMAIN m.edges = {}
      /\ f.graph # None => DOMAIN m.vertices = DOMAIN d0.vertices /\ DOMAIN m.edges = DOMAIN d0.edges
      /\ Unmanaged(m.edges) = {}
      /\ \A t \in DOMAIN m.vertices \intersect Owned(d0) :
           \E props : m.vertices[t] = FoldedVertex(f, t, props)
  BY BuildOfStanding
<1>4. DOMAIN w.edges = OwnedEdges(d)
  BY WantedIsOwned
<1>5. /\ T \subseteq E /\ UnownedEdges(d0) \subseteq E
      /\ OwnedVertices(d0) \intersect T = {} /\ OwnedEdges(d0) \intersect E = {}
      /\ OwnedVertices(d) \intersect UnownedTables(d0) = {}
  BY TablesAreEdges DEF Fits
<1>6. DOMAIN d0.vertices \ T = OwnedVertices(d0)
  <2>1. ASSUME NEW t \in Unmanaged(d0.vertices) PROVE t \in T
    <3>1. t \in UnownedEdges(d) /\ t \in UnownedTables(d0)
      BY <1>5 DEF UnownedEdges, UnownedTables
    <3>2. t \notin OwnedVertices(d)
      BY <1>5, <3>1
    <3> QED BY <3>1, <3>2 DEF UnownedEdges, UnownedTables, OwnedVertices
  <2> HIDE DEF T
  <2> QED BY <1>5, <2>1 DEF OwnedVertices, Unmanaged
<1>7. DOMAIN d0.edges \ E = OwnedEdges(d0)
  <2>1. Unmanaged(d0.edges) \subseteq E
    BY <1>5 DEF UnownedEdges
  <2> HIDE DEF E
  <2> QED BY <1>5, <2>1 DEF OwnedEdges, Unmanaged
<1> HIDE DEF T, E, m, w
<1>8. /\ DOMAIN s.edges = IF f.graph = None THEN {} ELSE OwnedEdges(d0)
      /\ DOMAIN s.vertices = IF f.graph = None THEN Owned(d0) ELSE OwnedVertices(d0)
      /\ \A t \in DOMAIN s.vertices : s.vertices[t] = m.vertices[t]
      /\ \A t \in DOMAIN s.vertices : t \in DOMAIN m.vertices \intersect Owned(d0)
  <2>1. Owned(d0) \ T = Owned(d0)
    BY <1>5 DEF Owned
  <2> HIDE DEF s
  <2>2. CASE f.graph = None
    BY <1>2, <1>3, <2>1, <2>2 DEF StripsTo
  <2>3. CASE f.graph # None
    <3>1. DOMAIN s.vertices = OwnedVertices(d0)
      BY <1>2, <1>3, <1>6, <2>3 DEF StripsTo
    <3>2. DOMAIN s.edges = OwnedEdges(d0)
      <4>1. DOMAIN s.edges = DOMAIN d0.edges \ (T \union E \union {})
        BY <1>2, <1>3, <2>3 DEF StripsTo
      <4>2. T \union E \union {} = E
        BY <1>5
      <4> QED BY <1>7, <4>1, <4>2
    <3>3. OwnedVertices(d0) \subseteq DOMAIN m.vertices
      BY <1>3, <2>3 DEF OwnedVertices
    <3> QED BY <1>2, <2>3, <3>1, <3>2, <3>3 DEF StripsTo, Owned
  <2> QED BY <2>2, <2>3
<1>9. s.indexes = f.indexes
  <2>1. f.indexes = d0.indexes
    BY DEF StandsFor
  <2>2. \A i \in DOMAIN m.indexes : m.indexes[i].table \notin T
    BY <1>3, <1>5, <2>1 DEF MadeSchema
  <2> HIDE DEF s
  <2> QED BY <1>2, <1>3, <2>2 DEF StripsTo
<1> HIDE DEF s
<1>10. Describes(s, f)
  <2>1. DOMAIN f.cols = Owned(d0) /\ OwnedVertices(d0) \intersect OwnedEdges(d0) = {}
    BY DEF StandsFor, MadeSchema
  <2> QED BY <1>3, <1>8, <1>9, <2>1 DEF Describes, Owned
<1>11. Had(f, d) = ClassifyLike(s, w)
  BY DEF Had, s, m, w
<1>12. {"vertices", "edges", "indexes"} \subseteq DOMAIN s /\ DOMAIN f.cols = Owned(d0)
  BY <1>1 DEF Proper, StandsFor
<1>13. Describes(Had(f, d), f) /\ HasEdgesOf(Had(f, d), s, f, w)
  BY <1>10, <1>11, <1>12, ClassifiedDescribes
<1> QED BY <1>1, <1>4, <1>8, <1>12, <1>13 DEF HasEdgesOf

\* A folder that stands for what is wanted is alike to it.
LEMMA StandingIsAlike ==
  ASSUME NEW f, NEW d, NEW schemas, StandsFor(f, d, schemas), MadeSchema(d), Fits(d, d),
         f.graph \in {None, GraphDDL(d)}
  PROVE  Alike(Had(f, d), WithoutUnmanaged(d, d))
<1> DEFINE had == Had(f, d)
           w == WithoutUnmanaged(d, d)
<1>1. /\ Describes(had, f)
      /\ DOMAIN had.edges = IF f.graph # None /\ OwnedEdges(d) # {} THEN OwnedEdges(d)
                            ELSE Owned(d) \intersect OwnedEdges(d)
  BY PriorDescribes
<1>2. /\ DOMAIN w.vertices = OwnedVertices(d) /\ DOMAIN w.edges = OwnedEdges(d)
      /\ \A t \in OwnedVertices(d) : w.vertices[t] = d.vertices[t]
      /\ w.indexes = d.indexes
  BY WantedIsOwned
<1> HIDE DEF had, w
<1>3. DOMAIN had.edges = OwnedEdges(d)
  BY <1>1 DEF Owned
<1>4. DOMAIN had.vertices = OwnedVertices(d)
  BY <1>1, <1>3 DEF Describes, StandsFor, MadeSchema, Owned
<1>5. had.indexes = w.indexes
  BY <1>1, <1>2 DEF Describes, StandsFor
<1>6. ASSUME NEW t \in OwnedVertices(d) PROVE AlikeTables(had.vertices[t], w.vertices[t])
  <2>1. PICK props : had.vertices[t] = FoldedVertex(f, t, props)
    BY <1>1, <1>4 DEF Describes
  <2>2. Holds(f, t, d.vertices[t]) /\ ReadableFolder(f) /\ t \in DOMAIN f.cols
    BY DEF StandsFor, Owned
  <2>3. AlikeTables(FoldedVertex(f, t, props), d.vertices[t])
    BY <2>2, TableReadsBack
  <2> QED BY <1>2, <2>1, <2>3
<1> QED BY <1>2, <1>3, <1>4, <1>5, <1>6 DEF Alike, had, w

\* A graph reads back, the tables of somebody else in it too: CREATE PROPERTY
\* GRAPH rendered from what the folder builds (fold.go:587) is the statement the
\* directory holds, so a second run sees no change of the graph.
THEOREM GraphReadsBack ==
  ASSUME NEW f, NEW d0, NEW schemas, StandsFor(f, d0, schemas), MadeSchema(d0), Fits(d0, d0),
         f.graph \in {None, GraphDDL(d0)}
  PROVE  GraphDDL(Build(f)) = f.graph
<1> DEFINE m == Build(f)
           g == f.graph
<1>1. CASE g = None
  BY <1>1 DEF Build, BuildTablesOnly, GraphDDL
<1>2. CASE g # None
  <2> DEFINE Asked(t) == IF d0.vertices[t].key = None THEN <<>> ELSE d0.vertices[t].key.columns
             Element(t) == [key |-> Asked(t), props |-> d0.vertices[t].props]
             Ends(e) == [src |-> d0.edges[e].src, dst |-> d0.edges[e].dst]
             elements == [t \in DOMAIN d0.vertices |-> Element(t)]
             ends == [e \in DOMAIN d0.edges |-> Ends(e)]
             V(t) == FoldedVertex(f, t, g.vertices[t].props)
             key(t) == g.vertices[t].key
             W(t) == [V(t) EXCEPT !.key = [name |-> NaturalKeyConstraintName(t), columns |-> key(t)]]
             Said(t) == IF m.vertices[t].key = None THEN <<>> ELSE m.vertices[t].key.columns
  <2>1. g = [vertices |-> elements, edges |-> ends]
    BY <1>2 DEF GraphDDL
  <2>2. /\ m.named = TRUE
        /\ DOMAIN m.vertices = DOMAIN g.vertices /\ DOMAIN m.edges = DOMAIN g.edges
        /\ \A t \in DOMAIN m.vertices :
             m.vertices[t] = IF V(t).key = None /\ key(t) # <<>> /\ DOMAIN V(t).cols = {} THEN W(t) ELSE V(t)
        /\ \A e \in DOMAIN m.edges : m.edges[e].src = g.edges[e].src /\ m.edges[e].dst = g.edges[e].dst
    BY <1>2 DEF Build
  <2>3. DOMAIN d0.vertices # {}
    BY <1>2 DEF GraphDDL
  <2>4. /\ \A t : Element(t).key = Asked(t) /\ Element(t).props = d0.vertices[t].props
        /\ \A t : Element(t) = [key |-> Element(t).key, props |-> Element(t).props]
        /\ \A e : Ends(e) = [src |-> Ends(e).src, dst |-> Ends(e).dst]
    OBVIOUS
  <2> HIDE DEF m, g, Element, Ends
  <2>5. /\ DOMAIN m.vertices = DOMAIN d0.vertices /\ DOMAIN m.edges = DOMAIN d0.edges
        /\ \A t \in DOMAIN d0.vertices : g.vertices[t] = Element(t)
        /\ \A e \in DOMAIN d0.edges : g.edges[e] = Ends(e)
    BY <2>1, <2>2
  <2>6. ASSUME NEW t \in DOMAIN d0.vertices
        PROVE  Said(t) = Asked(t) /\ m.vertices[t].props = d0.vertices[t].props
    <3>0. key(t) = Asked(t) /\ g.vertices[t].props = d0.vertices[t].props
      BY <2>4, <2>5
    <3>1. CASE t \in OwnedVertices(d0)
      <4>1. Holds(f, t, d0.vertices[t]) /\ ReadableFolder(f) /\ t \in DOMAIN f.cols
        BY <3>1 DEF StandsFor, Owned
      <4>2. AlikeTables(V(t), d0.vertices[t]) /\ V(t).props = g.vertices[t].props
        BY <4>1, TableReadsBack
      <4>3. m.vertices[t] = V(t)
        <5> HIDE DEF V
        <5>1. DOMAIN V(t).cols # {}
          BY <4>1, <4>2 DEF AlikeTables, Holds, MadeTable
        <5> QED BY <2>2, <2>5, <5>1
      <4> HIDE DEF V
      <4> QED BY <3>0, <4>2, <4>3 DEF AlikeTables
    <3>2. CASE t \notin OwnedVertices(d0)
      <4>1. t \in UnownedEdges(d0)
        BY <3>2 DEF OwnedVertices, UnownedEdges
      <4>2. t \notin Owned(d0)
        BY <3>2, <4>1 DEF Fits, Owned
      <4>3. t \notin DOMAIN f.cols /\ t \notin DOMAIN f.cons
        BY <4>2 DEF StandsFor, ReadableFolder
      <4>4. V(t).key = None /\ DOMAIN V(t).cols = {} /\ V(t).props = g.vertices[t].props /\ {"key", "props"} \subseteq DOMAIN V(t)
        BY <4>3 DEF FoldedVertex, AttachConstraints, FoldedColumns, Filed
      <4> HIDE DEF V
      <4>5. CASE key(t) = <<>>
        <5>1. m.vertices[t] = V(t)
          BY <2>2, <2>5, <4>5
        <5> QED BY <3>0, <4>4, <4>5, <5>1
      <4>6. CASE key(t) # <<>>
        <5> DEFINE made == [name |-> NaturalKeyConstraintName(t), columns |-> key(t)]
        <5>1. m.vertices[t] = [V(t) EXCEPT !.key = made]
          BY <2>2, <2>5, <4>4, <4>6
        <5>2. d0.vertices[t].key # None /\ key(t) = d0.vertices[t].key.columns
          BY <3>0, <4>6
        <5>3. made = d0.vertices[t].key
          <6>1. d0.vertices[t].key.name = NaturalKeyConstraintName(t)
            BY <5>2 DEF MadeSchema
          <6>2. d0.vertices[t].key = [name |-> d0.vertices[t].key.name, columns |-> d0.vertices[t].key.columns]
            BY <5>2 DEF MadeSchema, Proper, ProperTable
          <6> QED BY <5>2, <6>1, <6>2
        <5> HIDE DEF made
        <5>4. m.vertices[t].key = d0.vertices[t].key /\ m.vertices[t].props = V(t).props
          BY <4>4, <5>1, <5>3
        <5> QED BY <3>0, <4>4, <5>2, <5>4
      <4> QED BY <4>5, <4>6
    <3> QED BY <3>1, <3>2
  <2>7. GraphDDL(m) = [vertices |-> [t \in DOMAIN m.vertices |-> [key |-> Said(t), props |-> m.vertices[t].props]],
                       edges |-> [e \in DOMAIN m.edges |-> [src |-> m.edges[e].src, dst |-> m.edges[e].dst]]]
    BY <2>2, <2>3, <2>5 DEF GraphDDL
  <2> HIDE DEF Said, Asked
  <2>8. [t \in DOMAIN m.vertices |-> [key |-> Said(t), props |-> m.vertices[t].props]] = elements
    BY <2>4, <2>5, <2>6
  <2>9. [e \in DOMAIN m.edges |-> [src |-> m.edges[e].src, dst |-> m.edges[e].dst]] = ends
    BY <2>2, <2>4, <2>5
  <2> HIDE DEF elements, ends
  <2> QED BY <2>1, <2>7, <2>8, <2>9 DEF m, g
<1> QED BY <1>1, <1>2

\* A folder that stands for a schema is readable: no check is filed under a
\* column that is not there.
LEMMA StandingIsReadable ==
  ASSUME NEW f, NEW d0, NEW schemas, StandsFor(f, d0, schemas)
  PROVE  f.ok /\ ~Dangling(f)
<1>1. /\ DOMAIN f.cons = Owned(d0) /\ f.ok
      /\ \A t \in Owned(d0) : \E vt : Holds(f, t, vt)
  BY DEF StandsFor, ReadableFolder
<1>2. ASSUME NEW t \in DOMAIN f.cons, NEW k \in Filed(f, t, "column_check")
      PROVE  k.name.column \in DOMAIN f.cols[t]
  <2>1. PICK vt : Holds(f, t, vt)
    BY <1>1
  <2>2. PICK c \in DOMAIN vt.cols : k = OnColumn(t, vt, c)
    BY <2>1, ConstraintsFiled
  <2>3. k.name.column = c
    BY <2>2 DEF OnColumn, ColumnCheckConstraintName
  <2> QED BY <2>1, <2>3 DEF Holds
<1> QED BY <1>1, <1>2 DEF Dangling

\* The next generation for the schema a directory stands for writes nothing and
\* misses nothing.
LEMMA StandingLeavesNothing ==
  ASSUME NEW f, NEW d, NEW schemas, StandsFor(f, d, schemas), MadeSchema(d), Fits(d, d),
         NEW g \in BOOLEAN, f.graph = IF g THEN GraphDDL(d) ELSE None
  PROVE  Plan(Build(f), d, g) = <<>> /\ MissingTables(Build(f), d) = {}
<1> DEFINE m == Build(f)
<1>1. f.graph \in {None, GraphDDL(d)}
  OBVIOUS
<1>2. Proper(m) /\ Proper(d) /\ GraphDDL(m) = f.graph
  BY <1>1, BuildIsProper, GraphReadsBack DEF MadeSchema
<1>3. Alike(Had(f, d), WithoutUnmanaged(d, d))
  BY <1>1, StandingIsAlike
<1>4. Plan(m, d, g) = <<>>
  <2>1. Alike(ClassifyLike(WithoutUnmanaged(m, d), WithoutUnmanaged(d, d)), WithoutUnmanaged(d, d))
    BY <1>3 DEF Had
  <2> HIDE DEF m
  <2> QED BY <1>2, <2>1, NoFilesExactlyIfAlike
<1>5. ASSUME NEW t \in Owned(d)
      PROVE  \/ t \in DOMAIN m.vertices /\ DOMAIN m.vertices[t].cols # {}
             \/ t \in DOMAIN m.edges /\ DOMAIN m.edges[t].cols # {}
  <2>1. PICK vt : Holds(f, t, vt)
    BY DEF StandsFor
  <2>2. t \in DOMAIN f.cols /\ DOMAIN f.cols[t] # {} /\ ReadableFolder(f)
    BY <2>1, HeldHasColumns DEF StandsFor
  <2>3. /\ f.graph = None => DOMAIN m.vertices = Owned(d)
        /\ f.graph # None => DOMAIN m.vertices = DOMAIN d.vertices /\ DOMAIN m.edges = DOMAIN d.edges
        /\ \A x \in DOMAIN m.vertices \intersect Owned(d) : \E props : m.vertices[x] = FoldedVertex(f, x, props)
    BY <1>1, BuildOfStanding
  <2>4. CASE t \in DOMAIN m.vertices
    <3>1. PICK props : m.vertices[t] = FoldedVertex(f, t, props)
      BY <2>3, <2>4
    <3>2. AlikeTables(FoldedVertex(f, t, props), vt)
      BY <2>1, <2>2, TableReadsBack
    <3> HIDE DEF m
    <3> QED BY <2>1, <2>4, <3>1, <3>2 DEF AlikeTables, Holds, MadeTable
  <2>5. CASE t \notin DOMAIN m.vertices
    <3>1. f.graph # None /\ t \in DOMAIN m.edges
      BY <2>3, <2>5 DEF Owned, OwnedVertices, OwnedEdges
    <3>2. m.edges[t].cols = FoldedColumns(f, t)
      BY <3>1 DEF Build
    <3>3. FoldedColumns(f, t) = f.cols[t]
      BY <2>2 DEF FoldedColumns
    <3> HIDE DEF m
    <3> QED BY <2>2, <3>1, <3>2, <3>3
  <2> QED BY <2>4, <2>5
<1> HIDE DEF m
<1>6. MissingTables(m, d) = {}
  BY <1>5 DEF MissingTables, Owned, OwnedVertices, OwnedEdges
<1> QED BY <1>4, <1>6 DEF m
------------------------------------------------------------------------------
(* The Up section of a tables file, in two halves: what it drops, and what   *)
(* it adds.                                                                *)

LEMMA ImageGoesThrough ==
  ASSUME NEW g, IsFiniteSet(DOMAIN g), NEW T, T = {g[x] : x \in DOMAIN g}
  PROVE  GoesThrough(Listed(T), T)
<1>1. IsFiniteSet(T)
  BY ImagesAreFinite
<1> QED BY <1>1, ListedHoldsTheSet

DropStmts(delta, from) ==
  {DropConstraint(k.table, k.con.name) : k \in delta.droppedConstraints}
  \union {DropIndex(i, from.indexes[i]) : i \in delta.droppedIndexes}
  \union {DropUnique(u) : u \in delta.droppedUniques}
  \union {DropColumn(u[1], u[2]) : u \in delta.droppedColumns}
  \union {DropTable(t) : t \in delta.dropped.edges}
  \union {DropTable(t) : t \in delta.dropped.vertices}

AddStmts(delta, to) ==
  (UNION {CreateStmts(to, t) : t \in delta.added.vertices})
  \union (UNION {CreateStmts(to, t) : t \in delta.added.edges})
  \union {AddColumn(u[1], u[2], to.vertices[u[1]].cols[u[2]]) : u \in delta.addedColumns}
  \union {SetDefault(u[1], u[2], to.vertices[u[1]].cols[u[2]].default) : u \in delta.defaultChanges}
  \union {AddUnique(u) : u \in delta.addedUniques}
  \union {AddConstraint(k.table, k.con) : k \in delta.addedConstraints}
  \union {IndexDDL(i, to.indexes[i]) : i \in delta.addedIndexes}

\* A difference with finitely many parts, and neither renames nor new types.
PlainDelta(delta) ==
  /\ delta.renames.tables = {} /\ delta.renames.columns = {} /\ delta.typeChanges = {}
  /\ delta.added.vertices \subseteq Range(Alphabet) /\ delta.added.edges \subseteq Range(Alphabet)
  /\ delta.dropped.vertices \subseteq Range(Alphabet) /\ delta.dropped.edges \subseteq Range(Alphabet)
  /\ IsFiniteSet(delta.addedColumns) /\ IsFiniteSet(delta.droppedColumns)
  /\ IsFiniteSet(delta.addedIndexes) /\ IsFiniteSet(delta.droppedIndexes)
  /\ IsFiniteSet(delta.addedUniques) /\ IsFiniteSet(delta.droppedUniques)
  /\ IsFiniteSet(delta.addedConstraints) /\ IsFiniteSet(delta.droppedConstraints)
  /\ IsFiniteSet(delta.defaultChanges)

\* Its statements in those halves.
DropHalf(d, from) ==
  Each(d.renames.tables, LAMBDA r : RenameTable(r.from, r.to))
  \o Each(d.renames.columns, LAMBDA r : RenameColumn(r.table, r.from, r.to))
  \o Each(d.droppedConstraints, LAMBDA k : DropConstraint(k.table, k.con.name))
  \o Each(d.droppedIndexes, LAMBDA i : DropIndex(i, from.indexes[i]))
  \o Each(d.droppedUniques, DropUnique)
  \o Each(d.droppedColumns, LAMBDA u : DropColumn(u[1], u[2]))
  \o Drops(d.dropped.edges)
  \o Drops(d.dropped.vertices)

AddHalf(d, to) ==
  Creates(to, d.added.vertices)
  \o Creates(to, d.added.edges)
  \o Each(d.addedColumns, LAMBDA u : AddColumn(u[1], u[2], to.vertices[u[1]].cols[u[2]]))
  \o Each(d.typeChanges, LAMBDA u : AlterType(u[1], u[2], to.vertices[u[1]].cols[u[2]].type))
  \o Each(d.defaultChanges, LAMBDA u : SetDefault(u[1], u[2], to.vertices[u[1]].cols[u[2]].default))
  \o Each(d.addedUniques, AddUnique)
  \o Each(d.addedConstraints, LAMBDA k : AddConstraint(k.table, k.con))
  \o Each(d.addedIndexes, LAMBDA i : IndexDDL(i, to.indexes[i]))

LEMMA DropHalfGoesThrough ==
  ASSUME NEW d, PlainDelta(d), NEW from
  PROVE  GoesThrough(DropHalf(d, from), DropStmts(d, from))
<1> DEFINE T1 == {RenameTable(r.from, r.to) : r \in d.renames.tables}
           T2 == {RenameColumn(r.table, r.from, r.to) : r \in d.renames.columns}
           T3 == {DropConstraint(k.table, k.con.name) : k \in d.droppedConstraints}
           T4 == {DropIndex(i, from.indexes[i]) : i \in d.droppedIndexes}
           T5 == {DropUnique(u) : u \in d.droppedUniques}
           T6 == {DropColumn(u[1], u[2]) : u \in d.droppedColumns}
           T7 == {DropTable(t) : t \in d.dropped.edges}
           T8 == {DropTable(t) : t \in d.dropped.vertices}
           D7 == Drops(d.dropped.edges)
           D8 == Drops(d.dropped.vertices)
<1>0. DropHalf(d, from) = ((((((Listed(T1) \o Listed(T2)) \o Listed(T3)) \o Listed(T4)) \o Listed(T5))
                             \o Listed(T6)) \o D7) \o D8
  BY DEF DropHalf, Each
<1>1. T1 = {} /\ T2 = {}
  BY DEF PlainDelta
<1>2. GoesThrough(Listed(T1), T1) /\ GoesThrough(Listed(T2), T2)
  <2>1. IsFiniteSet({})
    BY FS_EmptySet
  <2> HIDE DEF T1, T2
  <2> QED BY <1>1, <2>1, ListedHoldsTheSet
<1>3. GoesThrough(Listed(T3), T3)
  <2> DEFINE g == [k \in d.droppedConstraints |-> DropConstraint(k.table, k.con.name)]
  <2>1. IsFiniteSet(DOMAIN g) /\ T3 = {g[x] : x \in DOMAIN g}
    BY DEF PlainDelta
  <2> HIDE DEF g, T3
  <2> QED BY <2>1, ImageGoesThrough
<1>4. GoesThrough(Listed(T4), T4)
  <2> DEFINE g == [i \in d.droppedIndexes |-> DropIndex(i, from.indexes[i])]
  <2>1. IsFiniteSet(DOMAIN g) /\ T4 = {g[x] : x \in DOMAIN g}
    BY DEF PlainDelta
  <2> HIDE DEF g, T4
  <2> QED BY <2>1, ImageGoesThrough
<1>5. GoesThrough(Listed(T5), T5)
  <2> DEFINE g == [u \in d.droppedUniques |-> DropUnique(u)]
  <2>1. IsFiniteSet(DOMAIN g) /\ T5 = {g[x] : x \in DOMAIN g}
    BY DEF PlainDelta
  <2> HIDE DEF g, T5
  <2> QED BY <2>1, ImageGoesThrough
<1>6. GoesThrough(Listed(T6), T6)
  <2> DEFINE g == [u \in d.droppedColumns |-> DropColumn(u[1], u[2])]
  <2>1. IsFiniteSet(DOMAIN g) /\ T6 = {g[x] : x \in DOMAIN g}
    BY DEF PlainDelta
  <2> HIDE DEF g, T6
  <2> QED BY <2>1, ImageGoesThrough
<1>7. GoesThrough(D7, T7) /\ GoesThrough(D8, T8)
  BY DropsGoThrough DEF PlainDelta
<1>8. DropStmts(d, from) = T3 \union T4 \union T5 \union T6 \union T7 \union T8
  BY DEF DropStmts
<1> HIDE DEF T1, T2, T3, T4, T5, T6, T7, T8, D7, D8
<1> DEFINE q2 == Listed(T1) \o Listed(T2)
           q3 == q2 \o Listed(T3)
           q4 == q3 \o Listed(T4)
           q5 == q4 \o Listed(T5)
           q6 == q5 \o Listed(T6)
           q7 == q6 \o D7
           U3 == (T1 \union T2) \union T3
           U4 == U3 \union T4
           U5 == U4 \union T5
           U6 == U5 \union T6
           U7 == U6 \union T7
<1>9. GoesThrough(q2, T1 \union T2)
  BY <1>2, JoinedGoThrough
<1> HIDE DEF q2
<1>10. GoesThrough(q3, U3)
  BY <1>3, <1>9, JoinedGoThrough
<1> HIDE DEF q3, U3
<1>11. GoesThrough(q4, U4)
  BY <1>4, <1>10, JoinedGoThrough
<1> HIDE DEF q4, U4
<1>12. GoesThrough(q5, U5)
  BY <1>5, <1>11, JoinedGoThrough
<1> HIDE DEF q5, U5
<1>13. GoesThrough(q6, U6)
  BY <1>6, <1>12, JoinedGoThrough
<1> HIDE DEF q6, U6
<1>14. GoesThrough(q7, U7)
  BY <1>7, <1>13, JoinedGoThrough
<1> HIDE DEF q7, U7
<1>15. GoesThrough(q7 \o D8, U7 \union T8)
  BY <1>7, <1>14, JoinedGoThrough
<1>16. DropHalf(d, from) = q7 \o D8
  BY <1>0 DEF q2, q3, q4, q5, q6, q7
<1>17. DropStmts(d, from) = U7 \union T8
  BY <1>1, <1>8 DEF U3, U4, U5, U6, U7
<1> QED BY <1>15, <1>16, <1>17

LEMMA AddHalfGoesThrough ==
  ASSUME NEW d, PlainDelta(d), NEW to, IsFiniteSet(DOMAIN to.indexes)
  PROVE  GoesThrough(AddHalf(d, to), AddStmts(d, to))
<1> DEFINE T1 == UNION {CreateStmts(to, t) : t \in d.added.vertices}
           T2 == UNION {CreateStmts(to, t) : t \in d.added.edges}
           T3 == {AddColumn(u[1], u[2], to.vertices[u[1]].cols[u[2]]) : u \in d.addedColumns}
           T4 == {AlterType(u[1], u[2], to.vertices[u[1]].cols[u[2]].type) : u \in d.typeChanges}
           T5 == {SetDefault(u[1], u[2], to.vertices[u[1]].cols[u[2]].default) : u \in d.defaultChanges}
           T6 == {AddUnique(u) : u \in d.addedUniques}
           T7 == {AddConstraint(k.table, k.con) : k \in d.addedConstraints}
           T8 == {IndexDDL(i, to.indexes[i]) : i \in d.addedIndexes}
           C1 == Creates(to, d.added.vertices)
           C2 == Creates(to, d.added.edges)
<1>0. AddHalf(d, to) = ((((((C1 \o C2) \o Listed(T3)) \o Listed(T4)) \o Listed(T5)) \o Listed(T6))
                         \o Listed(T7)) \o Listed(T8)
  BY DEF AddHalf, Each
<1>1. GoesThrough(C1, T1) /\ GoesThrough(C2, T2)
  BY CreatesGoThrough DEF PlainDelta
<1>2. T4 = {}
  BY DEF PlainDelta
<1>3. GoesThrough(Listed(T3), T3)
  <2> DEFINE g == [u \in d.addedColumns |-> AddColumn(u[1], u[2], to.vertices[u[1]].cols[u[2]])]
  <2>1. IsFiniteSet(DOMAIN g) /\ T3 = {g[x] : x \in DOMAIN g}
    BY DEF PlainDelta
  <2> HIDE DEF g, T3
  <2> QED BY <2>1, ImageGoesThrough
<1>4. GoesThrough(Listed(T4), T4)
  <2>1. IsFiniteSet({})
    BY FS_EmptySet
  <2> HIDE DEF T4
  <2> QED BY <1>2, <2>1, ListedHoldsTheSet
<1>5. GoesThrough(Listed(T5), T5)
  <2> DEFINE g == [u \in d.defaultChanges |-> SetDefault(u[1], u[2], to.vertices[u[1]].cols[u[2]].default)]
  <2>1. IsFiniteSet(DOMAIN g) /\ T5 = {g[x] : x \in DOMAIN g}
    BY DEF PlainDelta
  <2> HIDE DEF g, T5
  <2> QED BY <2>1, ImageGoesThrough
<1>6. GoesThrough(Listed(T6), T6)
  <2> DEFINE g == [u \in d.addedUniques |-> AddUnique(u)]
  <2>1. IsFiniteSet(DOMAIN g) /\ T6 = {g[x] : x \in DOMAIN g}
    BY DEF PlainDelta
  <2> HIDE DEF g, T6
  <2> QED BY <2>1, ImageGoesThrough
<1>7. GoesThrough(Listed(T7), T7)
  <2> DEFINE g == [k \in d.addedConstraints |-> AddConstraint(k.table, k.con)]
  <2>1. IsFiniteSet(DOMAIN g) /\ T7 = {g[x] : x \in DOMAIN g}
    BY DEF PlainDelta
  <2> HIDE DEF g, T7
  <2> QED BY <2>1, ImageGoesThrough
<1>8. GoesThrough(Listed(T8), T8)
  <2> DEFINE g == [i \in d.addedIndexes |-> IndexDDL(i, to.indexes[i])]
  <2>1. IsFiniteSet(DOMAIN g) /\ T8 = {g[x] : x \in DOMAIN g}
    BY DEF PlainDelta
  <2> HIDE DEF g, T8
  <2> QED BY <2>1, ImageGoesThrough
<1>9. AddStmts(d, to) = T1 \union T2 \union T3 \union T5 \union T6 \union T7 \union T8
  BY DEF AddStmts
<1> HIDE DEF T1, T2, T3, T4, T5, T6, T7, T8, C1, C2
<1> DEFINE q2 == C1 \o C2
           q3 == q2 \o Listed(T3)
           q4 == q3 \o Listed(T4)
           q5 == q4 \o Listed(T5)
           q6 == q5 \o Listed(T6)
           q7 == q6 \o Listed(T7)
           U3 == (T1 \union T2) \union T3
           U4 == U3 \union T4
           U5 == U4 \union T5
           U6 == U5 \union T6
           U7 == U6 \union T7
<1>10. GoesThrough(q2, T1 \union T2)
  BY <1>1, JoinedGoThrough
<1> HIDE DEF q2
<1>11. GoesThrough(q3, U3)
  BY <1>3, <1>10, JoinedGoThrough
<1> HIDE DEF q3, U3
<1>12. GoesThrough(q4, U4)
  BY <1>4, <1>11, JoinedGoThrough
<1> HIDE DEF q4, U4
<1>13. GoesThrough(q5, U5)
  BY <1>5, <1>12, JoinedGoThrough
<1> HIDE DEF q5, U5
<1>14. GoesThrough(q6, U6)
  BY <1>6, <1>13, JoinedGoThrough
<1> HIDE DEF q6, U6
<1>15. GoesThrough(q7, U7)
  BY <1>7, <1>14, JoinedGoThrough
<1> HIDE DEF q7, U7
<1>16. GoesThrough(q7 \o Listed(T8), U7 \union T8)
  BY <1>8, <1>15, JoinedGoThrough
<1>17. AddHalf(d, to) = q7 \o Listed(T8)
  BY <1>0 DEF q2, q3, q4, q5, q6, q7
<1>18. AddStmts(d, to) = U7 \union T8
  BY <1>2, <1>9 DEF U3, U4, U5, U6, U7
<1> QED BY <1>16, <1>17, <1>18

\* Lists may be joined from either end.
Joins(p, q, r) == (p \o q) \o r = p \o (q \o r) /\ List(q \o r)

LEMMA ListsJoin ==
  ASSUME NEW p, NEW q, NEW r, List(p), List(q), List(r)
  PROVE  Joins(p, q, r)
<1> DEFINE U == Range(p) \union Range(q) \union Range(r)
<1>1. p \in Seq(U) /\ q \in Seq(U) /\ r \in Seq(U)
  BY DEF List
<1>2. (p \o q) \o r = p \o (q \o r)
  <2> HIDE DEF U
  <2> QED BY <1>1
<1>3. GoesThrough(q, Range(q)) /\ GoesThrough(r, Range(r))
  BY DEF GoesThrough
<1>4. GoesThrough(q \o r, Range(q) \union Range(r))
  BY <1>3, JoinedGoThrough
<1> QED BY <1>2, <1>4 DEF GoesThrough, Joins

LEMMA ListedIsAList == \A S : List(Listed(S))
BY ListedIsOfTheSet, ListsAreLists

\* The section is the one half and then the other.
LEMMA UpInHalves ==
  ASSUME NEW d, PlainDelta(d), NEW from, NEW to, IsFiniteSet(DOMAIN to.indexes)
  PROVE  UpStructural(d, from, to) = DropHalf(d, from) \o AddHalf(d, to)
<1> DEFINE h == DropHalf(d, from)
           C1 == Creates(to, d.added.vertices)
           C2 == Creates(to, d.added.edges)
           L3 == Each(d.addedColumns, LAMBDA u : AddColumn(u[1], u[2], to.vertices[u[1]].cols[u[2]]))
           L4 == Each(d.typeChanges, LAMBDA u : AlterType(u[1], u[2], to.vertices[u[1]].cols[u[2]].type))
           L5 == Each(d.defaultChanges, LAMBDA u : SetDefault(u[1], u[2], to.vertices[u[1]].cols[u[2]].default))
           L6 == Each(d.addedUniques, AddUnique)
           L7 == Each(d.addedConstraints, LAMBDA k : AddConstraint(k.table, k.con))
           L8 == Each(d.addedIndexes, LAMBDA i : IndexDDL(i, to.indexes[i]))
<1>1. UpStructural(d, from, to) = (((((((h \o C1) \o C2) \o L3) \o L4) \o L5) \o L6) \o L7) \o L8
  BY DEF UpStructural, DropHalf
<1>2. AddHalf(d, to) = ((((((C1 \o C2) \o L3) \o L4) \o L5) \o L6) \o L7) \o L8
  BY DEF AddHalf
<1>3. /\ List(h) /\ List(C1) /\ List(C2) /\ List(L3) /\ List(L4) /\ List(L5) /\ List(L6) /\ List(L7) /\ List(L8)
  <2>1. List(h)
    BY DropHalfGoesThrough DEF GoesThrough
  <2>2. List(C1) /\ List(C2)
    BY CreatesGoThrough DEF PlainDelta, GoesThrough
  <2>3. List(L3) /\ List(L4) /\ List(L5) /\ List(L6) /\ List(L7) /\ List(L8)
    BY ListedIsAList DEF Each
  <2> QED BY <2>1, <2>2, <2>3
<1> HIDE DEF h, C1, C2, L3, L4, L5, L6, L7, L8
<1> DEFINE q2 == C1 \o C2
           q3 == q2 \o L3
           q4 == q3 \o L4
           q5 == q4 \o L5
           q6 == q5 \o L6
           q7 == q6 \o L7
<1>4. (h \o C1) \o C2 = h \o q2 /\ List(q2)
  <2>1. Joins(h, C1, C2)
    BY <1>3, ListsJoin
  <2> QED BY <2>1 DEF Joins, q2
<1> HIDE DEF q2
<1>5. (h \o q2) \o L3 = h \o q3 /\ List(q3)
  <2>1. Joins(h, q2, L3)
    BY <1>3, <1>4, ListsJoin
  <2> QED BY <2>1 DEF Joins, q3
<1> HIDE DEF q3
<1>6. (h \o q3) \o L4 = h \o q4 /\ List(q4)
  <2>1. Joins(h, q3, L4)
    BY <1>3, <1>5, ListsJoin
  <2> QED BY <2>1 DEF Joins, q4
<1> HIDE DEF q4
<1>7. (h \o q4) \o L5 = h \o q5 /\ List(q5)
  <2>1. Joins(h, q4, L5)
    BY <1>3, <1>6, ListsJoin
  <2> QED BY <2>1 DEF Joins, q5
<1> HIDE DEF q5
<1>8. (h \o q5) \o L6 = h \o q6 /\ List(q6)
  <2>1. Joins(h, q5, L6)
    BY <1>3, <1>7, ListsJoin
  <2> QED BY <2>1 DEF Joins, q6
<1> HIDE DEF q6
<1>9. (h \o q6) \o L7 = h \o q7 /\ List(q7)
  <2>1. Joins(h, q6, L7)
    BY <1>3, <1>8, ListsJoin
  <2> QED BY <2>1 DEF Joins, q7
<1> HIDE DEF q7
<1>10. (h \o q7) \o L8 = h \o (q7 \o L8)
  <2>1. Joins(h, q7, L8)
    BY <1>3, <1>9, ListsJoin
  <2> QED BY <2>1 DEF Joins
<1>11. UpStructural(d, from, to) = h \o (q7 \o L8)
  BY <1>1, <1>4, <1>5, <1>6, <1>7, <1>8, <1>9, <1>10
<1>12. AddHalf(d, to) = q7 \o L8
  BY <1>2 DEF q2, q3, q4, q5, q6, q7
<1> QED BY <1>11, <1>12 DEF h

\* It leaves what the adds make of what the drops leave.
LEMMA UpFolded ==
  ASSUME NEW d, PlainDelta(d), NEW from, NEW to, IsFiniteSet(DOMAIN to.indexes), WantedSchema(to),
         NEW f, ReadableFolder(f), DropFrom(f, DropStmts(d, from)),
         ReadableFolder(AfterDrops(f, DropStmts(d, from))),
         AddTo(to, AfterDrops(f, DropStmts(d, from)), AddStmts(d, to))
  PROVE  FoldSection(f, UpStructural(d, from, to)) = AfterAdds(to, AfterDrops(f, DropStmts(d, from)), AddStmts(d, to))
<1> DEFINE p == DropHalf(d, from)
           q == AddHalf(d, to)
           g == AfterDrops(f, DropStmts(d, from))
<1>1. /\ List(p) /\ Range(p) = DropStmts(d, from)
      /\ List(q) /\ Range(q) = AddStmts(d, to)
  BY DropHalfGoesThrough, AddHalfGoesThrough DEF GoesThrough
<1>2. UpStructural(d, from, to) = p \o q
  BY UpInHalves
<1> HIDE DEF p, q
<1>3. FoldSection(f, p \o q) = FoldSection(FoldSection(f, p), q)
  BY <1>1, FoldingJoined
<1>4. FoldSection(f, p) = g
  BY <1>1, DropsFolded
<1>5. FoldSection(g, q) = AfterAdds(to, g, AddStmts(d, to))
  <2> HIDE DEF g
  <2>1. ReadableFolder(g) /\ AddTo(to, g, Range(q))
    BY <1>1 DEF g
  <2>2. FoldSection(g, q) = AfterAdds(to, g, Range(q))
    BY <1>1, <2>1, AddsFolded
  <2> QED BY <1>1, <2>2
<1> QED BY <1>2, <1>3, <1>4, <1>5
------------------------------------------------------------------------------
(* What is compared: the schema `from`, which says of the folder f what the  *)
(* differ looks at, and the schema w that is wanted.                         *)

HasShape(F, f, t) ==
  /\ DOMAIN F.cols = DOMAIN f.cols[t]
  /\ \A c \in DOMAIN F.cols : \A a \in Settled : F.cols[c][a] = f.cols[t][c][a]
  /\ TableConstraints(t, F) = Range(f.cons[t])

Reflects(from, f) ==
  /\ DOMAIN from.vertices \intersect DOMAIN from.edges = {}
  /\ DOMAIN from.vertices \union DOMAIN from.edges = DOMAIN f.cols
  /\ from.indexes = f.indexes
  /\ \A t \in DOMAIN from.vertices : HasShape(from.vertices[t], f, t)

Comparable(f, from, w) ==
  /\ ReadableFolder(f) /\ Reflects(from, f)
  /\ DOMAIN f.cols \subseteq Range(Alphabet) /\ IsFiniteSet(DOMAIN f.indexes)
  /\ \A t \in DOMAIN f.cols : \E vt : Holds(f, t, vt)
  /\ WantedSchema(w) /\ ProperIndexes(w.indexes) /\ IsFiniteSet(DOMAIN w.indexes)
  /\ DOMAIN w.vertices \union DOMAIN w.edges \subseteq Range(Alphabet)
  /\ \A e \in DOMAIN w.edges : w.edges[e].cols = EdgeColumns(w.edges[e].src, w.edges[e].dst)
  /\ \A i \in DOMAIN w.indexes : w.indexes[i].table \in DOMAIN w.vertices \union DOMAIN w.edges
  /\ \A t \in DOMAIN from.vertices \intersect DOMAIN w.vertices :
       \A c \in DOMAIN f.cols[t] \intersect DOMAIN w.vertices[t].cols :
         f.cols[t][c].type = w.vertices[t].cols[c].type

LEMMA DescribedIsMirrored ==
  ASSUME NEW f, ReadableFolder(f), \A t \in DOMAIN f.cols : \E vt : Holds(f, t, vt),
         KeysAreKeys(f), FlagsAreFlags(f),
         NEW m, Proper(m), Describes(m, f), NEW from, Proper(from), Alike(from, m)
  PROVE  Reflects(from, f)
<1>1. /\ DOMAIN from.vertices = DOMAIN m.vertices /\ DOMAIN from.edges = DOMAIN m.edges
      /\ from.indexes = f.indexes
  BY DEF Alike, Describes
<1>2. ASSUME NEW t \in DOMAIN from.vertices PROVE HasShape(from.vertices[t], f, t)
  <2> DEFINE F == from.vertices[t]
  <2>1. t \in DOMAIN f.cols /\ t \in DOMAIN m.vertices
    BY <1>1 DEF Describes
  <2>2. PICK props : m.vertices[t] = FoldedVertex(f, t, props)
    BY <2>1 DEF Describes
  <2>3. PICK vt : Holds(f, t, vt)
    BY <2>1
  <2>4. AlikeTables(FoldedVertex(f, t, props), vt) /\ AlikeTables(F, m.vertices[t])
    BY <2>1, <2>3, TableReadsBack DEF Alike
  <2>5. AlikeTables(F, vt)
    BY <2>2, <2>4 DEF AlikeTables
  <2>6. ProperTable(F) /\ ProperTable(vt)
    BY <2>3 DEF Proper, Holds, MadeTable
  <2> HIDE DEF F
  <2>7. TableConstraints(t, F) = TableConstraints(t, vt)
    <3>1. /\ DOMAIN F.cols = DOMAIN vt.cols /\ F.key = vt.key /\ F.checks = vt.checks
          /\ \A c \in DOMAIN vt.cols : F.cols[c].check = vt.cols[c].check
      BY <2>5 DEF AlikeTables, Compared
    <3> QED BY <2>6, <3>1, SameKeysAndChecks
  <2>8. TableConstraints(t, vt) = Range(f.cons[t])
    BY <2>3, HeldAreTheConstraints
  <2>9. DOMAIN F.cols = DOMAIN f.cols[t] /\ \A c \in DOMAIN F.cols : \A a \in Settled : F.cols[c][a] = f.cols[t][c][a]
    BY <2>3, <2>5 DEF AlikeTables, Compared, Settled, Holds
  <2> QED BY <2>7, <2>8, <2>9 DEF HasShape, F
<1> QED BY <1>1, <1>2 DEF Reflects, Describes

LEMMA UnionsAreFinite ==
  ASSUME NEW g, IsFiniteSet(DOMAIN g), \A x \in DOMAIN g : IsFiniteSet(g[x])
  PROVE  IsFiniteSet(UNION {g[x] : x \in DOMAIN g})
<1> DEFINE T == {g[x] : x \in DOMAIN g}
<1>1. IsFiniteSet(T)
  BY ImagesAreFinite
<1>2. \A S \in T : IsFiniteSet(S)
  OBVIOUS
<1> HIDE DEF T
<1>3. IsFiniteSet(UNION T)
  BY <1>1, <1>2, FS_UNION
<1> QED BY <1>3 DEF T

LEMMA ConstraintsAreFinite ==
  ASSUME NEW t, NEW vt, MadeTable(t, vt)
  PROVE  IsFiniteSet(TableConstraints(t, vt))
<1> DEFINE A == IF vt.key = None THEN {} ELSE {KeyOf(vt)}
           checked == {x \in DOMAIN vt.cols : vt.cols[x].check # None}
           B == {OnColumn(t, vt, c) : c \in checked}
           C == {OnTable(t, vt, i) : i \in DOMAIN vt.checks}
<1>1. TableConstraints(t, vt) = (A \union B) \union C
  BY DEF TableConstraints, KeyOf, OnColumn, OnTable
<1>2. IsFiniteSet(A)
  BY FS_EmptySet, FS_Singleton
<1>3. IsFiniteSet(B)
  <2> DEFINE g == [c \in checked |-> OnColumn(t, vt, c)]
  <2>1. IsFiniteSet(checked)
    BY FS_Subset DEF MadeTable
  <2>2. DOMAIN g = checked /\ B = {g[x] : x \in DOMAIN g}
    OBVIOUS
  <2> HIDE DEF g, B, checked
  <2> QED BY <2>1, <2>2, ImagesAreFinite
<1>4. IsFiniteSet(C)
  <2> DEFINE g == [i \in DOMAIN vt.checks |-> OnTable(t, vt, i)]
  <2>1. Len(vt.checks) \in Nat /\ DOMAIN vt.checks = 1..Len(vt.checks)
    BY DEF MadeTable
  <2>2. IsFiniteSet(1..Len(vt.checks))
    BY <2>1, FS_Interval
  <2>3. IsFiniteSet(DOMAIN g) /\ C = {g[x] : x \in DOMAIN g}
    BY <2>1, <2>2
  <2> HIDE DEF g, C
  <2> QED BY <2>3, ImagesAreFinite
<1> HIDE DEF A, B, C
<1>5. IsFiniteSet(A \union B)
  BY <1>2, <1>3, FS_Union
<1>6. IsFiniteSet((A \union B) \union C)
  BY <1>4, <1>5, FS_Union
<1> QED BY <1>1, <1>6

\* Tables and columns on both sides, tables on one.
Both(from, w)   == DOMAIN from.vertices \intersect DOMAIN w.vertices
Shared(f, w, t) == DOMAIN f.cols[t] \intersect DOMAIN w.vertices[t].cols
Gone(from, w)   == (DOMAIN from.vertices \ DOMAIN w.vertices) \union (DOMAIN from.edges \ DOMAIN w.edges)
SameIndex(f, w, i) == i \in DOMAIN f.indexes \intersect DOMAIN w.indexes /\ f.indexes[i] = w.indexes[i]

\* The difference, read off the folder.
DifferenceIs(delta, f, from, w) ==
  /\ delta.added.vertices = DOMAIN w.vertices \ DOMAIN from.vertices
  /\ delta.added.edges = DOMAIN w.edges \ DOMAIN from.edges
  /\ delta.dropped.vertices = DOMAIN from.vertices \ DOMAIN w.vertices
  /\ delta.dropped.edges = DOMAIN from.edges \ DOMAIN w.edges
  /\ \A u : u \in delta.addedColumns <=>
       \E t \in Both(from, w) : \E c \in DOMAIN w.vertices[t].cols \ DOMAIN f.cols[t] : u = <<t, c>>
  /\ \A u : u \in delta.droppedColumns <=>
       \E t \in Both(from, w) : \E c \in DOMAIN f.cols[t] \ DOMAIN w.vertices[t].cols : u = <<t, c>>
  /\ \A i : i \in delta.addedIndexes <=>
       /\ i \in DOMAIN w.indexes /\ ~SameIndex(f, w, i)
       /\ w.indexes[i].table \notin delta.added.vertices \union delta.added.edges
  /\ \A i : i \in delta.droppedIndexes <=>
       /\ i \in DOMAIN f.indexes /\ ~SameIndex(f, w, i)
       /\ f.indexes[i].table \notin Gone(from, w)
  /\ \A u : u \in delta.addedUniques <=>
       \E t \in Both(from, w) : \E c \in Shared(f, w, t) :
         u = <<t, c>> /\ w.vertices[t].cols[c].unique /\ ~f.cols[t][c].unique
  /\ \A u : u \in delta.droppedUniques <=>
       \E t \in Both(from, w) : \E c \in Shared(f, w, t) :
         u = <<t, c>> /\ f.cols[t][c].unique /\ ~w.vertices[t].cols[c].unique
  /\ \A x : x \in delta.addedConstraints <=>
       \E t \in Both(from, w) : \E k \in TableConstraints(t, w.vertices[t]) \ Range(f.cons[t]) :
         x = [table |-> t, con |-> k]
  /\ \A x : x \in delta.droppedConstraints <=>
       \E t \in Both(from, w) : \E k \in Range(f.cons[t]) \ TableConstraints(t, w.vertices[t]) :
         x = [table |-> t, con |-> k]
  /\ \A u : u \in delta.defaultChanges <=>
       \E t \in Both(from, w) : \E c \in Shared(f, w, t) :
         u = <<t, c>> /\ f.cols[t][c].default # w.vertices[t].cols[c].default
  /\ \A u : u \in delta.typeChanges <=>
       \E t \in Both(from, w) : \E c \in Shared(f, w, t) :
         u = <<t, c>> /\ f.cols[t][c].type # w.vertices[t].cols[c].type

LEMMA TheDifference ==
  ASSUME NEW f, NEW from, Reflects(from, f), NEW w, NEW p
  PROVE  DifferenceIs(DiffSchemas(from, w, p, {}), f, from, w)
<1> DEFINE d == DiffSchemas(from, w, p, {})
           both == Both(from, w)
           F(t) == from.vertices[t]
           T(t) == w.vertices[t]
           shared(t) == DOMAIN F(t).cols \intersect DOMAIN T(t).cols
           columns == UNION {{t} \X shared(t) : t \in both}
           Was(u) == F(u[1]).cols[u[2]]
           Is(u) == T(u[1]).cols[u[2]]
           Same(i) == i \in DOMAIN from.indexes \intersect DOMAIN w.indexes /\ from.indexes[i] = w.indexes[i]
<1>1. /\ d.added = [vertices |-> DOMAIN w.vertices \ DOMAIN from.vertices, edges |-> DOMAIN w.edges \ DOMAIN from.edges]
      /\ d.dropped = [vertices |-> DOMAIN from.vertices \ DOMAIN w.vertices, edges |-> DOMAIN from.edges \ DOMAIN w.edges]
      /\ d.addedColumns = UNION {{t} \X (DOMAIN T(t).cols \ DOMAIN F(t).cols) : t \in both}
      /\ d.droppedColumns = UNION {{t} \X (DOMAIN F(t).cols \ DOMAIN T(t).cols) : t \in both}
      /\ d.addedIndexes = {i \in DOMAIN w.indexes : ~Same(i) /\ w.indexes[i].table \notin d.added.vertices \union d.added.edges}
      /\ d.droppedIndexes = {i \in DOMAIN from.indexes : ~Same(i)
                              /\ from.indexes[i].table \notin d.dropped.vertices \union d.dropped.edges}
      /\ d.addedUniques = {u \in columns : Is(u).unique /\ ~Was(u).unique}
      /\ d.droppedUniques = {u \in columns : Was(u).unique /\ ~Is(u).unique}
      /\ d.addedConstraints = UNION {{[table |-> t, con |-> k] :
                               k \in TableConstraints(t, T(t)) \ TableConstraints(t, F(t))} : t \in both}
      /\ d.droppedConstraints = {} \union UNION {{[table |-> t, con |-> k] :
                               k \in TableConstraints(t, F(t)) \ TableConstraints(t, T(t))} : t \in both}
      /\ d.defaultChanges = {u \in columns : Was(u).default # Is(u).default}
      /\ d.typeChanges = {u \in columns : Was(u).type # Is(u).type}
  BY DEF DiffSchemas, Both
<1>2. from.indexes = f.indexes
  BY DEF Reflects
<1>3. ASSUME NEW t \in both
      PROVE  /\ DOMAIN F(t).cols = DOMAIN f.cols[t] /\ TableConstraints(t, F(t)) = Range(f.cons[t])
             /\ \A c \in shared(t) : /\ F(t).cols[c].type = f.cols[t][c].type
                                     /\ F(t).cols[c].unique = f.cols[t][c].unique
                                     /\ F(t).cols[c].default = f.cols[t][c].default
  BY DEF Both, Reflects, HasShape, Settled
<1>4. \A u : u \in columns <=> \E t \in both : \E c \in Shared(f, w, t) : u = <<t, c>>
  <2>1. \A u : u \in columns <=> \E t \in both : \E c \in shared(t) : u = <<t, c>>
    OBVIOUS
  <2>2. \A t \in both : shared(t) = Shared(f, w, t)
    BY <1>3 DEF Shared
  <2> HIDE DEF columns, both, shared
  <2> QED BY <2>1, <2>2
<1>5. \A t \in both : \A c \in Shared(f, w, t) :
         /\ Was(<<t, c>>).type = f.cols[t][c].type /\ Is(<<t, c>>) = w.vertices[t].cols[c]
         /\ Was(<<t, c>>).unique = f.cols[t][c].unique
         /\ Was(<<t, c>>).default = f.cols[t][c].default
  BY <1>3 DEF Shared
<1> HIDE DEF d, columns, Was, Is
<1>6. \A u : u \in d.addedColumns <=>
         \E t \in both : \E c \in DOMAIN w.vertices[t].cols \ DOMAIN f.cols[t] : u = <<t, c>>
  <2>1. \A u : u \in d.addedColumns <=>
           \E t \in both : \E c \in DOMAIN T(t).cols \ DOMAIN F(t).cols : u = <<t, c>>
    BY <1>1
  <2>2. \A t \in both : DOMAIN F(t).cols = DOMAIN f.cols[t]
    BY <1>3
  <2> HIDE DEF F, both
  <2> QED BY <2>1, <2>2
<1>7. \A u : u \in d.droppedColumns <=>
         \E t \in both : \E c \in DOMAIN f.cols[t] \ DOMAIN w.vertices[t].cols : u = <<t, c>>
  <2>1. \A u : u \in d.droppedColumns <=>
           \E t \in both : \E c \in DOMAIN F(t).cols \ DOMAIN T(t).cols : u = <<t, c>>
    BY <1>1
  <2>2. \A t \in both : DOMAIN F(t).cols = DOMAIN f.cols[t]
    BY <1>3
  <2> HIDE DEF F, both
  <2> QED BY <2>1, <2>2
<1>8. \A x : x \in d.addedConstraints <=>
         \E t \in both : \E k \in TableConstraints(t, w.vertices[t]) \ Range(f.cons[t]) : x = [table |-> t, con |-> k]
  <2>1. \A x : x \in d.addedConstraints <=>
           \E t \in both : \E k \in TableConstraints(t, T(t)) \ TableConstraints(t, F(t)) : x = [table |-> t, con |-> k]
    BY <1>1
  <2>2. \A t \in both : TableConstraints(t, F(t)) = Range(f.cons[t])
    BY <1>3
  <2> HIDE DEF F, both
  <2> QED BY <2>1, <2>2
<1>9. \A x : x \in d.droppedConstraints <=>
         \E t \in both : \E k \in Range(f.cons[t]) \ TableConstraints(t, w.vertices[t]) : x = [table |-> t, con |-> k]
  <2>1. \A x : x \in d.droppedConstraints <=>
           \E t \in both : \E k \in TableConstraints(t, F(t)) \ TableConstraints(t, T(t)) : x = [table |-> t, con |-> k]
    BY <1>1
  <2>2. \A t \in both : TableConstraints(t, F(t)) = Range(f.cons[t])
    BY <1>3
  <2> HIDE DEF F, both
  <2> QED BY <2>1, <2>2
<1>10. /\ \A u : u \in d.addedUniques <=>
            \E t \in both : \E c \in Shared(f, w, t) :
              u = <<t, c>> /\ w.vertices[t].cols[c].unique /\ ~f.cols[t][c].unique
       /\ \A u : u \in d.droppedUniques <=>
            \E t \in both : \E c \in Shared(f, w, t) :
              u = <<t, c>> /\ f.cols[t][c].unique /\ ~w.vertices[t].cols[c].unique
  <2>1. \A u : u \in d.addedUniques <=> u \in columns /\ Is(u).unique /\ ~Was(u).unique
    BY <1>1
  <2>2. \A u : u \in d.droppedUniques <=> u \in columns /\ Was(u).unique /\ ~Is(u).unique
    BY <1>1
  <2> HIDE DEF both
  <2> QED BY <1>4, <1>5, <2>1, <2>2
<1>11. /\ \A u : u \in d.defaultChanges <=>
            \E t \in both : \E c \in Shared(f, w, t) :
              u = <<t, c>> /\ f.cols[t][c].default # w.vertices[t].cols[c].default
       /\ \A u : u \in d.typeChanges <=>
            \E t \in both : \E c \in Shared(f, w, t) :
              u = <<t, c>> /\ f.cols[t][c].type # w.vertices[t].cols[c].type
  <2>1. \A u : u \in d.defaultChanges <=> u \in columns /\ Was(u).default # Is(u).default
    BY <1>1
  <2>2. \A u : u \in d.typeChanges <=> u \in columns /\ Was(u).type # Is(u).type
    BY <1>1
  <2> HIDE DEF both
  <2> QED BY <1>4, <1>5, <2>1, <2>2
<1>12. /\ \A i : i \in d.addedIndexes <=>
            /\ i \in DOMAIN w.indexes /\ ~SameIndex(f, w, i)
            /\ w.indexes[i].table \notin d.added.vertices \union d.added.edges
       /\ \A i : i \in d.droppedIndexes <=>
            /\ i \in DOMAIN f.indexes /\ ~SameIndex(f, w, i)
            /\ f.indexes[i].table \notin Gone(from, w)
  BY <1>1, <1>2 DEF SameIndex, Gone
<1>13. /\ d.added.vertices = DOMAIN w.vertices \ DOMAIN from.vertices
       /\ d.added.edges = DOMAIN w.edges \ DOMAIN from.edges
       /\ d.dropped.vertices = DOMAIN from.vertices \ DOMAIN w.vertices
       /\ d.dropped.edges = DOMAIN from.edges \ DOMAIN w.edges
  BY <1>1
<1> HIDE DEF Same, F, T, shared, both
<1>14. DifferenceIs(d, f, from, w)
  BY <1>6, <1>7, <1>8, <1>9, <1>10, <1>11, <1>12, <1>13 DEF DifferenceIs, both
<1> QED BY <1>14 DEF d
------------------------------------------------------------------------------
(* The difference of comparable schemas has finitely many parts, and neither *)
(* renames nor new types.                                                    *)

LEMMA TablesAreFinite ==
  ASSUME NEW S, S \subseteq Range(Alphabet)
  PROVE  IsFiniteSet(S)
<1>1. Len(Alphabet) \in Nat /\ DOMAIN Alphabet = 1..Len(Alphabet)
  BY AlphabetIsAList
<1>2. IsFiniteSet(DOMAIN Alphabet)
  BY <1>1, FS_Interval
<1>3. IsFiniteSet({Alphabet[i] : i \in DOMAIN Alphabet})
  BY <1>2, ImagesAreFinite
<1> QED BY <1>3, FS_Subset DEF Range

\* Pairs of a table and one of finitely many things of it are finitely many.
LEMMA PairsAreFinite ==
  ASSUME NEW D, NEW T, IsFiniteSet(T), NEW g, DOMAIN g = T, \A t \in T : IsFiniteSet(g[t]),
         \A u \in D : \E t \in T : \E x \in g[t] : u = <<t, x>>
  PROVE  IsFiniteSet(D)
<1> DEFINE h == [t \in T |-> {t} \X g[t]]
<1>1. ASSUME NEW t \in T PROVE IsFiniteSet(h[t])
  <2>1. IsFiniteSet({t})
    BY FS_Singleton
  <2>2. IsFiniteSet({t} \X g[t])
    BY <2>1, FS_Product
  <2> QED BY <2>2
<1>2. DOMAIN h = T /\ D \subseteq UNION {h[t] : t \in DOMAIN h}
  OBVIOUS
<1> HIDE DEF h
<1>3. IsFiniteSet(UNION {h[t] : t \in DOMAIN h})
  BY <1>1, <1>2, UnionsAreFinite
<1> QED BY <1>2, <1>3, FS_Subset

LEMMA TaggedAreFinite ==
  ASSUME NEW D, NEW T, IsFiniteSet(T), NEW g, DOMAIN g = T, \A t \in T : IsFiniteSet(g[t]),
         \A x \in D : \E t \in T : \E k \in g[t] : x = [table |-> t, con |-> k]
  PROVE  IsFiniteSet(D)
<1> DEFINE P == UNION {{<<t, k>> : k \in g[t]} : t \in T}
           m == [u \in P |-> [table |-> u[1], con |-> u[2]]]
<1>1. IsFiniteSet(P)
  <2>1. \A u \in P : \E t \in T : \E x \in g[t] : u = <<t, x>>
    OBVIOUS
  <2> HIDE DEF P
  <2> QED BY <2>1, PairsAreFinite
<1>2. DOMAIN m = P
  OBVIOUS
<1>3. D \subseteq {m[u] : u \in DOMAIN m}
  <2>1. ASSUME NEW x \in D PROVE x \in {m[u] : u \in DOMAIN m}
    <3>1. PICK t \in T : \E k \in g[t] : x = [table |-> t, con |-> k]
      OBVIOUS
    <3>2. PICK k \in g[t] : x = [table |-> t, con |-> k]
      BY <3>1
    <3>3. <<t, k>> \in P
      OBVIOUS
    <3>4. m[<<t, k>>] = x
      BY <3>2, <3>3
    <3> HIDE DEF P, m
    <3> QED BY <1>2, <3>3, <3>4
  <2> QED BY <2>1
<1> HIDE DEF P, m
<1>4. IsFiniteSet({m[u] : u \in DOMAIN m})
  BY <1>1, <1>2, ImagesAreFinite
<1> QED BY <1>3, <1>4, FS_Subset

LEMMA PlainDifference ==
  ASSUME NEW f, NEW from, NEW w, Comparable(f, from, w), NEW delta, DifferenceIs(delta, f, from, w),
         delta.renames.tables = {}, delta.renames.columns = {}
  PROVE  PlainDelta(delta)
<1> DEFINE both == Both(from, w)
<1>1. /\ DOMAIN from.vertices \subseteq Range(Alphabet) /\ DOMAIN from.edges \subseteq Range(Alphabet)
      /\ DOMAIN w.vertices \subseteq Range(Alphabet) /\ DOMAIN w.edges \subseteq Range(Alphabet)
      /\ both \subseteq Range(Alphabet)
  BY DEF Comparable, Reflects, Both
<1>2. IsFiniteSet(both)
  BY <1>1, TablesAreFinite
<1>3. ASSUME NEW t \in both
      PROVE  /\ IsFiniteSet(DOMAIN f.cols[t]) /\ IsFiniteSet(DOMAIN w.vertices[t].cols)
             /\ IsFiniteSet(Range(f.cons[t])) /\ IsFiniteSet(TableConstraints(t, w.vertices[t]))
  <2>1. t \in DOMAIN f.cols /\ t \in DOMAIN w.vertices
    BY DEF Both, Comparable, Reflects
  <2>2. PICK vt : Holds(f, t, vt)
    BY <2>1 DEF Comparable
  <2>3. MadeTable(t, vt) /\ MadeTable(t, w.vertices[t])
    BY <2>1, <2>2 DEF Holds, Comparable, WantedSchema
  <2>4. IsFiniteSet(DOMAIN f.cols[t]) /\ IsFiniteSet(DOMAIN w.vertices[t].cols)
    BY <2>2, <2>3 DEF Holds, MadeTable
  <2>5. IsFiniteSet(Range(f.cons[t])) /\ IsFiniteSet(TableConstraints(t, w.vertices[t]))
    BY <2>2, <2>3, HeldAreTheConstraints, ConstraintsAreFinite
  <2> QED BY <2>4, <2>5
<1> HIDE DEF both
<1> DEFINE gw == [t \in both |-> DOMAIN w.vertices[t].cols]
           gf == [t \in both |-> DOMAIN f.cols[t]]
           kw == [t \in both |-> TableConstraints(t, w.vertices[t])]
           kf == [t \in both |-> Range(f.cons[t])]
<1>4. /\ DOMAIN gw = both /\ DOMAIN gf = both /\ DOMAIN kw = both /\ DOMAIN kf = both
      /\ \A t \in both : IsFiniteSet(gw[t]) /\ IsFiniteSet(gf[t]) /\ IsFiniteSet(kw[t]) /\ IsFiniteSet(kf[t])
      /\ \A t \in both : gw[t] = DOMAIN w.vertices[t].cols /\ gf[t] = DOMAIN f.cols[t]
      /\ \A t \in both : kw[t] = TableConstraints(t, w.vertices[t]) /\ kf[t] = Range(f.cons[t])
  BY <1>3
<1> HIDE DEF gw, gf, kw, kf
<1>5. IsFiniteSet(delta.addedColumns)
  <2>1. \A u \in delta.addedColumns : \E t \in both : \E c \in gw[t] : u = <<t, c>>
    BY <1>4 DEF DifferenceIs, both
  <2> QED BY <1>2, <1>4, <2>1, PairsAreFinite
<1>6. IsFiniteSet(delta.droppedColumns)
  <2>1. \A u \in delta.droppedColumns : \E t \in both : \E c \in gf[t] : u = <<t, c>>
    BY <1>4 DEF DifferenceIs, both
  <2> QED BY <1>2, <1>4, <2>1, PairsAreFinite
<1>7. IsFiniteSet(delta.addedUniques)
  <2>1. \A u \in delta.addedUniques : \E t \in both : \E c \in gf[t] : u = <<t, c>>
    BY <1>4 DEF DifferenceIs, both, Shared
  <2> QED BY <1>2, <1>4, <2>1, PairsAreFinite
<1>8. IsFiniteSet(delta.droppedUniques)
  <2>1. \A u \in delta.droppedUniques : \E t \in both : \E c \in gf[t] : u = <<t, c>>
    BY <1>4 DEF DifferenceIs, both, Shared
  <2> QED BY <1>2, <1>4, <2>1, PairsAreFinite
<1>9. IsFiniteSet(delta.defaultChanges)
  <2>1. \A u \in delta.defaultChanges : \E t \in both : \E c \in gf[t] : u = <<t, c>>
    BY <1>4 DEF DifferenceIs, both, Shared
  <2> QED BY <1>2, <1>4, <2>1, PairsAreFinite
<1>10. IsFiniteSet(delta.addedConstraints)
  <2>1. \A x \in delta.addedConstraints : \E t \in both : \E k \in kw[t] : x = [table |-> t, con |-> k]
    BY <1>4 DEF DifferenceIs, both
  <2> QED BY <1>2, <1>4, <2>1, TaggedAreFinite
<1>11. IsFiniteSet(delta.droppedConstraints)
  <2>1. \A x \in delta.droppedConstraints : \E t \in both : \E k \in kf[t] : x = [table |-> t, con |-> k]
    BY <1>4 DEF DifferenceIs, both
  <2> QED BY <1>2, <1>4, <2>1, TaggedAreFinite
<1>12. IsFiniteSet(delta.addedIndexes) /\ IsFiniteSet(delta.droppedIndexes)
  <2>1. delta.addedIndexes \subseteq DOMAIN w.indexes /\ delta.droppedIndexes \subseteq DOMAIN f.indexes
    BY DEF DifferenceIs
  <2>2. IsFiniteSet(DOMAIN w.indexes) /\ IsFiniteSet(DOMAIN f.indexes)
    BY DEF Comparable
  <2> QED BY <2>1, <2>2, FS_Subset
<1>13. delta.typeChanges = {}
  <2>1. \A u : u \notin delta.typeChanges
    BY DEF DifferenceIs, Comparable, Both, Shared
  <2> QED BY <2>1
<1>14. /\ delta.added.vertices \subseteq Range(Alphabet) /\ delta.added.edges \subseteq Range(Alphabet)
       /\ delta.dropped.vertices \subseteq Range(Alphabet) /\ delta.dropped.edges \subseteq Range(Alphabet)
  BY <1>1 DEF DifferenceIs
<1> QED BY <1>5, <1>6, <1>7, <1>8, <1>9, <1>10, <1>11, <1>12, <1>13, <1>14 DEF PlainDelta
------------------------------------------------------------------------------
(* What is dropped. *)

DropsAre(S, f, from, w) ==
  /\ \A t : DropTable(t) \in S <=> t \in Gone(from, w)
  /\ \A t, c : DropColumn(t, c) \in S <=>
       t \in Both(from, w) /\ c \in DOMAIN f.cols[t] \ DOMAIN w.vertices[t].cols
  /\ \A t, n : IsHeld(t, n) =>
       (DropConstraint(t, n) \in S <=>
          t \in Both(from, w) /\ \E k \in Range(f.cons[t]) \ TableConstraints(t, w.vertices[t]) : k.name = n)
  /\ \A t, c : DropUnique(<<t, c>>) \in S <=>
       /\ t \in Both(from, w) /\ c \in Shared(f, w, t)
       /\ f.cols[t][c].unique /\ ~w.vertices[t].cols[c].unique
  /\ \A i \in DOMAIN f.indexes : DropIndex(i, f.indexes[i]) \in S <=>
       ~SameIndex(f, w, i) /\ f.indexes[i].table \notin Gone(from, w)

\* The constraints of a table of the folder are the ones it is held to.
LEMMA RangeIsHeld ==
  ASSUME NEW f, NEW from, NEW w, Comparable(f, from, w), NEW t \in DOMAIN f.cols
  PROVE  /\ \A k \in Range(f.cons[t]) : k.name \in DOMAIN f.cons[t] /\ f.cons[t][k.name] = k /\ IsHeld(t, k.name)
         /\ \A n \in DOMAIN f.cons[t] : f.cons[t][n].name = n /\ f.cons[t][n] \in Range(f.cons[t])
         /\ \A c \in DOMAIN f.cols[t] : f.cols[t][c].unique \in BOOLEAN
<1>1. PICK vt : Holds(f, t, vt)
  BY DEF Comparable
<1>2. MadeTable(t, vt) /\ Range(f.cons[t]) = TableConstraints(t, vt)
  BY <1>1, HeldAreTheConstraints DEF Holds
<1>3. \A k \in TableConstraints(t, vt) : k.name \in DOMAIN f.cons[t] /\ f.cons[t][k.name] = k /\ IsHeld(t, k.name)
  BY <1>1, <1>2, ConstraintsAreHeld DEF Holds, HeldNames
<1>4. \A n \in DOMAIN f.cons[t] : f.cons[t][n].name = n /\ f.cons[t][n] \in Range(f.cons[t])
  <2>1. \A n \in DOMAIN f.cons[t] : \E k \in TableConstraints(t, vt) : n = k.name
    BY <1>1 DEF Holds, HeldNames
  <2> QED BY <1>3, <2>1 DEF Range
<1>5. \A c \in DOMAIN f.cols[t] : f.cols[t][c].unique \in BOOLEAN
  <2>1. \A c \in DOMAIN vt.cols : vt.cols[c].unique \in BOOLEAN
    BY <1>2 DEF MadeTable, ProperTable, ProperColumn
  <2> QED BY <1>1, <2>1 DEF Holds, Settled
<1> QED BY <1>2, <1>3, <1>4, <1>5

LEMMA WhatIsDropped ==
  ASSUME NEW f, NEW from, NEW w, Comparable(f, from, w), NEW delta, DifferenceIs(delta, f, from, w)
  PROVE  DropsAre(DropStmts(delta, from), f, from, w)
<1> DEFINE S == DropStmts(delta, from)
           both == Both(from, w)
<1>1. from.indexes = f.indexes /\ \A t \in both : t \in DOMAIN f.cols
  BY DEF Comparable, Reflects, Both
<1>2. \A s : s \in S <=>
        \/ \E k \in delta.droppedConstraints : s = DropConstraint(k.table, k.con.name)
        \/ \E i \in delta.droppedIndexes : s = DropIndex(i, f.indexes[i])
        \/ \E u \in delta.droppedUniques : s = DropUnique(u)
        \/ \E u \in delta.droppedColumns : s = DropColumn(u[1], u[2])
        \/ \E t \in delta.dropped.edges \union delta.dropped.vertices : s = DropTable(t)
  BY <1>1 DEF DropStmts
<1> HIDE DEF S
<1>3. \A u : DropUnique(u) = DropConstraint(u[1], UniqueConstraintName(u[1], u[2]))
  BY DEF DropUnique
<1>4. \A t : DropTable(t) \in S <=> t \in Gone(from, w)
  <2>1. \A t : DropTable(t) \in S <=> t \in delta.dropped.edges \union delta.dropped.vertices
    BY <1>2, <1>3, DropsAreApart
  <2> QED BY <2>1 DEF DifferenceIs, Gone
<1>5. \A t, c : DropColumn(t, c) \in S <=>
        t \in both /\ c \in DOMAIN f.cols[t] \ DOMAIN w.vertices[t].cols
  <2>1. \A t, c : DropColumn(t, c) \in S <=> \E u \in delta.droppedColumns : u[1] = t /\ u[2] = c
    BY <1>2, <1>3, DropsAreApart
  <2>2. \A u : u \in delta.droppedColumns <=>
          \E t \in both : \E c \in DOMAIN f.cols[t] \ DOMAIN w.vertices[t].cols : u = <<t, c>>
    BY DEF DifferenceIs
  <2> HIDE DEF both
  <2>3. ASSUME NEW t, NEW c, NEW u \in delta.droppedColumns, u[1] = t, u[2] = c
        PROVE  t \in both /\ c \in DOMAIN f.cols[t] \ DOMAIN w.vertices[t].cols
    <3>1. PICK x \in both : \E d \in DOMAIN f.cols[x] \ DOMAIN w.vertices[x].cols : u = <<x, d>>
      BY <2>2
    <3>2. PICK d \in DOMAIN f.cols[x] \ DOMAIN w.vertices[x].cols : u = <<x, d>>
      BY <3>1
    <3>3. x = t /\ d = c
      BY <2>3, <3>2
    <3> QED BY <3>3
  <2>4. ASSUME NEW t \in both, NEW c \in DOMAIN f.cols[t] \ DOMAIN w.vertices[t].cols
        PROVE  \E u \in delta.droppedColumns : u[1] = t /\ u[2] = c
    <3>1. <<t, c>> \in delta.droppedColumns
      BY <2>2
    <3> QED BY <3>1
  <2> QED BY <2>1, <2>3, <2>4
<1>6. \A x : x \in delta.droppedConstraints <=>
       \E t \in both : \E k \in Range(f.cons[t]) \ TableConstraints(t, w.vertices[t]) :
         x = [table |-> t, con |-> k]
  BY DEF DifferenceIs
<1>7. \A u : u \in delta.droppedUniques <=>
       \E t \in both : \E c \in Shared(f, w, t) :
         u = <<t, c>> /\ f.cols[t][c].unique /\ ~w.vertices[t].cols[c].unique
  BY DEF DifferenceIs
<1>8. \A t \in both : \A k \in Range(f.cons[t]) : IsHeld(t, k.name)
  BY <1>1, RangeIsHeld
<1>9. \A t, n : DropConstraint(t, n) \in S <=>
        \/ \E k \in delta.droppedConstraints : t = k.table /\ n = k.con.name
        \/ \E u \in delta.droppedUniques : t = u[1] /\ n = UniqueConstraintName(u[1], u[2])
  BY <1>2, <1>3, DropsAreApart
<1>10. \A t, n : (\E k \in delta.droppedConstraints : t = k.table /\ n = k.con.name) <=>
          t \in both /\ \E k \in Range(f.cons[t]) \ TableConstraints(t, w.vertices[t]) : k.name = n
  <2> HIDE DEF both
  <2>1. ASSUME NEW x \in delta.droppedConstraints
        PROVE  x.table \in both /\ x.con \in Range(f.cons[x.table]) \ TableConstraints(x.table, w.vertices[x.table])
    <3>1. PICK t \in both : \E k \in Range(f.cons[t]) \ TableConstraints(t, w.vertices[t]) :
                              x = [table |-> t, con |-> k]
      BY <1>6
    <3>2. PICK k \in Range(f.cons[t]) \ TableConstraints(t, w.vertices[t]) : x = [table |-> t, con |-> k]
      BY <3>1
    <3>3. x.table = t /\ x.con = k
      BY <3>2
    <3> QED BY <3>3
  <2>2. ASSUME NEW t \in both, NEW k \in Range(f.cons[t]) \ TableConstraints(t, w.vertices[t])
        PROVE  \E x \in delta.droppedConstraints : t = x.table /\ k.name = x.con.name
    <3>1. [table |-> t, con |-> k] \in delta.droppedConstraints
      BY <1>6
    <3> QED BY <3>1
  <2> QED BY <2>1, <2>2
<1>11. \A t, n : (\E u \in delta.droppedUniques : t = u[1] /\ n = UniqueConstraintName(u[1], u[2])) <=>
          t \in both /\ \E c \in Shared(f, w, t) : /\ n = UniqueConstraintName(t, c)
                                                   /\ f.cols[t][c].unique /\ ~w.vertices[t].cols[c].unique
  <2> HIDE DEF both
  <2>1. ASSUME NEW u \in delta.droppedUniques
        PROVE  /\ u[1] \in both /\ u[2] \in Shared(f, w, u[1])
               /\ f.cols[u[1]][u[2]].unique /\ ~w.vertices[u[1]].cols[u[2]].unique
    <3>1. PICK t \in both : \E c \in Shared(f, w, t) :
                              u = <<t, c>> /\ f.cols[t][c].unique /\ ~w.vertices[t].cols[c].unique
      BY <1>7
    <3>2. PICK c \in Shared(f, w, t) : u = <<t, c>> /\ f.cols[t][c].unique /\ ~w.vertices[t].cols[c].unique
      BY <3>1
    <3>3. u[1] = t /\ u[2] = c
      BY <3>2
    <3> QED BY <3>2, <3>3
  <2>2. ASSUME NEW t \in both, NEW c \in Shared(f, w, t), f.cols[t][c].unique, ~w.vertices[t].cols[c].unique
        PROVE  \E u \in delta.droppedUniques : t = u[1] /\ UniqueConstraintName(t, c) = UniqueConstraintName(u[1], u[2])
    <3>1. <<t, c>> \in delta.droppedUniques
      BY <1>7, <2>2
    <3> QED BY <3>1
  <2> QED BY <2>1, <2>2
<1>12. \A t, c : ~IsHeld(t, UniqueConstraintName(t, c))
  BY DEF IsHeld, UniqueConstraintName
<1>13. \A t, c, d : UniqueConstraintName(t, c) = UniqueConstraintName(t, d) => c = d
  <2>1. \A t, c : UniqueConstraintName(t, c).column = c
    BY DEF UniqueConstraintName
  <2> QED BY <2>1
<1> HIDE DEF both
<1>14. \A t, n : IsHeld(t, n) =>
         (DropConstraint(t, n) \in S <=>
            t \in both /\ \E k \in Range(f.cons[t]) \ TableConstraints(t, w.vertices[t]) : k.name = n)
  BY <1>9, <1>10, <1>11, <1>12
<1>15. \A t, c : DropUnique(<<t, c>>) = DropConstraint(t, UniqueConstraintName(t, c))
  BY <1>3
<1>16. \A t, c : DropUnique(<<t, c>>) \in S <=>
         /\ t \in both /\ c \in Shared(f, w, t)
         /\ f.cols[t][c].unique /\ ~w.vertices[t].cols[c].unique
  <2>1. ASSUME NEW t, NEW c
        PROVE  DropUnique(<<t, c>>) \in S <=> t \in both /\ \E d \in Shared(f, w, t) :
                  /\ UniqueConstraintName(t, c) = UniqueConstraintName(t, d)
                  /\ f.cols[t][d].unique /\ ~w.vertices[t].cols[d].unique
    <3>1. ~\E k \in delta.droppedConstraints : t = k.table /\ UniqueConstraintName(t, c) = k.con.name
      <4>1. ASSUME NEW x \in delta.droppedConstraints, t = x.table, UniqueConstraintName(t, c) = x.con.name
            PROVE  FALSE
        <5>1. PICK v \in both : \E k \in Range(f.cons[v]) : x = [table |-> v, con |-> k]
          BY <1>6
        <5>2. PICK k \in Range(f.cons[v]) : x = [table |-> v, con |-> k]
          BY <5>1
        <5>3. v = t /\ k.name = UniqueConstraintName(t, c)
          BY <4>1, <5>2
        <5> QED BY <1>8, <1>12, <5>3
      <4> QED BY <4>1
    <3> QED BY <1>9, <1>11, <1>15, <3>1
  <2>2. ASSUME NEW t, NEW c, DropUnique(<<t, c>>) \in S
        PROVE  /\ t \in both /\ c \in Shared(f, w, t)
               /\ f.cols[t][c].unique /\ ~w.vertices[t].cols[c].unique
    <3>1. t \in both
      BY <2>1, <2>2
    <3>2. PICK d \in Shared(f, w, t) : /\ UniqueConstraintName(t, c) = UniqueConstraintName(t, d)
                                       /\ f.cols[t][d].unique /\ ~w.vertices[t].cols[d].unique
      BY <2>1, <2>2
    <3>3. c = d
      BY <1>13, <3>2
    <3> QED BY <3>1, <3>2, <3>3
  <2>3. ASSUME NEW t \in both, NEW c \in Shared(f, w, t), f.cols[t][c].unique, ~w.vertices[t].cols[c].unique
        PROVE  DropUnique(<<t, c>>) \in S
    BY <2>1, <2>3
  <2> QED BY <2>2, <2>3
<1>17. \A i \in DOMAIN f.indexes : DropIndex(i, f.indexes[i]) \in S <=>
         ~SameIndex(f, w, i) /\ f.indexes[i].table \notin Gone(from, w)
  <2>1. \A i \in DOMAIN f.indexes : DropIndex(i, f.indexes[i]) \in S <=> i \in delta.droppedIndexes
    BY <1>2, <1>3, DropsAreApart
  <2> QED BY <2>1 DEF DifferenceIs
<1> QED BY <1>4, <1>5, <1>14, <1>16, <1>17 DEF DropsAre, S, both

LEMMA DropsWhatThereIs ==
  ASSUME NEW f, NEW from, NEW w, Comparable(f, from, w), NEW delta, DifferenceIs(delta, f, from, w)
  PROVE  DropFrom(f, DropStmts(delta, from))
<1> DEFINE S == DropStmts(delta, from)
<1>1. /\ from.indexes = f.indexes
      /\ \A t \in Both(from, w) : t \in DOMAIN f.cols /\ t \notin Gone(from, w)
      /\ \A t \in Gone(from, w) : t \in DOMAIN f.cols
  BY DEF Comparable, Reflects, Both, Gone
<1>2. DropsAre(S, f, from, w)
  BY WhatIsDropped
<1>3. ASSUME NEW s \in S
      PROVE  \/ \E k \in delta.droppedConstraints : s = DropConstraint(k.table, k.con.name)
             \/ \E i \in delta.droppedIndexes : s = DropIndex(i, f.indexes[i])
             \/ \E u \in delta.droppedUniques : s = DropUnique(u)
             \/ \E u \in delta.droppedColumns : s = DropColumn(u[1], u[2])
             \/ \E t \in Gone(from, w) : s = DropTable(t)
  BY <1>1 DEF DropStmts, DifferenceIs, Gone
<1> HIDE DEF S
<1> DEFINE Fine(s) ==
      \/ \E t \in DOMAIN f.cols : s = DropTable(t)
      \/ \E i \in DOMAIN f.indexes : s = DropIndex(i, f.indexes[i])
      \/ \E t \in DOMAIN f.cols :
           /\ DropTable(t) \notin S
           /\ \/ \E c \in DOMAIN f.cols[t] : s = DropColumn(t, c)
              \/ \E c \in DOMAIN f.cols[t] : s = DropUnique(<<t, c>>) /\ DropColumn(t, c) \notin S
              \/ \E n \in DOMAIN f.cons[t] : s = DropConstraint(t, n)
<1>4. \A t \in Both(from, w) : DropTable(t) \notin S /\ t \in DOMAIN f.cols
  BY <1>1, <1>2 DEF DropsAre
<1>5. ASSUME NEW s \in S PROVE Fine(s)
  <2>1. CASE \E k \in delta.droppedConstraints : s = DropConstraint(k.table, k.con.name)
    <3>1. PICK x \in delta.droppedConstraints : s = DropConstraint(x.table, x.con.name)
      BY <2>1
    <3>2. PICK t \in Both(from, w) : \E k \in Range(f.cons[t]) \ TableConstraints(t, w.vertices[t]) :
                                       x = [table |-> t, con |-> k]
      BY <3>1 DEF DifferenceIs
    <3>3. PICK k \in Range(f.cons[t]) : x = [table |-> t, con |-> k]
      BY <3>2
    <3>4. k.name \in DOMAIN f.cons[t]
      BY <1>4, RangeIsHeld
    <3>5. s = DropConstraint(t, k.name)
      BY <3>1, <3>3
    <3> QED BY <1>4, <3>4, <3>5
  <2>2. CASE \E i \in delta.droppedIndexes : s = DropIndex(i, f.indexes[i])
    BY <2>2 DEF DifferenceIs
  <2>3. CASE \E u \in delta.droppedUniques : s = DropUnique(u)
    <3>1. PICK u \in delta.droppedUniques : s = DropUnique(u)
      BY <2>3
    <3>2. PICK t \in Both(from, w) : \E c \in Shared(f, w, t) : u = <<t, c>>
      BY <3>1 DEF DifferenceIs
    <3>3. PICK c \in Shared(f, w, t) : u = <<t, c>>
      BY <3>2
    <3>4. c \in DOMAIN f.cols[t] /\ DropColumn(t, c) \notin S
      BY <1>2 DEF Shared, DropsAre
    <3> QED BY <1>4, <3>1, <3>3, <3>4
  <2>4. CASE \E u \in delta.droppedColumns : s = DropColumn(u[1], u[2])
    <3>1. PICK u \in delta.droppedColumns : s = DropColumn(u[1], u[2])
      BY <2>4
    <3>2. PICK t \in Both(from, w) : \E c \in DOMAIN f.cols[t] \ DOMAIN w.vertices[t].cols : u = <<t, c>>
      BY <3>1 DEF DifferenceIs
    <3>3. PICK c \in DOMAIN f.cols[t] : u = <<t, c>>
      BY <3>2
    <3>4. s = DropColumn(t, c)
      BY <3>1, <3>3
    <3> QED BY <1>4, <3>4
  <2>5. CASE \E t \in Gone(from, w) : s = DropTable(t)
    BY <1>1, <2>5
  <2> QED BY <1>3, <2>1, <2>2, <2>3, <2>4, <2>5
<1>6. DropFrom(f, S)
  BY <1>5 DEF DropFrom
<1> QED BY <1>6 DEF S
------------------------------------------------------------------------------
(* What is added. *)

Fresher(from, w) == (DOMAIN w.vertices \ DOMAIN from.vertices) \union (DOMAIN w.edges \ DOMAIN from.edges)

AddsAre(S, f, from, w) ==
  /\ \A v \in DOMAIN w.vertices : VertexTableDDL(v, w.vertices[v]) \in S <=> v \notin DOMAIN from.vertices
  /\ \A e \in DOMAIN w.edges : EdgeTableDDL(e, w.edges[e]) \in S <=> e \notin DOMAIN from.edges
  /\ \A i \in DOMAIN w.indexes : IndexDDL(i, w.indexes[i]) \in S <=>
       ~SameIndex(f, w, i) \/ w.indexes[i].table \in Fresher(from, w)
  /\ \A t, c, col : AddColumn(t, c, col) \in S =>
       t \in Both(from, w) /\ c \in DOMAIN w.vertices[t].cols \ DOMAIN f.cols[t]
  /\ \A t \in Both(from, w) : \A c \in DOMAIN w.vertices[t].cols \ DOMAIN f.cols[t] :
       AddColumn(t, c, w.vertices[t].cols[c]) \in S
  /\ \A t, c, a : SetDefault(t, c, a) \in S =>
       t \in Both(from, w) /\ c \in Shared(f, w, t) /\ f.cols[t][c].default # w.vertices[t].cols[c].default
  /\ \A t \in Both(from, w) : \A c \in Shared(f, w, t) :
       f.cols[t][c].default # w.vertices[t].cols[c].default =>
         SetDefault(t, c, w.vertices[t].cols[c].default) \in S
  /\ \A t, c : AddUnique(<<t, c>>) \in S <=>
       /\ t \in Both(from, w) /\ c \in Shared(f, w, t)
       /\ w.vertices[t].cols[c].unique /\ ~f.cols[t][c].unique
  /\ \A t, k : AddConstraint(t, k) \in S => t \in Both(from, w)
  /\ \A t, k : IsHeld(t, k.name) =>
       (AddConstraint(t, k) \in S <=>
          t \in Both(from, w) /\ k \in TableConstraints(t, w.vertices[t]) \ Range(f.cons[t]))

LEMMA WhatIsAdded ==
  ASSUME NEW f, NEW from, NEW w, Comparable(f, from, w), NEW delta, DifferenceIs(delta, f, from, w)
  PROVE  AddsAre(AddStmts(delta, w), f, from, w)
<1> DEFINE S == AddStmts(delta, w)
           both == Both(from, w)
           made == DOMAIN w.vertices \ DOMAIN from.vertices
           drawn == DOMAIN w.edges \ DOMAIN from.edges
<1>1. /\ DOMAIN w.vertices \intersect DOMAIN w.edges = {}
      /\ \A t \in both : t \in DOMAIN f.cols /\ MadeTable(t, w.vertices[t])
  BY DEF Comparable, Reflects, WantedSchema, Both
<1>2. /\ delta.added.vertices = made /\ delta.added.edges = drawn /\ Fresher(from, w) = made \union drawn
  BY DEF DifferenceIs, Fresher
<1>3. /\ UNION {CreateStmts(w, t) : t \in made} =
           {VertexTableDDL(t, w.vertices[t]) : t \in made}
           \union {IndexDDL(i, w.indexes[i]) : i \in {x \in DOMAIN w.indexes : w.indexes[x].table \in made}}
      /\ UNION {CreateStmts(w, t) : t \in drawn} =
           {EdgeTableDDL(t, w.edges[t]) : t \in drawn}
           \union {IndexDDL(i, w.indexes[i]) : i \in {x \in DOMAIN w.indexes : w.indexes[x].table \in drawn}}
  <2>1. \A t \in made : CreateStmts(w, t) = {VertexTableDDL(t, w.vertices[t])}
                          \union {IndexDDL(i, w.indexes[i]) : i \in {x \in DOMAIN w.indexes : w.indexes[x].table = t}}
    BY <1>1 DEF CreateStmts
  <2>2. \A t \in drawn : CreateStmts(w, t) = {EdgeTableDDL(t, w.edges[t])}
                          \union {IndexDDL(i, w.indexes[i]) : i \in {x \in DOMAIN w.indexes : w.indexes[x].table = t}}
    BY <1>1 DEF CreateStmts
  <2> HIDE DEF made, drawn
  <2> QED BY <2>1, <2>2
<1>4. \A s : s \in S <=>
        \/ \E t \in made : s = VertexTableDDL(t, w.vertices[t])
        \/ \E t \in drawn : s = EdgeTableDDL(t, w.edges[t])
        \/ \E i \in DOMAIN w.indexes : w.indexes[i].table \in made \union drawn /\ s = IndexDDL(i, w.indexes[i])
        \/ \E u \in delta.addedColumns : s = AddColumn(u[1], u[2], w.vertices[u[1]].cols[u[2]])
        \/ \E u \in delta.defaultChanges : s = SetDefault(u[1], u[2], w.vertices[u[1]].cols[u[2]].default)
        \/ \E u \in delta.addedUniques : s = AddUnique(u)
        \/ \E k \in delta.addedConstraints : s = AddConstraint(k.table, k.con)
        \/ \E i \in delta.addedIndexes : s = IndexDDL(i, w.indexes[i])
  <2> DEFINE M == UNION {CreateStmts(w, t) : t \in made}
             E == UNION {CreateStmts(w, t) : t \in drawn}
  <2>1. S = M \union E
            \union {AddColumn(u[1], u[2], w.vertices[u[1]].cols[u[2]]) : u \in delta.addedColumns}
            \union {SetDefault(u[1], u[2], w.vertices[u[1]].cols[u[2]].default) : u \in delta.defaultChanges}
            \union {AddUnique(u) : u \in delta.addedUniques}
            \union {AddConstraint(k.table, k.con) : k \in delta.addedConstraints}
            \union {IndexDDL(i, w.indexes[i]) : i \in delta.addedIndexes}
    BY <1>2 DEF AddStmts
  <2>2. \A s : s \in M <=> \/ \E t \in made : s = VertexTableDDL(t, w.vertices[t])
                           \/ \E i \in DOMAIN w.indexes : w.indexes[i].table \in made /\ s = IndexDDL(i, w.indexes[i])
    BY <1>3
  <2>3. \A s : s \in E <=> \/ \E t \in drawn : s = EdgeTableDDL(t, w.edges[t])
                           \/ \E i \in DOMAIN w.indexes : w.indexes[i].table \in drawn /\ s = IndexDDL(i, w.indexes[i])
    BY <1>3
  <2> HIDE DEF M, E, made, drawn, S
  <2> QED BY <2>1, <2>2, <2>3
<1> HIDE DEF S
<1>5. \A u : AddUnique(u) = AddConstraint(u[1], UniqueConstraint(u[1], u[2]))
  BY DEF AddUnique
<1>6. \A v \in DOMAIN w.vertices : VertexTableDDL(v, w.vertices[v]) \in S <=> v \notin DOMAIN from.vertices
  <2>1. \A v \in DOMAIN w.vertices : VertexTableDDL(v, w.vertices[v]) \in S <=>
          (\E t \in made : v = t) \/ \E t \in drawn : VertexTableDDL(v, w.vertices[v]) = EdgeTableDDL(t, w.edges[t])
    <3> HIDE DEF made, drawn
    <3> QED BY <1>4, <1>5, AddsAreApart
  <2>2. \A v \in DOMAIN w.vertices : ~\E t \in drawn : VertexTableDDL(v, w.vertices[v]) = EdgeTableDDL(t, w.edges[t])
    BY <1>1, AddsAreApart
  <2> QED BY <2>1, <2>2
<1>7. \A e \in DOMAIN w.edges : EdgeTableDDL(e, w.edges[e]) \in S <=> e \notin DOMAIN from.edges
  <2>1. \A e \in DOMAIN w.edges : EdgeTableDDL(e, w.edges[e]) \in S <=>
          (\E t \in drawn : e = t) \/ \E t \in made : VertexTableDDL(t, w.vertices[t]) = EdgeTableDDL(e, w.edges[e])
    <3> HIDE DEF made, drawn
    <3> QED BY <1>4, <1>5, AddsAreApart
  <2>2. \A e \in DOMAIN w.edges : ~\E t \in made : VertexTableDDL(t, w.vertices[t]) = EdgeTableDDL(e, w.edges[e])
    BY <1>1, AddsAreApart
  <2> QED BY <2>1, <2>2
<1>8. \A i \in DOMAIN w.indexes : IndexDDL(i, w.indexes[i]) \in S <=>
        ~SameIndex(f, w, i) \/ w.indexes[i].table \in Fresher(from, w)
  <2>1. \A i \in DOMAIN w.indexes : IndexDDL(i, w.indexes[i]) \in S <=>
          w.indexes[i].table \in made \union drawn \/ i \in delta.addedIndexes
    <3> HIDE DEF made, drawn
    <3> QED BY <1>4, <1>5, AddsAreApart
  <2>2. \A i \in DOMAIN w.indexes : i \in delta.addedIndexes <=>
          ~SameIndex(f, w, i) /\ w.indexes[i].table \notin made \union drawn
    BY <1>2 DEF DifferenceIs
  <2> QED BY <1>2, <2>1, <2>2
<1> HIDE DEF made, drawn
<1>9. \A t, c, col : AddColumn(t, c, col) \in S =>
        t \in both /\ c \in DOMAIN w.vertices[t].cols \ DOMAIN f.cols[t]
  <2>1. ASSUME NEW t, NEW c, NEW col, AddColumn(t, c, col) \in S
        PROVE  t \in both /\ c \in DOMAIN w.vertices[t].cols \ DOMAIN f.cols[t]
    <3>1. PICK u \in delta.addedColumns : t = u[1] /\ c = u[2]
      BY <1>4, <1>5, <2>1, AddsAreApart
    <3>2. PICK v \in both : \E d \in DOMAIN w.vertices[v].cols \ DOMAIN f.cols[v] : u = <<v, d>>
      BY <3>1 DEF DifferenceIs
    <3>3. PICK d \in DOMAIN w.vertices[v].cols \ DOMAIN f.cols[v] : u = <<v, d>>
      BY <3>2
    <3>4. v = t /\ d = c
      BY <3>1, <3>3
    <3> QED BY <3>4
  <2> QED BY <2>1
<1>10. \A t \in both : \A c \in DOMAIN w.vertices[t].cols \ DOMAIN f.cols[t] :
         AddColumn(t, c, w.vertices[t].cols[c]) \in S
  <2>1. ASSUME NEW t \in both, NEW c \in DOMAIN w.vertices[t].cols \ DOMAIN f.cols[t]
        PROVE  AddColumn(t, c, w.vertices[t].cols[c]) \in S
    <3>1. <<t, c>> \in delta.addedColumns
      BY DEF DifferenceIs
    <3>2. \E u \in delta.addedColumns :
            AddColumn(t, c, w.vertices[t].cols[c]) = AddColumn(u[1], u[2], w.vertices[u[1]].cols[u[2]])
      BY <3>1
    <3> QED BY <1>4, <3>2
  <2> QED BY <2>1
<1>11. \A t, c, a : SetDefault(t, c, a) \in S =>
         t \in both /\ c \in Shared(f, w, t) /\ f.cols[t][c].default # w.vertices[t].cols[c].default
  <2>1. ASSUME NEW t, NEW c, NEW a, SetDefault(t, c, a) \in S
        PROVE  t \in both /\ c \in Shared(f, w, t) /\ f.cols[t][c].default # w.vertices[t].cols[c].default
    <3>1. PICK u \in delta.defaultChanges : t = u[1] /\ c = u[2]
      BY <1>4, <1>5, <2>1, AddsAreApart
    <3>2. PICK v \in both : \E d \in Shared(f, w, v) :
            u = <<v, d>> /\ f.cols[v][d].default # w.vertices[v].cols[d].default
      BY <3>1 DEF DifferenceIs
    <3>3. PICK d \in Shared(f, w, v) : u = <<v, d>> /\ f.cols[v][d].default # w.vertices[v].cols[d].default
      BY <3>2
    <3>4. v = t /\ d = c
      BY <3>1, <3>3
    <3> QED BY <3>3, <3>4
  <2> QED BY <2>1
<1>12. \A t \in both : \A c \in Shared(f, w, t) :
         f.cols[t][c].default # w.vertices[t].cols[c].default =>
           SetDefault(t, c, w.vertices[t].cols[c].default) \in S
  <2>1. ASSUME NEW t \in both, NEW c \in Shared(f, w, t), f.cols[t][c].default # w.vertices[t].cols[c].default
        PROVE  SetDefault(t, c, w.vertices[t].cols[c].default) \in S
    <3>1. <<t, c>> \in delta.defaultChanges
      BY <2>1 DEF DifferenceIs
    <3>2. \E u \in delta.defaultChanges :
            SetDefault(t, c, w.vertices[t].cols[c].default) = SetDefault(u[1], u[2], w.vertices[u[1]].cols[u[2]].default)
      BY <3>1
    <3> QED BY <1>4, <3>2
  <2> QED BY <2>1
<1>13. ASSUME NEW t, NEW k, AddConstraint(t, k) \in S
       PROVE  \/ \E c \in Shared(f, w, t) :
                   /\ t \in both /\ w.vertices[t].cols[c].unique /\ ~f.cols[t][c].unique
                   /\ k = UniqueConstraint(t, c)
              \/ t \in both /\ k \in TableConstraints(t, w.vertices[t]) \ Range(f.cons[t])
  <2>1. \/ \E x \in delta.addedConstraints : t = x.table /\ k = x.con
        \/ \E u \in delta.addedUniques : t = u[1] /\ k = UniqueConstraint(u[1], u[2])
    BY <1>4, <1>5, <1>13, AddsAreApart
  <2>2. CASE \E x \in delta.addedConstraints : t = x.table /\ k = x.con
    <3>1. PICK x \in delta.addedConstraints : t = x.table /\ k = x.con
      BY <2>2
    <3>2. PICK v \in both : \E j \in TableConstraints(v, w.vertices[v]) \ Range(f.cons[v]) :
                              x = [table |-> v, con |-> j]
      BY <3>1 DEF DifferenceIs
    <3>3. PICK j \in TableConstraints(v, w.vertices[v]) \ Range(f.cons[v]) : x = [table |-> v, con |-> j]
      BY <3>2
    <3>4. v = t /\ j = k
      BY <3>1, <3>3
    <3> QED BY <3>4
  <2>3. CASE \E u \in delta.addedUniques : t = u[1] /\ k = UniqueConstraint(u[1], u[2])
    <3>1. PICK u \in delta.addedUniques : t = u[1] /\ k = UniqueConstraint(u[1], u[2])
      BY <2>3
    <3>2. PICK v \in both : \E d \in Shared(f, w, v) :
            u = <<v, d>> /\ w.vertices[v].cols[d].unique /\ ~f.cols[v][d].unique
      BY <3>1 DEF DifferenceIs
    <3>3. PICK d \in Shared(f, w, v) : u = <<v, d>> /\ w.vertices[v].cols[d].unique /\ ~f.cols[v][d].unique
      BY <3>2
    <3>4. v = t /\ d = u[2]
      BY <3>1, <3>3
    <3> QED BY <3>1, <3>3, <3>4
  <2> QED BY <2>1, <2>2, <2>3
<1>14. \A t \in both : \A c \in Shared(f, w, t) :
         w.vertices[t].cols[c].unique /\ ~f.cols[t][c].unique => AddUnique(<<t, c>>) \in S
  <2>1. ASSUME NEW t \in both, NEW c \in Shared(f, w, t), w.vertices[t].cols[c].unique, ~f.cols[t][c].unique
        PROVE  AddUnique(<<t, c>>) \in S
    <3>1. <<t, c>> \in delta.addedUniques
      BY <2>1 DEF DifferenceIs
    <3> QED BY <1>4, <3>1
  <2> QED BY <2>1
<1>15. \A t \in both : \A k \in TableConstraints(t, w.vertices[t]) \ Range(f.cons[t]) : AddConstraint(t, k) \in S
  <2>1. ASSUME NEW t \in both, NEW k \in TableConstraints(t, w.vertices[t]) \ Range(f.cons[t])
        PROVE  AddConstraint(t, k) \in S
    <3>1. [table |-> t, con |-> k] \in delta.addedConstraints
      BY DEF DifferenceIs
    <3>2. \E x \in delta.addedConstraints : AddConstraint(t, k) = AddConstraint(x.table, x.con)
      BY <3>1
    <3> QED BY <1>4, <3>2
  <2> QED BY <2>1
<1>16. /\ \A t, c : ~IsHeld(t, UniqueConstraint(t, c).name)
       /\ \A t, c, d : UniqueConstraint(t, c) = UniqueConstraint(t, d) => c = d
  <2>1. \A t, c : UniqueConstraint(t, c).name.column = c /\ UniqueConstraint(t, c).name.role = "unique"
    BY DEF UniqueConstraint, UniqueConstraintName
  <2> QED BY <2>1 DEF IsHeld
<1>17. \A t \in both : \A k \in TableConstraints(t, w.vertices[t]) : IsHeld(t, k.name)
  BY <1>1, ConstraintsAreHeld
<1> HIDE DEF both
<1>18. \A t, c : AddUnique(<<t, c>>) \in S <=>
         /\ t \in both /\ c \in Shared(f, w, t)
         /\ w.vertices[t].cols[c].unique /\ ~f.cols[t][c].unique
  <2>1. ASSUME NEW t, NEW c, AddUnique(<<t, c>>) \in S
        PROVE  /\ t \in both /\ c \in Shared(f, w, t)
               /\ w.vertices[t].cols[c].unique /\ ~f.cols[t][c].unique
    <3>1. AddConstraint(t, UniqueConstraint(t, c)) \in S
      BY <1>5, <2>1
    <3>2. ~(t \in both /\ UniqueConstraint(t, c) \in TableConstraints(t, w.vertices[t]) \ Range(f.cons[t]))
      BY <1>16, <1>17
    <3>3. PICK d \in Shared(f, w, t) : /\ t \in both /\ w.vertices[t].cols[d].unique /\ ~f.cols[t][d].unique
                                       /\ UniqueConstraint(t, c) = UniqueConstraint(t, d)
      BY <1>13, <3>1, <3>2
    <3>4. c = d
      BY <1>16, <3>3
    <3> QED BY <3>3, <3>4
  <2> QED BY <1>14, <2>1
<1>19. \A t, k : AddConstraint(t, k) \in S => t \in both
  BY <1>13
<1>20. \A t, k : IsHeld(t, k.name) =>
         (AddConstraint(t, k) \in S <=> t \in both /\ k \in TableConstraints(t, w.vertices[t]) \ Range(f.cons[t]))
  <2>1. ASSUME NEW t, NEW k, IsHeld(t, k.name), AddConstraint(t, k) \in S
        PROVE  t \in both /\ k \in TableConstraints(t, w.vertices[t]) \ Range(f.cons[t])
    BY <1>13, <1>16, <2>1
  <2> QED BY <1>15, <2>1
<1> QED BY <1>6, <1>7, <1>8, <1>9, <1>10, <1>11, <1>12, <1>18, <1>19, <1>20 DEF AddsAre, S, both
------------------------------------------------------------------------------
(* What the drops leave, and what the adds make of that. *)

Left(g, f, from, w) ==
  /\ ReadableFolder(g) /\ g.graph = f.graph
  /\ DOMAIN g.cols = DOMAIN f.cols \ Gone(from, w)
  /\ \A t \in Both(from, w) :
       /\ DOMAIN g.cols[t] = Shared(f, w, t)
       /\ \A c \in Shared(f, w, t) :
            /\ g.cols[t][c].type = f.cols[t][c].type /\ g.cols[t][c].default = f.cols[t][c].default
            /\ g.cols[t][c].unique = (f.cols[t][c].unique /\ w.vertices[t].cols[c].unique)
       /\ DOMAIN g.cons[t] = {n \in DOMAIN f.cons[t] : f.cons[t][n] \in TableConstraints(t, w.vertices[t])}
       /\ \A n \in DOMAIN g.cons[t] : g.cons[t][n] = f.cons[t][n]
  /\ \A t \in DOMAIN g.cols \ Both(from, w) : g.cols[t] = f.cols[t] /\ g.cons[t] = f.cons[t]
  /\ DOMAIN g.indexes = {i \in DOMAIN f.indexes : SameIndex(f, w, i) /\ f.indexes[i].table \notin Gone(from, w)}
  /\ \A i \in DOMAIN g.indexes : g.indexes[i] = f.indexes[i]

LEMMA ColumnFlagged ==
  ASSUME NEW col, IsColumn(col), NEW b
  PROVE  /\ IsColumn([col EXCEPT !.unique = b])
         /\ [col EXCEPT !.unique = b].type = col.type /\ [col EXCEPT !.unique = b].default = col.default
         /\ [col EXCEPT !.unique = b].unique = b
<1> DEFINE e == [col EXCEPT !.unique = b]
<1> HIDE DEF e
<1>1. e = [type |-> col.type, primary |-> col.primary, unique |-> b, default |-> col.default,
           check |-> col.check, ref |-> col.ref, was |-> col.was]
  BY DEF IsColumn, e
<1>2. IsColumn(e) /\ e.type = col.type /\ e.default = col.default /\ e.unique = b
  BY <1>1 DEF IsColumn
<1> QED BY <1>2 DEF e

LEMMA WhatIsLeft ==
  ASSUME NEW f, NEW from, NEW w, Comparable(f, from, w), NEW S, DropsAre(S, f, from, w)
  PROVE  Left(AfterDrops(f, S), f, from, w)
<1> DEFINE g == AfterDrops(f, S)
<1>1. /\ ReadableFolder(f)
      /\ \A t \in Both(from, w) : t \in DOMAIN f.cols /\ t \in DOMAIN w.vertices /\ t \notin Gone(from, w)
  BY DEF Comparable, Reflects, Both, Gone
<1>2. Spared(f, S) = DOMAIN f.cols \ Gone(from, w)
  BY DEF Spared, DropsAre
<1>3. /\ IsFolder(g) /\ g.ok = TRUE
      /\ DOMAIN g.cols = Spared(f, S) /\ DOMAIN g.cons = Spared(f, S)
      /\ \A t \in Spared(f, S) : /\ g.cols[t] = ColumnsAfterDrops(t, f.cols[t], S)
                                 /\ g.cons[t] = HeldAfterDrops(t, f.cons[t], S)
      /\ g.indexes = IndexesAfterDrops(f.indexes, S)
      /\ g.graph = f.graph
  BY DroppedIsFolder
<1>4. /\ g.cols = [t \in Spared(f, S) |-> ColumnsAfterDrops(t, f.cols[t], S)]
      /\ g.cons = [t \in Spared(f, S) |-> HeldAfterDrops(t, f.cons[t], S)]
  BY DEF AfterDrops
<1> HIDE DEF g
<1>5. ASSUME NEW t \in Both(from, w)
      PROVE  /\ DOMAIN g.cols[t] = Shared(f, w, t)
             /\ \A c \in Shared(f, w, t) :
                  /\ IsColumn(g.cols[t][c])
                  /\ g.cols[t][c].type = f.cols[t][c].type /\ g.cols[t][c].default = f.cols[t][c].default
                  /\ g.cols[t][c].unique = (f.cols[t][c].unique /\ w.vertices[t].cols[c].unique)
  <2>1. t \in Spared(f, S) /\ g.cols[t] = ColumnsAfterDrops(t, f.cols[t], S)
    BY <1>1, <1>2, <1>3
  <2>2. {x \in DOMAIN f.cols[t] : DropColumn(t, x) \notin S} = Shared(f, w, t)
    BY DEF DropsAre, Shared
  <2>3. DOMAIN g.cols[t] = Shared(f, w, t)
    BY <2>1, <2>2 DEF ColumnsAfterDrops
  <2>4. ASSUME NEW c \in Shared(f, w, t)
        PROVE  /\ IsColumn(g.cols[t][c])
               /\ g.cols[t][c].type = f.cols[t][c].type /\ g.cols[t][c].default = f.cols[t][c].default
               /\ g.cols[t][c].unique = (f.cols[t][c].unique /\ w.vertices[t].cols[c].unique)
    <3>1. g.cols[t][c] = IF DropUnique(<<t, c>>) \in S THEN [f.cols[t][c] EXCEPT !.unique = FALSE] ELSE f.cols[t][c]
      BY <2>1, <2>2 DEF ColumnsAfterDrops
    <3>2. IsColumn(f.cols[t][c]) /\ f.cols[t][c].unique \in BOOLEAN /\ w.vertices[t].cols[c].unique \in BOOLEAN
      <4>1. t \in DOMAIN f.cols /\ c \in DOMAIN f.cols[t] /\ c \in DOMAIN w.vertices[t].cols
        BY <1>1 DEF Shared
      <4>2. MadeTable(t, w.vertices[t])
        BY <1>1 DEF Comparable, WantedSchema
      <4>3. w.vertices[t].cols[c].unique \in BOOLEAN
        BY <4>1, <4>2 DEF MadeTable, ProperTable, ProperColumn
      <4>4. IsColumn(f.cols[t][c])
        BY <1>1, <4>1 DEF ReadableFolder
      <4> QED BY <4>1, <4>3, <4>4, RangeIsHeld
    <3>3. DropUnique(<<t, c>>) \in S <=> f.cols[t][c].unique /\ ~w.vertices[t].cols[c].unique
      BY DEF DropsAre
    <3> DEFINE col == f.cols[t][c]
               b == w.vertices[t].cols[c].unique
               new == g.cols[t][c]
               is == DropUnique(<<t, c>>) \in S
    <3>4. new = IF is THEN [col EXCEPT !.unique = FALSE] ELSE col
      BY <3>1
    <3>5. IsColumn(col) /\ col.unique \in BOOLEAN /\ b \in BOOLEAN /\ (is <=> col.unique /\ ~b)
      BY <3>2, <3>3
    <3> HIDE DEF col, b, new, is
    <3> DEFINE e == [col EXCEPT !.unique = FALSE]
    <3>6. IsColumn(e) /\ e.type = col.type /\ e.default = col.default /\ e.unique = FALSE
      BY <3>5, ColumnFlagged
    <3> HIDE DEF e
    <3>7. IsColumn(new) /\ new.type = col.type /\ new.default = col.default
      BY <3>4, <3>5, <3>6 DEF e
    <3>8. new.unique = (col.unique /\ b)
      <4>1. CASE is
        <5>1. new.unique = FALSE /\ b = FALSE
          BY <3>4, <3>5, <3>6, <4>1 DEF e
        <5> QED BY <5>1
      <4>2. CASE ~is
        <5>1. new.unique = col.unique /\ (col.unique = FALSE \/ b = TRUE)
          BY <3>4, <3>5, <4>2
        <5> QED BY <3>5, <5>1
      <4> QED BY <4>1, <4>2
    <3> QED BY <3>7, <3>8 DEF col, b, new
  <2> QED BY <2>3, <2>4
<1>6. ASSUME NEW t \in Both(from, w)
      PROVE  /\ DOMAIN g.cons[t] = {n \in DOMAIN f.cons[t] : f.cons[t][n] \in TableConstraints(t, w.vertices[t])}
             /\ \A n \in DOMAIN g.cons[t] : g.cons[t][n] = f.cons[t][n]
  <2>1. t \in DOMAIN f.cols /\ g.cons[t] = HeldAfterDrops(t, f.cons[t], S)
    BY <1>1, <1>2, <1>3
  <2>2. /\ \A k \in Range(f.cons[t]) : f.cons[t][k.name] = k
        /\ \A n \in DOMAIN f.cons[t] : /\ f.cons[t][n].name = n /\ f.cons[t][n] \in Range(f.cons[t])
                                       /\ IsHeld(t, n)
    BY <2>1, RangeIsHeld
  <2>3. ASSUME NEW n \in DOMAIN f.cons[t]
        PROVE  DropConstraint(t, n) \notin S <=> f.cons[t][n] \in TableConstraints(t, w.vertices[t])
    <3>1. DropConstraint(t, n) \in S <=>
            \E k \in Range(f.cons[t]) \ TableConstraints(t, w.vertices[t]) : k.name = n
      BY <2>2 DEF DropsAre
    <3> QED BY <2>2, <3>1
  <2> QED BY <2>1, <2>3 DEF HeldAfterDrops
<1>7. ASSUME NEW t \in DOMAIN g.cols \ Both(from, w)
      PROVE  g.cols[t] = f.cols[t] /\ g.cons[t] = f.cons[t]
  <2>1. t \in DOMAIN f.cols /\ g.cols[t] = ColumnsAfterDrops(t, f.cols[t], S) /\ g.cons[t] = HeldAfterDrops(t, f.cons[t], S)
    BY <1>2, <1>3
  <2>2. /\ \A c : DropColumn(t, c) \notin S /\ DropUnique(<<t, c>>) \notin S
        /\ \A n \in DOMAIN f.cons[t] : DropConstraint(t, n) \notin S
    <3>1. \A n \in DOMAIN f.cons[t] : IsHeld(t, n)
      BY <1>1, <2>1 DEF ReadableFolder
    <3> QED BY <3>1 DEF DropsAre
  <2>3. /\ f.cols[t] = [c \in DOMAIN f.cols[t] |-> f.cols[t][c]]
        /\ f.cons[t] = [n \in DOMAIN f.cons[t] |-> f.cons[t][n]]
    BY <1>1, <2>1 DEF ReadableFolder
  <2>4. g.cols[t] = [c \in DOMAIN f.cols[t] |-> f.cols[t][c]]
    BY <2>1, <2>2 DEF ColumnsAfterDrops
  <2>5. g.cons[t] = [n \in DOMAIN f.cons[t] |-> f.cons[t][n]]
    BY <2>1, <2>2 DEF HeldAfterDrops
  <2> QED BY <2>3, <2>4, <2>5
<1>8. /\ DOMAIN g.indexes = {i \in DOMAIN f.indexes : SameIndex(f, w, i) /\ f.indexes[i].table \notin Gone(from, w)}
      /\ \A i \in DOMAIN g.indexes : g.indexes[i] = f.indexes[i]
  <2>1. \A i \in DOMAIN f.indexes : DropIndex(i, f.indexes[i]) \notin S /\ DropTable(f.indexes[i].table) \notin S <=>
          SameIndex(f, w, i) /\ f.indexes[i].table \notin Gone(from, w)
    BY DEF DropsAre
  <2> QED BY <1>3, <2>1 DEF IndexesAfterDrops
<1>9. ReadableFolder(g)
  <2>1. ASSUME NEW t \in DOMAIN g.cols
        PROVE  /\ \A c \in DOMAIN g.cols[t] : IsColumn(g.cols[t][c])
               /\ \A n \in DOMAIN g.cons[t] : IsHeld(t, n)
    <3>1. t \in DOMAIN f.cols /\ (\A n \in DOMAIN f.cons[t] : IsHeld(t, n)) /\ \A c \in DOMAIN f.cols[t] : IsColumn(f.cols[t][c])
      BY <1>1, <1>2, <1>3, <2>1 DEF ReadableFolder
    <3>2. CASE t \in Both(from, w)
      BY <1>5, <1>6, <3>1, <3>2
    <3>3. CASE t \notin Both(from, w)
      BY <1>7, <3>1, <3>3
    <3> QED BY <3>2, <3>3
  <2>2. g = [cols |-> g.cols, cons |-> g.cons, indexes |-> g.indexes, graph |-> g.graph, ok |-> TRUE]
    BY <1>3 DEF IsFolder
  <2>3. /\ \A t, cols : ColumnsAfterDrops(t, cols, S) =
             [c \in DOMAIN ColumnsAfterDrops(t, cols, S) |-> ColumnsAfterDrops(t, cols, S)[c]]
        /\ \A t, cons : HeldAfterDrops(t, cons, S) =
             [n \in DOMAIN HeldAfterDrops(t, cons, S) |-> HeldAfterDrops(t, cons, S)[n]]
    BY DEF ColumnsAfterDrops, HeldAfterDrops
  <2>4. g.cols = [t \in DOMAIN g.cols |-> [c \in DOMAIN g.cols[t] |-> g.cols[t][c]]]
    BY <1>3, <1>4, <2>3
  <2>5. g.cons = [t \in DOMAIN g.cols |-> [n \in DOMAIN g.cons[t] |-> g.cons[t][n]]]
    BY <1>3, <1>4, <2>3
  <2>6. g.indexes = [i \in DOMAIN g.indexes |-> g.indexes[i]]
    BY <1>3 DEF IndexesAfterDrops
  <2> QED BY <2>1, <2>2, <2>4, <2>5, <2>6 DEF ReadableFolder
<1>10. Left(g, f, from, w)
  BY <1>2, <1>3, <1>5, <1>6, <1>7, <1>8, <1>9 DEF Left
<1> QED BY <1>10 DEF g

\* The columns and constraints a difference adds or changes are those of tables
\* that stay.
LEMMA DifferenceIsOnBoth ==
  ASSUME NEW f, NEW from, NEW w, NEW delta, DifferenceIs(delta, f, from, w)
  PROVE  /\ \A u \in delta.addedColumns :
              \E t \in Both(from, w) : \E c \in DOMAIN w.vertices[t].cols \ DOMAIN f.cols[t] : u = <<t, c>>
         /\ \A u \in delta.defaultChanges : \E t \in Both(from, w) : \E c \in Shared(f, w, t) : u = <<t, c>>
         /\ \A u \in delta.addedUniques : \E t \in Both(from, w) : \E c \in Shared(f, w, t) : u = <<t, c>>
         /\ \A x \in delta.addedConstraints :
              \E t \in Both(from, w) : \E k \in TableConstraints(t, w.vertices[t]) \ Range(f.cons[t]) :
                x = [table |-> t, con |-> k]
<1>1. \A u \in delta.defaultChanges : \E t \in Both(from, w) : \E c \in Shared(f, w, t) : u = <<t, c>>
  BY DEF DifferenceIs
<1>2. \A u \in delta.addedUniques : \E t \in Both(from, w) : \E c \in Shared(f, w, t) : u = <<t, c>>
  BY DEF DifferenceIs
<1>3. \A x \in delta.addedConstraints :
        \E t \in Both(from, w) : \E k \in TableConstraints(t, w.vertices[t]) \ Range(f.cons[t]) :
          x = [table |-> t, con |-> k]
  BY DEF DifferenceIs
<1>4. \A u \in delta.addedColumns :
        \E t \in Both(from, w) : \E c \in DOMAIN w.vertices[t].cols \ DOMAIN f.cols[t] : u = <<t, c>>
  BY DEF DifferenceIs
<1> QED BY <1>1, <1>2, <1>3, <1>4

LEMMA AddsWhatIsWanted ==
  ASSUME NEW f, NEW from, NEW w, Comparable(f, from, w), NEW delta, DifferenceIs(delta, f, from, w),
         NEW g, Left(g, f, from, w)
  PROVE  AddTo(w, g, AddStmts(delta, w))
<1> DEFINE S == AddStmts(delta, w)
           made == DOMAIN w.vertices \ DOMAIN from.vertices
           drawn == DOMAIN w.edges \ DOMAIN from.edges
<1>1. /\ DOMAIN w.vertices \intersect DOMAIN w.edges = {}
      /\ DOMAIN from.vertices \intersect DOMAIN from.edges = {}
      /\ DOMAIN from.vertices \union DOMAIN from.edges = DOMAIN f.cols
      /\ DOMAIN g.cols = DOMAIN f.cols \ Gone(from, w)
  BY DEF Comparable, Reflects, WantedSchema, Left
<1>2. /\ \A v \in made : v \in DOMAIN w.vertices \ DOMAIN g.cols
      /\ \A e \in drawn : e \in DOMAIN w.edges \ DOMAIN g.cols
      /\ \A t \in Both(from, w) : t \in DOMAIN g.cols \intersect DOMAIN w.vertices
  BY <1>1 DEF Both, Gone
<1>3. \A t \in Both(from, w) : DOMAIN g.cols[t] = Shared(f, w, t)
  BY DEF Left
<1>4. ASSUME NEW s \in S
      PROVE  \/ \E t \in made : s = VertexTableDDL(t, w.vertices[t])
             \/ \E t \in drawn : s = EdgeTableDDL(t, w.edges[t])
             \/ \E i \in DOMAIN w.indexes : s = IndexDDL(i, w.indexes[i])
             \/ \E u \in delta.addedColumns : s = AddColumn(u[1], u[2], w.vertices[u[1]].cols[u[2]])
             \/ \E u \in delta.defaultChanges : s = SetDefault(u[1], u[2], w.vertices[u[1]].cols[u[2]].default)
             \/ \E u \in delta.addedUniques : s = AddUnique(u)
             \/ \E k \in delta.addedConstraints : s = AddConstraint(k.table, k.con)
  <2>1. /\ delta.added.vertices = made /\ delta.added.edges = drawn
        /\ \A i \in delta.addedIndexes : i \in DOMAIN w.indexes
    BY DEF DifferenceIs
  <2>2. /\ \A t \in made : \A x \in CreateStmts(w, t) :
             x = VertexTableDDL(t, w.vertices[t]) \/ \E i \in DOMAIN w.indexes : x = IndexDDL(i, w.indexes[i])
        /\ \A t \in drawn : \A x \in CreateStmts(w, t) :
             x = EdgeTableDDL(t, w.edges[t]) \/ \E i \in DOMAIN w.indexes : x = IndexDDL(i, w.indexes[i])
    BY <1>1 DEF CreateStmts
  <2>3. \/ s \in UNION {CreateStmts(w, t) : t \in made}
        \/ s \in UNION {CreateStmts(w, t) : t \in drawn}
        \/ \E i \in delta.addedIndexes : s = IndexDDL(i, w.indexes[i])
        \/ \E u \in delta.addedColumns : s = AddColumn(u[1], u[2], w.vertices[u[1]].cols[u[2]])
        \/ \E u \in delta.defaultChanges : s = SetDefault(u[1], u[2], w.vertices[u[1]].cols[u[2]].default)
        \/ \E u \in delta.addedUniques : s = AddUnique(u)
        \/ \E k \in delta.addedConstraints : s = AddConstraint(k.table, k.con)
    BY <2>1 DEF AddStmts
  <2> HIDE DEF S, made, drawn
  <2>4. CASE s \in UNION {CreateStmts(w, t) : t \in made}
    <3>1. PICK t \in made : s \in CreateStmts(w, t)
      BY <2>4
    <3> QED BY <2>2, <3>1
  <2>5. CASE s \in UNION {CreateStmts(w, t) : t \in drawn}
    <3>1. PICK t \in drawn : s \in CreateStmts(w, t)
      BY <2>5
    <3> QED BY <2>2, <3>1
  <2>6. CASE \E i \in delta.addedIndexes : s = IndexDDL(i, w.indexes[i])
    BY <2>1, <2>6
  <2> QED BY <2>3, <2>4, <2>5, <2>6
<1> HIDE DEF S
<1> DEFINE Fine(s) ==
      \/ \E v \in DOMAIN w.vertices \ DOMAIN g.cols : s = VertexTableDDL(v, w.vertices[v])
      \/ \E e \in DOMAIN w.edges \ DOMAIN g.cols : s = EdgeTableDDL(e, w.edges[e])
      \/ \E i \in DOMAIN w.indexes : s = IndexDDL(i, w.indexes[i])
      \/ \E t \in DOMAIN g.cols \intersect DOMAIN w.vertices :
           \/ \E c \in DOMAIN w.vertices[t].cols \ DOMAIN g.cols[t] : s = AddColumn(t, c, w.vertices[t].cols[c])
           \/ \E c \in DOMAIN g.cols[t] : s = SetDefault(t, c, w.vertices[t].cols[c].default)
           \/ \E c \in DOMAIN g.cols[t] : s = AddUnique(<<t, c>>)
           \/ \E k \in TableConstraints(t, w.vertices[t]) : s = AddConstraint(t, k)
<1>5. ASSUME NEW s \in S PROVE Fine(s)
  <2>1. CASE \E t \in made : s = VertexTableDDL(t, w.vertices[t])
    BY <1>2, <2>1
  <2>2. CASE \E t \in drawn : s = EdgeTableDDL(t, w.edges[t])
    BY <1>2, <2>2
  <2>3. CASE \E i \in DOMAIN w.indexes : s = IndexDDL(i, w.indexes[i])
    BY <2>3
  <2>4. CASE \E u \in delta.addedColumns : s = AddColumn(u[1], u[2], w.vertices[u[1]].cols[u[2]])
    <3>1. PICK u \in delta.addedColumns : s = AddColumn(u[1], u[2], w.vertices[u[1]].cols[u[2]])
      BY <2>4
    <3>2. PICK t \in Both(from, w) : \E c \in DOMAIN w.vertices[t].cols \ DOMAIN f.cols[t] : u = <<t, c>>
      BY <3>1, DifferenceIsOnBoth
    <3>3. PICK c \in DOMAIN w.vertices[t].cols \ DOMAIN f.cols[t] : u = <<t, c>>
      BY <3>2
    <3>4. s = AddColumn(t, c, w.vertices[t].cols[c])
      BY <3>1, <3>3
    <3>5. c \in DOMAIN w.vertices[t].cols \ DOMAIN g.cols[t]
      BY <1>3 DEF Shared
    <3> QED BY <1>2, <3>4, <3>5
  <2>5. CASE \E u \in delta.defaultChanges : s = SetDefault(u[1], u[2], w.vertices[u[1]].cols[u[2]].default)
    <3>1. PICK u \in delta.defaultChanges : s = SetDefault(u[1], u[2], w.vertices[u[1]].cols[u[2]].default)
      BY <2>5
    <3>2. PICK t \in Both(from, w) : \E c \in Shared(f, w, t) : u = <<t, c>>
      BY <3>1, DifferenceIsOnBoth
    <3>3. PICK c \in Shared(f, w, t) : u = <<t, c>>
      BY <3>2
    <3>4. s = SetDefault(t, c, w.vertices[t].cols[c].default)
      BY <3>1, <3>3
    <3> QED BY <1>2, <1>3, <3>4
  <2>6. CASE \E u \in delta.addedUniques : s = AddUnique(u)
    <3>1. PICK u \in delta.addedUniques : s = AddUnique(u)
      BY <2>6
    <3>2. PICK t \in Both(from, w) : \E c \in Shared(f, w, t) : u = <<t, c>>
      BY <3>1, DifferenceIsOnBoth
    <3>3. PICK c \in Shared(f, w, t) : u = <<t, c>>
      BY <3>2
    <3> QED BY <1>2, <1>3, <3>1, <3>3
  <2>7. CASE \E k \in delta.addedConstraints : s = AddConstraint(k.table, k.con)
    <3>1. PICK x \in delta.addedConstraints : s = AddConstraint(x.table, x.con)
      BY <2>7
    <3>2. PICK t \in Both(from, w) : \E k \in TableConstraints(t, w.vertices[t]) \ Range(f.cons[t]) :
                                       x = [table |-> t, con |-> k]
      BY <3>1, DifferenceIsOnBoth
    <3>3. PICK k \in TableConstraints(t, w.vertices[t]) : x = [table |-> t, con |-> k]
      BY <3>2
    <3>4. s = AddConstraint(t, k)
      BY <3>1, <3>3
    <3> QED BY <1>2, <3>4
  <2> QED BY <1>4, <2>1, <2>2, <2>3, <2>4, <2>5, <2>6, <2>7
<1>6. AddTo(w, g, S)
  BY <1>5 DEF AddTo
<1> QED BY <1>6 DEF S

\* The folder h that comes of it: what is wanted of every vertex table, and edge
\* tables as they were or new.
Settles(h, f, w) ==
  /\ ReadableFolder(h) /\ h.graph = f.graph
  /\ DOMAIN h.cols = DOMAIN w.vertices \union DOMAIN w.edges
  /\ h.indexes = w.indexes
  /\ \A t \in DOMAIN w.vertices : Holds(h, t, w.vertices[t])
  /\ \A e \in DOMAIN w.edges :
       /\ \E vt : Holds(h, e, vt)
       /\ \/ e \in DOMAIN f.cols /\ DOMAIN h.cols[e] = DOMAIN f.cols[e]
             /\ \A c \in DOMAIN h.cols[e] : h.cols[e][c].type = f.cols[e][c].type
          \/ DOMAIN h.cols[e] = DOMAIN w.edges[e].cols
             /\ \A c \in DOMAIN h.cols[e] : h.cols[e][c].type = w.edges[e].cols[c].type

\* An edge table reads as a table with two columns and no constraint.
Drawn(et) == [cols |-> et.cols, props |-> {}, key |-> None, checks |-> <<>>]

LEMMA NewColumnsRead ==
  ASSUME NEW cols
  PROVE  /\ DOMAIN NewColumns(cols) = DOMAIN cols
         /\ NewColumns(cols) = [c \in DOMAIN NewColumns(cols) |-> NewColumns(cols)[c]]
         /\ \A c \in DOMAIN cols :
              /\ IsColumn(NewColumns(cols)[c])
              /\ NewColumns(cols)[c].type = cols[c].type /\ NewColumns(cols)[c].default = cols[c].default
              /\ NewColumns(cols)[c].unique = (cols[c].unique /\ ~cols[c].primary)
<1>1. \A col : /\ IsColumn(FoldedColumn(ColumnDDL(col)))
               /\ FoldedColumn(ColumnDDL(col)).type = col.type /\ FoldedColumn(ColumnDDL(col)).default = col.default
               /\ FoldedColumn(ColumnDDL(col)).unique = (col.unique /\ ~col.primary)
  BY DEF IsColumn, FoldedColumn, ColumnDDL
<1> QED BY <1>1 DEF NewColumns

LEMMA DrawnIsMade ==
  ASSUME NEW e, NEW et, et.cols = EdgeColumns(et.src, et.dst)
  PROVE  /\ MadeTable(e, Drawn(et)) /\ TableConstraints(e, Drawn(et)) = {}
         /\ \A c \in DOMAIN et.cols : et.cols[c].unique = FALSE /\ et.cols[c].primary = FALSE
<1>1. DOMAIN et.cols = {"source_id", "target_id"}
  BY DEF EdgeColumns
<1>2. \A c \in DOMAIN et.cols :
         /\ {"type", "primary", "unique", "default", "check", "ref"} \subseteq DOMAIN et.cols[c]
         /\ et.cols[c].unique = FALSE /\ et.cols[c].primary = FALSE /\ et.cols[c].check = None
  BY DEF EdgeColumns, Column
<1>3. /\ {"cols", "props", "key", "checks"} \subseteq DOMAIN Drawn(et)
      /\ Drawn(et).cols = et.cols /\ Drawn(et).key = None /\ Drawn(et).checks = <<>>
  BY DEF Drawn
<1>4. IsFiniteSet(DOMAIN et.cols)
  <2>1. IsFiniteSet({"source_id"}) /\ IsFiniteSet({"target_id"})
    BY FS_Singleton
  <2>2. IsFiniteSet({"source_id"} \union {"target_id"})
    BY <2>1, FS_Union
  <2>3. DOMAIN et.cols = {"source_id"} \union {"target_id"}
    BY <1>1
  <2> QED BY <2>2, <2>3
<1>5. DOMAIN <<>> = {} /\ <<>> = [i \in DOMAIN <<>> |-> <<>>[i]] /\ <<>> \in Seq(Range(<<>>))
  OBVIOUS
<1>6. ProperTable(Drawn(et))
  BY <1>2, <1>3, <1>5 DEF ProperTable, ProperColumn
<1>7. MadeTable(e, Drawn(et))
  <2>1. DOMAIN et.cols # {}
    BY <1>1
  <2> QED BY <1>2, <1>3, <1>4, <1>5, <1>6, <2>1 DEF MadeTable
<1>8. TableConstraints(e, Drawn(et)) = {}
  BY <1>2, <1>3, <1>5 DEF TableConstraints
<1> QED BY <1>2, <1>7, <1>8

\* A vertex table that was there.
LEMMA SharedTableSettles ==
  ASSUME NEW f, NEW from, NEW w, Comparable(f, from, w), NEW S, AddsAre(S, f, from, w),
         NEW g, Left(g, f, from, w), NEW t \in Both(from, w), NEW h,
         h.cols[t] = ColumnsAfterAdds(t, g.cols[t], w.vertices[t], S),
         h.cons[t] = HeldAfterAdds(t, g.cons[t], w.vertices[t], S)
  PROVE  /\ Holds(h, t, w.vertices[t])
         /\ \A c \in DOMAIN h.cols[t] : IsColumn(h.cols[t][c])
<1> DEFINE vt == w.vertices[t]
<1>1. t \in DOMAIN f.cols /\ t \in DOMAIN w.vertices /\ t \in DOMAIN from.vertices
  BY DEF Comparable, Reflects, Both
<1>2. MadeTable(t, vt)
  BY <1>1 DEF Comparable, WantedSchema
<1>3. AddedColumns(t, vt, S) = DOMAIN vt.cols \ DOMAIN f.cols[t]
  BY DEF AddedColumns, AddsAre
<1>4. DOMAIN h.cols[t] = DOMAIN vt.cols
  BY <1>3 DEF ColumnsAfterAdds, Left, Shared
<1>5. ASSUME NEW c \in DOMAIN vt.cols
      PROVE  /\ IsColumn(h.cols[t][c])
             /\ h.cols[t][c].type = vt.cols[c].type /\ h.cols[t][c].default = vt.cols[c].default
             /\ h.cols[t][c].unique = vt.cols[c].unique
  <2>1. vt.cols[c].unique \in BOOLEAN /\ (vt.cols[c].unique => ~vt.cols[c].primary)
    BY <1>2 DEF MadeTable, ProperTable, ProperColumn
  <2>2. CASE c \in DOMAIN f.cols[t]
    <3>1. c \in Shared(f, w, t)
      BY <2>2 DEF Shared
    <3>2. h.cols[t][c] = ColumnAfterAdds(t, c, g.cols[t][c], vt.cols[c].default, S)
      <4>1. c \in DOMAIN g.cols[t] /\ c \in DOMAIN h.cols[t]
        BY <1>4, <3>1 DEF Left
      <4> QED BY <1>3, <4>1 DEF ColumnsAfterAdds, Left
    <3>3. /\ g.cols[t][c].type = f.cols[t][c].type /\ g.cols[t][c].default = f.cols[t][c].default
          /\ g.cols[t][c].unique = (f.cols[t][c].unique /\ vt.cols[c].unique)
      BY <3>1 DEF Left
    <3>4. f.cols[t][c].type = vt.cols[c].type
      BY <1>1, <3>1 DEF Comparable, Shared
    <3>5. f.cols[t][c].unique \in BOOLEAN
      BY <1>1, <2>2, RangeIsHeld
    <3>6. /\ AddUnique(<<t, c>>) \in S <=> vt.cols[c].unique /\ ~f.cols[t][c].unique
          /\ SetDefault(t, c, vt.cols[c].default) \in S <=> f.cols[t][c].default # vt.cols[c].default
      BY <3>1 DEF AddsAre
    <3> DEFINE new == h.cols[t][c]
               col == g.cols[t][c]
               a == AddUnique(<<t, c>>) \in S
               b == SetDefault(t, c, vt.cols[c].default) \in S
               want == vt.cols[c].default
    <3>7. new = [type |-> col.type, primary |-> col.primary, unique |-> IF a THEN TRUE ELSE col.unique,
                 default |-> IF b THEN want ELSE col.default,
                 check |-> col.check, ref |-> col.ref, was |-> col.was]
      BY <3>2 DEF ColumnAfterAdds
    <3> HIDE DEF new, col, a, b, want
    <3>8. /\ IsColumn(new) /\ new.type = col.type
          /\ new.unique = (IF a THEN TRUE ELSE col.unique) /\ new.default = (IF b THEN want ELSE col.default)
      BY <3>7 DEF IsColumn
    <3>9. new.default = want
      BY <3>3, <3>6, <3>8 DEF col, b, want
    <3>10. new.unique = vt.cols[c].unique
      <4>1. a <=> vt.cols[c].unique /\ ~f.cols[t][c].unique
        BY <3>6 DEF a
      <4>2. col.unique = (f.cols[t][c].unique /\ vt.cols[c].unique)
        BY <3>3 DEF col
      <4> DEFINE x == f.cols[t][c].unique
                 y == vt.cols[c].unique
      <4>3. x \in BOOLEAN /\ y \in BOOLEAN
        BY <2>1, <3>5
      <4> HIDE DEF x, y
      <4>4. (a <=> y /\ ~x) /\ col.unique = (x /\ y) /\ new.unique = (IF a THEN TRUE ELSE col.unique)
        BY <3>8, <4>1, <4>2 DEF x, y
      <4>5. new.unique = y
        <5>1. CASE a
          <6>1. y = TRUE /\ new.unique = TRUE
            BY <4>3, <4>4, <5>1
          <6> QED BY <6>1
        <5>2. CASE ~a
          <6>1. new.unique = (x /\ y) /\ (y = FALSE \/ x = TRUE)
            BY <4>3, <4>4, <5>2
          <6> QED BY <4>3, <6>1
        <5> QED BY <5>1, <5>2
      <4> QED BY <4>5 DEF y
    <3> QED BY <3>3, <3>4, <3>8, <3>9, <3>10 DEF new, col, want
  <2>3. CASE c \notin DOMAIN f.cols[t]
    <3>1. c \notin DOMAIN g.cols[t] /\ c \in AddedColumns(t, vt, S)
      BY <1>3, <2>3 DEF Left, Shared
    <3>2. h.cols[t][c] = FoldedColumn(ColumnDDL(vt.cols[c]))
      BY <3>1 DEF ColumnsAfterAdds
    <3>3. h.cols[t][c] = NewColumns(vt.cols)[c]
      BY <3>2 DEF NewColumns
    <3>4. /\ IsColumn(h.cols[t][c])
          /\ h.cols[t][c].type = vt.cols[c].type /\ h.cols[t][c].default = vt.cols[c].default
          /\ h.cols[t][c].unique = (vt.cols[c].unique /\ ~vt.cols[c].primary)
      <4> HIDE DEF vt
      <4> QED BY <3>3, NewColumnsRead
    <3>5. (vt.cols[c].unique /\ ~vt.cols[c].primary) = vt.cols[c].unique
      BY <2>1
    <3> QED BY <3>4, <3>5
  <2> QED BY <2>2, <2>3
<1>6. DOMAIN h.cons[t] = HeldNames(t, vt) /\ \A k \in TableConstraints(t, vt) : h.cons[t][k.name] = k
  <2>1. /\ \A k \in Range(f.cons[t]) : k.name \in DOMAIN f.cons[t] /\ f.cons[t][k.name] = k
        /\ \A n \in DOMAIN f.cons[t] : f.cons[t][n].name = n /\ f.cons[t][n] \in Range(f.cons[t])
    BY <1>1, RangeIsHeld
  <2>2. \A k \in TableConstraints(t, vt) : IsHeld(t, k.name) /\ HeldAs(t, vt, k.name) = k
    BY <1>2, ConstraintsAreHeld, HeldAsIsIt
  <2>3. \A k \in TableConstraints(t, vt) : AddConstraint(t, k) \in S <=> k \notin Range(f.cons[t])
    BY <2>2 DEF AddsAre
  <2>4. AddedHeld(t, vt, S) = {k.name : k \in {x \in TableConstraints(t, vt) : x \notin Range(f.cons[t])}}
    BY <2>3 DEF AddedHeld
  <2>5. /\ DOMAIN g.cons[t] = {n \in DOMAIN f.cons[t] : f.cons[t][n] \in TableConstraints(t, vt)}
        /\ \A n \in DOMAIN g.cons[t] : g.cons[t][n] = f.cons[t][n]
    BY DEF Left
  <2> DEFINE A == AddedHeld(t, vt, S)
             gt == g.cons[t]
  <2>6. h.cons[t] = [n \in DOMAIN gt \union A |-> IF n \in A THEN HeldAs(t, vt, n) ELSE gt[n]]
    BY DEF HeldAfterAdds
  <2> HIDE DEF A, gt, vt
  <2>7. ASSUME NEW k \in TableConstraints(t, vt) PROVE k.name \in DOMAIN h.cons[t] /\ h.cons[t][k.name] = k
    <3>1. CASE k \in Range(f.cons[t])
      <4>1. k.name \in DOMAIN gt /\ gt[k.name] = k
        BY <2>1, <2>5, <3>1 DEF gt
      <4> QED BY <2>2, <2>6, <4>1
    <3>2. CASE k \notin Range(f.cons[t])
      <4>1. k.name \in A
        BY <2>4, <3>2 DEF A
      <4> QED BY <2>2, <2>6, <4>1
    <3> QED BY <3>1, <3>2
  <2>8. ASSUME NEW n \in DOMAIN h.cons[t] PROVE n \in HeldNames(t, vt)
    <3>1. CASE n \in A
      BY <2>4, <3>1 DEF A, HeldNames
    <3>2. CASE n \in DOMAIN gt
      BY <2>1, <2>5, <3>2 DEF gt, HeldNames
    <3> QED BY <2>6, <3>1, <3>2
  <2>9. DOMAIN h.cons[t] = HeldNames(t, vt)
    BY <2>7, <2>8 DEF HeldNames
  <2> QED BY <2>7, <2>9
<1>7. Holds(h, t, vt)
  BY <1>2, <1>4, <1>5, <1>6 DEF Holds, Settled
<1> QED BY <1>4, <1>5, <1>7

\* A table the section only makes.
LEMMA NewTableSettles ==
  ASSUME NEW t, NEW vt, MadeTable(t, vt), NEW h,
         h.cols[t] = NewColumns(vt.cols), h.cons[t] = NewHeld(t, vt)
  PROVE  /\ Holds(h, t, vt) /\ \A c \in DOMAIN h.cols[t] : IsColumn(h.cols[t][c])
<1>1. /\ DOMAIN h.cols[t] = DOMAIN vt.cols
      /\ \A c \in DOMAIN vt.cols :
           /\ IsColumn(h.cols[t][c])
           /\ h.cols[t][c].type = vt.cols[c].type /\ h.cols[t][c].default = vt.cols[c].default
           /\ h.cols[t][c].unique = (vt.cols[c].unique /\ ~vt.cols[c].primary)
  BY NewColumnsRead
<1>2. \A c \in DOMAIN vt.cols : vt.cols[c].unique = (vt.cols[c].unique /\ ~vt.cols[c].primary)
  BY DEF MadeTable, ProperTable, ProperColumn
<1>3. DOMAIN h.cons[t] = HeldNames(t, vt) /\ \A n \in HeldNames(t, vt) : h.cons[t][n] = HeldAs(t, vt, n)
  BY DEF NewHeld
<1>4. \A k \in TableConstraints(t, vt) : k.name \in HeldNames(t, vt) /\ HeldAs(t, vt, k.name) = k
  BY HeldAsIsIt DEF HeldNames
<1>5. Holds(h, t, vt)
  BY <1>1, <1>2, <1>3, <1>4 DEF Holds, Settled
<1> QED BY <1>1, <1>5

\* A table that is no vertex on both sides, and stays.
LEMMA KeptTableSettles ==
  ASSUME NEW f, NEW from, NEW w, Comparable(f, from, w), NEW S, AddsAre(S, f, from, w),
         NEW g, Left(g, f, from, w), NEW t \in DOMAIN g.cols \ Both(from, w), NEW h,
         h.cols[t] = ColumnsAfterAdds(t, g.cols[t], w.vertices[t], S),
         h.cons[t] = HeldAfterAdds(t, g.cons[t], w.vertices[t], S)
  PROVE  h.cols[t] = f.cols[t] /\ h.cons[t] = f.cons[t]
<1>1. g.cols[t] = f.cols[t] /\ g.cons[t] = f.cons[t] /\ t \in DOMAIN f.cols
  BY DEF Left
<1>2. /\ f.cols[t] = [c \in DOMAIN f.cols[t] |-> f.cols[t][c]]
      /\ f.cons[t] = [n \in DOMAIN f.cons[t] |-> f.cons[t][n]]
      /\ \A c \in DOMAIN f.cols[t] : IsColumn(f.cols[t][c])
  BY <1>1 DEF Comparable, ReadableFolder
<1>3. /\ \A c, col : AddColumn(t, c, col) \notin S
      /\ \A c, a : SetDefault(t, c, a) \notin S
      /\ \A c : AddUnique(<<t, c>>) \notin S
      /\ \A k : AddConstraint(t, k) \notin S
  BY DEF AddsAre
<1>4. AddedColumns(t, w.vertices[t], S) = {} /\ AddedHeld(t, w.vertices[t], S) = {}
  BY <1>3 DEF AddedColumns, AddedHeld
<1>5. \A c \in DOMAIN f.cols[t] :
        ColumnAfterAdds(t, c, f.cols[t][c], w.vertices[t].cols[c].default, S) = f.cols[t][c]
  BY <1>2, <1>3 DEF ColumnAfterAdds, IsColumn
<1>6. h.cols[t] = [c \in DOMAIN f.cols[t] |-> f.cols[t][c]]
  BY <1>1, <1>4, <1>5 DEF ColumnsAfterAdds
<1>7. h.cons[t] = [n \in DOMAIN f.cons[t] |-> f.cons[t][n]]
  BY <1>1, <1>4 DEF HeldAfterAdds
<1> QED BY <1>2, <1>6, <1>7

LEMMA IndexesSettle ==
  ASSUME NEW f, NEW from, NEW w, Comparable(f, from, w), NEW S, AddsAre(S, f, from, w),
         NEW g, Left(g, f, from, w)
  PROVE  IndexesAfterAdds(w, g.indexes, S) = w.indexes
<1> DEFINE M == MadeIndexes(w, S)
           r == IndexesAfterAdds(w, g.indexes, S)
<1>1. M = {i \in DOMAIN w.indexes : ~SameIndex(f, w, i) \/ w.indexes[i].table \in Fresher(from, w)}
  BY DEF MadeIndexes, AddsAre
<1>2. /\ DOMAIN g.indexes = {i \in DOMAIN f.indexes : SameIndex(f, w, i) /\ f.indexes[i].table \notin Gone(from, w)}
      /\ \A i \in DOMAIN g.indexes : g.indexes[i] = f.indexes[i]
  BY DEF Left
<1>3. \A i : SameIndex(f, w, i) => i \in DOMAIN f.indexes /\ i \in DOMAIN w.indexes /\ f.indexes[i] = w.indexes[i]
  BY DEF SameIndex
<1>4. \A i \in DOMAIN w.indexes : w.indexes[i].table \notin Fresher(from, w) => w.indexes[i].table \notin Gone(from, w)
  BY DEF Comparable, WantedSchema, Reflects, Fresher, Gone
<1>5. /\ w.indexes = [i \in DOMAIN w.indexes |-> w.indexes[i]]
      /\ \A i \in DOMAIN w.indexes : w.indexes[i] = [table |-> w.indexes[i].table, column |-> w.indexes[i].column]
  BY DEF Comparable, ProperIndexes
<1>6. r = [i \in DOMAIN g.indexes \union M |->
             IF i \in M THEN [table |-> w.indexes[i].table, column |-> w.indexes[i].column] ELSE g.indexes[i]]
  BY DEF IndexesAfterAdds
<1> HIDE DEF M, r
<1>7. DOMAIN g.indexes \union M = DOMAIN w.indexes
  BY <1>1, <1>2, <1>3, <1>4
<1>8. \A i \in DOMAIN w.indexes : r[i] = w.indexes[i]
  BY <1>2, <1>3, <1>5, <1>6, <1>7
<1>9. r = [i \in DOMAIN w.indexes |-> w.indexes[i]]
  BY <1>6, <1>7, <1>8
<1> QED BY <1>5, <1>9 DEF r

LEMMA WhatComesOfIt ==
  ASSUME NEW f, NEW from, NEW w, Comparable(f, from, w), NEW S, AddsAre(S, f, from, w),
         NEW g, Left(g, f, from, w)
  PROVE  Settles(AfterAdds(w, g, S), f, w)
<1> DEFINE h == AfterAdds(w, g, S)
<1>1. /\ IsFolder(h) /\ h.ok = TRUE
      /\ h.cols = [t \in TablesAfterAdds(w, g, S) |-> TableAfterAdds(w, g, S, t)]
      /\ h.cons = [t \in TablesAfterAdds(w, g, S) |-> TableHeldAfterAdds(w, g, S, t)]
      /\ h.indexes = IndexesAfterAdds(w, g.indexes, S) /\ h.graph = g.graph
  BY DEF AfterAdds, IsFolder
<1> HIDE DEF h
<1>2. /\ DOMAIN w.vertices \intersect DOMAIN w.edges = {}
      /\ DOMAIN from.vertices \intersect DOMAIN from.edges = {}
      /\ DOMAIN from.vertices \union DOMAIN from.edges = DOMAIN f.cols
      /\ DOMAIN g.cols = DOMAIN f.cols \ Gone(from, w)
  BY DEF Comparable, Reflects, WantedSchema, Left
<1>3. /\ MadeVertices(w, S) = DOMAIN w.vertices \ DOMAIN from.vertices
      /\ MadeEdges(w, S) = DOMAIN w.edges \ DOMAIN from.edges
  BY DEF MadeVertices, MadeEdges, AddsAre
<1>4. TablesAfterAdds(w, g, S) = DOMAIN w.vertices \union DOMAIN w.edges
  BY <1>2, <1>3 DEF TablesAfterAdds, Gone
<1>5. DOMAIN h.cols = DOMAIN w.vertices \union DOMAIN w.edges /\ DOMAIN h.cons = DOMAIN h.cols
  BY <1>1, <1>4
<1>6. /\ \A t \in DOMAIN w.vertices : t \in Both(from, w) <=> t \in DOMAIN g.cols
      /\ \A t \in DOMAIN w.edges : t \notin Both(from, w)
  BY <1>2 DEF Both, Gone
<1>7. h.indexes = w.indexes
  BY <1>1, IndexesSettle
<1>8. ASSUME NEW t \in DOMAIN w.vertices
      PROVE  Holds(h, t, w.vertices[t]) /\ \A c \in DOMAIN h.cols[t] : IsColumn(h.cols[t][c])
  <2>1. h.cols[t] = TableAfterAdds(w, g, S, t) /\ h.cons[t] = TableHeldAfterAdds(w, g, S, t)
    BY <1>1, <1>4
  <2>2. CASE t \in Both(from, w)
    <3>1. t \in DOMAIN g.cols
      BY <1>6, <2>2
    <3>2. h.cols[t] = ColumnsAfterAdds(t, g.cols[t], w.vertices[t], S)
      BY <2>1, <3>1 DEF TableAfterAdds
    <3>3. h.cons[t] = HeldAfterAdds(t, g.cons[t], w.vertices[t], S)
      BY <2>1, <3>1 DEF TableHeldAfterAdds
    <3> QED BY <2>2, <3>2, <3>3, SharedTableSettles
  <2>3. CASE t \notin Both(from, w)
    <3>1. t \notin DOMAIN g.cols
      BY <1>6, <2>3
    <3>2. h.cols[t] = NewColumns(w.vertices[t].cols) /\ h.cons[t] = NewHeld(t, w.vertices[t])
      BY <2>1, <3>1 DEF TableAfterAdds, TableHeldAfterAdds
    <3>3. MadeTable(t, w.vertices[t])
      BY DEF Comparable, WantedSchema
    <3> QED BY <3>2, <3>3, NewTableSettles
  <2> QED BY <2>2, <2>3
<1>9. ASSUME NEW e \in DOMAIN w.edges
      PROVE  /\ \A c \in DOMAIN h.cols[e] : IsColumn(h.cols[e][c])
             /\ \E vt : Holds(h, e, vt)
             /\ \/ e \in DOMAIN f.cols /\ DOMAIN h.cols[e] = DOMAIN f.cols[e]
                   /\ \A c \in DOMAIN h.cols[e] : h.cols[e][c].type = f.cols[e][c].type
                \/ DOMAIN h.cols[e] = DOMAIN w.edges[e].cols
                   /\ \A c \in DOMAIN h.cols[e] : h.cols[e][c].type = w.edges[e].cols[c].type
  <2>1. h.cols[e] = TableAfterAdds(w, g, S, e) /\ h.cons[e] = TableHeldAfterAdds(w, g, S, e)
    BY <1>1, <1>4
  <2>2. CASE e \in DOMAIN g.cols
    <3>1. e \in DOMAIN f.cols /\ e \in DOMAIN g.cols \ Both(from, w)
      BY <1>2, <1>6, <2>2
    <3>2. h.cols[e] = ColumnsAfterAdds(e, g.cols[e], w.vertices[e], S)
      BY <2>1, <2>2 DEF TableAfterAdds
    <3>3. h.cons[e] = HeldAfterAdds(e, g.cons[e], w.vertices[e], S)
      BY <2>1, <2>2 DEF TableHeldAfterAdds
    <3>4. h.cols[e] = f.cols[e] /\ h.cons[e] = f.cons[e]
      BY <3>1, <3>2, <3>3, KeptTableSettles
    <3>5. PICK vt : Holds(f, e, vt)
      BY <3>1 DEF Comparable
    <3>6. Holds(h, e, vt)
      BY <3>4, <3>5 DEF Holds
    <3>7. \A c \in DOMAIN f.cols[e] : IsColumn(f.cols[e][c])
      BY <3>1 DEF Comparable, ReadableFolder
    <3> QED BY <3>1, <3>4, <3>6, <3>7
  <2>3. CASE e \notin DOMAIN g.cols
    <3>1. e \notin DOMAIN w.vertices
      BY <1>2
    <3>2. h.cols[e] = NewColumns(w.edges[e].cols) /\ h.cons[e] = <<>>
      BY <2>1, <2>3, <3>1 DEF TableAfterAdds, TableHeldAfterAdds
    <3> DEFINE et == w.edges[e]
    <3>3. et.cols = EdgeColumns(et.src, et.dst)
      BY DEF Comparable
    <3> HIDE DEF et
    <3>4. MadeTable(e, Drawn(et)) /\ TableConstraints(e, Drawn(et)) = {}
      BY <3>3, DrawnIsMade
    <3>5. Drawn(et).cols = et.cols
      BY DEF Drawn
    <3>6. NewHeld(e, Drawn(et)) = <<>>
      BY <3>4 DEF NewHeld, HeldNames
    <3>7. h.cols[e] = NewColumns(Drawn(et).cols) /\ h.cons[e] = NewHeld(e, Drawn(et))
      BY <3>2, <3>5, <3>6 DEF et
    <3>8. Holds(h, e, Drawn(et)) /\ \A c \in DOMAIN h.cols[e] : IsColumn(h.cols[e][c])
      BY <3>4, <3>7, NewTableSettles
    <3>9. DOMAIN h.cols[e] = DOMAIN et.cols /\ \A c \in DOMAIN h.cols[e] : h.cols[e][c].type = et.cols[c].type
      BY <3>5, <3>8 DEF Holds, Settled
    <3> QED BY <3>8, <3>9 DEF et
  <2> QED BY <2>2, <2>3
<1>10. ReadableFolder(h)
  <2>1. ASSUME NEW t \in DOMAIN h.cols
        PROVE  /\ h.cols[t] = [c \in DOMAIN h.cols[t] |-> h.cols[t][c]]
               /\ h.cons[t] = [n \in DOMAIN h.cons[t] |-> h.cons[t][n]]
    <3>1. h.cols[t] = TableAfterAdds(w, g, S, t) /\ h.cons[t] = TableHeldAfterAdds(w, g, S, t)
      BY <1>1, <1>4, <1>5
    <3>2. /\ \A cols, vt : ColumnsAfterAdds(t, cols, vt, S) =
               [c \in DOMAIN ColumnsAfterAdds(t, cols, vt, S) |-> ColumnsAfterAdds(t, cols, vt, S)[c]]
          /\ \A cons, vt : HeldAfterAdds(t, cons, vt, S) =
               [n \in DOMAIN HeldAfterAdds(t, cons, vt, S) |-> HeldAfterAdds(t, cons, vt, S)[n]]
          /\ \A vt : NewHeld(t, vt) = [n \in DOMAIN NewHeld(t, vt) |-> NewHeld(t, vt)[n]]
          /\ <<>> = [n \in DOMAIN <<>> |-> <<>>[n]]
      BY DEF ColumnsAfterAdds, HeldAfterAdds, NewHeld
    <3>3. \A cols : NewColumns(cols) = [c \in DOMAIN NewColumns(cols) |-> NewColumns(cols)[c]]
      BY NewColumnsRead
    <3> QED BY <3>1, <3>2, <3>3 DEF TableAfterAdds, TableHeldAfterAdds
  <2>2. h.cols = [t \in DOMAIN h.cols |-> [c \in DOMAIN h.cols[t] |-> h.cols[t][c]]]
    <3>1. h.cols = [t \in DOMAIN h.cols |-> h.cols[t]]
      BY <1>1
    <3> QED BY <2>1, <3>1
  <2>3. h.cons = [t \in DOMAIN h.cols |-> [n \in DOMAIN h.cons[t] |-> h.cons[t][n]]]
    <3>1. h.cons = [t \in DOMAIN h.cols |-> h.cons[t]]
      BY <1>1
    <3> QED BY <2>1, <3>1
  <2>4. h.indexes = [i \in DOMAIN h.indexes |-> h.indexes[i]]
    BY <1>1 DEF IndexesAfterAdds
  <2>5. h = [cols |-> h.cols, cons |-> h.cons, indexes |-> h.indexes, graph |-> h.graph, ok |-> TRUE]
    BY <1>1 DEF IsFolder
  <2>6. ASSUME NEW t \in DOMAIN h.cols
        PROVE  /\ \A c \in DOMAIN h.cols[t] : IsColumn(h.cols[t][c])
               /\ \A n \in DOMAIN h.cons[t] : IsHeld(t, n)
    <3>1. \E vt : Holds(h, t, vt)
      BY <1>5, <1>8, <1>9
    <3>2. PICK vt : Holds(h, t, vt)
      BY <3>1
    <3>3. \A n \in DOMAIN h.cons[t] : IsHeld(t, n)
      BY <3>2, ConstraintsAreHeld DEF Holds, HeldNames
    <3>4. \A c \in DOMAIN h.cols[t] : IsColumn(h.cols[t][c])
      BY <1>5, <1>8, <1>9
    <3> QED BY <3>3, <3>4
  <2> QED BY <2>2, <2>3, <2>4, <2>5, <2>6 DEF ReadableFolder
<1>11. h.graph = f.graph
  BY <1>1 DEF Left
<1>12. Settles(h, f, w)
  BY <1>5, <1>7, <1>8, <1>9, <1>10, <1>11 DEF Settles
<1> QED BY <1>12 DEF h

\* A tables file settles a folder: the Up section the differ renders
\* (diff.go:628), read back, leaves exactly what is wanted, whatever was there
\* before and however much of it differs.
THEOREM UpSettles ==
  ASSUME NEW f, NEW from, NEW w, Comparable(f, from, w), NEW p, p.tables = {}, p.columns = {}
  PROVE  Settles(FoldSection(f, UpStructural(DiffSchemas(from, w, p, {}), from, w)), f, w)
<1> DEFINE d == DiffSchemas(from, w, p, {})
           g == AfterDrops(f, DropStmts(d, from))
<1>1. DifferenceIs(d, f, from, w)
  BY TheDifference DEF Comparable
<1>2. d.renames.tables = {} /\ d.renames.columns = {}
  BY DEF DiffSchemas
<1> HIDE DEF d
<1>3. PlainDelta(d)
  BY <1>1, <1>2, PlainDifference
<1>4. DropFrom(f, DropStmts(d, from)) /\ DropsAre(DropStmts(d, from), f, from, w) /\ AddsAre(AddStmts(d, w), f, from, w)
  BY <1>1, DropsWhatThereIs, WhatIsDropped, WhatIsAdded
<1>5. Left(g, f, from, w)
  BY <1>4, WhatIsLeft
<1>6. ReadableFolder(g) /\ AddTo(w, g, AddStmts(d, w))
  <2> HIDE DEF g
  <2> QED BY <1>1, <1>5, AddsWhatIsWanted DEF Left
<1>7. Settles(AfterAdds(w, g, AddStmts(d, w)), f, w)
  <2> HIDE DEF g
  <2> QED BY <1>4, <1>5, WhatComesOfIt
<1>8. FoldSection(f, UpStructural(d, from, w)) = AfterAdds(w, g, AddStmts(d, w))
  BY <1>3, <1>4, <1>6, UpFolded DEF Comparable
<1> QED BY <1>7, <1>8 DEF d

\* A generation that changes no table leaves the tables as they are.
LEMMA NothingToSettle ==
  ASSUME NEW f, NEW from, NEW w, Comparable(f, from, w), NEW p, p.tables = {}, p.columns = {},
         ~Structural(DiffSchemas(from, w, p, {}))
  PROVE  Settles(f, f, w)
<1> DEFINE d == DiffSchemas(from, w, p, {})
           S == DropStmts(d, from)
           T == AddStmts(d, w)
<1>1. DifferenceIs(d, f, from, w)
  BY TheDifference DEF Comparable
<1> HIDE DEF d
<1>2. ~Structural(d)
  BY DEF d
<1>3. /\ d.added.vertices = {} /\ d.added.edges = {} /\ d.dropped.vertices = {} /\ d.dropped.edges = {}
      /\ d.addedIndexes = {} /\ d.droppedIndexes = {} /\ d.addedUniques = {} /\ d.droppedUniques = {}
      /\ d.addedColumns = {} /\ d.droppedColumns = {} /\ d.addedConstraints = {} /\ d.droppedConstraints = {}
      /\ d.defaultChanges = {}
  BY <1>2 DEF Structural
<1>4. S = {} /\ T = {}
  BY <1>3 DEF DropStmts, AddStmts
<1>5. DropsAre(S, f, from, w) /\ AddsAre(T, f, from, w)
  BY <1>1, WhatIsDropped, WhatIsAdded
<1> HIDE DEF S, T
<1>6. ReadableFolder(f)
  BY DEF Comparable
<1>7. AfterDrops(f, S) = f /\ AfterAdds(w, f, T) = f
  BY <1>4, <1>6, NothingDropped, NothingAdded
<1>8. Left(f, f, from, w)
  <2>1. Left(AfterDrops(f, S), f, from, w)
    BY <1>5, WhatIsLeft
  <2> QED BY <1>7, <2>1
<1>9. Settles(AfterAdds(w, f, T), f, w)
  BY <1>5, <1>8, WhatComesOfIt
<1> QED BY <1>7, <1>9
------------------------------------------------------------------------------
(* One generation. *)

\* The schemas of a family of plain edits.
Unnamed(d) ==
  \A t \in DOMAIN d.vertices :
    d.vertices[t].was = <<>> /\ \A c \in DOMAIN d.vertices[t].cols : d.vertices[t].cols[c].was = <<>>

SameTypes(d, e) ==
  \A t \in Owned(d) \intersect Owned(e) :
    \A c \in DOMAIN OwnedTable(d, t).cols \intersect DOMAIN OwnedTable(e, t).cols :
      OwnedTable(d, t).cols[c].type = OwnedTable(e, t).cols[c].type

Regular(schemas) ==
  /\ \A d \in schemas : MadeSchema(d) /\ Fits(d, d) /\ Unnamed(d)
  /\ \A d, e \in schemas : SameTypes(d, e)
  /\ \A d, e \in schemas : UnownedEdges(d) \subseteq UnownedEdges(e) => Fits(d, e)

\* Without former names there is nothing to rename.
LEMMA NoFormerNames ==
  ASSUME NEW from, NEW to,
         \A t \in DOMAIN to.vertices :
           to.vertices[t].was = <<>> /\ \A c \in DOMAIN to.vertices[t].cols : to.vertices[t].cols[c].was = <<>>
  PROVE  PlanRenames(from, to).tables = {} /\ PlanRenames(from, to).columns = {}
<1> DEFINE known == {t \in DOMAIN to.vertices : PriorTable(from, to, t) # None}
<1>1. \A t \in DOMAIN to.vertices : PriorTable(from, to, t) = t \/ PriorTable(from, to, t) = None
  <2>1. ASSUME NEW t \in DOMAIN to.vertices, t \notin DOMAIN from.vertices PROVE PriorTable(from, to, t) = None
    <3>1. DOMAIN to.vertices[t].was = {}
      OBVIOUS
    <3> QED BY <2>1, <3>1 DEF PriorTable, FirstOf
  <2> QED BY <2>1 DEF PriorTable
<1>2. PlanRenames(from, to).tables =
        {[from |-> PriorTable(from, to, t), to |-> t] : t \in {k \in known : PriorTable(from, to, k) # k}}
  BY DEF PlanRenames
<1>3. PlanRenames(from, to).tables = {}
  BY <1>1, <1>2
<1>4. \A t \in DOMAIN to.vertices : \A c \in DOMAIN to.vertices[t].cols : PriorColumn(from, to, t, c) = None
  <2>1. ASSUME NEW t \in DOMAIN to.vertices, NEW c \in DOMAIN to.vertices[t].cols
        PROVE  PriorColumn(from, to, t, c) = None
    <3>1. DOMAIN to.vertices[t].cols[c].was = {}
      OBVIOUS
    <3> QED BY <3>1 DEF PriorColumn, FirstOf
  <2> QED BY <2>1
<1>5. \A r \in PlanRenames(from, to).columns :
         /\ r.from # None
         /\ \E t \in known : \E c \in DOMAIN to.vertices[t].cols :
               r = [table |-> t, from |-> PriorColumn(from, to, t, c), to |-> c]
  BY DEF PlanRenames
<1>6. PlanRenames(from, to).columns = {}
  BY <1>4, <1>5
<1> QED BY <1>3, <1>6

\* The folders f and h have the same tables; a graph may have left one of them.
SameTables(f, h) == h.cols = f.cols /\ h.cons = f.cons /\ h.indexes = f.indexes

\* What the differ compares in a generation for d, over the directory of d0.
LEMMA PriorIsComparable ==
  ASSUME NEW schemas, Regular(schemas), NEW d0 \in schemas, NEW d \in schemas, Fits(d0, d),
         NEW f, StandsFor(f, d0, schemas), f.graph \in {None, GraphDDL(d0)},
         NEW h, ReadableFolder(h), SameTables(f, h),
         NEW from, Proper(from), Alike(from, Had(f, d))
  PROVE  Comparable(h, from, WithoutUnmanaged(d, d))
<1> DEFINE w == WithoutUnmanaged(d, d)
           had == Had(f, d)
<1>1. MadeSchema(d0) /\ MadeSchema(d) /\ Fits(d, d)
  BY DEF Regular
<1>2. Proper(had) /\ Describes(had, f)
  BY <1>1, PriorDescribes
<1>3. /\ Proper(w) /\ WantedSchema(w)
      /\ DOMAIN w.vertices = OwnedVertices(d) /\ DOMAIN w.edges = OwnedEdges(d)
      /\ \A t \in OwnedVertices(d) : w.vertices[t] = d.vertices[t]
      /\ \A e \in OwnedEdges(d) : w.edges[e] = d.edges[e]
      /\ w.indexes = d.indexes
  BY <1>1, WantedIsOwned
<1> HIDE DEF w, had
<1>4. /\ ReadableFolder(f) /\ DOMAIN f.cols = Owned(d0) /\ f.indexes = d0.indexes
      /\ \A t \in DOMAIN f.cols : Known(schemas, f, t) /\ \E vt : Holds(f, t, vt)
  BY DEF StandsFor
<1>5. Reflects(from, f)
  <2>1. KeysAreKeys(f) /\ FlagsAreFlags(f) /\ Alike(from, had)
    BY StandingIsProper DEF had
  <2> QED BY <1>2, <1>4, <2>1, DescribedIsMirrored
<1>6. Reflects(from, h)
  BY <1>5 DEF Reflects, HasShape, SameTables
<1>7. \A t \in DOMAIN h.cols : \E vt : Holds(h, t, vt)
  BY <1>4 DEF SameTables, Holds
<1>8. DOMAIN h.cols \subseteq Range(Alphabet) /\ IsFiniteSet(DOMAIN h.indexes)
  BY <1>1, <1>4 DEF SameTables, MadeSchema, Owned
<1>9. /\ ProperIndexes(w.indexes) /\ IsFiniteSet(DOMAIN w.indexes)
      /\ DOMAIN w.vertices \union DOMAIN w.edges \subseteq Range(Alphabet)
      /\ \A e \in DOMAIN w.edges : w.edges[e].cols = EdgeColumns(w.edges[e].src, w.edges[e].dst)
      /\ \A i \in DOMAIN w.indexes : w.indexes[i].table \in DOMAIN w.vertices \union DOMAIN w.edges
  BY <1>1, <1>3 DEF MadeSchema, Proper
<1>10. ASSUME NEW t \in DOMAIN from.vertices \intersect DOMAIN w.vertices,
              NEW c \in DOMAIN h.cols[t] \intersect DOMAIN w.vertices[t].cols
       PROVE  h.cols[t][c].type = w.vertices[t].cols[c].type
  <2>1. t \in DOMAIN f.cols /\ h.cols[t] = f.cols[t]
    BY <1>5 DEF Reflects, SameTables
  <2>2. PICK e \in schemas : /\ t \in Owned(e) /\ c \in DOMAIN OwnedTable(e, t).cols
                             /\ f.cols[t][c].type = OwnedTable(e, t).cols[c].type
    BY <1>4, <2>1 DEF Known
  <2>3. t \in Owned(d) /\ OwnedTable(d, t) = w.vertices[t]
    BY <1>3 DEF Owned, OwnedTable
  <2>4. SameTypes(e, d)
    BY DEF Regular
  <2> QED BY <2>1, <2>2, <2>3, <2>4 DEF SameTypes
<1>11. Comparable(h, from, w)
  BY <1>3, <1>6, <1>7, <1>8, <1>9, <1>10 DEF Comparable
<1> QED BY <1>11 DEF w

\* A settled folder stands for the schema it was settled to.
LEMMA SettledStands ==
  ASSUME NEW schemas, Regular(schemas), NEW d0 \in schemas, NEW d \in schemas,
         NEW f, StandsFor(f, d0, schemas), NEW h, SameTables(f, h),
         NEW g, Settles(g, h, WithoutUnmanaged(d, d))
  PROVE  StandsFor(g, d, schemas) /\ g.graph = h.graph
<1> DEFINE w == WithoutUnmanaged(d, d)
<1>1. MadeSchema(d) /\ Fits(d, d)
  BY DEF Regular
<1>2. /\ DOMAIN w.vertices = OwnedVertices(d) /\ DOMAIN w.edges = OwnedEdges(d)
      /\ \A t \in OwnedVertices(d) : w.vertices[t] = d.vertices[t]
      /\ \A e \in OwnedEdges(d) : w.edges[e] = d.edges[e]
      /\ w.indexes = d.indexes
  BY <1>1, WantedIsOwned
<1> HIDE DEF w
<1>3. Settles(g, h, w)
  BY DEF w
<1>4. /\ ReadableFolder(g) /\ g.graph = h.graph /\ DOMAIN g.cols = Owned(d) /\ g.indexes = d.indexes
      /\ \A t \in OwnedVertices(d) : Holds(g, t, d.vertices[t])
  BY <1>2, <1>3 DEF Settles, Owned
<1>5. ASSUME NEW t \in Owned(d) PROVE Known(schemas, g, t) /\ \E vt : Holds(g, t, vt)
  <2>1. CASE t \in OwnedVertices(d)
    <3>1. Holds(g, t, d.vertices[t]) /\ OwnedTable(d, t) = d.vertices[t]
      BY <1>4, <2>1 DEF OwnedTable
    <3>2. Known(schemas, g, t)
      BY <3>1 DEF Holds, Known, Settled
    <3> QED BY <3>1, <3>2
  <2>2. CASE t \in OwnedEdges(d)
    <3>1. t \in DOMAIN w.edges
      BY <1>2, <2>2
    <3>2. \E vt : Holds(g, t, vt)
      BY <1>3, <3>1 DEF Settles
    <3>3. CASE /\ t \in DOMAIN h.cols /\ DOMAIN g.cols[t] = DOMAIN h.cols[t]
               /\ \A c \in DOMAIN g.cols[t] : g.cols[t][c].type = h.cols[t][c].type
      <4>1. Known(schemas, f, t) /\ h.cols = f.cols
        BY <3>3 DEF StandsFor, SameTables
      <4> QED BY <3>2, <3>3, <4>1 DEF Known
    <3>4. CASE /\ DOMAIN g.cols[t] = DOMAIN w.edges[t].cols
               /\ \A c \in DOMAIN g.cols[t] : g.cols[t][c].type = w.edges[t].cols[c].type
      <4>1. OwnedTable(d, t) = w.edges[t]
        BY <1>1, <1>2, <2>2 DEF OwnedTable, MadeSchema
      <4> QED BY <3>2, <3>4, <4>1 DEF Known
    <3> QED BY <1>3, <3>1, <3>3, <3>4 DEF Settles
  <2> QED BY <2>1, <2>2 DEF Owned
<1> QED BY <1>4, <1>5 DEF StandsFor

\* The tables file of a generation for d, over whatever the directory's tables
\* are compared with, whether or not the graph has left it by then.
Compares(delta, h, w) ==
  \E from, p : /\ Comparable(h, from, w) /\ p.tables = {} /\ p.columns = {}
              /\ LET x == DiffSchemas(from, w, p, {})
                 IN delta.changed = Structural(x) /\ delta.up = UpStructural(x, from, w)

LEMMA GenerationCompares ==
  ASSUME NEW schemas, Regular(schemas), NEW d0 \in schemas, NEW d \in schemas, Fits(d0, d),
         NEW f, StandsFor(f, d0, schemas), f.graph \in {None, GraphDDL(d0)},
         NEW h, ReadableFolder(h), SameTables(f, h)
  PROVE  Compares(DeltaTables(Build(f), d), h, WithoutUnmanaged(d, d))
<1> DEFINE w == WithoutUnmanaged(d, d)
           had == Had(f, d)
           p == PlanRenames(had, w)
           from == WithoutStale(Moved(had, p), p)
           x == DiffSchemas(from, w, p, {})
           delta == DeltaTables(Build(f), d)
<1>1. MadeSchema(d0) /\ MadeSchema(d) /\ Fits(d, d) /\ Unnamed(d)
  BY DEF Regular
<1>2. Proper(had)
  BY <1>1, PriorDescribes
<1>3. DOMAIN w.vertices = OwnedVertices(d) /\ \A t \in OwnedVertices(d) : w.vertices[t] = d.vertices[t]
  BY <1>1, WantedIsOwned
<1> HIDE DEF had, w
<1>4. p.tables = {} /\ p.columns = {}
  <2>1. \A t \in DOMAIN w.vertices :
          w.vertices[t].was = <<>> /\ \A c \in DOMAIN w.vertices[t].cols : w.vertices[t].cols[c].was = <<>>
    BY <1>1, <1>3 DEF Unnamed, OwnedVertices
  <2> QED BY <2>1, NoFormerNames
<1> HIDE DEF p
<1>5. Proper(from) /\ Alike(from, had) /\ Stale(Moved(had, p), p) = {}
  BY <1>2, <1>4, SameSchema
<1>6. delta = Rendered(x, from, w)
  <2>1. delta = DeltaClassified(had, w)
    BY DEF DeltaTables, had, Had, w
  <2>2. DeltaClassified(had, w) = DeltaAfter(p, Moved(had, p), w)
    BY DEF DeltaClassified, DeltaRenaming, p
  <2> DEFINE moved == Moved(had, p)
  <2>3. DeltaAfter(p, moved, w) = Rendered(DiffSchemas(from, w, p, Stale(moved, p)), from, w)
    BY DEF DeltaAfter
  <2> HIDE DEF delta, from
  <2> QED BY <1>5, <2>1, <2>2, <2>3
<1>7. delta.changed = Structural(x) /\ delta.up = UpStructural(x, from, w)
  <2> HIDE DEF x, from, delta
  <2> QED BY <1>6 DEF Rendered
<1> HIDE DEF delta, from
<1>8. Alike(from, Had(f, d))
  BY <1>5 DEF had
<1>9. Comparable(h, from, w)
  BY <1>5, <1>8, PriorIsComparable DEF w
<1>10. Compares(delta, h, w)
  BY <1>4, <1>7, <1>9 DEF Compares
<1> QED BY <1>10 DEF delta, w

\* What it makes of the directory's tables.
LEMMA GenerationSettles ==
  ASSUME NEW schemas, Regular(schemas), NEW d0 \in schemas, NEW d \in schemas, Fits(d0, d),
         NEW f, StandsFor(f, d0, schemas), f.graph \in {None, GraphDDL(d0)},
         NEW h, ReadableFolder(h), SameTables(f, h)
  PROVE  LET delta == DeltaTables(Build(f), d)
             after == FoldSection(h, delta.up)
         IN  /\ StandsFor(after, d, schemas) /\ after.graph = h.graph
             /\ ~delta.changed => StandsFor(h, d, schemas)
<1> DEFINE w == WithoutUnmanaged(d, d)
           delta == DeltaTables(Build(f), d)
           after == FoldSection(h, delta.up)
<1>1. Compares(delta, h, w)
  BY GenerationCompares
<1> HIDE DEF delta, w
<1>2. PICK from, p : /\ Comparable(h, from, w) /\ p.tables = {} /\ p.columns = {}
                     /\ delta.changed = Structural(DiffSchemas(from, w, p, {}))
                     /\ delta.up = UpStructural(DiffSchemas(from, w, p, {}), from, w)
  BY <1>1 DEF Compares
<1>3. Settles(after, h, w)
  BY <1>2, UpSettles
<1>4. ~delta.changed => Settles(h, h, w)
  BY <1>2, NothingToSettle
<1> HIDE DEF after
<1>5. StandsFor(after, d, schemas) /\ after.graph = h.graph
  BY <1>3, SettledStands DEF w
<1>6. ~delta.changed => StandsFor(h, d, schemas)
  BY <1>4, SettledStands DEF w
<1> QED BY <1>5, <1>6 DEF after, delta

\* A section of one statement.
LEMMA OneStatementFolded ==
  ASSUME NEW f, NEW s
  PROVE  FoldSection(f, <<s>>) = Applied(f, s)
<1> DEFINE section == <<s>>
<1>1. Len(section) = 1 /\ section[1] = s
  OBVIOUS
<1> HIDE DEF section
<1>2. Len(section) \in Nat
  BY <1>1
<1>s3. PICK after : FoldsOf(after, f, section)
  BY <1>2, FoldHasSteps
<1>3. /\ after[0] = f
      /\ \A i \in 1..Len(section) : after[i] = Applied(after[i-1], section[i])
      /\ FoldSection(f, section) = after[Len(section)]
  BY <1>s3 DEF FoldsOf
<1>4. 1 \in 1..Len(section) /\ 1-1 = 0
  BY <1>1
<1>5. after[1] = Applied(f, s)
  BY <1>1, <1>3, <1>4
<1>6. FoldSection(f, section) = Applied(f, s)
  BY <1>1, <1>3, <1>5
<1> QED BY <1>6 DEF section

\* A folder with another graph.
LEMMA GraphFolded ==
  ASSUME NEW f, ReadableFolder(f), NEW g
  PROVE  LET dropped == FoldSection(f, <<DropGraph>>)
             made == FoldSection(f, <<CreateGraph(g)>>)
         IN  /\ SameTables(f, dropped) /\ ReadableFolder(dropped) /\ dropped.graph = None
             /\ SameTables(f, made) /\ ReadableFolder(made) /\ made.graph = g
<1> DEFINE Regraphed(v) == [cols |-> f.cols, cons |-> f.cons, indexes |-> f.indexes, graph |-> v, ok |-> TRUE]
<1>1. f = Regraphed(f.graph)
  BY DEF ReadableFolder
<1>2. ASSUME NEW v PROVE [f EXCEPT !.graph = v] = Regraphed(v)
  <2> DEFINE cols == f.cols
             cons == f.cons
             indexes == f.indexes
             drawn == f.graph
             yes == TRUE
  <2>1. f = [cols |-> cols, cons |-> cons, indexes |-> indexes, graph |-> drawn, ok |-> yes]
    BY <1>1
  <2> HIDE DEF cols, cons, indexes, drawn, yes
  <2>2. [f EXCEPT !.graph = v] = [cols |-> cols, cons |-> cons, indexes |-> indexes, graph |-> v, ok |-> yes]
    BY <2>1
  <2> QED BY <2>2 DEF cols, cons, indexes, yes
<1>3. \A v : SameTables(f, Regraphed(v)) /\ ReadableFolder(Regraphed(v)) /\ Regraphed(v).graph = v
  <2> TAKE v
  <2> DEFINE h == Regraphed(v)
  <2>1. /\ h.cols = f.cols /\ h.cons = f.cons /\ h.indexes = f.indexes /\ h.graph = v /\ h.ok = TRUE
        /\ h = [cols |-> h.cols, cons |-> h.cons, indexes |-> h.indexes, graph |-> h.graph, ok |-> TRUE]
    OBVIOUS
  <2> HIDE DEF h
  <2> QED BY <2>1 DEF SameTables, ReadableFolder
<1>4. f.ok = TRUE
  BY DEF ReadableFolder
<1>5. Applied(f, DropGraph) = [f EXCEPT !.graph = None]
  BY <1>4 DEF Applied, Apply, DropGraph
<1>6. Applied(f, CreateGraph(g)) = [f EXCEPT !.graph = g]
  BY <1>4 DEF Applied, Apply, CreateGraph
<1>7. FoldSection(f, <<DropGraph>>) = Regraphed(None) /\ FoldSection(f, <<CreateGraph(g)>>) = Regraphed(g)
  BY <1>2, <1>5, <1>6, OneStatementFolded
<1> HIDE DEF Regraphed
<1> QED BY <1>3, <1>7
------------------------------------------------------------------------------
(* The files of a generation.                                              *)

\* The folder stands for a schema the directory may still be of when d is
\* wanted, with the graph of that schema or none ...
Stands(f, d, g, schemas) ==
  \E d0 \in schemas : /\ StandsFor(f, d0, schemas) /\ UnownedEdges(d0) \subseteq UnownedEdges(d)
                      /\ f.graph \in {None, GraphDDL(d0)}
                      /\ ~g => f.graph = None

\* ... it stands for d itself, with all of its graph ...
Done(f, d, g, schemas) == StandsFor(f, d, schemas) /\ f.graph = IF g THEN GraphDDL(d) ELSE None

\* ... and the files, folded, lead from one to the other by way of folders that
\* stand for something.
Leads(f, files, d, g, schemas) ==
  LET Well(h) == Stands(h, d, g, schemas)
      End(h)  == Done(h, d, g, schemas)
      Fold(h, file) == FoldSection(h, file.up)
  IN  \/ files = <<>> /\ End(f)
      \/ \E a : files = <<a>> /\ End(Fold(f, a))
      \/ \E a, b : files = <<a, b>> /\ Well(Fold(f, a)) /\ End(Fold(Fold(f, a), b))
      \/ \E a, b, c : /\ files = <<a, b, c>> /\ Well(Fold(f, a)) /\ Well(Fold(Fold(f, a), b))
                      /\ End(Fold(Fold(Fold(f, a), b), c))

\* Only the tables count for what a folder stands for.
LEMMA StandingAlike ==
  ASSUME NEW f, NEW d, NEW schemas, StandsFor(f, d, schemas), NEW h, SameTables(f, h), ReadableFolder(h)
  PROVE  StandsFor(h, d, schemas)
BY DEF StandsFor, SameTables, Known, Holds

LEMMA DoneStands ==
  ASSUME NEW schemas, NEW d \in schemas, NEW g \in BOOLEAN, NEW f, Done(f, d, g, schemas)
  PROVE  Stands(f, d, g, schemas)
BY DEF Done, Stands

\* A list joined from two, by its entries.
LEMMA JoinedEntries ==
  ASSUME NEW S, NEW p \in Seq(S), NEW q \in Seq(S), NEW r \in Seq(S), Len(r) = Len(p) + Len(q),
         \A i \in 1..Len(p) : r[i] = p[i], \A i \in 1..Len(q) : r[Len(p) + i] = q[i]
  PROVE  p \o q = r
<1>1. /\ Len(p) \in Nat /\ Len(q) \in Nat /\ r = [i \in 1..Len(r) |-> r[i]]
      /\ p \o q \in Seq(S) /\ DOMAIN (p \o q) = 1..(Len(p) + Len(q))
      /\ \A i \in 1..Len(p) : (p \o q)[i] = p[i]
      /\ \A i \in 1..Len(q) : (p \o q)[Len(p) + i] = q[i]
  OBVIOUS
<1>2. ASSUME NEW i \in 1..Len(r) PROVE (p \o q)[i] = r[i]
  <2>1. CASE i <= Len(p)
    BY <1>1, <2>1
  <2>2. CASE ~(i <= Len(p))
    <3>1. i - Len(p) \in 1..Len(q) /\ Len(p) + (i - Len(p)) = i
      BY <1>1, <2>2
    <3>2. \A k \in 1..Len(q) : (p \o q)[Len(p) + k] = r[Len(p) + k]
      BY <1>1
    <3> QED BY <3>1, <3>2
  <2> QED BY <2>1, <2>2
<1>3. p \o q = [i \in 1..Len(r) |-> (p \o q)[i]]
  <2>1. p \o q = [i \in DOMAIN (p \o q) |-> (p \o q)[i]]
    <3>1. \A s \in Seq(S) : s = [i \in DOMAIN s |-> s[i]]
      OBVIOUS
    <3> QED BY <1>1, <3>1
  <2> QED BY <1>1, <2>1
<1> QED BY <1>1, <1>2, <1>3

\* Up to three files in a row.
LEMMA FilesInARow ==
  ASSUME NEW T, NEW U, NEW B
  PROVE  /\ <<>> \o <<>> \o <<>> = <<>> /\ <<>> \o <<>> \o <<B>> = <<B>>
         /\ <<>> \o <<U>> \o <<>> = <<U>> /\ <<>> \o <<U>> \o <<B>> = <<U, B>>
         /\ <<T>> \o <<>> \o <<>> = <<T>> /\ <<T>> \o <<>> \o <<B>> = <<T, B>>
         /\ <<T>> \o <<U>> \o <<>> = <<T, U>> /\ <<T>> \o <<U>> \o <<B>> = <<T, U, B>>
<1> DEFINE All == {T, U, B}
<1>1. \A x : <<x>> \in Seq({x}) /\ Len(<<x>>) = 1
  OBVIOUS
<1>2. <<T>> \in Seq(All) /\ <<U>> \in Seq(All) /\ <<B>> \in Seq(All) /\ <<>> \in Seq(All)
  OBVIOUS
<1>3. \A s \in Seq(All) : <<>> \o s = s /\ s \o <<>> = s
  OBVIOUS
<1>4. ASSUME NEW x \in All, NEW y \in All PROVE <<x>> \o <<y>> = <<x, y>>
  <2> DEFINE p == <<x>>
             q == <<y>>
             pq == <<x, y>>
  <2>1. p \in Seq(All) /\ Len(p) = 1 /\ p[1] = x /\ q \in Seq(All) /\ Len(q) = 1 /\ q[1] = y
    OBVIOUS
  <2>2. pq \in Seq(All) /\ Len(pq) = 2 /\ pq[1] = x /\ pq[2] = y
    OBVIOUS
  <2> HIDE DEF p, q, pq, All
  <2>3. /\ Len(pq) = Len(p) + Len(q)
        /\ \A i \in 1..Len(p) : pq[i] = p[i]
        /\ \A i \in 1..Len(q) : pq[Len(p) + i] = q[i]
    BY <2>1, <2>2
  <2>4. p \o q = pq
    <3>1. p \in Seq(All) /\ q \in Seq(All) /\ pq \in Seq(All)
      BY <2>1, <2>2
    <3> QED BY <2>3, <3>1, JoinedEntries
  <2> QED BY <2>4 DEF p, q, pq
<1>5. <<T>> \o <<U>> = <<T, U>> /\ <<T>> \o <<B>> = <<T, B>> /\ <<U>> \o <<B>> = <<U, B>>
  BY <1>4
<1>6. <<T, U>> \o <<B>> = <<T, U, B>> /\ <<T, U>> \in Seq(All)
  <2> DEFINE p == <<T, U>>
             q == <<B>>
             pq == <<T, U, B>>
  <2>1. p \in Seq(All) /\ Len(p) = 2 /\ p[1] = T /\ p[2] = U /\ q \in Seq(All) /\ Len(q) = 1 /\ q[1] = B
    OBVIOUS
  <2>2. pq \in Seq(All) /\ Len(pq) = 3 /\ pq[1] = T /\ pq[2] = U /\ pq[3] = B
    OBVIOUS
  <2> HIDE DEF p, q, pq, All
  <2>3. /\ Len(pq) = Len(p) + Len(q)
        /\ \A i \in 1..Len(p) : pq[i] = p[i]
        /\ \A i \in 1..Len(q) : pq[Len(p) + i] = q[i]
    BY <2>1, <2>2
  <2>4. p \o q = pq
    <3>1. p \in Seq(All) /\ q \in Seq(All) /\ pq \in Seq(All)
      BY <2>1, <2>2
    <3> QED BY <2>3, <3>1, JoinedEntries
  <2> QED BY <2>1, <2>4 DEF p, q, pq
<1> HIDE DEF All
<1> QED BY <1>2, <1>3, <1>5, <1>6

LEMMA PlanLeads ==
  ASSUME NEW schemas, Regular(schemas), NEW d \in schemas, NEW g \in BOOLEAN,
         NEW f, Stands(f, d, g, schemas)
  PROVE  Leads(f, Plan(Build(f), d, g), d, g, schemas)
<1> DEFINE delta == DeltaTables(Build(f), d)
           wanted == GraphDDL(d)
           graphChanged == g /\ f.graph # wanted
           teardown == g /\ f.graph # None /\ (delta.changed \/ graphChanged)
           build == g /\ wanted # None /\ (graphChanged \/ teardown)
           T == [up |-> <<DropGraph>>, down |-> <<CreateGraph(f.graph)>>]
           U == [up |-> delta.up, down |-> delta.down]
           B == [up |-> <<CreateGraph(wanted)>>, down |-> <<DropGraph>>]
           first == IF teardown THEN <<T>> ELSE <<>>
           second == IF delta.changed THEN <<U>> ELSE <<>>
           third == IF build THEN <<B>> ELSE <<>>
           Well(h) == Stands(h, d, g, schemas)
           End(h) == Done(h, d, g, schemas)
<1>1. PICK d0 \in schemas : /\ StandsFor(f, d0, schemas) /\ UnownedEdges(d0) \subseteq UnownedEdges(d)
                            /\ f.graph \in {None, GraphDDL(d0)}
                            /\ ~g => f.graph = None
  BY DEF Stands
<1>2. Fits(d0, d) /\ MadeSchema(d0) /\ Fits(d0, d0)
  BY <1>1 DEF Regular
<1>3. GraphDDL(Build(f)) = f.graph
  BY <1>1, <1>2, GraphReadsBack
<1>4. Plan(Build(f), d, g) = first \o second \o third
  BY <1>3 DEF Plan
<1>5. ReadableFolder(f)
  BY <1>1 DEF StandsFor
<1>6. ASSUME NEW h, ReadableFolder(h), SameTables(f, h)
      PROVE  /\ StandsFor(FoldSection(h, U.up), d, schemas) /\ FoldSection(h, U.up).graph = h.graph
             /\ ~delta.changed => StandsFor(h, d, schemas)
  <2>1. U.up = delta.up
    OBVIOUS
  <2> QED BY <1>1, <1>2, <1>6, <2>1, GenerationSettles
<1> DEFINE D == FoldSection(f, T.up)
<1>7. teardown => SameTables(f, D) /\ ReadableFolder(D) /\ D.graph = None
  <2>1. T.up = <<DropGraph>>
    OBVIOUS
  <2> HIDE DEF T
  <2>2. teardown => f.graph # None
    OBVIOUS
  <2> HIDE DEF teardown
  <2> QED BY <1>5, <2>1, <2>2, GraphFolded
<1>8. ASSUME NEW h, StandsFor(h, d, schemas), build PROVE End(FoldSection(h, B.up))
  <2>1. B.up = <<CreateGraph(wanted)>> /\ wanted # None /\ g
    BY <1>8
  <2> DEFINE m == FoldSection(h, B.up)
  <2>2. SameTables(h, m) /\ ReadableFolder(m) /\ m.graph = wanted
    <3>1. ReadableFolder(h)
      BY <1>8 DEF StandsFor
    <3> HIDE DEF B, wanted
    <3> QED BY <2>1, <3>1, GraphFolded
  <2> HIDE DEF m
  <2>3. StandsFor(m, d, schemas)
    BY <1>8, <2>2, StandingAlike
  <2> QED BY <2>1, <2>2, <2>3 DEF Done, m
<1>9. teardown => Well(D)
  <2> SUFFICES ASSUME teardown PROVE Well(D)
    OBVIOUS
  <2> HIDE DEF D, teardown
  <2>1. StandsFor(D, d0, schemas)
    BY <1>1, <1>7, StandingAlike
  <2> QED BY <1>1, <1>7, <2>1 DEF Stands
<1>10. ASSUME NEW h, StandsFor(h, d, schemas), h.graph = None PROVE Well(h) /\ (~build => ~g \/ wanted = None \/ f.graph = wanted)
  BY <1>10 DEF Stands
<1> DEFINE F == FoldSection(f, U.up)
           DF == FoldSection(D, U.up)
<1>11. SameTables(f, f)
  BY DEF SameTables
<1>12. StandsFor(F, d, schemas) /\ F.graph = f.graph /\ (~delta.changed => StandsFor(f, d, schemas))
  BY <1>5, <1>6, <1>11
<1>13. teardown => StandsFor(DF, d, schemas) /\ DF.graph = None /\ (~delta.changed => StandsFor(D, d, schemas))
  <2> HIDE DEF teardown, D, U
  <2> QED BY <1>6, <1>7
<1> HIDE DEF T, U, B, D, F, DF, delta
<1> DEFINE files == first \o second \o third
<1>14. SUFFICES Leads(f, files, d, g, schemas)
  BY <1>4
<1>15. CASE ~teardown /\ ~delta.changed /\ ~build
  <2>1. End(f)
    BY <1>1, <1>12, <1>15 DEF Done
  <2>2. files = <<>>
    BY <1>15, FilesInARow
  <2> QED BY <2>1, <2>2 DEF Leads
<1>16. CASE ~teardown /\ ~delta.changed /\ build
  <2>1. End(FoldSection(f, B.up))
    BY <1>8, <1>12, <1>16
  <2>2. files = <<B>>
    BY <1>16, FilesInARow
  <2> QED BY <2>1, <2>2 DEF Leads
<1>17. CASE ~teardown /\ delta.changed /\ ~build
  <2>1. End(F)
    BY <1>1, <1>12, <1>17 DEF Done
  <2>2. files = <<U>>
    BY <1>17, FilesInARow
  <2> QED BY <2>1, <2>2 DEF Leads, F
<1>18. CASE ~teardown /\ delta.changed /\ build
  <2>1. Well(F) /\ End(FoldSection(F, B.up))
    BY <1>8, <1>10, <1>12, <1>18
  <2>2. files = <<U, B>>
    BY <1>18, FilesInARow
  <2> QED BY <2>1, <2>2 DEF Leads, F
<1>19. CASE teardown /\ ~delta.changed /\ ~build
  <2>1. End(D)
    BY <1>1, <1>7, <1>13, <1>19 DEF Done
  <2>2. files = <<T>>
    BY <1>19, FilesInARow
  <2> QED BY <2>1, <2>2 DEF Leads, D
<1>20. CASE teardown /\ ~delta.changed /\ build
  <2>1. Well(D) /\ End(FoldSection(D, B.up))
    BY <1>8, <1>9, <1>13, <1>20
  <2>2. files = <<T, B>>
    BY <1>20, FilesInARow
  <2> QED BY <2>1, <2>2 DEF Leads, D
<1>21. CASE teardown /\ delta.changed /\ ~build
  <2>1. Well(D) /\ End(DF)
    BY <1>1, <1>9, <1>13, <1>21 DEF Done
  <2>2. files = <<T, U>>
    BY <1>21, FilesInARow
  <2> QED BY <2>1, <2>2 DEF Leads, D, DF
<1>22. CASE teardown /\ delta.changed /\ build
  <2>1. Well(D) /\ Well(DF) /\ End(FoldSection(DF, B.up))
    BY <1>8, <1>9, <1>10, <1>13, <1>22
  <2>2. files = <<T, U, B>>
    BY <1>22, FilesInARow
  <2> QED BY <2>1, <2>2 DEF Leads, D, DF
<1> HIDE DEF teardown, build
<1> QED BY <1>15, <1>16, <1>17, <1>18, <1>19, <1>20, <1>21, <1>22
------------------------------------------------------------------------------
(* Generation after generation, for a family of plain edits that keeps the   *)
(* tables of somebody else it maps.                                        *)

PlainHistory == Families[family].keeps /\ Plain(Families[family].schemas)

\* What a directory of the family may stand for: a schema of it, or nothing.
Schemas(i) == Families[i].schemas \union {NoSchema}

\* The folder always stands for a schema; the files still to write lead from it
\* to the one wanted; and once a generation is done it stands for that one.
SettlingInv ==
  /\ desired \in Schemas(family)
  /\ Stands(folder, desired, graph, Schemas(family))
  /\ plan # <<>> => Leads(folder, plan, desired, graph, Schemas(family))
  /\ done => Done(folder, desired, graph, Schemas(family))

HistoryInv ==
  /\ family \in DOMAIN Families /\ graph \in BOOLEAN
  /\ refused \/ done => plan = <<>>
  /\ PlainHistory => SettlingInv

LEMMA NothingIsASchema ==
  /\ MadeSchema(NoSchema) /\ Unnamed(NoSchema) /\ Owned(NoSchema) = {}
  /\ UnownedTables(NoSchema) = {} /\ UnownedEdges(NoSchema) = {}
<1>1. /\ NoSchema.vertices = <<>> /\ NoSchema.edges = <<>> /\ NoSchema.indexes = <<>> /\ NoSchema.named = FALSE
      /\ {"vertices", "edges", "indexes"} \subseteq DOMAIN NoSchema
  BY DEF NoSchema
<1>2. DOMAIN <<>> = {} /\ <<>> = [i \in DOMAIN <<>> |-> <<>>[i]]
  OBVIOUS
<1>3. /\ OwnedVertices(NoSchema) = {} /\ OwnedEdges(NoSchema) = {}
      /\ Unmanaged(NoSchema.vertices) = {} /\ Unmanaged(NoSchema.edges) = {}
  BY <1>1, <1>2 DEF OwnedVertices, OwnedEdges, Unmanaged
<1>4. Proper(NoSchema)
  BY <1>1, <1>2 DEF Proper, ProperIndexes
<1>5. IsFiniteSet(DOMAIN NoSchema.indexes)
  BY <1>1, <1>2, FS_EmptySet
<1>6. MadeSchema(NoSchema) /\ Unnamed(NoSchema)
  BY <1>1, <1>2, <1>3, <1>4, <1>5 DEF MadeSchema, Unnamed
<1>7. UnownedTables(NoSchema) = {} /\ UnownedEdges(NoSchema) = {} /\ Owned(NoSchema) = {}
  BY <1>3 DEF UnownedTables, UnownedEdges, Owned
<1> QED BY <1>6, <1>7

LEMMA PlainIsRegular ==
  ASSUME NEW i \in DOMAIN Families, Plain(Families[i].schemas)
  PROVE  Regular(Schemas(i))
<1> DEFINE S == Families[i].schemas
<1>1. ASSUME NEW d \in Schemas(i) PROVE MadeSchema(d) /\ Unnamed(d)
  BY <1>1, SchemasAreMade, NothingIsASchema DEF Schemas, Plain, Unnamed
<1>2. ASSUME NEW d \in Schemas(i), NEW e \in Schemas(i) PROVE SameTypes(d, e)
  <2>1. CASE d \in S /\ e \in S
    BY <2>1 DEF Plain, SameTypes
  <2>2. CASE ~(d \in S /\ e \in S)
    <3>1. Owned(d) \intersect Owned(e) = {}
      BY <2>2, NothingIsASchema DEF Schemas
    <3> QED BY <3>1 DEF SameTypes
  <2> QED BY <2>1, <2>2
<1>3. ASSUME NEW d \in Schemas(i), NEW e \in Schemas(i)
      PROVE  OwnedVertices(d) \intersect UnownedTables(e) = {} /\ OwnedEdges(d) \intersect UnownedEdges(e) = {}
  <2>1. CASE d \in S /\ e \in S
    BY <2>1 DEF Plain
  <2>2. CASE ~(d \in S /\ e \in S)
    BY <2>2, NothingIsASchema DEF Schemas, Owned
  <2> QED BY <2>1, <2>2
<1>4. ASSUME NEW d \in Schemas(i), NEW e \in Schemas(i), UnownedEdges(d) \subseteq UnownedEdges(e) PROVE Fits(d, e)
  BY <1>3, <1>4 DEF Fits
<1> QED BY <1>1, <1>2, <1>4 DEF Regular

LEMMA NewFolderStands ==
  ASSUME NEW schemas, NoSchema \in schemas, NEW g
  PROVE  Stands(NewFolder, NoSchema, g, schemas)
<1>1. /\ NewFolder.cols = <<>> /\ NewFolder.cons = <<>> /\ NewFolder.indexes = <<>> /\ NewFolder.graph = None
      /\ NewFolder = [cols |-> NewFolder.cols, cons |-> NewFolder.cons, indexes |-> NewFolder.indexes,
                      graph |-> NewFolder.graph, ok |-> TRUE]
  BY DEF NewFolder
<1>2. /\ DOMAIN <<>> = {}
      /\ <<>> = [t \in DOMAIN <<>> |-> [c \in DOMAIN <<>>[t] |-> <<>>[t][c]]]
      /\ <<>> = [i \in DOMAIN <<>> |-> <<>>[i]]
  OBVIOUS
<1>3. ReadableFolder(NewFolder)
  BY <1>1, <1>2 DEF ReadableFolder
<1>4. NoSchema.indexes = <<>>
  BY DEF NoSchema
<1>5. StandsFor(NewFolder, NoSchema, schemas)
  BY <1>1, <1>2, <1>3, <1>4, NothingIsASchema DEF StandsFor, Owned
<1> QED BY <1>1, <1>5 DEF Stands

\* A file on the way: what it leaves stands for something, and the rest leads on.
LEMMA LeadsOn ==
  ASSUME NEW schemas, NEW d \in schemas, NEW g \in BOOLEAN, NEW f, NEW files,
         files # <<>>, Leads(f, files, d, g, schemas)
  PROVE  LET h == FoldSection(f, Head(files).up)
         IN  Stands(h, d, g, schemas) /\ Leads(h, Tail(files), d, g, schemas)
<1> DEFINE Well(h) == Stands(h, d, g, schemas)
           End(h) == Done(h, d, g, schemas)
           Fold(h, file) == FoldSection(h, file.up)
<1>1. \A h : End(h) => Well(h)
  BY DoneStands
<1>2. ASSUME NEW a, files = <<a>>, End(Fold(f, a))
      PROVE  Stands(Fold(f, a), d, g, schemas) /\ Leads(Fold(f, a), <<>>, d, g, schemas)
  BY <1>1, <1>2 DEF Leads
<1>3. ASSUME NEW a, NEW b, Well(Fold(f, a)), End(Fold(Fold(f, a), b))
      PROVE  Leads(Fold(f, a), <<b>>, d, g, schemas)
  BY <1>3 DEF Leads
<1>4. ASSUME NEW a, NEW b, NEW c, Well(Fold(f, a)), Well(Fold(Fold(f, a), b)), End(Fold(Fold(Fold(f, a), b), c))
      PROVE  Leads(Fold(f, a), <<b, c>>, d, g, schemas)
  BY <1>4 DEF Leads
<1>5. \A a, b, c : /\ Head(<<a>>) = a /\ Tail(<<a>>) = <<>>
                   /\ Head(<<a, b>>) = a /\ Tail(<<a, b>>) = <<b>>
                   /\ Head(<<a, b, c>>) = a /\ Tail(<<a, b, c>>) = <<b, c>>
  OBVIOUS
<1>6. \/ \E a : files = <<a>> /\ End(Fold(f, a))
      \/ \E a, b : files = <<a, b>> /\ Well(Fold(f, a)) /\ End(Fold(Fold(f, a), b))
      \/ \E a, b, c : /\ files = <<a, b, c>> /\ Well(Fold(f, a)) /\ Well(Fold(Fold(f, a), b))
                      /\ End(Fold(Fold(Fold(f, a), b), c))
  BY DEF Leads
<1> HIDE DEF Well, End
<1>7. CASE \E a : files = <<a>> /\ End(Fold(f, a))
  <2>1. PICK a : files = <<a>> /\ End(Fold(f, a))
    BY <1>7
  <2>2. Head(files) = a /\ Tail(files) = <<>>
    BY <1>5, <2>1
  <2> QED BY <1>2, <2>1, <2>2
<1>8. CASE \E a, b : files = <<a, b>> /\ Well(Fold(f, a)) /\ End(Fold(Fold(f, a), b))
  <2>1. PICK a, b : files = <<a, b>> /\ Well(Fold(f, a)) /\ End(Fold(Fold(f, a), b))
    BY <1>8
  <2>2. Head(files) = a /\ Tail(files) = <<b>>
    BY <1>5, <2>1
  <2> QED BY <1>3, <2>1, <2>2 DEF Well
<1>9. CASE \E a, b, c : /\ files = <<a, b, c>> /\ Well(Fold(f, a)) /\ Well(Fold(Fold(f, a), b))
                        /\ End(Fold(Fold(Fold(f, a), b), c))
  <2>1. PICK a, b, c : /\ files = <<a, b, c>> /\ Well(Fold(f, a)) /\ Well(Fold(Fold(f, a), b))
                       /\ End(Fold(Fold(Fold(f, a), b), c))
    BY <1>9
  <2>2. Head(files) = a /\ Tail(files) = <<b, c>>
    BY <1>5, <2>1
  <2> QED BY <1>4, <2>1, <2>2 DEF Well
<1> QED BY <1>6, <1>7, <1>8, <1>9

LEMMA LeadsNowhere ==
  ASSUME NEW schemas, NEW d, NEW g, NEW f, Leads(f, <<>>, d, g, schemas)
  PROVE  Done(f, d, g, schemas)
<1>1. \A a, b, c : <<>> # <<a>> /\ <<>> # <<a, b>> /\ <<>> # <<a, b, c>>
  OBVIOUS
<1> QED BY <1>1 DEF Leads

LEMMA HistoryInit == Init => HistoryInv
<1> SUFFICES ASSUME Init PROVE HistoryInv
  OBVIOUS
<1>1. /\ family \in DOMAIN Families /\ graph \in BOOLEAN /\ plan = <<>> /\ done = FALSE
      /\ folder = NewFolder /\ desired = NoSchema
  BY GraphIsAFlag DEF Init
<1>2. NoSchema \in Schemas(family)
  BY DEF Schemas
<1>3. Stands(folder, desired, graph, Schemas(family))
  BY <1>1, <1>2, NewFolderStands
<1> QED BY <1>1, <1>2, <1>3 DEF HistoryInv, SettlingInv

LEMMA HistoryStep == HistoryInv /\ [Next]_vars => HistoryInv'
<1> SUFFICES ASSUME HistoryInv, [Next]_vars PROVE HistoryInv'
  OBVIOUS
<1> USE DEF HistoryInv
<1>1. ASSUME NEW d \in Families[family].schemas, Generate(d) PROVE HistoryInv'
  <2> DEFINE files == Plan(Build(folder), d, graph)
  <2>1. /\ family' = family /\ graph' = graph /\ folder' = folder /\ refused' = refused
        /\ desired' = d /\ plan' = files /\ ~refused
        /\ done' = NothingToWrite(files, Build(folder), d)
        /\ Families[family].keeps => UnownedEdges(desired) \subseteq UnownedEdges(d)
    BY <1>1 DEF Generate, Prior
  <2>2. done' => plan' = <<>>
    BY <2>1 DEF NothingToWrite
  <2>3. ASSUME PlainHistory PROVE SettlingInv'
    <3>1. Regular(Schemas(family)) /\ d \in Schemas(family)
      BY <2>3, PlainIsRegular DEF PlainHistory, Schemas
    <3>2. Stands(folder, d, graph, Schemas(family))
      BY <2>1, <2>3 DEF PlainHistory, SettlingInv, Stands
    <3>3. Leads(folder, files, d, graph, Schemas(family))
      BY <3>1, <3>2, PlanLeads
    <3> HIDE DEF files
    <3>4. files = <<>> => Done(folder, d, graph, Schemas(family))
      BY <3>3, LeadsNowhere
    <3>5. Schemas(family)' = Schemas(family)
      BY <2>1 DEF Schemas
    <3> QED BY <2>1, <2>2, <3>1, <3>2, <3>3, <3>4, <3>5 DEF SettlingInv
  <2>4. PlainHistory' = PlainHistory
    BY <2>1 DEF PlainHistory
  <2> QED BY <2>1, <2>2, <2>3, <2>4
<1>2. ASSUME WriteFile PROVE HistoryInv'
  <2> DEFINE h == FoldSection(folder, Head(plan).up)
             ran == Run(catalog, Head(plan).up).ok
  <2>1. /\ family' = family /\ graph' = graph /\ desired' = desired /\ plan # <<>>
        /\ folder' = h /\ refused' = ~ran
        /\ plan' = IF ran THEN Tail(plan) ELSE <<>>
        /\ done' = (ran /\ Tail(plan) = <<>>)
    BY <1>2 DEF WriteFile
  <2>2. refused' \/ done' => plan' = <<>>
    <3> HIDE DEF ran
    <3> QED BY <2>1
  <2>3. ASSUME PlainHistory PROVE SettlingInv'
    <3>1. desired \in Schemas(family) /\ Leads(folder, plan, desired, graph, Schemas(family))
      BY <2>1, <2>3 DEF SettlingInv
    <3>2. Stands(h, desired, graph, Schemas(family)) /\ Leads(h, Tail(plan), desired, graph, Schemas(family))
      BY <2>1, <3>1, LeadsOn
    <3> HIDE DEF h, ran
    <3>3. Tail(plan) = <<>> => Done(h, desired, graph, Schemas(family))
      BY <3>2, LeadsNowhere
    <3>4. Schemas(family)' = Schemas(family)
      BY <2>1 DEF Schemas
    <3> QED BY <2>1, <3>1, <3>2, <3>3, <3>4 DEF SettlingInv
  <2>4. PlainHistory' = PlainHistory
    BY <2>1 DEF PlainHistory
  <2> QED BY <2>1, <2>2, <2>3, <2>4
<1>3. ASSUME Crash PROVE HistoryInv'
  BY <1>3 DEF Crash, PlainHistory, SettlingInv, Schemas
<1>4. ASSUME UNCHANGED vars PROVE HistoryInv'
  BY <1>4 DEF vars, PlainHistory, SettlingInv, Schemas
<1> QED BY <1>1, <1>2, <1>3, <1>4 DEF Next

LEMMA HistoryStands ==
  ASSUME HistoryInv, PlainHistory
  PROVE  \E d0 \in Schemas(family) :
           /\ StandsFor(folder, d0, Schemas(family)) /\ MadeSchema(d0)
           /\ folder.graph \in {None, GraphDDL(d0)}
BY PlainIsRegular DEF HistoryInv, PlainHistory, SettlingInv, Stands, Regular

\* As long as the SDL only makes plain edits and keeps mapping what it maps,
\* whatever gopgql writes it can read back, also from between two files, after
\* a crash and after a file the database refused: no generation makes the next
\* one impossible (fold.go:170, 225).  The invariant says why: the folded
\* directory always stands for some schema the SDL once asked for, table by
\* table and constraint by constraint, and the files still to write lead by
\* such folders to the one wanted.
THEOREM DirectoryReadsBack == Spec => [](PlainHistory => FoldReadsBack)
<1>1. Spec => []HistoryInv
  BY HistoryInit, HistoryStep, PTL DEF Spec
<1>2. HistoryInv => (PlainHistory => FoldReadsBack)
  <2> SUFFICES ASSUME HistoryInv, PlainHistory PROVE FoldReadsBack
    OBVIOUS
  <2>1. PICK d0 \in Schemas(family) : StandsFor(folder, d0, Schemas(family))
    BY HistoryStands
  <2> QED BY <2>1, StandingIsReadable DEF FoldReadsBack, Readable
<1> QED BY <1>1, <1>2, PTL

\* In such a history a generation that ended without an error leaves nothing to
\* do: the next one for the same SDL plans no file and misses no table.
THEOREM DoneIsDone == Spec => [](PlainHistory => NothingLeftToDo)
<1>1. Spec => []HistoryInv
  BY HistoryInit, HistoryStep, PTL DEF Spec
<1>2. HistoryInv => (PlainHistory => NothingLeftToDo)
  <2> SUFFICES ASSUME HistoryInv, PlainHistory, done PROVE NothingLeftToDo
    BY DEF NothingLeftToDo
  <2>1. /\ StandsFor(folder, desired, Schemas(family)) /\ graph \in BOOLEAN
        /\ folder.graph = IF graph THEN GraphDDL(desired) ELSE None
        /\ desired \in Schemas(family)
    BY DEF HistoryInv, SettlingInv, Done
  <2>2. MadeSchema(desired) /\ Fits(desired, desired)
    BY <2>1, PlainIsRegular DEF HistoryInv, PlainHistory, Regular
  <2>3. Plan(Build(folder), desired, graph) = <<>> /\ MissingTables(Build(folder), desired) = {}
    BY <2>1, <2>2, StandingLeavesNothing
  <2> QED BY <2>3 DEF NothingLeftToDo, Prior
<1> QED BY <1>1, <1>2, PTL

\* In such a history what the SDL asks for and what the directory stands for are
\* schemas of one form, which the differ may compare, and nothing is left to
\* write once a generation is done or the database has refused one of its files.
THEOREM HistoryTypeCorrect == Spec => [](PlainHistory => TypeOK)
<1>1. Spec => []HistoryInv
  BY HistoryInit, HistoryStep, PTL DEF Spec
<1>2. HistoryInv => (PlainHistory => TypeOK)
  <2> SUFFICES ASSUME HistoryInv, PlainHistory PROVE TypeOK
    OBVIOUS
  <2>1. PICK d0 \in Schemas(family) : /\ StandsFor(folder, d0, Schemas(family)) /\ MadeSchema(d0)
                                      /\ folder.graph \in {None, GraphDDL(d0)}
    BY HistoryStands
  <2>2. Proper(Build(folder))
    BY <2>1, BuildIsProper
  <2>3. Proper(desired)
    BY PlainIsRegular DEF HistoryInv, PlainHistory, SettlingInv, Regular, MadeSchema
  <2> QED BY <2>2, <2>3 DEF TypeOK, HistoryInv, Prior
<1> QED BY <1>1, <1>2, PTL
==============================================================================
