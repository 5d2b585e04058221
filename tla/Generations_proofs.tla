-------------------------- MODULE Generations_proofs --------------------------
(***************************************************************************)
(* Whatever edits make a directory, no statement of it touches a table of  *)
(* somebody else, as long as such a table, once mapped, stays mapped.      *)
(* Of one generation: its renames never collide, and it writes nothing     *)
(* exactly if there is nothing left to write.                              *)
(***************************************************************************)
EXTENDS Generations, FiniteSetTheorems, WellFoundedInduction, TLAPS

Theirs == DOMAIN Foreign
------------------------------------------------------------------------------
(* The invariant.                                                          *)

TableOps == {"create_table", "drop_table", "add_column", "drop_column", "alter_type", "set_default",
             "add_constraint", "drop_constraint", "rename_table", "rename_column", "create_index",
             "drop_index"}

\* A graph may name their tables, those the desired schema d maps.
Maps(d, g) == g = None \/ Theirs \intersect (DOMAIN g.vertices \union DOMAIN g.edges) \subseteq UnownedEdges(d)

\* A statement about a table of ours.
OfOurs(s) == /\ s.op \in TableOps
             /\ s.table \notin Theirs
             /\ s.op = "rename_table" => s.table # None /\ s.new \notin Theirs

OfGraph(s) == s = DropGraph \/ \E g : s = CreateGraph(g)
Mapped(d, s) == s.op = "create_graph" => Maps(d, s.graph)

List(section) == section \in Seq(Range(section))
AboutOurs(section) == List(section) /\ \A i \in DOMAIN section : OfOurs(section[i])
Spares(section) == List(section) /\ \A i \in DOMAIN section : OfOurs(section[i]) \/ OfGraph(section[i])

\* A file of a generation for d.
SparingFile(d, file) ==
  /\ Spares(file.up) /\ Spares(file.down)
  /\ \A i \in DOMAIN file.up : Mapped(d, file.up[i])

\* An index on a table of ours.
IndexOfOurs(idx) == DOMAIN idx = {"table", "column"} /\ idx.table \notin Theirs

CatalogSpares(c) ==
  /\ DOMAIN c = {"tables", "indexes", "graph"}
  /\ \A t \in Theirs : t \in DOMAIN c.tables /\ c.tables[t] = Foreign[t]
  /\ \A i \in DOMAIN c.indexes : IndexOfOurs(c.indexes[i])

FolderSpares(d, f) ==
  /\ DOMAIN f = {"cols", "cons", "indexes", "graph", "ok"}
  /\ DOMAIN f.cols \intersect Theirs = {}
  /\ \A i \in DOMAIN f.indexes : IndexOfOurs(f.indexes[i])
  /\ Maps(d, f.graph)

SparingInv ==
  /\ CatalogSpares(catalog)
  /\ FolderSpares(desired, folder)
  /\ List(plan) /\ \A i \in DOMAIN plan : SparingFile(desired, plan[i])
  /\ last # None => Spares(last.up) /\ Spares(last.down)
------------------------------------------------------------------------------
(* Lists.                                                                  *)

\* A sequence over any set is one over its own elements.
LEMMA ListsAreLists ==
  ASSUME NEW S, NEW q \in Seq(S)
  PROVE  List(q) /\ \A i \in DOMAIN q : q[i] \in S
<1>1. q \in [1..Len(q) -> Range(q)]
  BY DEF Range
<1>2. Len(q) \in Nat /\ DOMAIN q = 1..Len(q)
  OBVIOUS
<1> QED BY <1>1, <1>2 DEF List

\* Listed(S) holds nothing but elements of S.
LEMMA ListedIsOfTheSet ==
  ASSUME NEW S
  PROVE  Listed(S) \in Seq(S)
<1>1. CASE IsFiniteSet(S)
  <2>1. Cardinality(S) \in Nat /\ ExistsBijection(1..Cardinality(S), S)
    BY <1>1, FS_CardinalityType
  <2>2. \E f \in [1..Cardinality(S) -> S] : IsInjective(f)
    BY <2>1 DEF ExistsBijection, Bijection, Injection, IsInjective
  <2>3. SetToSeq(S) \in [1..Cardinality(S) -> S]
    BY <2>2 DEF SetToSeq
  <2> QED BY <1>1, <2>1, <2>3 DEF Listed
<1>2. CASE ~IsFiniteSet(S)
  BY <1>2 DEF Listed
<1> QED BY <1>1, <1>2

\* Sections put together of sections that spare their tables spare them.
LEMMA NothingSpares == AboutOurs(<<>>)
BY DEF AboutOurs, List, Range

LEMMA OneSpares ==
  ASSUME NEW s, OfOurs(s)
  PROVE  AboutOurs(<<s>>)
BY DEF AboutOurs, List, Range

LEMMA ListedSpares ==
  ASSUME NEW S, \A s \in S : OfOurs(s)
  PROVE  AboutOurs(Listed(S))
<1>1. Listed(S) \in Seq(S)
  BY ListedIsOfTheSet
<1>2. List(Listed(S)) /\ \A i \in DOMAIN Listed(S) : Listed(S)[i] \in S
  BY <1>1, ListsAreLists
<1> QED BY <1>2 DEF AboutOurs

LEMMA JoinedSpares ==
  ASSUME NEW p, NEW q, AboutOurs(p), AboutOurs(q)
  PROVE  AboutOurs(p \o q)
<1> DEFINE S == Range(p) \union Range(q)
<1>1. p \in Seq(S) /\ q \in Seq(S)
  BY DEF AboutOurs, List
<1>2. p \o q \in Seq(S)
  BY <1>1
<1>3. \A s \in S : OfOurs(s)
  BY DEF AboutOurs, Range
<1>4. List(p \o q) /\ \A i \in DOMAIN (p \o q) : (p \o q)[i] \in S
  <2> HIDE DEF S
  <2> QED BY <1>2, ListsAreLists
<1> QED BY <1>3, <1>4 DEF AboutOurs
------------------------------------------------------------------------------
(* Recursion along a section.                                              *)

\* Induction up to n: a set that has 0, and each number whose predecessor it has.
LEMMA UpToInduction ==
  ASSUME NEW n \in Nat, NEW S, 0 \in S, \A i \in 1..n : i-1 \in S => i \in S
  PROVE  \A i \in 0..n : i \in S
<1> DEFINE Out == {i \in 0..n : i \notin S}
           R   == OpToRel(<, Nat)
<1> SUFFICES ASSUME Out # {} PROVE FALSE
  OBVIOUS
<1>1. IsWellFoundedOn(R, Nat)
  BY NatLessThanWellFounded
<1>2. PICK i \in Out : \A j \in Out : ~(<<j, i>> \in R)
  <2>1. Out \subseteq Nat
    OBVIOUS
  <2> HIDE DEF R, Out
  <2> QED BY <1>1, <2>1, WFMin
<1>3. i \in 1..n /\ i-1 \in 0..n /\ i-1 \in Nat /\ i \in Nat
  <2> HIDE DEF R
  <2> QED OBVIOUS
<1>4. i-1 \in Out
  <2> HIDE DEF R
  <2> QED BY <1>3
<1>5. <<i-1, i>> \in R
  BY <1>3 DEF OpToRel
<1> QED BY <1>2, <1>4, <1>5

\* A section is folded statement by statement.
LEMMA FoldingSteps ==
  ASSUME NEW f, NEW section, Len(section) \in Nat
  PROVE  \E after : /\ after[0] = f
                    /\ \A i \in 1..Len(section) : after[i] = Applied(after[i-1], section[i])
                    /\ FoldSection(f, section) = after[Len(section)]
<1> DEFINE n == Len(section)
           Until(a, k) == a = [i \in 0..k |-> IF i = 0 THEN f ELSE Applied(a[i-1], section[i])]
           S == {k \in 0..n : \E a : Until(a, k)}
<1>1. 0 \in S
  <2> DEFINE b == [i \in 0..0 |-> f]
  <2>1. b = [i \in 0..0 |-> IF i = 0 THEN f ELSE Applied(b[i-1], section[i])]
    OBVIOUS
  <2>2. 0 \in 0..n
    OBVIOUS
  <2> QED BY <2>1, <2>2
<1>2. ASSUME NEW k \in 1..n, k-1 \in S PROVE k \in S
  <2> k \in Nat /\ k-1 \in Nat /\ k-1 >= 0 /\ k \in 0..n
    OBVIOUS
  <2>1. PICK a : Until(a, k-1)
    BY <1>2
  <2> DEFINE b == [i \in 0..k |-> IF i = k THEN Applied(a[k-1], section[k]) ELSE a[i]]
  <2>2. \A i \in 0..(k-1) : a[i] = (IF i = 0 THEN f ELSE Applied(a[i-1], section[i]))
    BY <2>1
  <2>3. \A i \in 0..(k-1) : b[i] = a[i]
    OBVIOUS
  <2>4. b[k] = Applied(a[k-1], section[k])
    OBVIOUS
  <2>5. ASSUME NEW i \in 0..k PROVE b[i] = IF i = 0 THEN f ELSE Applied(b[i-1], section[i])
    <3> HIDE DEF b
    <3>1. CASE i = k
      <4>1. k-1 \in 0..(k-1) /\ k # 0
        OBVIOUS
      <4> QED BY <3>1, <4>1, <2>3, <2>4
    <3>2. CASE i # k /\ i = 0
      BY <3>2, <2>2, <2>3
    <3>3. CASE i # k /\ i # 0
      <4>1. i-1 \in 0..(k-1) /\ i \in 0..(k-1)
        BY <3>3
      <4> QED BY <3>3, <4>1, <2>2, <2>3
    <3> QED BY <3>1, <3>2, <3>3
  <2>6. Until(b, k)
    BY <2>5
  <2> QED BY <2>6
<1>3. n \in S
  <2>1. n \in Nat /\ n \in 0..n
    OBVIOUS
  <2> HIDE DEF S
  <2>2. \A i \in 0..n : i \in S
    BY <1>1, <1>2, <2>1, UpToInduction
  <2> QED BY <2>1, <2>2
<1> DEFINE after == CHOOSE a : Until(a, n)
<1>4. \E a : Until(a, n)
  BY <1>3
<1>5. Until(after, n)
  BY <1>4
<1>6. FoldSection(f, section) = after[n]
  BY DEF FoldSection
<1>7. after[0] = f /\ \A i \in 1..n : after[i] = Applied(after[i-1], section[i])
  <2> HIDE DEF after
  <2> QED BY <1>5
<1> QED BY <1>6, <1>7

FoldsOf(folded, f, section) ==
  /\ folded[0] = f
  /\ \A i \in 1..Len(section) : folded[i] = Applied(folded[i-1], section[i])
  /\ FoldSection(f, section) = folded[Len(section)]

LEMMA FoldHasSteps ==
  ASSUME NEW f, NEW section, Len(section) \in Nat
  PROVE  \E folded : FoldsOf(folded, f, section)
<1>1. PICK after : /\ after[0] = f
                   /\ \A i \in 1..Len(section) : after[i] = Applied(after[i-1], section[i])
                   /\ FoldSection(f, section) = after[Len(section)]
  BY FoldingSteps
<1> QED BY <1>1 DEF FoldsOf

\* A section is run statement by statement.
LEMMA RunningSteps ==
  ASSUME NEW c, NEW section, Len(section) \in Nat
  PROVE  \E after : /\ after[0] = [ok |-> TRUE, cat |-> c]
                    /\ \A i \in 1..Len(section) : after[i] = After(c, after[i-1], section[i])
                    /\ Run(c, section) = after[Len(section)]
<1> DEFINE n == Len(section)
           start == [ok |-> TRUE, cat |-> c]
           Until(a, k) == a = [i \in 0..k |-> IF i = 0 THEN start ELSE After(c, a[i-1], section[i])]
           S == {k \in 0..n : \E a : Until(a, k)}
<1> HIDE DEF start
<1>1. 0 \in S
  <2> DEFINE b == [i \in 0..0 |-> start]
  <2>1. b = [i \in 0..0 |-> IF i = 0 THEN start ELSE After(c, b[i-1], section[i])]
    OBVIOUS
  <2>2. 0 \in 0..n
    OBVIOUS
  <2> QED BY <2>1, <2>2
<1>2. ASSUME NEW k \in 1..n, k-1 \in S PROVE k \in S
  <2> k \in Nat /\ k-1 \in Nat /\ k-1 >= 0 /\ k \in 0..n
    OBVIOUS
  <2>1. PICK a : Until(a, k-1)
    BY <1>2
  <2> DEFINE b == [i \in 0..k |-> IF i = k THEN After(c, a[k-1], section[k]) ELSE a[i]]
  <2>2. \A i \in 0..(k-1) : a[i] = (IF i = 0 THEN start ELSE After(c, a[i-1], section[i]))
    BY <2>1
  <2>3. \A i \in 0..(k-1) : b[i] = a[i]
    OBVIOUS
  <2>4. b[k] = After(c, a[k-1], section[k])
    OBVIOUS
  <2>5. ASSUME NEW i \in 0..k PROVE b[i] = IF i = 0 THEN start ELSE After(c, b[i-1], section[i])
    <3> HIDE DEF b
    <3>1. CASE i = k
      <4>1. k-1 \in 0..(k-1) /\ k # 0
        OBVIOUS
      <4> QED BY <3>1, <4>1, <2>3, <2>4
    <3>2. CASE i # k /\ i = 0
      BY <3>2, <2>2, <2>3
    <3>3. CASE i # k /\ i # 0
      <4>1. i-1 \in 0..(k-1) /\ i \in 0..(k-1)
        BY <3>3
      <4> QED BY <3>3, <4>1, <2>2, <2>3
    <3> QED BY <3>1, <3>2, <3>3
  <2>6. Until(b, k)
    BY <2>5
  <2> QED BY <2>6
<1>3. n \in S
  <2>1. n \in Nat /\ n \in 0..n
    OBVIOUS
  <2> HIDE DEF S
  <2>2. \A i \in 0..n : i \in S
    BY <1>1, <1>2, <2>1, UpToInduction
  <2> QED BY <2>1, <2>2
<1> DEFINE after == CHOOSE a : Until(a, n)
<1>4. \E a : Until(a, n)
  BY <1>3
<1>5. Until(after, n)
  BY <1>4
<1>6. Run(c, section) = after[n]
  BY DEF Run, start
<1>7. after[0] = start /\ \A i \in 1..n : after[i] = After(c, after[i-1], section[i])
  <2> HIDE DEF after
  <2> QED BY <1>5
<1> QED BY <1>6, <1>7 DEF start

StepsOf(run, c, section) ==
  /\ run[0] = [ok |-> TRUE, cat |-> c]
  /\ \A i \in 1..Len(section) : run[i] = After(c, run[i-1], section[i])
  /\ Run(c, section) = run[Len(section)]

LEMMA RunHasSteps ==
  ASSUME NEW c, NEW section, Len(section) \in Nat
  PROVE  \E run : StepsOf(run, c, section)
<1>1. PICK after : /\ after[0] = [ok |-> TRUE, cat |-> c]
                   /\ \A i \in 1..Len(section) : after[i] = After(c, after[i-1], section[i])
                   /\ Run(c, section) = after[Len(section)]
  BY RunningSteps
<1> QED BY <1>1 DEF StepsOf

\* Sections joined in a row: the steps of the join.
LEMMA FlatteningSteps ==
  ASSUME NEW sections, Len(sections) \in Nat, DOMAIN sections = 1..Len(sections), Len(sections) > 0
  PROVE  \E flat : /\ flat[1] = sections[1]
                   /\ \A i \in 1..Len(sections) :
                        flat[i] = IF i = 1 THEN sections[i] ELSE flat[i-1] \o sections[i]
                   /\ FlattenSeq(sections) = flat[Len(sections)]
<1> DEFINE n == Len(sections)
           Until(a, k) == a = [i \in 1..k |-> IF i = 1 THEN sections[i] ELSE a[i-1] \o sections[i]]
           S == {k \in 0..n : k > 0 => \E a : Until(a, k)}
<1>1. 0 \in S
  OBVIOUS
<1>2. ASSUME NEW k \in 1..n, k-1 \in S PROVE k \in S
  <2> k \in Nat /\ k-1 \in Nat /\ k-1 >= 0 /\ k \in 0..n /\ k > 0 /\ k \in DOMAIN sections
    OBVIOUS
  <2>1. CASE k = 1
    <3> DEFINE b == [i \in 1..1 |-> sections[1]]
    <3>1. b = [i \in 1..1 |-> IF i = 1 THEN sections[i] ELSE b[i-1] \o sections[i]]
      OBVIOUS
    <3> QED BY <2>1, <3>1
  <2>2. CASE k # 1
    <3>0. k-1 > 0
      BY <2>2
    <3>1. PICK a : Until(a, k-1)
      BY <1>2, <3>0
    <3> DEFINE b == [i \in 1..k |-> IF i = k THEN a[k-1] \o sections[k] ELSE a[i]]
    <3>2. \A i \in 1..(k-1) : a[i] = IF i = 1 THEN sections[i] ELSE a[i-1] \o sections[i]
      BY <3>1
    <3>3. \A i \in 1..(k-1) : b[i] = a[i]
      OBVIOUS
    <3>4. b[k] = a[k-1] \o sections[k]
      OBVIOUS
    <3>5. ASSUME NEW i \in 1..k PROVE b[i] = IF i = 1 THEN sections[i] ELSE b[i-1] \o sections[i]
      <4> HIDE DEF b
      <4>1. CASE i = k
        <5>1. k-1 \in 1..(k-1)
          BY <3>0
        <5> QED BY <4>1, <2>2, <5>1, <3>3, <3>4
      <4>2. CASE i # k /\ i = 1
        BY <4>2, <3>2, <3>3
      <4>3. CASE i # k /\ i # 1
        <5>1. i-1 \in 1..(k-1) /\ i \in 1..(k-1)
          BY <4>3
        <5> QED BY <4>3, <5>1, <3>2, <3>3
      <4> QED BY <4>1, <4>2, <4>3
    <3>6. Until(b, k)
      BY <3>5
    <3> QED BY <3>6
  <2> QED BY <2>1, <2>2
<1>3. n \in S
  <2>1. n \in Nat /\ n \in 0..n
    OBVIOUS
  <2> HIDE DEF S
  <2>2. \A i \in 0..n : i \in S
    BY <1>1, <1>2, <2>1, UpToInduction
  <2> QED BY <2>1, <2>2
<1> DEFINE flat == CHOOSE a : Until(a, n)
<1>4. \E a : Until(a, n)
  <2> HIDE DEF Until
  <2> QED BY <1>3
<1>5. Until(flat, n)
  <2> HIDE DEF Until
  <2> QED BY <1>4
<1>6. FlattenSeq(sections) = flat[n]
  BY DEF FlattenSeq
<1> HIDE DEF flat
<1>7. \A i \in 1..n : flat[i] = IF i = 1 THEN sections[i] ELSE flat[i-1] \o sections[i]
  BY <1>5
<1>8. flat[1] = sections[1]
  BY <1>7
<1> QED BY <1>6, <1>7, <1>8

\* They spare what each of them spares.
LEMMA FlattenedSpares ==
  ASSUME NEW sections, Len(sections) \in Nat, DOMAIN sections = 1..Len(sections),
         sections = <<>> \/ Len(sections) > 0,
         \A i \in DOMAIN sections : AboutOurs(sections[i])
  PROVE  AboutOurs(FlattenSeq(sections))
<1>1. CASE Len(sections) = 0
  BY <1>1, NothingSpares DEF FlattenSeq
<1>2. CASE Len(sections) > 0
  <2>1. PICK flat : /\ flat[1] = sections[1]
                    /\ \A i \in 1..Len(sections) :
                         flat[i] = IF i = 1 THEN sections[i] ELSE flat[i-1] \o sections[i]
                    /\ FlattenSeq(sections) = flat[Len(sections)]
    BY <1>2, FlatteningSteps
  <2> DEFINE n == Len(sections)
             T == {k \in 0..n : k > 0 => AboutOurs(flat[k])}
  <2>2. 0 \in T
    OBVIOUS
  <2>3. ASSUME NEW k \in 1..n, k-1 \in T PROVE k \in T
    <3>1. flat[k] = IF k = 1 THEN sections[k] ELSE flat[k-1] \o sections[k]
      BY <2>1
    <3>2. AboutOurs(sections[k]) /\ k \in 0..n
      OBVIOUS
    <3>3. k # 1 => AboutOurs(flat[k-1])
      BY <2>3
    <3> QED BY <3>1, <3>2, <3>3, JoinedSpares
  <2>4. n \in T
    <3>1. n \in Nat /\ n \in 0..n
      OBVIOUS
    <3> HIDE DEF T
    <3>2. \A k \in 0..n : k \in T
      BY <2>2, <2>3, <3>1, UpToInduction
    <3> QED BY <3>1, <3>2
  <2> QED BY <1>2, <2>1, <2>4
<1> QED BY <1>1, <1>2
------------------------------------------------------------------------------
(* What a statement does.                                                  *)

\* Folding a statement keeps their tables out of the folder.
LEMMA AppliedSpares ==
  ASSUME NEW d, NEW f, NEW s, FolderSpares(d, f), OfOurs(s) \/ OfGraph(s), Mapped(d, s)
  PROVE  FolderSpares(d, Applied(f, s))
<1> SUFFICES ASSUME f.ok PROVE FolderSpares(d, Apply(f, s))
  BY DEF Applied
<1>1. CASE OfGraph(s)
  <2>1. CASE s = DropGraph
    BY <2>1 DEF Apply, DropGraph, FolderSpares, Maps
  <2>2. CASE \E g : s = CreateGraph(g)
    <3>1. PICK g : s = CreateGraph(g)
      BY <2>2
    <3>2. s.op = "create_graph" /\ s.graph = g
      BY <3>1 DEF CreateGraph
    <3>3. Apply(f, s) = [f EXCEPT !.graph = s.graph]
      BY <3>2 DEF Apply
    <3>4. Maps(d, s.graph)
      BY <3>2 DEF Mapped
    <3> QED BY <3>3, <3>4 DEF FolderSpares
  <2> QED BY <1>1, <2>1, <2>2 DEF OfGraph
<1>2. CASE OfOurs(s)
  <2> s.table \notin Theirs
    BY <1>2 DEF OfOurs
  <2>1. CASE s.op = "create_table"
    <3>1. Apply(f, s) = ApplyCreateTable(f, s)
      BY <2>1 DEF Apply
    <3> QED BY <3>1 DEF ApplyCreateTable, With, FolderSpares
  <2>2. CASE s.op = "drop_table"
    <3>1. Apply(f, s) = ApplyDropTable(f, s.table)
      BY <2>2 DEF Apply
    <3> QED BY <3>1 DEF ApplyDropTable, Without, Restrict, FolderSpares
  <2>0. ASSUME NEW cols PROVE FolderSpares(d, WithColumnsOf(f, s.table, cols))
    <3>1. CASE s.table \in DOMAIN f.cols
      BY <3>1 DEF WithColumnsOf, FolderSpares
    <3>2. CASE s.table \notin DOMAIN f.cols
      BY <3>2 DEF WithColumnsOf, With, FolderSpares
    <3> QED BY <3>1, <3>2
  <2>3. CASE s.op = "add_column"
    <3>1. \E cols : Apply(f, s) = WithColumnsOf(f, s.table, cols)
      BY <2>3 DEF Apply, FoldAddColumn
    <3> QED BY <3>1, <2>0
  <2>4. CASE s.op = "drop_column"
    <3>1. \E cols : Apply(f, s) = WithColumnsOf(f, s.table, cols)
      BY <2>4 DEF Apply, FoldDropColumn
    <3> QED BY <3>1, <2>0
  <2>5. CASE s.op = "alter_type"
    <3>1. Apply(f, s) = Failed(f)
      BY <2>5 DEF Apply
    <3> QED BY <3>1 DEF FolderSpares, Failed
  <2>6. CASE s.op = "set_default"
    <3>1. Apply(f, s) = FoldSetDefault(f, s.table, s.column, s.default)
      BY <2>6 DEF Apply
    <3> QED BY <3>1 DEF FolderSpares, Failed, FoldSetDefault
  <2>7. ASSUME NEW con, NEW present PROVE FolderSpares(d, ApplyConstraint(f, s.table, con, present))
    <3>1. \/ ApplyConstraint(f, s.table, con, present) = Failed(f)
          \/ ApplyConstraint(f, s.table, con, present) = f
          \/ \E v : ApplyConstraint(f, s.table, con, present) = [f EXCEPT !.cols[s.table][con.name.column].unique = v]
          \/ \E v : ApplyConstraint(f, s.table, con, present) = [f EXCEPT !.cons[s.table] = v]
      BY Zenon DEF ApplyConstraint
    <3> QED BY <3>1, Zenon DEF FolderSpares, Failed
  <2>8. CASE s.op = "add_constraint"
    <3>1. Apply(f, s) = ApplyConstraint(f, s.table, s.con, TRUE)
      BY <2>8 DEF Apply
    <3> QED BY <3>1, <2>7
  <2>9. CASE s.op = "drop_constraint"
    <3>1. Apply(f, s) = ApplyConstraint(f, s.table, [name |-> s.name], FALSE)
      BY <2>9 DEF Apply
    <3> QED BY <3>1, <2>7
  <2>10. CASE s.op = "rename_table"
    <3>1. Apply(f, s) = FoldRenameTable(f, s.table, s.new)
      BY <2>10 DEF Apply
    <3>2. s.new \notin Theirs
      BY <1>2, <2>10 DEF OfOurs
    <3>3. CASE Apply(f, s) = Failed(f)
      BY <3>3 DEF FolderSpares, Failed
    <3>4. CASE Apply(f, s) # Failed(f)
      <4> DEFINE g == FoldRenameTable(f, s.table, s.new)
      <4>1. /\ DOMAIN g = DOMAIN f /\ g.graph = f.graph
            /\ DOMAIN g.cols = (DOMAIN f.cols \ {s.table}) \union {s.new}
        BY <3>1, <3>4 DEF FoldRenameTable, FolderSpares, Rekeyed
      <4>2. g.indexes = Retabled(f.indexes, s.table, s.new)
        BY <3>1, <3>4 DEF FoldRenameTable, FolderSpares
      <4> HIDE DEF g
      <4>3. ASSUME NEW i \in DOMAIN g.indexes PROVE IndexOfOurs(g.indexes[i])
        BY <3>2, <4>2 DEF FolderSpares, IndexOfOurs, Sub, Retabled
      <4>4. Apply(f, s) = g
        BY <3>1 DEF g
      <4> QED BY <3>2, <4>1, <4>3, <4>4 DEF FolderSpares
    <3> QED BY <3>3, <3>4
  <2>11. CASE s.op = "rename_column"
    <3>1. Apply(f, s) = FoldRenameColumn(f, s.table, s.column, s.new)
      BY <2>11 DEF Apply
    <3>2. CASE Apply(f, s) = Failed(f)
      BY <3>2 DEF FolderSpares, Failed
    <3>3. CASE Apply(f, s) # Failed(f)
      <4> DEFINE g == FoldRenameColumn(f, s.table, s.column, s.new)
      <4>1. /\ DOMAIN g = DOMAIN f /\ DOMAIN g.cols = DOMAIN f.cols /\ g.graph = f.graph
            /\ g.indexes = Recolumned(f.indexes, s.table, s.column, s.new)
        BY <3>1, <3>3, Zenon DEF FoldRenameColumn, FolderSpares
      <4> HIDE DEF g
      <4>2. ASSUME NEW i \in DOMAIN g.indexes PROVE IndexOfOurs(g.indexes[i])
        BY <4>1 DEF FolderSpares, IndexOfOurs, Recolumned
      <4>3. Apply(f, s) = g
        BY <3>1 DEF g
      <4> QED BY <4>1, <4>2, <4>3, Zenon DEF FolderSpares
    <3> QED BY <3>2, <3>3
  <2>12. CASE s.op = "create_index"
    <3>1. Apply(f, s) = [f EXCEPT !.indexes = With(@, s.index, [table |-> s.table, column |-> s.column])]
      BY <2>12 DEF Apply
    <3> QED BY <3>1 DEF FolderSpares, With, IndexOfOurs
  <2>13. CASE s.op = "drop_index"
    <3>1. Apply(f, s) = [f EXCEPT !.indexes = Without(@, {s.index})]
      BY <2>13 DEF Apply
    <3> QED BY <3>1 DEF FolderSpares, Without, Restrict
  <2> QED BY <1>2, <2>1, <2>2, <2>3, <2>4, <2>5, <2>6, <2>8, <2>9, <2>10, <2>11, <2>12, <2>13
          DEF OfOurs, TableOps
<1> QED BY <1>1, <1>2

\* So does folding a section.
LEMMA FoldingSpares ==
  ASSUME NEW d, NEW f, NEW section, FolderSpares(d, f), Spares(section),
         \A i \in DOMAIN section : Mapped(d, section[i])
  PROVE  FolderSpares(d, FoldSection(f, section))
<1>1. Len(section) \in Nat /\ DOMAIN section = 1..Len(section)
  BY DEF Spares, List
<1>s2. PICK after : FoldsOf(after, f, section)
  BY <1>1, FoldHasSteps
<1>2. /\ after[0] = f
      /\ \A i \in 1..Len(section) : after[i] = Applied(after[i-1], section[i])
      /\ FoldSection(f, section) = after[Len(section)]
  BY <1>s2 DEF FoldsOf
<1> DEFINE n == Len(section)
           S == {i \in 0..n : FolderSpares(d, after[i])}
<1>0. /\ n \in Nat /\ DOMAIN section = 1..n
      /\ after[0] = f
      /\ \A i \in 1..n : after[i] = Applied(after[i-1], section[i])
      /\ FoldSection(f, section) = after[n]
  BY <1>1, <1>2, Zenon
<1> HIDE DEF n
<1>3. 0 \in S
  BY <1>0
<1>4. ASSUME NEW i \in 1..n, i-1 \in S PROVE i \in S
  <2>1. i \in 0..n /\ i \in DOMAIN section
    BY <1>0
  <2>2. FolderSpares(d, after[i-1]) /\ after[i] = Applied(after[i-1], section[i])
    BY <1>0, <1>4
  <2>3. OfOurs(section[i]) \/ OfGraph(section[i])
    BY <2>1 DEF Spares
  <2>4. FolderSpares(d, after[i])
    BY <2>1, <2>2, <2>3, AppliedSpares
  <2> QED BY <2>1, <2>4
<1>5. n \in 0..n
  BY <1>0
<1> HIDE DEF S
<1>6. n \in S
  BY <1>0, <1>3, <1>4, <1>5, UpToInduction
<1> QED BY <1>0, <1>6 DEF S

\* A table of theirs, which has no reference to old, is the same when old has
\* become new.
LEMMA RepointingSpares ==
  ASSUME NEW t \in Theirs, NEW old, NEW new, old \notin Theirs, old # None
  PROVE  Repointed(Foreign[t], old, new) = Foreign[t]
<1> DEFINE cols == Foreign[t].cols
<1>1. /\ Foreign[t] = [cols |-> [c \in DOMAIN cols |-> TableColumn(cols[c])],
                       cons |-> Foreign[t].cons, key |-> Foreign[t].key]
      /\ \A c \in DOMAIN cols : cols[c].ref \in {None} \union Theirs
  BY ForeignStandsAlone DEF Theirs
<1>2. cols = [c \in DOMAIN cols |-> TableColumn(cols[c])]
  BY <1>1
<1>3. ASSUME NEW c \in DOMAIN cols PROVE [cols[c] EXCEPT !.ref = Sub(@, old, new)] = cols[c]
  <2>1. cols[c] = TableColumn(cols[c]) /\ cols[c].ref # old
    BY <1>1, <1>2
  <2> HIDE DEF cols
  <2>2. PICK type, primary, default, ref :
          cols[c] = [type |-> type, primary |-> primary, default |-> default, ref |-> ref]
    BY <2>1 DEF TableColumn
  <2> QED BY <2>1, <2>2 DEF Sub
<1>4. [c \in DOMAIN cols |-> [cols[c] EXCEPT !.ref = Sub(@, old, new)]] = cols
  <2> HIDE DEF cols
  <2> QED BY <1>2, <1>3
<1>5. Repointed(Foreign[t], old, new) = [Foreign[t] EXCEPT !.cols = cols]
  BY <1>4 DEF Repointed
<1>6. PICK a, b, k : Foreign[t] = [cols |-> a, cons |-> b, key |-> k]
  BY <1>1
<1> QED BY <1>5, <1>6

\* A statement about tables of ours leaves theirs as they are: an ALTER TABLE ...
\* RENAME follows references to the table, and theirs has none to ours.
LEMMA EffectSpares ==
  ASSUME NEW c, NEW s, CatalogSpares(c), OfOurs(s) \/ OfGraph(s)
  PROVE  CatalogSpares(Effect(c, s))
<1>1. CASE OfGraph(s)
  <2>1. CASE s = DropGraph
    BY <2>1 DEF Effect, DropGraph, CatalogSpares
  <2>2. CASE \E g : s = CreateGraph(g)
    <3>1. s.op = "create_graph"
      BY <2>2 DEF CreateGraph
    <3>2. Effect(c, s) = [c EXCEPT !.graph = s.graph]
      BY <3>1 DEF Effect
    <3> QED BY <3>2 DEF CatalogSpares
  <2> QED BY <1>1, <2>1, <2>2 DEF OfGraph
<1>2. CASE OfOurs(s)
  <2> s.table \notin Theirs
    BY <1>2 DEF OfOurs
  <2> DEFINE e == Effect(c, s)
  <2>1. ASSUME NEW v, e.tables = [c.tables EXCEPT ![s.table] = v] \/ e.tables = With(c.tables, s.table, v),
               DOMAIN e = DOMAIN c,
               \A i \in DOMAIN e.indexes : IndexOfOurs(e.indexes[i])
        PROVE  CatalogSpares(e)
    <3> HIDE DEF e
    <3> QED BY <2>1 DEF CatalogSpares, With
  <2>2. ASSUME s.op = "create_table" PROVE CatalogSpares(e)
    <3>1. \E v : e = [c EXCEPT !.tables = With(@, s.table, v)]
      BY <2>2 DEF Effect
    <3> HIDE DEF e
    <3> QED BY <2>1, <3>1 DEF CatalogSpares
  <2>3. ASSUME s.op = "drop_table" PROVE CatalogSpares(e)
    <3>1. e = [c EXCEPT !.tables = Without(@, {s.table}),
                        !.indexes = Without(@, {i \in DOMAIN @ : @[i].table = s.table})]
      BY <2>3 DEF Effect
    <3> HIDE DEF e
    <3> QED BY <3>1 DEF CatalogSpares, Without, Restrict
  <2>4. ASSUME s.op \in {"add_column", "alter_type", "set_default", "add_constraint", "drop_constraint"} PROVE CatalogSpares(e)
    <3>1. ASSUME s.op = "add_column"
          PROVE  /\ e.tables = [c.tables EXCEPT ![s.table] = e.tables[s.table]]
                 /\ e.indexes = c.indexes /\ DOMAIN e = DOMAIN c
      <4> DEFINE more == With(c.tables[s.table].cols, s.column, TableColumn(s.def))
      <4>1. PICK cons : e = [c EXCEPT !.tables[s.table].cols = more, !.tables[s.table].cons = cons]
        BY <3>1, Zenon DEF Effect
      <4> HIDE DEF e, more
      <4> QED BY <4>1 DEF CatalogSpares
    <3>2. ASSUME s.op # "add_column"
          PROVE  /\ e.tables = [c.tables EXCEPT ![s.table] = e.tables[s.table]]
                 /\ e.indexes = c.indexes /\ DOMAIN e = DOMAIN c
      BY <2>4, <3>2, Zenon DEF Effect, CatalogSpares
    <3> HIDE DEF e
    <3> QED BY <2>1, <3>1, <3>2 DEF CatalogSpares
  <2>5. ASSUME s.op = "drop_column" PROVE CatalogSpares(e)
    <3> DEFINE cols == Without(c.tables[s.table].cols, {s.column})
               cons == Without(c.tables[s.table].cons,
                         {n \in DOMAIN c.tables[s.table].cons : s.column \in Over(c.tables[s.table].cons[n])})
               kept == Without(c.indexes, {i \in DOMAIN c.indexes : /\ c.indexes[i].table = s.table
                                                                   /\ c.indexes[i].column = s.column})
    <3>1. e = [c EXCEPT !.tables[s.table].cols = cols, !.tables[s.table].cons = cons, !.indexes = kept]
      BY <2>5 DEF Effect, CatalogSpares
    <3>2. \A i \in DOMAIN kept : IndexOfOurs(kept[i])
      BY DEF CatalogSpares, Without, Restrict
    <3> HIDE DEF e, cols, cons, kept
    <3>3. /\ e.tables = [c.tables EXCEPT ![s.table] = e.tables[s.table]]
          /\ e.indexes = kept /\ DOMAIN e = DOMAIN c
      BY <3>1 DEF CatalogSpares
    <3> QED BY <2>1, <3>2, <3>3 DEF CatalogSpares
  <2>6. ASSUME s.op = "rename_table" PROVE CatalogSpares(e)
    <3>1. /\ e.tables = TablesRenamed(Rekeyed(c.tables, s.table, s.new), s.table, s.new)
          /\ e.indexes = Retabled(c.indexes, s.table, s.new)
          /\ DOMAIN e = DOMAIN c
      BY <2>6 DEF Effect, CatalogSpares
    <3>2. s.table # None /\ s.new \notin Theirs
      BY <1>2, <2>6 DEF OfOurs
    <3>3. ASSUME NEW t \in Theirs PROVE t \in DOMAIN e.tables /\ e.tables[t] = Foreign[t]
      <4>1. t # s.table /\ t # s.new /\ t \in DOMAIN c.tables /\ c.tables[t] = Foreign[t]
        BY <3>2 DEF CatalogSpares
      <4>2. t \in DOMAIN e.tables /\ e.tables[t] = Repointed(Foreign[t], s.table, s.new)
        <5> HIDE DEF e
        <5> QED BY <3>1, <4>1 DEF TablesRenamed, Rekeyed
      <4> HIDE DEF e
      <4> QED BY <4>2, <3>2, RepointingSpares
    <3>4. ASSUME NEW i \in DOMAIN e.indexes PROVE IndexOfOurs(e.indexes[i])
      <4> HIDE DEF e
      <4> QED BY <3>1, <3>2 DEF CatalogSpares, IndexOfOurs, Retabled, Sub
    <3> HIDE DEF e
    <3> QED BY <3>1, <3>3, <3>4 DEF CatalogSpares
  <2>7. ASSUME s.op = "rename_column" PROVE CatalogSpares(e)
    <3>1. /\ e.tables = [c.tables EXCEPT ![s.table] = e.tables[s.table]]
          /\ e.indexes = Recolumned(c.indexes, s.table, s.column, s.new)
          /\ DOMAIN e = DOMAIN c
      BY <2>7 DEF Effect, CatalogSpares
    <3> HIDE DEF e
    <3>2. ASSUME NEW i \in DOMAIN e.indexes PROVE IndexOfOurs(e.indexes[i])
      BY <3>1 DEF CatalogSpares, IndexOfOurs, Recolumned
    <3> QED BY <2>1, <3>1, <3>2
  <2>8. ASSUME s.op = "create_index" PROVE CatalogSpares(e)
    <3>1. e = [c EXCEPT !.indexes = With(@, s.index, [table |-> s.table, column |-> s.column])]
      BY <2>8 DEF Effect
    <3> HIDE DEF e
    <3> QED BY <3>1 DEF CatalogSpares, With, IndexOfOurs
  <2>9. ASSUME s.op = "drop_index" PROVE CatalogSpares(e)
    <3>1. e = [c EXCEPT !.indexes = Without(@, {s.index})]
      BY <2>9 DEF Effect
    <3> HIDE DEF e
    <3> QED BY <3>1 DEF CatalogSpares, Without, Restrict
  <2> HIDE DEF e
  <2>10. CatalogSpares(e)
    BY <1>2, <2>2, <2>3, <2>4, <2>5, <2>6, <2>7, <2>8, <2>9 DEF OfOurs, TableOps
  <2> QED BY <2>10 DEF e
<1> QED BY <1>1, <1>2

\* A section about tables of ours leaves theirs as they are, run or rolled back.
LEMMA RunningSpares ==
  ASSUME NEW c, NEW section, CatalogSpares(c), Spares(section)
  PROVE  CatalogSpares(Run(c, section).cat)
<1>1. Len(section) \in Nat /\ DOMAIN section = 1..Len(section)
  BY DEF Spares, List
<1>s2. PICK after : StepsOf(after, c, section)
  BY <1>1, RunHasSteps
<1>2. /\ after[0] = [ok |-> TRUE, cat |-> c]
      /\ \A i \in 1..Len(section) : after[i] = After(c, after[i-1], section[i])
      /\ Run(c, section) = after[Len(section)]
  BY <1>s2 DEF StepsOf
<1> DEFINE n == Len(section)
           S == {i \in 0..n : CatalogSpares(after[i].cat)}
<1>0. /\ n \in Nat /\ DOMAIN section = 1..n
      /\ after[0] = [ok |-> TRUE, cat |-> c]
      /\ \A i \in 1..n : after[i] = After(c, after[i-1], section[i])
      /\ Run(c, section) = after[n]
  BY <1>1, <1>2, Zenon
<1> HIDE DEF n
<1>3. 0 \in S
  BY <1>0
<1>4. ASSUME NEW i \in 1..n, i-1 \in S PROVE i \in S
  <2>1. i \in 0..n /\ i \in DOMAIN section
    BY <1>0
  <2>2. CatalogSpares(after[i-1].cat) /\ after[i] = After(c, after[i-1], section[i])
    BY <1>0, <1>4
  <2>3. OfOurs(section[i]) \/ OfGraph(section[i])
    BY <2>1 DEF Spares
  <2>4. CatalogSpares(Effect(after[i-1].cat, section[i]))
    BY <2>2, <2>3, EffectSpares
  <2>5. after[i].cat = Effect(after[i-1].cat, section[i]) \/ after[i].cat = c
    BY <2>2 DEF After
  <2>6. CatalogSpares(after[i].cat)
    BY <2>4, <2>5
  <2> QED BY <2>1, <2>6
<1>5. n \in 0..n
  BY <1>0
<1> HIDE DEF S
<1>6. n \in S
  BY <1>0, <1>3, <1>4, <1>5, UpToInduction
<1> QED BY <1>0, <1>6 DEF S
------------------------------------------------------------------------------
(* What a generation says.                                                 *)

\* A schema whose tables are all ours, and its indexes on them; of one that was
\* folded each index is a record.
Ours(m) ==
  /\ DOMAIN m = DOMAIN NoSchema
  /\ (DOMAIN m.vertices \union DOMAIN m.edges) \intersect Theirs = {}
  /\ \A i \in DOMAIN m.indexes : m.indexes[i].table \notin Theirs

Folded(m) == Ours(m) /\ \A i \in DOMAIN m.indexes : IndexOfOurs(m.indexes[i])

\* A table of theirs that is not owned as an edge is not owned at all.
LEMMA TheirsAreUnowned ==
  ASSUME NEW i \in DOMAIN Families, NEW d \in Families[i].schemas
  PROVE  Theirs \intersect UnownedEdges(d) \subseteq UnownedTables(d)
BY ForeignIsMapped DEF Theirs, UnownedEdges, UnownedTables, Unmanaged

\* What is left of a schema the SDL describes.
LEMMA DesiredIsOurs ==
  ASSUME NEW i \in DOMAIN Families, NEW d \in Families[i].schemas
  PROVE  Ours(WithoutUnmanaged(d, d))
<1>1. Theirs \intersect (DOMAIN d.vertices \union DOMAIN d.edges) \subseteq UnownedEdges(d)
  BY ForeignIsMapped DEF Theirs, UnownedEdges, Unmanaged
<1>2. \A x \in DOMAIN d.indexes : d.indexes[x].table \in Theirs => d.indexes[x].table \in UnownedEdges(d)
  BY <1>1, ForeignIsMapped DEF Theirs
<1>3. DOMAIN d = {"named", "vertices", "edges", "indexes"}
  BY SchemasAreSchemas DEF NoSchema
<1> QED BY <1>1, <1>2, <1>3, TheirsAreUnowned DEF Ours, WithoutUnmanaged, StripTables, Without, Restrict, NoSchema

\* What is left of the prior state, as long as what a folded graph maps is still
\* mapped.
LEMMA PriorIsOurs ==
  ASSUME NEW i \in DOMAIN Families, NEW d \in Families[i].schemas,
         NEW e, NEW f, FolderSpares(e, f), UnownedEdges(e) \subseteq UnownedEdges(d)
  PROVE  Folded(WithoutUnmanaged(Build(f), d))
<1> DEFINE p == Build(f)
<1>1. /\ DOMAIN p = {"named", "vertices", "edges", "indexes"}
      /\ p.indexes = f.indexes
      /\ \/ DOMAIN p.vertices = DOMAIN f.cols /\ DOMAIN p.edges = {}
         \/ /\ f.graph # None
            /\ DOMAIN p.vertices = DOMAIN f.graph.vertices /\ DOMAIN p.edges = DOMAIN f.graph.edges
  BY DEF Build, BuildTablesOnly
<1> HIDE DEF p
<1>2. Theirs \intersect (DOMAIN p.vertices \union DOMAIN p.edges) \subseteq UnownedEdges(d)
  BY <1>1 DEF FolderSpares, Maps
<1>3. \A x \in DOMAIN p.indexes : IndexOfOurs(p.indexes[x])
  BY <1>1 DEF FolderSpares
<1> DEFINE q == StripTables(p, UnownedTables(d), UnownedEdges(d))
<1>4. /\ DOMAIN q = DOMAIN p
      /\ DOMAIN q.vertices = DOMAIN p.vertices \ UnownedTables(d)
      /\ DOMAIN q.edges \subseteq DOMAIN p.edges \ UnownedEdges(d)
      /\ \A x \in DOMAIN q.indexes : IndexOfOurs(q.indexes[x])
  BY <1>1, <1>3 DEF StripTables, Without, Restrict
<1> HIDE DEF q
<1>5. Folded(q)
  BY <1>1, <1>2, <1>4, TheirsAreUnowned DEF Folded, Ours, IndexOfOurs, NoSchema
<1> QED BY <1>5 DEF WithoutUnmanaged, p, q

LEMMA ClassifiedIsOurs ==
  ASSUME NEW p, NEW like, Folded(p), Ours(like)
  PROVE  Folded(ClassifyLike(p, like))
<1>1. CASE DOMAIN p.edges # {}
  BY <1>1 DEF ClassifyLike
<1>2. CASE DOMAIN p.edges = {}
  <2> DEFINE q == ClassifyLike(p, like)
  <2>1. /\ DOMAIN q = DOMAIN p /\ q.indexes = p.indexes
        /\ DOMAIN q.vertices \union DOMAIN q.edges \subseteq DOMAIN p.vertices
    BY <1>2 DEF ClassifyLike, Without, Restrict, Folded, Ours, NoSchema
  <2> HIDE DEF q
  <2>2. Folded(q)
    BY <2>1 DEF Folded, Ours
  <2> QED BY <2>2 DEF q
<1> QED BY <1>1, <1>2

\* None is no table of the schema, and its hints are lists.
Hinting(m) ==
  /\ None \notin DOMAIN m.vertices
  /\ \A t \in DOMAIN m.vertices : DOMAIN m.vertices[t].was \subseteq Nat

LEMMA DesiredHints ==
  ASSUME NEW i \in DOMAIN Families, NEW d \in Families[i].schemas
  PROVE  Hinting(WithoutUnmanaged(d, d))
<1>1. /\ None \notin DOMAIN d.vertices
      /\ \A t \in DOMAIN d.vertices : DOMAIN d.vertices[t].was \subseteq Nat
  BY SchemasAreSchemas
<1>2. DOMAIN d = {"named", "vertices", "edges", "indexes"}
  BY SchemasAreSchemas DEF NoSchema
<1> QED BY <1>1, <1>2 DEF Hinting, WithoutUnmanaged, StripTables, Without, Restrict

LEMMA LeastIsOne ==
  ASSUME NEW S, S \subseteq Nat, S # {}
  PROVE  Min(S) \in S
<1> DEFINE R == OpToRel(<, Nat)
<1>1. IsWellFoundedOn(R, Nat)
  BY NatLessThanWellFounded
<1>2. PICK i \in S : \A j \in S : ~(<<j, i>> \in R)
  <2> HIDE DEF R
  <2> QED BY <1>1, WFMin
<1>3. ASSUME NEW j \in S PROVE i =< j
  <2>1. i \in Nat /\ j \in Nat
    OBVIOUS
  <2>2. ~(<<j, i>> \in R)
    BY <1>2
  <2>3. ~(j < i)
    BY <2>1, <2>2 DEF OpToRel
  <2> QED BY <2>1, <2>3
<1> QED BY <1>3 DEF Min

\* A table's prior name is one of the prior schema's, or none.
LEMMA PriorTableIsPrior ==
  ASSUME NEW from, NEW to, Hinting(to), NEW t \in DOMAIN to.vertices
  PROVE  PriorTable(from, to, t) \in DOMAIN from.vertices \union {None}
<1> DEFINE was == to.vertices[t].was
           fit == {i \in DOMAIN was : was[i] # t /\ was[i] \in DOMAIN from.vertices
                                      /\ was[i] \notin DOMAIN to.vertices}
<1>1. fit # {} => Min(fit) \in fit
  <2>1. fit \subseteq Nat
    BY DEF Hinting
  <2> HIDE DEF fit
  <2> QED BY <2>1, LeastIsOne
<1>2. \/ PriorTable(from, to, t) = t /\ t \in DOMAIN from.vertices
      \/ PriorTable(from, to, t) = IF fit = {} THEN None ELSE was[Min(fit)]
  BY DEF PriorTable, FirstOf
<1>3. fit # {} => was[Min(fit)] \in DOMAIN from.vertices
  BY <1>1
<1> HIDE DEF fit, was
<1> QED BY <1>2, <1>3

\* A plan that renames tables of ours to names of ours.
PlansForOurs(renames) ==
  /\ \A r \in renames.tables : r.from \notin Theirs /\ r.from # None /\ r.to \notin Theirs /\ r.to # None
  /\ \A r \in renames.columns : r.table \notin Theirs

LEMMA RenamesAreOurs ==
  ASSUME NEW from, NEW to, Ours(from), Ours(to), Hinting(to)
  PROVE  PlansForOurs(PlanRenames(from, to))
<1> DEFINE renames == PlanRenames(from, to)
<1>1. ASSUME NEW r \in renames.tables
      PROVE  r.from \in DOMAIN from.vertices /\ r.from # None /\ r.to \in DOMAIN to.vertices
  <2>1. PICK t \in DOMAIN to.vertices :
          r = [from |-> PriorTable(from, to, t), to |-> t] /\ PriorTable(from, to, t) # None
    BY <1>1 DEF PlanRenames
  <2> QED BY <2>1, PriorTableIsPrior
<1>2. ASSUME NEW r \in renames.columns PROVE r.table \in DOMAIN to.vertices
  <2>1. \A r1 \in renames.columns : \E t \in DOMAIN to.vertices : \E c, w : r1 = [table |-> t, from |-> w, to |-> c]
    BY DEF PlanRenames
  <2> HIDE DEF renames
  <2> QED BY <1>2, <2>1
<1> HIDE DEF renames
<1>3. PlansForOurs(renames)
  BY <1>1, <1>2 DEF Ours, PlansForOurs, Hinting
<1> QED BY <1>3 DEF renames

LEMMA NewTableIsOurs ==
  ASSUME NEW renames, PlansForOurs(renames), NEW t, t \notin Theirs
  PROVE  NewTable(renames, t) \notin Theirs
BY DEF NewTable, PlansForOurs

\* The prior schema under its new names, and without its stale constraints.
LEMMA MovedIsOurs ==
  ASSUME NEW m, Folded(m), NEW renames, PlansForOurs(renames)
  PROVE  Folded(Moved(m, renames))
<1> DEFINE q == Moved(m, renames)
<1>1. /\ DOMAIN q = DOMAIN m
      /\ DOMAIN q.vertices = {NewTable(renames, t) : t \in DOMAIN m.vertices}
      /\ DOMAIN q.edges = DOMAIN m.edges
      /\ q.indexes = [i \in DOMAIN m.indexes |-> MovedIndex(renames, m.indexes[i])]
  BY DEF Moved, Folded, Ours, NoSchema
<1>2. \A t \in DOMAIN q.vertices : t \notin Theirs
  BY <1>1, NewTableIsOurs DEF Folded, Ours
<1>3. ASSUME NEW i \in DOMAIN m.indexes PROVE IndexOfOurs(MovedIndex(renames, m.indexes[i]))
  <2> DEFINE idx == m.indexes[i]
  <2>1. IndexOfOurs(idx)
    BY DEF Folded
  <2> HIDE DEF idx
  <2>2. IndexOfOurs(MovedIndex(renames, idx))
    BY <2>1, NewTableIsOurs DEF MovedIndex, IndexOfOurs
  <2> QED BY <2>2 DEF idx
<1> HIDE DEF q
<1>4. Folded(q)
  BY <1>1, <1>2, <1>3, Zenon DEF Folded, Ours, IndexOfOurs
<1> QED BY <1>4 DEF q

LEMMA WithoutStaleIsOurs ==
  ASSUME NEW m, Ours(m), NEW renames
  PROVE  Ours(WithoutStale(m, renames))
BY Zenon DEF WithoutStale, Ours, NoSchema

\* A constraint on a table of ours.
ConstraintOfOurs(k) == k.table \notin Theirs

LEMMA StaleIsOurs ==
  ASSUME NEW m, Ours(m), NEW renames, NEW k \in Stale(m, renames)
  PROVE  ConstraintOfOurs(k)
<1>1. PICK t \in DOMAIN m.vertices : \E con : k = [table |-> t, con |-> con]
  BY DEF Stale
<1> QED BY <1>1 DEF ConstraintOfOurs, Ours

\* A difference of two schemas of ours.
DeltaOfOurs(delta, from, to) ==
  /\ PlansForOurs(delta.renames)
  /\ \A t \in Theirs : /\ t \notin delta.added.vertices /\ t \notin delta.added.edges
                       /\ t \notin delta.dropped.vertices /\ t \notin delta.dropped.edges
  /\ \A u \in delta.addedColumns : u[1] \notin Theirs
  /\ \A u \in delta.droppedColumns : u[1] \notin Theirs
  /\ \A u \in delta.addedUniques : u[1] \notin Theirs
  /\ \A u \in delta.droppedUniques : u[1] \notin Theirs
  /\ \A u \in delta.defaultChanges : u[1] \notin Theirs
  /\ \A u \in delta.typeChanges : u[1] \notin Theirs
  /\ \A k \in delta.addedConstraints : k.table \notin Theirs
  /\ \A k \in delta.droppedConstraints : k.table \notin Theirs
  /\ \A i \in delta.addedIndexes : to.indexes[i].table \notin Theirs
  /\ \A i \in delta.droppedIndexes : from.indexes[i].table \notin Theirs

LEMMA DiffIsOurs ==
  ASSUME NEW from, NEW to, Ours(from), Ours(to), NEW renames, PlansForOurs(renames),
         NEW stale, \A k \in stale : ConstraintOfOurs(k)
  PROVE  DeltaOfOurs(DiffSchemas(from, to, renames, stale), from, to)
<1> DEFINE delta == DiffSchemas(from, to, renames, stale)
           both  == DOMAIN from.vertices \intersect DOMAIN to.vertices
<1>1. \A t \in both : t \notin Theirs
  BY DEF Ours
<1>2. delta.renames = renames
  BY DEF DiffSchemas
<1>3. /\ delta.added.vertices \subseteq DOMAIN to.vertices /\ delta.added.edges \subseteq DOMAIN to.edges
      /\ delta.dropped.vertices \subseteq DOMAIN from.vertices
      /\ delta.dropped.edges \subseteq DOMAIN from.edges
  BY DEF DiffSchemas
<1>4. /\ \A u \in delta.addedColumns : u[1] \in both
      /\ \A u \in delta.droppedColumns : u[1] \in both
  BY DEF DiffSchemas
<1>5. /\ \A u \in delta.addedUniques : u[1] \in both
      /\ \A u \in delta.droppedUniques : u[1] \in both
      /\ \A u \in delta.defaultChanges : u[1] \in both
      /\ \A u \in delta.typeChanges : u[1] \in both
  <2> DEFINE shared(t) == DOMAIN from.vertices[t].cols \intersect DOMAIN to.vertices[t].cols
             columns == UNION {{t} \X shared(t) : t \in both}
  <2>1. /\ delta.addedUniques \subseteq columns /\ delta.droppedUniques \subseteq columns
        /\ delta.defaultChanges \subseteq columns /\ delta.typeChanges \subseteq columns
    BY DEF DiffSchemas
  <2>2. \A u \in columns : u[1] \in both
    <3> HIDE DEF both, shared
    <3> QED OBVIOUS
  <2> HIDE DEF delta, both, columns
  <2> QED BY <2>1, <2>2
<1>6. \A k \in delta.addedConstraints : k.table \in both
  <2> DEFINE New(t) == TableConstraints(t, to.vertices[t]) \ TableConstraints(t, from.vertices[t])
  <2>1. delta.addedConstraints = UNION {{[table |-> t, con |-> k] : k \in New(t)} : t \in both}
    BY DEF DiffSchemas
  <2> HIDE DEF delta, both, New
  <2> QED BY <2>1
<1>7. \A k \in delta.droppedConstraints : k \in stale \/ k.table \in both
  BY DEF DiffSchemas
<1>8. delta.addedIndexes \subseteq DOMAIN to.indexes /\ delta.droppedIndexes \subseteq DOMAIN from.indexes
  BY DEF DiffSchemas
<1> HIDE DEF delta, both
<1>9. DeltaOfOurs(delta, from, to)
  BY <1>1, <1>2, <1>3, <1>4, <1>5, <1>6, <1>7, <1>8 DEF DeltaOfOurs, Ours, ConstraintOfOurs
<1> QED BY <1>9 DEF delta
------------------------------------------------------------------------------
(* The statements of a difference.                                         *)

\* The tables of S in alphabetical order are a list of tables of S.
LEMMA OrderingSteps ==
  ASSUME NEW S
  PROVE  \E upTo : /\ upTo[0] = <<>>
                   /\ \A i \in 1..Len(Alphabet) :
                        upTo[i] = IF Alphabet[i] \in S THEN Append(upTo[i-1], Alphabet[i]) ELSE upTo[i-1]
                   /\ InOrder(S) = upTo[Len(Alphabet)]
<1> DEFINE n == Len(Alphabet)
           Next1(q, i) == IF Alphabet[i] \in S THEN Append(q, Alphabet[i]) ELSE q
           Until(a, k) == a = [i \in 0..k |-> IF i = 0 THEN <<>> ELSE Next1(a[i-1], i)]
           D == {k \in 0..n : \E a : Until(a, k)}
<1>0. n \in Nat
  BY AlphabetIsAList
<1> HIDE DEF n
<1>1. 0 \in D
  <2> DEFINE b == [i \in 0..0 |-> <<>>]
  <2>1. b = [i \in 0..0 |-> IF i = 0 THEN <<>> ELSE Next1(b[i-1], i)]
    OBVIOUS
  <2>2. 0 \in 0..n
    BY <1>0
  <2> QED BY <2>1, <2>2
<1>2. ASSUME NEW k \in 1..n, k-1 \in D PROVE k \in D
  <2>0. k \in Nat /\ k-1 \in Nat /\ k-1 >= 0 /\ k \in 0..n
    BY <1>0
  <2>1. PICK a : Until(a, k-1)
    BY <1>2
  <2> DEFINE b == [i \in 0..k |-> IF i = k THEN Next1(a[k-1], k) ELSE a[i]]
  <2>2. \A i \in 0..(k-1) : a[i] = (IF i = 0 THEN <<>> ELSE Next1(a[i-1], i))
    BY <2>1
  <2> HIDE DEF Next1
  <2>3. \A i \in 0..(k-1) : b[i] = a[i]
    BY <2>0
  <2>4. b[k] = Next1(a[k-1], k)
    BY <2>0
  <2>5. ASSUME NEW i \in 0..k PROVE b[i] = IF i = 0 THEN <<>> ELSE Next1(b[i-1], i)
    <3> HIDE DEF b
    <3>1. CASE i = k
      <4>1. k-1 \in 0..(k-1) /\ k # 0
        BY <2>0
      <4> QED BY <3>1, <4>1, <2>3, <2>4
    <3>2. CASE i # k /\ i = 0
      BY <3>2, <2>0, <2>2, <2>3
    <3>3. CASE i # k /\ i # 0
      <4>1. i-1 \in 0..(k-1) /\ i \in 0..(k-1)
        BY <3>3, <2>0
      <4> QED BY <3>3, <4>1, <2>2, <2>3
    <3> QED BY <3>1, <3>2, <3>3
  <2>6. Until(b, k)
    BY <2>5
  <2> QED BY <2>0, <2>6
<1>3. n \in D
  <2>1. n \in 0..n
    BY <1>0
  <2> HIDE DEF D
  <2>2. \A i \in 0..n : i \in D
    BY <1>0, <1>1, <1>2, UpToInduction, Zenon
  <2> QED BY <2>1, <2>2
<1> DEFINE upTo == CHOOSE a : Until(a, n)
<1>4. Until(upTo, n)
  BY <1>3, Zenon
<1>5. InOrder(S) = upTo[n]
  BY DEF InOrder, n
<1> HIDE DEF upTo
<1>6. upTo[0] = <<>>
  <2>1. 0 \in 0..n
    BY <1>0
  <2> QED BY <1>4, <2>1
<1>7. ASSUME NEW i \in 1..n PROVE upTo[i] = Next1(upTo[i-1], i)
  <2>1. i \in 0..n /\ i # 0
    BY <1>0
  <2> HIDE DEF Next1
  <2> QED BY <1>4, <2>1
<1> QED BY <1>5, <1>6, <1>7 DEF n

LEMMA InOrderIsOfTheSet ==
  ASSUME NEW S
  PROVE  InOrder(S) \in Seq(S)
<1>1. PICK upTo : /\ upTo[0] = <<>>
                  /\ \A i \in 1..Len(Alphabet) :
                       upTo[i] = IF Alphabet[i] \in S THEN Append(upTo[i-1], Alphabet[i]) ELSE upTo[i-1]
                  /\ InOrder(S) = upTo[Len(Alphabet)]
  BY OrderingSteps
<1> DEFINE n == Len(Alphabet)
           T == {k \in 0..n : upTo[k] \in Seq(S)}
<1>0. /\ n \in Nat /\ upTo[0] = <<>> /\ InOrder(S) = upTo[n]
      /\ \A i \in 1..n : upTo[i] = IF Alphabet[i] \in S THEN Append(upTo[i-1], Alphabet[i]) ELSE upTo[i-1]
  BY <1>1, AlphabetIsAList
<1> HIDE DEF n
<1>2. 0 \in T
  <2>1. 0 \in 0..n /\ <<>> \in Seq(S)
    BY <1>0
  <2> QED BY <1>0, <2>1
<1>3. ASSUME NEW k \in 1..n, k-1 \in T PROVE k \in T
  <2>1. k \in 0..n /\ upTo[k-1] \in Seq(S)
    BY <1>0, <1>3
  <2>2. upTo[k] = IF Alphabet[k] \in S THEN Append(upTo[k-1], Alphabet[k]) ELSE upTo[k-1]
    BY <1>0
  <2>3. upTo[k] \in Seq(S)
    BY <2>1, <2>2
  <2> QED BY <2>1, <2>3
<1>4. n \in T
  <2>1. n \in 0..n
    BY <1>0
  <2> HIDE DEF T
  <2>2. \A i \in 0..n : i \in T
    BY <1>0, <1>2, <1>3, UpToInduction
  <2> QED BY <2>1, <2>2
<1> QED BY <1>0, <1>4

\* What drops tables of ours, and what creates them with their indexes.
LEMMA DropsSpare ==
  ASSUME NEW S, \A t \in Theirs : t \notin S
  PROVE  AboutOurs(Drops(S))
<1> DEFINE q == InOrder(S)
           Made == {DropTable(t) : t \in S}
<1>1. q \in Seq(S)
  BY InOrderIsOfTheSet
<1>2. \A s \in Made : OfOurs(s)
  BY DEF DropTable, OfOurs, TableOps
<1> HIDE DEF q, Made
<1>3. [i \in DOMAIN q |-> DropTable(q[i])] \in Seq(Made)
  BY <1>1 DEF Made
<1>4. Drops(S) \in Seq(Made)
  BY <1>3 DEF Drops, q
<1>5. List(Drops(S)) /\ \A i \in DOMAIN Drops(S) : Drops(S)[i] \in Made
  BY <1>4, ListsAreLists
<1> QED BY <1>2, <1>5 DEF AboutOurs

LEMMA TableCreateSpares ==
  ASSUME NEW m, NEW t, t \notin Theirs
  PROVE  AboutOurs(TableCreateStmts(m, t))
<1> DEFINE Made == {IndexDDL(i, m.indexes[i]) : i \in {i \in DOMAIN m.indexes : m.indexes[i].table = t}}
           vertex == IF t \in DOMAIN m.vertices THEN <<VertexTableDDL(t, m.vertices[t])>> ELSE <<>>
           edge   == IF t \in DOMAIN m.edges THEN <<EdgeTableDDL(t, m.edges[t])>> ELSE <<>>
<1>1. \A s \in Made : OfOurs(s)
  BY DEF IndexDDL, OfOurs, TableOps
<1>2. AboutOurs(Listed(Made))
  <2> HIDE DEF Made
  <2> QED BY <1>1, ListedSpares
<1>3. \A vt : OfOurs(VertexTableDDL(t, vt)) /\ OfOurs(EdgeTableDDL(t, vt))
  BY DEF VertexTableDDL, EdgeTableDDL, OfOurs, TableOps
<1>4. AboutOurs(vertex) /\ AboutOurs(edge)
  BY <1>3, NothingSpares, OneSpares
<1>5. TableCreateStmts(m, t) = vertex \o edge \o Listed(Made)
  BY DEF TableCreateStmts, Each
<1> HIDE DEF vertex, edge, Made
<1>6. AboutOurs(vertex \o edge)
  BY <1>4, JoinedSpares
<1> QED BY <1>2, <1>5, <1>6, JoinedSpares

LEMMA CreatesSpare ==
  ASSUME NEW m, NEW S, \A t \in Theirs : t \notin S
  PROVE  AboutOurs(Creates(m, S))
<1> DEFINE q == InOrder(S)
           sections == [i \in DOMAIN q |-> TableCreateStmts(m, q[i])]
<1>1. q \in Seq(S)
  BY InOrderIsOfTheSet
<1> HIDE DEF q
<1>2. \A i \in DOMAIN sections : AboutOurs(sections[i])
  BY <1>1, TableCreateSpares
<1>3. /\ DOMAIN sections = 1..Len(q) /\ Len(q) \in Nat
      /\ Len(sections) = Len(q)
      /\ sections = <<>> \/ Len(sections) > 0
  BY <1>1
<1>4. Creates(m, S) = FlattenSeq(sections)
  BY DEF Creates, q
<1> HIDE DEF sections
<1> QED BY <1>2, <1>3, <1>4, FlattenedSpares

\* The Up section of a difference is about tables of ours.
LEMMA UpSpares ==
  ASSUME NEW d, NEW from, NEW to, DeltaOfOurs(d, from, to)
  PROVE  AboutOurs(UpStructural(d, from, to))
<1> DEFINE a1 == {RenameTable(r.from, r.to) : r \in d.renames.tables}
           a2 == {RenameColumn(r.table, r.from, r.to) : r \in d.renames.columns}
           a3 == {DropConstraint(k.table, k.con.name) : k \in d.droppedConstraints}
           a4 == {DropIndex(i, from.indexes[i]) : i \in d.droppedIndexes}
           a5 == {DropUnique(u) : u \in d.droppedUniques}
           a6 == {DropColumn(u[1], u[2]) : u \in d.droppedColumns}
           a11 == {AddColumn(u[1], u[2], to.vertices[u[1]].cols[u[2]]) : u \in d.addedColumns}
           a12 == {AlterType(u[1], u[2], to.vertices[u[1]].cols[u[2]].type) : u \in d.typeChanges}
           a13 == {SetDefault(u[1], u[2], to.vertices[u[1]].cols[u[2]].default) : u \in d.defaultChanges}
           a14 == {AddUnique(u) : u \in d.addedUniques}
           a15 == {AddConstraint(k.table, k.con) : k \in d.addedConstraints}
           a16 == {IndexDDL(i, to.indexes[i]) : i \in d.addedIndexes}
<1>1. UpStructural(d, from, to) =
           Listed(a1) \o Listed(a2) \o Listed(a3) \o Listed(a4)
        \o Listed(a5) \o Listed(a6) \o Drops(d.dropped.edges) \o Drops(d.dropped.vertices)
        \o Creates(to, d.added.vertices) \o Creates(to, d.added.edges) \o Listed(a11) \o Listed(a12)
        \o Listed(a13) \o Listed(a14) \o Listed(a15) \o Listed(a16)
  BY DEF UpStructural, Each
<1>2. \A s \in a1 : OfOurs(s)
  BY DEF RenameTable, DeltaOfOurs, OfOurs, TableOps, PlansForOurs
<1>3. \A s \in a2 : OfOurs(s)
  BY DEF RenameColumn, DeltaOfOurs, OfOurs, TableOps, PlansForOurs
<1>4. \A s \in a3 : OfOurs(s)
  BY DEF DropConstraint, DeltaOfOurs, OfOurs, TableOps
<1>5. \A s \in a4 : OfOurs(s)
  BY DEF DropIndex, DeltaOfOurs, OfOurs, TableOps
<1>6. \A s \in a5 : OfOurs(s)
  BY DEF DropUnique, DropConstraint, DeltaOfOurs, OfOurs, TableOps
<1>7. \A s \in a6 : OfOurs(s)
  BY DEF DropColumn, DeltaOfOurs, OfOurs, TableOps
<1>8. \A s \in a11 : OfOurs(s)
  BY DEF AddColumn, DeltaOfOurs, OfOurs, TableOps
<1>9. \A s \in a12 : OfOurs(s)
  BY DEF AlterType, DeltaOfOurs, OfOurs, TableOps
<1>10. \A s \in a13 : OfOurs(s)
  BY DEF SetDefault, DeltaOfOurs, OfOurs, TableOps
<1>11. \A s \in a14 : OfOurs(s)
  BY DEF AddUnique, AddConstraint, DeltaOfOurs, OfOurs, TableOps
<1>12. \A s \in a15 : OfOurs(s)
  BY DEF AddConstraint, DeltaOfOurs, OfOurs, TableOps
<1>13. \A s \in a16 : OfOurs(s)
  BY DEF IndexDDL, DeltaOfOurs, OfOurs, TableOps
<1> HIDE DEF a1, a2, a3, a4, a5, a6, a11, a12, a13, a14, a15, a16
<1>14. /\ AboutOurs(Listed(a1)) /\ AboutOurs(Listed(a2)) /\ AboutOurs(Listed(a3)) /\ AboutOurs(Listed(a4))
       /\ AboutOurs(Listed(a5)) /\ AboutOurs(Listed(a6)) /\ AboutOurs(Listed(a11)) /\ AboutOurs(Listed(a12))
       /\ AboutOurs(Listed(a13)) /\ AboutOurs(Listed(a14)) /\ AboutOurs(Listed(a15)) /\ AboutOurs(Listed(a16))
  BY <1>2, <1>3, <1>4, <1>5, <1>6, <1>7, <1>8, <1>9, <1>10, <1>11, <1>12, <1>13, ListedSpares
<1>15. AboutOurs(Drops(d.dropped.edges)) /\ AboutOurs(Drops(d.dropped.vertices))
       /\ AboutOurs(Creates(to, d.added.vertices)) /\ AboutOurs(Creates(to, d.added.edges))
  BY DropsSpare, CreatesSpare DEF DeltaOfOurs
<1> DEFINE first  == Listed(a1) \o Listed(a2) \o Listed(a3) \o Listed(a4)
           second == first \o Listed(a5) \o Listed(a6) \o Drops(d.dropped.edges) \o Drops(d.dropped.vertices)
           third  == second \o Creates(to, d.added.vertices) \o Creates(to, d.added.edges) \o Listed(a11) \o Listed(a12)
           fourth == third \o Listed(a13) \o Listed(a14) \o Listed(a15) \o Listed(a16)
<1>16. AboutOurs(first)
  BY <1>14, <1>15, JoinedSpares
<1>17. AboutOurs(second)
  <2> HIDE DEF first
  <2> QED BY <1>14, <1>15, <1>16, JoinedSpares
<1>18. AboutOurs(third)
  <2> HIDE DEF second
  <2> QED BY <1>14, <1>15, <1>17, JoinedSpares
<1>19. AboutOurs(fourth)
  <2> HIDE DEF third
  <2> QED BY <1>14, <1>15, <1>18, JoinedSpares
<1> QED BY <1>1, <1>19

\* So is its Down section.
LEMMA DownSpares ==
  ASSUME NEW d, NEW from, NEW to, DeltaOfOurs(d, from, to)
  PROVE  AboutOurs(DownStructural(d, from, to))
<1> DEFINE a1 == {DropConstraint(k.table, k.con.name) : k \in d.addedConstraints}
           a2 == {DropIndex(i, to.indexes[i]) : i \in d.addedIndexes}
           a3 == {DropUnique(u) : u \in d.addedUniques}
           a4 == {SetDefault(u[1], u[2], from.vertices[u[1]].cols[u[2]].default) : u \in d.defaultChanges}
           a5 == {AlterType(u[1], u[2], from.vertices[u[1]].cols[u[2]].type) : u \in d.typeChanges}
           a6 == {DropColumn(u[1], u[2]) : u \in d.addedColumns}
           a11 == {AddColumn(u[1], u[2], from.vertices[u[1]].cols[u[2]]) : u \in d.droppedColumns}
           a12 == {AddUnique(u) : u \in d.droppedUniques}
           a13 == {AddConstraint(k.table, k.con) : k \in d.droppedConstraints}
           a14 == {IndexDDL(i, from.indexes[i]) : i \in d.droppedIndexes}
           a15 == {RenameColumn(r.table, r.to, r.from) : r \in d.renames.columns}
           a16 == {RenameTable(r.to, r.from) : r \in d.renames.tables}
<1>1. DownStructural(d, from, to) =
           Listed(a1) \o Listed(a2) \o Listed(a3) \o Listed(a4)
        \o Listed(a5) \o Listed(a6) \o Drops(d.added.edges) \o Drops(d.added.vertices)
        \o Creates(from, d.dropped.vertices) \o Creates(from, d.dropped.edges) \o Listed(a11) \o Listed(a12)
        \o Listed(a13) \o Listed(a14) \o Listed(a15) \o Listed(a16)
  BY DEF DownStructural, Each
<1>2. \A s \in a1 : OfOurs(s)
  BY DEF DropConstraint, DeltaOfOurs, OfOurs, TableOps
<1>3. \A s \in a2 : OfOurs(s)
  BY DEF DropIndex, DeltaOfOurs, OfOurs, TableOps
<1>4. \A s \in a3 : OfOurs(s)
  BY DEF DropUnique, DropConstraint, DeltaOfOurs, OfOurs, TableOps
<1>5. \A s \in a4 : OfOurs(s)
  BY DEF SetDefault, DeltaOfOurs, OfOurs, TableOps
<1>6. \A s \in a5 : OfOurs(s)
  BY DEF AlterType, DeltaOfOurs, OfOurs, TableOps
<1>7. \A s \in a6 : OfOurs(s)
  BY DEF DropColumn, DeltaOfOurs, OfOurs, TableOps
<1>8. \A s \in a11 : OfOurs(s)
  BY DEF AddColumn, DeltaOfOurs, OfOurs, TableOps
<1>9. \A s \in a12 : OfOurs(s)
  BY DEF AddUnique, AddConstraint, DeltaOfOurs, OfOurs, TableOps
<1>10. \A s \in a13 : OfOurs(s)
  BY DEF AddConstraint, DeltaOfOurs, OfOurs, TableOps
<1>11. \A s \in a14 : OfOurs(s)
  BY DEF IndexDDL, DeltaOfOurs, OfOurs, TableOps
<1>12. \A s \in a15 : OfOurs(s)
  BY DEF RenameColumn, DeltaOfOurs, OfOurs, TableOps, PlansForOurs
<1>13. \A s \in a16 : OfOurs(s)
  BY DEF RenameTable, DeltaOfOurs, OfOurs, TableOps, PlansForOurs
<1> HIDE DEF a1, a2, a3, a4, a5, a6, a11, a12, a13, a14, a15, a16
<1>14. /\ AboutOurs(Listed(a1)) /\ AboutOurs(Listed(a2)) /\ AboutOurs(Listed(a3)) /\ AboutOurs(Listed(a4))
       /\ AboutOurs(Listed(a5)) /\ AboutOurs(Listed(a6)) /\ AboutOurs(Listed(a11)) /\ AboutOurs(Listed(a12))
       /\ AboutOurs(Listed(a13)) /\ AboutOurs(Listed(a14)) /\ AboutOurs(Listed(a15)) /\ AboutOurs(Listed(a16))
  BY <1>2, <1>3, <1>4, <1>5, <1>6, <1>7, <1>8, <1>9, <1>10, <1>11, <1>12, <1>13, ListedSpares
<1>15. AboutOurs(Drops(d.added.edges)) /\ AboutOurs(Drops(d.added.vertices))
       /\ AboutOurs(Creates(from, d.dropped.vertices)) /\ AboutOurs(Creates(from, d.dropped.edges))
  BY DropsSpare, CreatesSpare DEF DeltaOfOurs
<1> DEFINE first  == Listed(a1) \o Listed(a2) \o Listed(a3) \o Listed(a4)
           second == first \o Listed(a5) \o Listed(a6) \o Drops(d.added.edges) \o Drops(d.added.vertices)
           third  == second \o Creates(from, d.dropped.vertices) \o Creates(from, d.dropped.edges) \o Listed(a11) \o Listed(a12)
           fourth == third \o Listed(a13) \o Listed(a14) \o Listed(a15) \o Listed(a16)
<1>16. AboutOurs(first)
  BY <1>14, <1>15, JoinedSpares
<1>17. AboutOurs(second)
  <2> HIDE DEF first
  <2> QED BY <1>14, <1>15, <1>16, JoinedSpares
<1>18. AboutOurs(third)
  <2> HIDE DEF second
  <2> QED BY <1>14, <1>15, <1>17, JoinedSpares
<1>19. AboutOurs(fourth)
  <2> HIDE DEF third
  <2> QED BY <1>14, <1>15, <1>18, JoinedSpares
<1> QED BY <1>1, <1>19

\* The tables file of a generation is about tables of ours.
LEMMA TablesFileSpares ==
  ASSUME NEW i \in DOMAIN Families, NEW d \in Families[i].schemas,
         NEW e, NEW f, FolderSpares(e, f), UnownedEdges(e) \subseteq UnownedEdges(d)
  PROVE  AboutOurs(DeltaTables(Build(f), d).up) /\ AboutOurs(DeltaTables(Build(f), d).down)
<1> DEFINE to      == WithoutUnmanaged(d, d)
           prior   == ClassifyLike(WithoutUnmanaged(Build(f), d), to)
           renames == PlanRenames(prior, to)
           moved   == Moved(prior, renames)
           from    == WithoutStale(moved, renames)
           stale   == Stale(moved, renames)
           delta   == DiffSchemas(from, to, renames, stale)
<1>1. /\ DeltaTables(Build(f), d).up = UpStructural(delta, from, to)
      /\ DeltaTables(Build(f), d).down = DownStructural(delta, from, to)
  BY DEF DeltaTables, DeltaClassified, DeltaRenaming, DeltaAfter, Rendered
<1>2. Ours(to) /\ Hinting(to)
  BY DesiredIsOurs, DesiredHints
<1> HIDE DEF to
<1>3. Folded(prior)
  BY <1>2, PriorIsOurs, ClassifiedIsOurs
<1> HIDE DEF prior
<1>4. PlansForOurs(renames)
  BY <1>2, <1>3, RenamesAreOurs DEF Folded
<1> HIDE DEF renames
<1>5. Ours(moved)
  BY <1>3, <1>4, MovedIsOurs DEF Folded
<1> HIDE DEF moved
<1>6. Ours(from) /\ \A k \in stale : ConstraintOfOurs(k)
  BY <1>5, WithoutStaleIsOurs, StaleIsOurs
<1> HIDE DEF from, stale
<1>7. DeltaOfOurs(delta, from, to)
  BY <1>2, <1>4, <1>6, DiffIsOurs
<1> HIDE DEF delta
<1> QED BY <1>1, <1>7, UpSpares, DownSpares
------------------------------------------------------------------------------
(* The theorem.                                                            *)

\* A larger set of mapped tables maps no less.
LEMMA MapsMore ==
  ASSUME NEW d, NEW e, UnownedEdges(d) \subseteq UnownedEdges(e), NEW g, Maps(d, g)
  PROVE  Maps(e, g)
BY DEF Maps

\* The graph of a schema names, of their tables, only those it maps.
LEMMA GraphIsMapped ==
  ASSUME NEW i \in DOMAIN Families, NEW d \in Families[i].schemas
  PROVE  Maps(d, GraphDDL(d))
<1>1. Theirs \intersect (DOMAIN d.vertices \union DOMAIN d.edges) \subseteq UnownedEdges(d)
  BY ForeignIsMapped DEF Theirs, UnownedEdges, Unmanaged
<1> QED BY <1>1 DEF Maps, GraphDDL

\* The files a generation plans.
LEMMA PlanSpares ==
  ASSUME NEW i \in DOMAIN Families, NEW d \in Families[i].schemas, NEW g,
         NEW e, NEW f, FolderSpares(e, f), UnownedEdges(e) \subseteq UnownedEdges(d)
  PROVE  LET files == Plan(Build(f), d, g)
         IN List(files) /\ \A j \in DOMAIN files : SparingFile(d, files[j])
<1> DEFINE prior    == Build(f)
           delta    == DeltaTables(prior, d)
           teardown == [up |-> <<DropGraph>>, down |-> <<CreateGraph(GraphDDL(prior))>>]
           tables   == [up |-> delta.up, down |-> delta.down]
           build    == [up |-> <<CreateGraph(GraphDDL(d))>>, down |-> <<DropGraph>>]
           All      == {teardown, tables, build}
           files    == Plan(prior, d, g)
<1>1. ASSUME NEW h PROVE OfGraph(CreateGraph(h)) /\ OfGraph(DropGraph) /\ Mapped(d, DropGraph)
  BY DEF OfGraph, Mapped, DropGraph
<1>2. SparingFile(d, teardown)
  <2>1. Spares(teardown.up) /\ Spares(teardown.down) /\ \A j \in DOMAIN teardown.up : teardown.up[j] = DropGraph
    BY <1>1 DEF Spares, List, Range
  <2> HIDE DEF teardown
  <2> QED BY <1>1, <2>1 DEF SparingFile
<1>3. SparingFile(d, build)
  <2>1. /\ Spares(build.up) /\ Spares(build.down)
        /\ \A j \in DOMAIN build.up : build.up[j] = CreateGraph(GraphDDL(d))
    BY <1>1 DEF Spares, List, Range
  <2>2. Mapped(d, CreateGraph(GraphDDL(d)))
    BY GraphIsMapped DEF Mapped, CreateGraph
  <2> HIDE DEF build
  <2> QED BY <2>1, <2>2 DEF SparingFile
<1>4. SparingFile(d, tables)
  <2>1. AboutOurs(tables.up) /\ AboutOurs(tables.down)
    BY TablesFileSpares
  <2>2. Spares(tables.up) /\ Spares(tables.down)
    BY <2>1 DEF AboutOurs, Spares
  <2>3. ASSUME NEW j \in DOMAIN tables.up PROVE Mapped(d, tables.up[j])
    BY <2>1 DEF AboutOurs, OfOurs, TableOps, Mapped
  <2> HIDE DEF tables
  <2> QED BY <2>2, <2>3 DEF SparingFile
<1>5. files \in Seq(All)
  <2>1. \E a, b, c : /\ a = <<>> \/ a = <<teardown>>
                     /\ b = <<>> \/ b = <<tables>>
                     /\ c = <<>> \/ c = <<build>>
                     /\ files = a \o b \o c
    BY DEF Plan
  <2>2. PICK a, b, c : /\ a = <<>> \/ a = <<teardown>>
                       /\ b = <<>> \/ b = <<tables>>
                       /\ c = <<>> \/ c = <<build>>
                       /\ files = a \o b \o c
    BY <2>1
  <2>3. teardown \in All /\ tables \in All /\ build \in All
    OBVIOUS
  <2> HIDE DEF teardown, tables, build, files, All
  <2>4. a \in Seq(All) /\ b \in Seq(All) /\ c \in Seq(All)
    <3>1. <<>> \in Seq(All)
      OBVIOUS
    <3>2. ASSUME NEW x \in All PROVE <<x>> \in Seq(All)
      OBVIOUS
    <3>3. <<teardown>> \in Seq(All) /\ <<tables>> \in Seq(All) /\ <<build>> \in Seq(All)
      BY <2>3, <3>2
    <3> QED BY <2>2, <3>1, <3>3
  <2>5. a \o b \in Seq(All)
    BY <2>4
  <2> QED BY <2>2, <2>4, <2>5
<1> HIDE DEF teardown, tables, build, files
<1>6. List(files) /\ \A j \in DOMAIN files : files[j] \in All
  <2> HIDE DEF All
  <2> QED BY <1>5, ListsAreLists
<1> QED BY <1>2, <1>3, <1>4, <1>6 DEF files

KeepingInv == family \in DOMAIN Families /\ (Families[family].keeps => SparingInv)

LEMMA KeepingInit == Init => KeepingInv
<1> SUFFICES ASSUME Init PROVE KeepingInv
  OBVIOUS
<1>1. family \in DOMAIN Families /\ plan = <<>> /\ last = None
  BY DEF Init
<1>2. FolderSpares(desired, folder)
  BY DEF Init, NewFolder, FolderSpares, Maps
<1>3. CatalogSpares(catalog)
  BY DEF Init, Database, EmptyCatalog, CatalogSpares, Theirs
<1>4. List(plan)
  BY <1>1 DEF List, Range
<1> QED BY <1>1, <1>2, <1>3, <1>4 DEF KeepingInv, SparingInv

LEMMA KeepingStep == KeepingInv /\ [Next]_vars => KeepingInv'
<1> SUFFICES ASSUME KeepingInv, [Next]_vars, Families[family].keeps PROVE SparingInv' /\ family' = family
  BY DEF KeepingInv, Next, vars, Generate, WriteFile, Crash
<1> USE DEF KeepingInv
<1>1. ASSUME NEW d \in Families[family].schemas, Generate(d) PROVE SparingInv' /\ family' = family
  <2>1. UnownedEdges(desired) \subseteq UnownedEdges(d)
    BY <1>1 DEF Generate
  <2>2. /\ plan' = Plan(Build(folder), d, graph) /\ desired' = d
        /\ folder' = folder /\ catalog' = catalog /\ last' = last /\ family' = family
    BY <1>1 DEF Generate, Prior
  <2>3. List(plan') /\ \A j \in DOMAIN plan' : SparingFile(d, plan'[j])
    BY <2>1, <2>2, PlanSpares DEF SparingInv
  <2>4. FolderSpares(d, folder)
    BY <2>1, MapsMore DEF SparingInv, FolderSpares
  <2> QED BY <2>2, <2>3, <2>4 DEF SparingInv
<1>2. ASSUME WriteFile PROVE SparingInv' /\ family' = family
  <2> DEFINE file == Head(plan)
  <2>1. /\ folder' = FoldSection(folder, file.up)
        /\ catalog' = Run(catalog, file.up).cat
        /\ last' = [up |-> file.up, down |-> file.down, before |-> catalog]
        /\ plan' = Tail(plan) \/ plan' = <<>>
        /\ desired' = desired /\ family' = family /\ plan # <<>>
    BY <1>2 DEF WriteFile
  <2>2. plan \in Seq(Range(plan)) /\ Len(plan) \in Nat /\ Len(plan) > 0 /\ file = plan[1] /\ 1 \in DOMAIN plan
    BY <2>1 DEF SparingInv, List
  <2>3. SparingFile(desired, file)
    BY <2>2 DEF SparingInv
  <2>4. Tail(plan) \in Seq(Range(plan)) /\ <<>> \in Seq(Range(plan))
    BY <2>1, <2>2
  <2>5. List(plan') /\ \A j \in DOMAIN plan' : plan'[j] \in Range(plan)
    BY <2>1, <2>4, ListsAreLists
  <2>6. \A j \in DOMAIN plan' : SparingFile(desired, plan'[j])
    BY <2>5 DEF SparingInv, Range
  <2> HIDE DEF file
  <2>7. FolderSpares(desired, folder')
    BY <2>1, <2>3, FoldingSpares DEF SparingInv, SparingFile
  <2>8. CatalogSpares(catalog')
    BY <2>1, <2>3, RunningSpares DEF SparingInv, SparingFile
  <2>9. Spares(last'.up) /\ Spares(last'.down)
    BY <2>1, <2>3 DEF SparingFile
  <2> QED BY <2>1, <2>5, <2>6, <2>7, <2>8, <2>9 DEF SparingInv
<1>3. ASSUME Crash PROVE SparingInv' /\ family' = family
  BY <1>3, NothingSpares DEF Crash, SparingInv, AboutOurs
<1>4. ASSUME UNCHANGED vars PROVE SparingInv' /\ family' = family
  BY <1>4 DEF vars, SparingInv
<1> QED BY <1>1, <1>2, <1>3, <1>4 DEF Next

\* As long as a family keeps mapping the tables of somebody else that it maps,
\* no generation, crash or half-written plan makes a statement, forward or back,
\* that names one, and none changes one or puts an index on it.  What the next
\* plan says depends on the directory alone, so the invariant is about the
\* folder as well: its tables and indexes are ours, and its graph names of
\* theirs only what is still mapped, which keeps them out of the next diff.
THEOREM ForeignStaysUntouched == Spec => [](Families[family].keeps => ForeignUntouched)
<1>1. Spec => []KeepingInv
  BY KeepingInit, KeepingStep, PTL DEF Spec
<1>2. KeepingInv => (Families[family].keeps => ForeignUntouched)
  <2> SUFFICES ASSUME SparingInv PROVE ForeignUntouched
    BY DEF KeepingInv
  <2>1. \A i \in DOMAIN catalog.indexes : catalog.indexes[i].table \notin Theirs
    BY DEF SparingInv, CatalogSpares, IndexOfOurs
  <2>2. ASSUME NEW section, Spares(section), NEW s \in Range(section), "table" \in DOMAIN s
        PROVE  s.table \notin Theirs
    <3>1. PICK j \in DOMAIN section : s = section[j]
      BY DEF Range
    <3>2. OfOurs(s) \/ OfGraph(s)
      BY <3>1, <2>2 DEF Spares
    <3>3. ~OfGraph(s)
      BY <2>2 DEF OfGraph, DropGraph, CreateGraph
    <3> QED BY <3>2, <3>3 DEF OfOurs
  <2>3. last # None => \A s \in Range(last.up) \union Range(last.down) :
                         "table" \in DOMAIN s => s.table \notin Theirs
    BY <2>2 DEF SparingInv
  <2> QED BY <2>1, <2>3 DEF SparingInv, CatalogSpares, ForeignUntouched, Theirs
<1> QED BY <1>1, <1>2, PTL
------------------------------------------------------------------------------
(* Renames. *)

\* A hint that leads somewhere leads to one of the names it may.
LEMMA HintIsOneOf ==
  ASSUME NEW list, DOMAIN list \subseteq Nat, NEW S
  PROVE  LET fit == {i \in DOMAIN list : list[i] \in S}
         IN  fit = {} \/ list[Min(fit)] \in S
<1> DEFINE fit == {i \in DOMAIN list : list[i] \in S}
<1>1. fit \subseteq Nat
  OBVIOUS
<1>2. ASSUME fit # {} PROVE Min(fit) \in fit
  <2> HIDE DEF fit
  <2> QED BY <1>1, <1>2, LeastIsOne
<1> QED BY <1>2

\* Every hint of a schema is a list.
Hinted(m) ==
  \A t \in DOMAIN m.vertices :
    /\ DOMAIN m.vertices[t].was \subseteq Nat
    /\ \A c \in DOMAIN m.vertices[t].cols : DOMAIN m.vertices[t].cols[c].was \subseteq Nat

\* What the SDL asks for is such a schema.
LEMMA DesiredIsHinted ==
  ASSUME NEW i \in DOMAIN Families, NEW d \in Families[i].schemas
  PROVE  Hinted(d) /\ Hinted(WithoutUnmanaged(d, d))
<1>1. \A s : s \in Seq(Range(s)) => DOMAIN s \subseteq Nat
  OBVIOUS
<1>2. Hinted(d)
  BY <1>1, SchemasAreSchemas DEF Hinted
<1>3. DOMAIN d = {"named", "vertices", "edges", "indexes"}
  BY SchemasAreSchemas DEF NoSchema
<1> QED BY <1>2, <1>3 DEF Hinted, WithoutUnmanaged, StripTables, Without, Restrict

\* What has the old names of a plan no longer has them in the schema wanted, and
\* nothing there had the new ones: planRenames says that else a rename would
\* collide with something real.  So no name of a plan is both old and new, and
\* it does not matter in which order the code goes through it.
THEOREM RenamesNeverCollide ==
  ASSUME NEW from, NEW to, Hinted(to)
  PROVE  /\ \A r \in PlanRenames(from, to).tables :
              /\ r.from \in DOMAIN from.vertices \ DOMAIN to.vertices
              /\ r.to \in DOMAIN to.vertices \ DOMAIN from.vertices
         /\ \A r \in PlanRenames(from, to).columns :
              LET before == from.vertices[PriorTable(from, to, r.table)].cols
                  now    == to.vertices[r.table].cols
              IN  r.from \in DOMAIN before \ DOMAIN now /\ r.to \in DOMAIN now \ DOMAIN before
<1> DEFINE renames == PlanRenames(from, to)
           known   == {t \in DOMAIN to.vertices : PriorTable(from, to, t) # None}
<1>1. ASSUME NEW r \in renames.tables
      PROVE  /\ r.from \in DOMAIN from.vertices \ DOMAIN to.vertices
             /\ r.to \in DOMAIN to.vertices \ DOMAIN from.vertices
  <2>1. PICK t \in known : r = [from |-> PriorTable(from, to, t), to |-> t] /\ PriorTable(from, to, t) # t
    BY DEF PlanRenames
  <2> DEFINE was == to.vertices[t].was
             may == {p \in DOMAIN from.vertices : p # t /\ p \notin DOMAIN to.vertices}
             fit == {i \in DOMAIN was : was[i] \in may}
             fits == {i \in DOMAIN was : was[i] # t /\ was[i] \in DOMAIN from.vertices
                                         /\ was[i] \notin DOMAIN to.vertices}
  <2>2. /\ t \notin DOMAIN from.vertices
        /\ PriorTable(from, to, t) = IF fits = {} THEN None ELSE was[Min(fits)]
    BY <2>1 DEF PriorTable, FirstOf
  <2>3. fits = fit
    OBVIOUS
  <2>4. fit = {} \/ was[Min(fit)] \in may
    <3>1. DOMAIN was \subseteq Nat
      BY DEF Hinted
    <3> HIDE DEF was, may
    <3> QED BY <3>1, HintIsOneOf
  <2> HIDE DEF fit, fits, was
  <2> QED BY <2>1, <2>2, <2>3, <2>4
<1>2. ASSUME NEW r \in renames.columns
      PROVE  LET before == from.vertices[PriorTable(from, to, r.table)].cols
                 now    == to.vertices[r.table].cols
             IN  r.from \in DOMAIN before \ DOMAIN now /\ r.to \in DOMAIN now \ DOMAIN before
  <2>1. \A q \in renames.columns :
          /\ q.from # None
          /\ \E t \in known : \E c \in DOMAIN to.vertices[t].cols :
                q = [table |-> t, from |-> PriorColumn(from, to, t, c), to |-> c]
    BY DEF PlanRenames
  <2>2. PICK t \in known : \E x \in DOMAIN to.vertices[t].cols :
           r = [table |-> t, from |-> PriorColumn(from, to, t, x), to |-> x]
    BY <1>2, <2>1
  <2>3. PICK c \in DOMAIN to.vertices[t].cols :
          r = [table |-> t, from |-> PriorColumn(from, to, t, c), to |-> c]
    BY <2>2
  <2>4. PriorColumn(from, to, t, c) # None
    BY <1>2, <2>1, <2>3
  <2> HIDE DEF renames
  <2> DEFINE before == from.vertices[PriorTable(from, to, t)].cols
             now == to.vertices[t].cols
             was == now[c].was
             may == {p \in DOMAIN before : p # c /\ p \notin DOMAIN now}
             fit == {i \in DOMAIN was : was[i] \in may}
             fits == {i \in DOMAIN was : was[i] # c /\ was[i] \in DOMAIN before /\ was[i] \notin DOMAIN now}
  <2>5. PriorColumn(from, to, t, c) =
          IF c \in DOMAIN before THEN None ELSE IF fits = {} THEN None ELSE was[Min(fits)]
    BY DEF PriorColumn, FirstOf
  <2>6. fits = fit
    OBVIOUS
  <2>7. fit = {} \/ was[Min(fit)] \in may
    <3>1. DOMAIN was \subseteq Nat
      BY DEF Hinted
    <3> HIDE DEF was, may
    <3> QED BY <3>1, HintIsOneOf
  <2>8. r.table = t /\ r.to = c /\ r.from = PriorColumn(from, to, t, c)
    BY <2>3
  <2>9. c \notin DOMAIN before /\ PriorColumn(from, to, t, c) \in may
    <3> HIDE DEF fit, fits, was, may, before
    <3> QED BY <2>4, <2>5, <2>6, <2>7
  <2>10. may = {p \in DOMAIN before : p # c /\ p \notin DOMAIN now}
    OBVIOUS
  <2>11. r.from \in DOMAIN before \ DOMAIN now /\ r.to \in DOMAIN now \ DOMAIN before
    <3>1. c \in DOMAIN now
      OBVIOUS
    <3> HIDE DEF before, now, may
    <3> QED BY <3>1, <2>8, <2>9, <2>10
  <2> QED BY <2>8, <2>11
<1> QED BY <1>1, <1>2
------------------------------------------------------------------------------
(* What the differ sees. *)

\* Two tables, two schemas that have in common all the differ looks at.
Compared == {"type", "unique", "default", "check"}
AlikeTables(F, T) ==
  /\ F.key = T.key
  /\ F.checks = T.checks
  /\ DOMAIN F.cols = DOMAIN T.cols
  /\ \A c \in DOMAIN T.cols : \A a \in Compared : F.cols[c][a] = T.cols[c][a]

Alike(from, to) ==
  /\ DOMAIN from.vertices = DOMAIN to.vertices
  /\ DOMAIN from.edges = DOMAIN to.edges
  /\ from.indexes = to.indexes
  /\ \A t \in DOMAIN to.vertices : AlikeTables(from.vertices[t], to.vertices[t])

\* A plan without renames moves nothing and leaves nothing stale.
LEMMA SameTable ==
  ASSUME NEW p, p.tables = {}, p.columns = {}, NEW t, NEW vt, ProperTable(vt)
  PROVE  AlikeTables(MovedVertex(p, t, vt), vt) /\ ProperTable(MovedVertex(p, t, vt))
<1> DEFINE mv == MovedVertex(p, t, vt)
           cols == [c \in DOMAIN vt.cols |-> [vt.cols[c] EXCEPT !.ref = vt.cols[c].ref]]
<1>1. \A c : NewColumn(p, t, c) = c /\ OldColumn(p, t, c) = c /\ NewTable(p, c) = c
  BY DEF NewColumn, OldColumn, NewTable
<1>2. /\ DOMAIN mv = DOMAIN vt
      /\ mv.checks = vt.checks
      /\ mv.cols = [c \in {NewColumn(p, t, x) : x \in DOMAIN vt.cols} |->
                      MovedRefs(p, vt.cols)[OldColumn(p, t, c)]]
      /\ mv.key = IF vt.key = None THEN None
                  ELSE [vt.key EXCEPT !.columns = [i \in DOMAIN vt.key.columns |->
                                                     NewColumn(p, t, vt.key.columns[i])]]
  <2>1. {"cols", "props", "key", "checks"} \subseteq DOMAIN vt
    BY DEF ProperTable
  <2>2. DOMAIN mv = DOMAIN vt
    BY DEF MovedVertex
  <2>3. mv.checks = vt.checks
    BY <2>1 DEF MovedVertex
  <2>4. mv.cols = [c \in {NewColumn(p, t, x) : x \in DOMAIN vt.cols} |->
                      MovedRefs(p, vt.cols)[OldColumn(p, t, c)]]
    BY <2>1 DEF MovedVertex
  <2>5. mv.key = IF vt.key = None THEN None
                  ELSE [vt.key EXCEPT !.columns = [i \in DOMAIN vt.key.columns |->
                                                     NewColumn(p, t, vt.key.columns[i])]]
    BY <2>1 DEF MovedVertex, MovedKey
  <2> QED BY <2>2, <2>3, <2>4, <2>5
<1>3. mv.cols = cols
  <2>1. {NewColumn(p, t, x) : x \in DOMAIN vt.cols} = DOMAIN vt.cols
    BY <1>1
  <2>2. MovedRefs(p, vt.cols) = cols
    BY <1>1 DEF MovedRefs
  <2> HIDE DEF cols, mv
  <2>3. mv.cols = [c \in DOMAIN vt.cols |-> cols[c]]
    BY <1>1, <1>2, <2>1, <2>2
  <2> QED BY <2>3 DEF cols
<1>4. mv.key = vt.key
  <2>1. CASE vt.key = None
    BY <1>2, <2>1
  <2>2. CASE vt.key # None
    <3> DEFINE k == vt.key
    <3>1. k = [name |-> k.name, columns |-> k.columns] /\ k.columns = [i \in DOMAIN k.columns |-> k.columns[i]]
      BY <2>2 DEF ProperTable
    <3>2. [i \in DOMAIN k.columns |-> NewColumn(p, t, k.columns[i])] = k.columns
      BY <1>1, <3>1
    <3>3. mv.key = [k EXCEPT !.columns = k.columns]
      BY <1>2, <2>2, <3>2
    <3> HIDE DEF mv, k
    <3>4. mv.key = k
      BY <3>1, <3>3
    <3> QED BY <3>4 DEF k
  <2> QED BY <2>1, <2>2
<1> HIDE DEF mv
<1>5. \A c \in DOMAIN vt.cols : /\ DOMAIN cols[c] = DOMAIN vt.cols[c]
                                /\ \A a \in Compared : cols[c][a] = vt.cols[c][a]
  BY DEF ProperTable, ProperColumn, Compared
<1>6. DOMAIN cols = DOMAIN vt.cols
  OBVIOUS
<1> HIDE DEF cols
<1>7. AlikeTables(mv, vt)
  BY <1>2, <1>3, <1>4, <1>5, <1>6 DEF AlikeTables
<1>8. \A c \in DOMAIN cols : ProperColumn(cols[c])
  BY <1>5, <1>6 DEF ProperTable, ProperColumn, Compared
<1>9. ProperTable(mv)
  BY <1>2, <1>3, <1>4, <1>8 DEF ProperTable
<1> QED BY <1>7, <1>9 DEF mv

\* Nor does it take a constraint away.
LEMMA SameConstraints ==
  ASSUME NEW p, p.tables = {}, p.columns = {}, NEW t, NEW vt, ProperTable(vt)
  PROVE  AlikeTables(StaleVertex(p, t, vt), vt) /\ ProperTable(StaleVertex(p, t, vt))
<1> DEFINE sv == StaleVertex(p, t, vt)
           cols == [c \in DOMAIN vt.cols |-> vt.cols[c]]
<1>1. OldTable(p, t) = t /\ \A c : ~NameMoved(p, t, c)
  BY DEF NameMoved, OldColumn, OldTable
<1>2. /\ DOMAIN sv = DOMAIN vt
      /\ sv.checks = vt.checks
      /\ sv.key = vt.key
      /\ sv.cols = [c \in DOMAIN vt.cols |-> StaleColumn(p, t, c, vt.cols[c])]
  BY <1>1 DEF StaleVertex, ProperTable
<1> HIDE DEF sv
<1>3. \A c, col : StaleColumn(p, t, c, col) = col
  BY <1>1 DEF StaleColumn
<1>4. sv.cols = cols
  BY <1>2, <1>3
<1>5. AlikeTables(sv, vt)
  BY <1>2, <1>4 DEF AlikeTables
<1>6. ProperTable(sv)
  BY <1>2, <1>4 DEF ProperTable
<1> QED BY <1>5, <1>6 DEF sv

\* A schema moved by a plan without renames, and without its stale constraints.
LEMMA SameSchema ==
  ASSUME NEW p, p.tables = {}, p.columns = {}, NEW m, Proper(m)
  PROVE  /\ Proper(WithoutStale(Moved(m, p), p))
         /\ Alike(WithoutStale(Moved(m, p), p), m)
         /\ Stale(Moved(m, p), p) = {}
<1> DEFINE q == Moved(m, p)
           s == WithoutStale(q, p)
<1>1. \A x : NewTable(p, x) = x /\ OldTable(p, x) = x
  BY DEF NewTable, OldTable
<1>2. \A t, c : ~NameMoved(p, t, c)
  BY <1>1 DEF NameMoved, OldColumn
<1>3. /\ DOMAIN q = DOMAIN m
      /\ DOMAIN q.edges = DOMAIN m.edges
      /\ q.vertices = [t \in {NewTable(p, x) : x \in DOMAIN m.vertices} |->
                         MovedVertex(p, t, m.vertices[OldTable(p, t)])]
      /\ q.indexes = [i \in DOMAIN m.indexes |-> MovedIndex(p, m.indexes[i])]
  BY DEF Moved, Proper
<1> HIDE DEF q
<1>4. q.vertices = [t \in DOMAIN m.vertices |-> MovedVertex(p, t, m.vertices[t])]
  <2>1. {NewTable(p, x) : x \in DOMAIN m.vertices} = DOMAIN m.vertices
    BY <1>1
  <2> QED BY <1>1, <1>3, <2>1
<1>5. q.indexes = m.indexes
  <2>1. ASSUME NEW i \in DOMAIN m.indexes PROVE MovedIndex(p, m.indexes[i]) = m.indexes[i]
    <3> DEFINE idx == m.indexes[i]
    <3>1. idx = [table |-> idx.table, column |-> idx.column]
      BY DEF Proper, ProperIndexes
    <3> HIDE DEF idx
    <3>2. MovedIndex(p, idx) = [idx EXCEPT !.table = idx.table, !.column = idx.column]
      BY <1>1, <3>1 DEF MovedIndex, NewColumn
    <3>3. MovedIndex(p, idx) = idx
      BY <3>1, <3>2
    <3> QED BY <3>3 DEF idx
  <2> QED BY <1>3, <2>1 DEF Proper, ProperIndexes
<1>6. \A t \in DOMAIN m.vertices : ProperTable(q.vertices[t]) /\ AlikeTables(q.vertices[t], m.vertices[t])
  BY <1>4, SameTable DEF Proper
<1>7. /\ DOMAIN s = DOMAIN q /\ s.edges = q.edges /\ s.indexes = q.indexes
      /\ s.vertices = [t \in DOMAIN q.vertices |-> StaleVertex(p, t, q.vertices[t])]
  BY <1>3 DEF WithoutStale, Proper
<1>8. \A t \in DOMAIN m.vertices : ProperTable(s.vertices[t]) /\ AlikeTables(s.vertices[t], q.vertices[t])
  BY <1>4, <1>6, <1>7, SameConstraints
<1> HIDE DEF s
<1>9. \A t \in DOMAIN m.vertices : AlikeTables(s.vertices[t], m.vertices[t])
  BY <1>6, <1>8 DEF AlikeTables
<1>10. Proper(s) /\ Alike(s, m)
  BY <1>3, <1>4, <1>5, <1>7, <1>8, <1>9 DEF Proper, Alike
<1>11. Stale(q, p) = {}
  BY <1>1, <1>2 DEF Stale
<1> QED BY <1>10, <1>11 DEF q, s

\* A constraint is that of one key or check, whose name says which.
LEMMA SameKeysAndChecks ==
  ASSUME NEW t, NEW F, NEW T, ProperTable(F), ProperTable(T), DOMAIN F.cols = DOMAIN T.cols
  PROVE  TableConstraints(t, F) = TableConstraints(t, T) <=>
           /\ F.key = T.key
           /\ F.checks = T.checks
           /\ \A c \in DOMAIN T.cols : F.cols[c].check = T.cols[c].check
<1> DEFINE Key(k)      == [name |-> k.name, kind |-> "UNIQUE", columns |-> k.columns, expr |-> None]
           OnColumn(c, e) == [name |-> ColumnCheckConstraintName(t, c), kind |-> "CHECK", columns |-> <<>>, expr |-> e]
           OnTable(i, e)  == [name |-> TableCheckConstraintName(t, i), kind |-> "CHECK", columns |-> <<>>, expr |-> e]
           Has(vt, k)  == \/ vt.key # None /\ k = Key(vt.key)
                          \/ \E c \in DOMAIN vt.cols : vt.cols[c].check # None /\ k = OnColumn(c, vt.cols[c].check)
                          \/ \E i \in DOMAIN vt.checks : k = OnTable(i, vt.checks[i])
<1>1. \A vt : \A k : k \in TableConstraints(t, vt) <=> Has(vt, k)
  BY DEF TableConstraints
<1>2. /\ \A k, c, e : Key(k) # OnColumn(c, e)
      /\ \A k, i, e : Key(k) # OnTable(i, e)
      /\ \A c, e, i, x : OnColumn(c, e) # OnTable(i, x)
      /\ \A c, e, b, x : OnColumn(c, e) = OnColumn(b, x) => c = b /\ e = x
      /\ \A i, e, j, x : OnTable(i, e) = OnTable(j, x) => i = j /\ e = x
      /\ \A k, l : Key(k) = Key(l) => k.name = l.name /\ k.columns = l.columns
  <2>1. \A k, c, e : Key(k).kind # OnColumn(c, e).kind
    OBVIOUS
  <2>2. \A k, i, e : Key(k).kind # OnTable(i, e).kind
    OBVIOUS
  <2>3. \A c, e, i, x : OnColumn(c, e).name.role # OnTable(i, x).name.role
    BY DEF ColumnCheckConstraintName, TableCheckConstraintName
  <2>4. \A c, e : OnColumn(c, e).name.column = c /\ OnColumn(c, e).expr = e
    BY DEF ColumnCheckConstraintName
  <2>5. \A i, e : OnTable(i, e).name.n = i /\ OnTable(i, e).expr = e
    BY DEF TableCheckConstraintName
  <2>6. \A k : Key(k).name = k.name /\ Key(k).columns = k.columns
    OBVIOUS
  <2> HIDE DEF Key, OnColumn, OnTable
  <2> QED BY <2>1, <2>2, <2>3, <2>4, <2>5, <2>6
<1> HIDE DEF Key, OnColumn, OnTable
<1>3. ASSUME TableConstraints(t, F) = TableConstraints(t, T)
      PROVE  F.key = T.key /\ F.checks = T.checks /\ \A c \in DOMAIN T.cols : F.cols[c].check = T.cols[c].check
  <2>1. \A k : Has(F, k) <=> Has(T, k)
    <3>1. \A k : Has(F, k) <=> k \in TableConstraints(t, F)
      BY <1>1
    <3>2. \A k : Has(T, k) <=> k \in TableConstraints(t, T)
      BY <1>1
    <3> HIDE DEF Has
    <3> QED BY <1>3, <3>1, <3>2
  <2>2. F.key = T.key
    <3>1. ASSUME NEW U, NEW V, ProperTable(U), ProperTable(V), \A k : Has(U, k) <=> Has(V, k), U.key # None
          PROVE  V.key = U.key
      <4>1. Has(V, Key(U.key))
        BY <3>1
      <4>2. V.key # None /\ Key(U.key) = Key(V.key)
        BY <1>2, <4>1
      <4>3. V.key.name = U.key.name /\ V.key.columns = U.key.columns
        BY <1>2, <4>2
      <4> QED BY <3>1, <4>2, <4>3 DEF ProperTable
    <3> QED BY <2>1, <3>1
  <2>3. ASSUME NEW U, NEW V, \A k : Has(U, k) <=> Has(V, k), NEW i \in DOMAIN U.checks
        PROVE  i \in DOMAIN V.checks /\ V.checks[i] = U.checks[i]
    <3>1. Has(V, OnTable(i, U.checks[i]))
      BY <2>3
    <3> QED BY <1>2, <3>1
  <2>4. F.checks = T.checks
    <3> HIDE DEF Has
    <3>1. \A i \in DOMAIN F.checks : i \in DOMAIN T.checks /\ T.checks[i] = F.checks[i]
      BY <2>1, <2>3
    <3>2. \A i \in DOMAIN T.checks : i \in DOMAIN F.checks
      BY <2>1, <2>3
    <3>3. DOMAIN F.checks = DOMAIN T.checks
      BY <3>1, <3>2
    <3> QED BY <3>1, <3>3 DEF ProperTable
  <2>5. ASSUME NEW U, NEW V, \A k : Has(U, k) <=> Has(V, k), NEW c \in DOMAIN U.cols, U.cols[c].check # None
        PROVE  V.cols[c].check = U.cols[c].check
    <3>1. Has(V, OnColumn(c, U.cols[c].check))
      BY <2>5
    <3> QED BY <1>2, <3>1
  <2>6. ASSUME NEW c \in DOMAIN T.cols PROVE F.cols[c].check = T.cols[c].check
    BY <2>1, <2>5, <2>6
  <2> QED BY <2>2, <2>4, <2>6
<1>4. ASSUME F.key = T.key, F.checks = T.checks, \A c \in DOMAIN T.cols : F.cols[c].check = T.cols[c].check
      PROVE  TableConstraints(t, F) = TableConstraints(t, T)
  <2>1. \A k : Has(F, k) <=> Has(T, k)
    BY <1>4
  <2> HIDE DEF Has
  <2> QED BY <1>1, <2>1
<1> QED BY <1>3, <1>4

\* What is left to do between two schemas, of which the first has its new names,
\* is nothing exactly if they are alike.
LEMMA DiffOfTheAlike ==
  ASSUME NEW p, p.tables = {}, p.columns = {}, NEW from, NEW to, Proper(from), Proper(to)
  PROVE  ~Structural(DiffSchemas(from, to, p, {})) <=> Alike(from, to)
<1> DEFINE d == DiffSchemas(from, to, p, {})
           both == DOMAIN from.vertices \intersect DOMAIN to.vertices
           F(t) == from.vertices[t]
           T(t) == to.vertices[t]
           Shared(t) == DOMAIN F(t).cols \intersect DOMAIN T(t).cols
           columns == UNION {{t} \X Shared(t) : t \in both}
           Same(i) == i \in DOMAIN from.indexes \intersect DOMAIN to.indexes /\ from.indexes[i] = to.indexes[i]
<1>1. /\ d.renames = p
      /\ d.added.vertices = DOMAIN to.vertices \ DOMAIN from.vertices
      /\ d.added.edges = DOMAIN to.edges \ DOMAIN from.edges
      /\ d.dropped.vertices = DOMAIN from.vertices \ DOMAIN to.vertices
      /\ d.dropped.edges = DOMAIN from.edges \ DOMAIN to.edges
  BY DEF DiffSchemas
<1>2. /\ d.addedColumns = UNION {{t} \X (DOMAIN T(t).cols \ DOMAIN F(t).cols) : t \in both}
      /\ d.droppedColumns = UNION {{t} \X (DOMAIN F(t).cols \ DOMAIN T(t).cols) : t \in both}
  BY DEF DiffSchemas
<1>3. /\ d.addedIndexes = {i \in DOMAIN to.indexes : ~Same(i)
                            /\ to.indexes[i].table \notin d.added.vertices \union d.added.edges}
      /\ d.droppedIndexes = {i \in DOMAIN from.indexes : ~Same(i)
                            /\ from.indexes[i].table \notin d.dropped.vertices \union d.dropped.edges}
  BY DEF DiffSchemas
<1>4. /\ d.addedUniques = {u \in columns : T(u[1]).cols[u[2]].unique /\ ~F(u[1]).cols[u[2]].unique}
      /\ d.droppedUniques = {u \in columns : F(u[1]).cols[u[2]].unique /\ ~T(u[1]).cols[u[2]].unique}
      /\ d.defaultChanges = {u \in columns : F(u[1]).cols[u[2]].default # T(u[1]).cols[u[2]].default}
      /\ d.typeChanges = {u \in columns : F(u[1]).cols[u[2]].type # T(u[1]).cols[u[2]].type}
  BY DEF DiffSchemas
<1>5. /\ d.addedConstraints = UNION {{[table |-> t, con |-> k] :
                               k \in TableConstraints(t, T(t)) \ TableConstraints(t, F(t))} : t \in both}
      /\ d.droppedConstraints = {} \union
                             UNION {{[table |-> t, con |-> k] :
                               k \in TableConstraints(t, F(t)) \ TableConstraints(t, T(t))} : t \in both}
  BY DEF DiffSchemas
<1> HIDE DEF d
<1>6. /\ d.addedColumns \union d.droppedColumns = {} <=> \A t \in both : DOMAIN F(t).cols = DOMAIN T(t).cols
      /\ d.addedConstraints \union d.droppedConstraints = {} <=>
           \A t \in both : TableConstraints(t, F(t)) = TableConstraints(t, T(t))
  <2>1. d.addedColumns \union d.droppedColumns = {} <=> \A t \in both : DOMAIN F(t).cols = DOMAIN T(t).cols
    <3>1. ASSUME d.addedColumns \union d.droppedColumns = {}, NEW t \in both, NEW c
          PROVE  c \in DOMAIN F(t).cols <=> c \in DOMAIN T(t).cols
      <4>1. <<t, c>> \notin d.addedColumns /\ <<t, c>> \notin d.droppedColumns
        BY <3>1
      <4> QED BY <1>2, <4>1
    <3>2. ASSUME \A t \in both : DOMAIN F(t).cols = DOMAIN T(t).cols
          PROVE  d.addedColumns \union d.droppedColumns = {}
      BY <1>2, <3>2
    <3> QED BY <3>1, <3>2
  <2>2. d.addedConstraints \union d.droppedConstraints = {} <=>
           \A t \in both : TableConstraints(t, F(t)) = TableConstraints(t, T(t))
    <3>1. ASSUME d.addedConstraints \union d.droppedConstraints = {}, NEW t \in both, NEW k
          PROVE  k \in TableConstraints(t, F(t)) <=> k \in TableConstraints(t, T(t))
      <4>1. [table |-> t, con |-> k] \notin d.addedConstraints /\ [table |-> t, con |-> k] \notin d.droppedConstraints
        BY <3>1
      <4> DEFINE More(x)  == TableConstraints(x, T(x)) \ TableConstraints(x, F(x))
                 Fewer(x) == TableConstraints(x, F(x)) \ TableConstraints(x, T(x))
      <4>2. /\ d.addedConstraints = UNION {{[table |-> x, con |-> j] : j \in More(x)} : x \in both}
            /\ d.droppedConstraints = {} \union UNION {{[table |-> x, con |-> j] : j \in Fewer(x)} : x \in both}
        BY <1>5
      <4> HIDE DEF More, Fewer
      <4>3. k \notin More(t) /\ k \notin Fewer(t)
        BY <4>1, <4>2
      <4> QED BY <4>3 DEF More, Fewer
    <3>2. ASSUME \A t \in both : TableConstraints(t, F(t)) = TableConstraints(t, T(t))
          PROVE  d.addedConstraints \union d.droppedConstraints = {}
      BY <1>5, <3>2
    <3> QED BY <3>1, <3>2
  <2> QED BY <2>1, <2>2
<1>7. d.addedUniques \union d.droppedUniques = {} /\ d.defaultChanges \union d.typeChanges = {} <=>
        \A t \in both : \A c \in Shared(t) : /\ F(t).cols[c].unique = T(t).cols[c].unique
                                             /\ F(t).cols[c].default = T(t).cols[c].default
                                             /\ F(t).cols[c].type = T(t).cols[c].type
  <2>1. \A t \in both : \A c \in Shared(t) :
           F(t).cols[c].unique \in BOOLEAN /\ T(t).cols[c].unique \in BOOLEAN
    BY DEF Proper, ProperTable, ProperColumn
  <2>2. \A t \in both : \A c \in Shared(t) : <<t, c>> \in columns /\ <<t, c>>[1] = t /\ <<t, c>>[2] = c
    OBVIOUS
  <2>3. \A u \in columns : u[1] \in both /\ u[2] \in Shared(u[1])
    OBVIOUS
  <2> HIDE DEF columns
  <2>4. ASSUME d.addedUniques \union d.droppedUniques = {}, d.defaultChanges \union d.typeChanges = {},
               NEW t \in both, NEW c \in Shared(t)
        PROVE  /\ F(t).cols[c].unique = T(t).cols[c].unique
               /\ F(t).cols[c].default = T(t).cols[c].default
               /\ F(t).cols[c].type = T(t).cols[c].type
    <3>1. /\ <<t, c>> \notin d.addedUniques /\ <<t, c>> \notin d.droppedUniques
          /\ <<t, c>> \notin d.defaultChanges /\ <<t, c>> \notin d.typeChanges
      BY <2>4
    <3>2. ~(T(t).cols[c].unique /\ ~F(t).cols[c].unique) /\ ~(F(t).cols[c].unique /\ ~T(t).cols[c].unique)
      BY <1>4, <2>2, <3>1, Zenon
    <3>3. F(t).cols[c].default = T(t).cols[c].default
      BY <1>4, <2>2, <3>1, Zenon
    <3>4. F(t).cols[c].type = T(t).cols[c].type
      BY <1>4, <2>2, <3>1, Zenon
    <3>5. F(t).cols[c].unique = T(t).cols[c].unique
      BY <2>1, <3>2
    <3> QED BY <3>3, <3>4, <3>5
  <2>5. ASSUME \A t \in both : \A c \in Shared(t) : /\ F(t).cols[c].unique = T(t).cols[c].unique
                                                    /\ F(t).cols[c].default = T(t).cols[c].default
                                                    /\ F(t).cols[c].type = T(t).cols[c].type
        PROVE  d.addedUniques \union d.droppedUniques = {} /\ d.defaultChanges \union d.typeChanges = {}
    <3>1. \A u \in columns : /\ F(u[1]).cols[u[2]].unique = T(u[1]).cols[u[2]].unique
                             /\ F(u[1]).cols[u[2]].default = T(u[1]).cols[u[2]].default
                             /\ F(u[1]).cols[u[2]].type = T(u[1]).cols[u[2]].type
      BY <2>3, <2>5
    <3>2. d.addedUniques = {} /\ d.droppedUniques = {}
      BY <1>4, <3>1, Zenon
    <3>3. d.defaultChanges = {} /\ d.typeChanges = {}
      BY <1>4, <3>1, Zenon
    <3> QED BY <3>2, <3>3
  <2> QED BY <2>4, <2>5
<1>8. ASSUME DOMAIN from.vertices = DOMAIN to.vertices, DOMAIN from.edges = DOMAIN to.edges
      PROVE  d.addedIndexes \union d.droppedIndexes = {} <=> from.indexes = to.indexes
  <2>1. /\ d.addedIndexes = {i \in DOMAIN to.indexes : ~Same(i)}
        /\ d.droppedIndexes = {i \in DOMAIN from.indexes : ~Same(i)}
    BY <1>1, <1>3, <1>8
  <2>2. ASSUME d.addedIndexes \union d.droppedIndexes = {} PROVE from.indexes = to.indexes
    <3>1. /\ \A i \in DOMAIN to.indexes : Same(i)
          /\ \A i \in DOMAIN from.indexes : Same(i)
      BY <2>1, <2>2
    <3>2. DOMAIN from.indexes = DOMAIN to.indexes
      BY <3>1
    <3> QED BY <3>1, <3>2 DEF Proper, ProperIndexes
  <2> QED BY <2>1, <2>2
<1>9. ~Structural(d) <=>
        /\ DOMAIN from.vertices = DOMAIN to.vertices
        /\ DOMAIN from.edges = DOMAIN to.edges
        /\ d.addedIndexes \union d.droppedIndexes = {}
        /\ d.addedUniques \union d.droppedUniques = {} /\ d.defaultChanges \union d.typeChanges = {}
        /\ d.addedColumns \union d.droppedColumns = {}
        /\ d.addedConstraints \union d.droppedConstraints = {}
  <2>1. d.added.vertices \union d.added.edges \union d.dropped.vertices \union d.dropped.edges = {} <=>
          DOMAIN from.vertices = DOMAIN to.vertices /\ DOMAIN from.edges = DOMAIN to.edges
    BY <1>1
  <2> QED BY <1>1, <2>1 DEF Structural
<1>10. ASSUME DOMAIN from.vertices = DOMAIN to.vertices,
              \A t \in both : DOMAIN F(t).cols = DOMAIN T(t).cols,
              NEW t \in both
       PROVE  TableConstraints(t, F(t)) = TableConstraints(t, T(t)) /\
              (\A c \in Shared(t) : /\ F(t).cols[c].unique = T(t).cols[c].unique
                                    /\ F(t).cols[c].default = T(t).cols[c].default
                                    /\ F(t).cols[c].type = T(t).cols[c].type) <=>
              AlikeTables(F(t), T(t))
  <2>1. ProperTable(F(t)) /\ ProperTable(T(t)) /\ DOMAIN F(t).cols = DOMAIN T(t).cols
    BY <1>10 DEF Proper
  <2>2. TableConstraints(t, F(t)) = TableConstraints(t, T(t)) <=>
           /\ F(t).key = T(t).key
           /\ F(t).checks = T(t).checks
           /\ \A c \in DOMAIN T(t).cols : F(t).cols[c].check = T(t).cols[c].check
    BY <2>1, SameKeysAndChecks
  <2> QED BY <2>1, <2>2 DEF AlikeTables, Compared
<1>11. Alike(from, to) <=>
         /\ DOMAIN from.vertices = DOMAIN to.vertices
         /\ DOMAIN from.edges = DOMAIN to.edges
         /\ from.indexes = to.indexes
         /\ \A t \in both : DOMAIN F(t).cols = DOMAIN T(t).cols
         /\ \A t \in both : AlikeTables(F(t), T(t))
  BY DEF Alike, AlikeTables
<1>12. ~Structural(d) <=> Alike(from, to)
  BY <1>6, <1>7, <1>8, <1>9, <1>10, <1>11
<1> QED BY <1>12 DEF d

LEMMA AlikeHaveNoRenames ==
  ASSUME NEW from, NEW to, Alike(from, to)
  PROVE  PlanRenames(from, to).tables = {} /\ PlanRenames(from, to).columns = {}
<1> DEFINE known == {t \in DOMAIN to.vertices : PriorTable(from, to, t) # None}
<1>1. \A t \in DOMAIN to.vertices : PriorTable(from, to, t) = t
  BY DEF Alike, PriorTable
<1>2. PlanRenames(from, to).tables =
        {[from |-> PriorTable(from, to, t), to |-> t] : t \in {k \in known : PriorTable(from, to, k) # k}}
  BY DEF PlanRenames
<1>3. PlanRenames(from, to).tables = {}
  BY <1>1, <1>2
<1>4. \A t \in DOMAIN to.vertices : \A c \in DOMAIN to.vertices[t].cols : PriorColumn(from, to, t, c) = None
  BY <1>1 DEF Alike, AlikeTables, PriorColumn
<1>5. \A r \in PlanRenames(from, to).columns :
         /\ r.from # None
         /\ \E t \in known : \E c \in DOMAIN to.vertices[t].cols :
               r = [table |-> t, from |-> PriorColumn(from, to, t, c), to |-> c]
  BY DEF PlanRenames
<1>6. PlanRenames(from, to).columns = {}
  BY <1>4, <1>5
<1> QED BY <1>3, <1>6

\* A delta owes nothing exactly if the schemas are alike: nothing else makes it
\* write, and none of what the differ compares is lost on the way through
\* renames and stale constraints.
LEMMA UnchangedMeansAlike ==
  ASSUME NEW from, NEW to, Proper(from), Proper(to)
  PROVE  ~DeltaClassified(from, to).changed <=> Alike(from, to)
<1> DEFINE p == PlanRenames(from, to)
           moved == Moved(from, p)
           q == WithoutStale(moved, p)
           d == DiffSchemas(q, to, p, Stale(moved, p))
<1>1. DeltaClassified(from, to).changed <=> Structural(d)
  BY DEF DeltaClassified, DeltaRenaming, DeltaAfter, Rendered
<1>2. d.renames = p
  BY DEF DiffSchemas
<1>3. ~Structural(d) => p.tables = {} /\ p.columns = {}
  <2> HIDE DEF d, p
  <2> QED BY <1>2 DEF Structural
<1>4. Alike(from, to) => p.tables = {} /\ p.columns = {}
  BY AlikeHaveNoRenames
<1>5. ASSUME p.tables = {}, p.columns = {} PROVE ~Structural(d) <=> Alike(from, to)
  <2> HIDE DEF p
  <2>1. Proper(q) /\ Alike(q, from) /\ Stale(moved, p) = {}
    BY <1>5, SameSchema
  <2> HIDE DEF moved, q
  <2>2. ~Structural(d) <=> Alike(q, to)
    BY <1>5, <2>1, DiffOfTheAlike
  <2>3. Alike(q, to) <=> Alike(from, to)
    BY <2>1 DEF Alike, AlikeTables
  <2> QED BY <2>2, <2>3
<1> HIDE DEF d, p
<1> QED BY <1>1, <1>3, <1>4, <1>5

LEMMA ProperWithoutUnmanaged ==
  ASSUME NEW m, NEW to, Proper(m)
  PROVE  Proper(WithoutUnmanaged(m, to))
<1> DEFINE w == WithoutUnmanaged(m, to)
<1>1. /\ DOMAIN w = DOMAIN m
      /\ DOMAIN w.vertices \subseteq DOMAIN m.vertices
      /\ \A t \in DOMAIN w.vertices : w.vertices[t] = m.vertices[t]
      /\ w.indexes = [i \in DOMAIN w.indexes |-> w.indexes[i]]
      /\ DOMAIN w.indexes \subseteq DOMAIN m.indexes
      /\ \A i \in DOMAIN w.indexes : w.indexes[i] = m.indexes[i]
  BY DEF Proper, WithoutUnmanaged, StripTables, Without, Restrict
<1> HIDE DEF w
<1>2. Proper(w)
  BY <1>1 DEF Proper, ProperIndexes
<1> QED BY <1>2 DEF w

LEMMA ProperClassified ==
  ASSUME NEW m, NEW like, Proper(m)
  PROVE  Proper(ClassifyLike(m, like))
<1> DEFINE q == ClassifyLike(m, like)
<1>1. /\ DOMAIN q = DOMAIN m
      /\ DOMAIN q.vertices \subseteq DOMAIN m.vertices
      /\ \A t \in DOMAIN q.vertices : q.vertices[t] = m.vertices[t]
      /\ q.indexes = m.indexes
  BY DEF Proper, ClassifyLike, Without, Restrict
<1> HIDE DEF q
<1>2. Proper(q)
  BY <1>1 DEF Proper
<1> QED BY <1>2 DEF q

\* The next generation writes nothing exactly if what the directory stands for
\* and what the SDL asks for are alike, table by table and column by column, and
\* (where gopgql keeps it) the graph is the one wanted.  One half is that a
\* second run is silent; the other, that a silent run has overlooked nothing.
THEOREM NoFilesExactlyIfAlike ==
  ASSUME NEW prior, NEW d, NEW g \in BOOLEAN, Proper(prior), Proper(d)
  PROVE  Plan(prior, d, g) = <<>> <=>
           /\ LET wanted == WithoutUnmanaged(d, d)
              IN  Alike(ClassifyLike(WithoutUnmanaged(prior, d), wanted), wanted)
           /\ g => GraphDDL(prior) = GraphDDL(d)
<1> DEFINE wanted == WithoutUnmanaged(d, d)
           had == ClassifyLike(WithoutUnmanaged(prior, d), wanted)
           delta == DeltaTables(prior, d)
<1>1. Proper(wanted) /\ Proper(had)
  BY ProperWithoutUnmanaged, ProperClassified
<1>2. ~delta.changed <=> Alike(had, wanted)
  <2>1. delta = DeltaClassified(had, wanted)
    BY DEF DeltaTables
  <2> HIDE DEF had, wanted
  <2> QED BY <1>1, <2>1, UnchangedMeansAlike
<1> DEFINE a == GraphDDL(prior)
           b == GraphDDL(d)
           teardown == g /\ a # None /\ (delta.changed \/ (g /\ a # b))
           build == g /\ b # None /\ ((g /\ a # b) \/ teardown)
           first == IF teardown THEN <<[up |-> <<DropGraph>>, down |-> <<CreateGraph(a)>>]>> ELSE <<>>
           second == IF delta.changed THEN <<[up |-> delta.up, down |-> delta.down]>> ELSE <<>>
           third == IF build THEN <<[up |-> <<CreateGraph(b)>>, down |-> <<DropGraph>>]>> ELSE <<>>
<1>3. Plan(prior, d, g) = first \o second \o third
  BY DEF Plan
<1> HIDE DEF had, wanted, delta, a, b
<1>4. first \o second \o third = <<>> <=> ~teardown /\ ~delta.changed /\ ~build
  <2>1. \A x : <<x>> # <<>> /\ Len(<<x>>) = 1
    OBVIOUS
  <2> QED OBVIOUS
<1>5. ~teardown /\ ~delta.changed /\ ~build <=> ~delta.changed /\ (g => a = b)
  OBVIOUS
<1> QED BY <1>2, <1>3, <1>4, <1>5 DEF had, wanted, a, b
==============================================================================
