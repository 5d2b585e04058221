---------------------------- MODULE Folding_proofs ----------------------------
(***************************************************************************)
(* What an Up section of plain statements does to a folded directory, in   *)
(* closed form: the statements that drop, and after them those that add,   *)
(* leave exactly the tables, columns, constraints and indexes their set    *)
(* says, in whatever order they come (AfterDrops and DropsFolded, AfterAdds*)
(* and AddsFolded).  The fold is by recursion along the section; that the  *)
(* statements do not depend on each other is why its result has one.       *)
(***************************************************************************)
EXTENDS Generations_proofs

\* The list q goes through the set S.
GoesThrough(q, S) == List(q) /\ Range(q) = S

LEMMA ListedHoldsTheSet ==
  ASSUME NEW S, IsFiniteSet(S)
  PROVE  GoesThrough(Listed(S), S)
<1> DEFINE n == Cardinality(S)
<1>1. n \in Nat /\ ExistsBijection(1..n, S)
  BY FS_CardinalityType
<1>2. \E f \in [1..n -> S] : IsInjective(f)
  BY <1>1 DEF ExistsBijection, Bijection, Injection, IsInjective
<1>3. SetToSeq(S) \in [1..n -> S] /\ IsInjective(SetToSeq(S))
  BY <1>2 DEF SetToSeq
<1> DEFINE f == SetToSeq(S)
<1>4. f \in Injection(1..n, S)
  BY <1>3 DEF Injection, IsInjective
<1>5. IsFiniteSet(1..n) /\ Cardinality(1..n) = n
  BY <1>1, FS_Interval
<1>6. f \in Surjection(1..n, S)
  BY <1>4, <1>5, FS_Injection
<1> HIDE DEF f
<1>7. Range(f) = S
  BY <1>3, <1>6 DEF Surjection, Range, f
<1>8. Listed(S) = f
  BY DEF Listed, f
<1>9. List(Listed(S))
  BY ListedIsOfTheSet, ListsAreLists
<1> QED BY <1>7, <1>8, <1>9 DEF GoesThrough

LEMMA InOrderHoldsTheSet ==
  ASSUME NEW S, S \subseteq Range(Alphabet)
  PROVE  GoesThrough(InOrder(S), S)
<1>1. PICK upTo : /\ upTo[0] = <<>>
                  /\ \A i \in 1..Len(Alphabet) :
                       upTo[i] = IF Alphabet[i] \in S THEN Append(upTo[i-1], Alphabet[i]) ELSE upTo[i-1]
                  /\ InOrder(S) = upTo[Len(Alphabet)]
  BY OrderingSteps
<1> DEFINE n == Len(Alphabet)
           Met(k) == {Alphabet[i] : i \in 1..k} \intersect S
           T == {k \in 0..n : upTo[k] \in Seq(S) /\ Met(k) \subseteq Range(upTo[k])}
<1>0. /\ n \in Nat /\ upTo[0] = <<>> /\ InOrder(S) = upTo[n]
      /\ \A i \in 1..n : upTo[i] = IF Alphabet[i] \in S THEN Append(upTo[i-1], Alphabet[i]) ELSE upTo[i-1]
      /\ Range(Alphabet) = {Alphabet[i] : i \in 1..n}
  BY <1>1, AlphabetIsAList DEF Range
<1> HIDE DEF n
<1>2. 0 \in T
  <2>1. 0 \in 0..n /\ <<>> \in Seq(S) /\ 1..0 = {}
    BY <1>0
  <2>2. Met(0) = {}
    BY <2>1
  <2> QED BY <1>0, <2>1, <2>2
<1>3. ASSUME NEW k \in 1..n, k-1 \in T PROVE k \in T
  <2>0. k \in 0..n
    BY <1>0
  <2>1. upTo[k-1] \in Seq(S) /\ Met(k-1) \subseteq Range(upTo[k-1])
    BY <1>3
  <2>2. upTo[k] = IF Alphabet[k] \in S THEN Append(upTo[k-1], Alphabet[k]) ELSE upTo[k-1]
    BY <1>0
  <2>3. Met(k) \subseteq Met(k-1) \union ({Alphabet[k]} \intersect S)
    BY <1>0
  <2> DEFINE q == upTo[k-1]
  <2>4. CASE Alphabet[k] \in S
    <3>1. Append(q, Alphabet[k]) \in Seq(S)
      BY <2>1, <2>4
    <3>2. Range(Append(q, Alphabet[k])) = Range(q) \union {Alphabet[k]}
      <4>1. /\ Len(q) \in Nat /\ DOMAIN q = 1..Len(q)
            /\ DOMAIN Append(q, Alphabet[k]) = 1..(Len(q)+1)
            /\ \A i \in 1..Len(q) : Append(q, Alphabet[k])[i] = q[i]
            /\ Append(q, Alphabet[k])[Len(q)+1] = Alphabet[k]
        BY <2>1
      <4> HIDE DEF q
      <4>2. 1..(Len(q)+1) = 1..Len(q) \union {Len(q)+1}
        BY <4>1
      <4> QED BY <4>1, <4>2 DEF Range
    <3> HIDE DEF Met, q
    <3>3. Met(k) \subseteq Range(upTo[k])
      BY <2>1, <2>2, <2>3, <2>4, <3>2 DEF q
    <3>4. upTo[k] \in Seq(S)
      BY <2>2, <2>4, <3>1 DEF q
    <3> QED BY <2>0, <3>3, <3>4
  <2>5. CASE Alphabet[k] \notin S
    <3>1. Met(k) \subseteq Met(k-1)
      BY <2>3, <2>5
    <3> HIDE DEF Met
    <3> QED BY <2>0, <2>1, <2>2, <2>5, <3>1
  <2> QED BY <2>4, <2>5
<1>4. n \in T
  <2>1. n \in 0..n
    BY <1>0
  <2> HIDE DEF T
  <2>2. \A i \in 0..n : i \in T
    BY <1>0, <1>2, <1>3, UpToInduction
  <2> QED BY <2>1, <2>2
<1>5. S \subseteq Range(InOrder(S)) /\ InOrder(S) \in Seq(S)
  BY <1>0, <1>4
<1>6. List(InOrder(S)) /\ \A i \in DOMAIN InOrder(S) : InOrder(S)[i] \in S
  BY <1>5, ListsAreLists
<1> QED BY <1>5, <1>6 DEF Range, GoesThrough

LEMMA EmptyGoesThrough == GoesThrough(<<>>, {})
BY DEF GoesThrough, List, Range

LEMMA OneGoesThrough ==
  ASSUME NEW s
  PROVE  GoesThrough(<<s>>, {s})
<1>1. <<s>> \in Seq({s}) /\ DOMAIN <<s>> = {1} /\ <<s>>[1] = s
  OBVIOUS
<1> QED BY <1>1 DEF GoesThrough, List, Range

LEMMA JoinedGoThrough ==
  ASSUME NEW p, NEW q, NEW S, NEW T, GoesThrough(p, S), GoesThrough(q, T)
  PROVE  GoesThrough(p \o q, S \union T)
<1> DEFINE U == S \union T
<1>1. p \in Seq(S) /\ q \in Seq(T) /\ S = Range(p) /\ T = Range(q)
  BY DEF GoesThrough, List
<1>2. p \in Seq(U) /\ q \in Seq(U)
  BY <1>1
<1>3. /\ Len(p) \in Nat /\ Len(q) \in Nat /\ DOMAIN p = 1..Len(p) /\ DOMAIN q = 1..Len(q)
      /\ p \o q \in Seq(U) /\ DOMAIN (p \o q) = 1..(Len(p) + Len(q))
      /\ \A i \in 1..Len(p) : (p \o q)[i] = p[i]
      /\ \A i \in 1..Len(q) : (p \o q)[Len(p) + i] = q[i]
  BY <1>2
<1>4. List(p \o q) /\ \A i \in DOMAIN (p \o q) : (p \o q)[i] \in U
  <2> HIDE DEF U
  <2> QED BY <1>3, ListsAreLists
<1>5. ASSUME NEW s \in S PROVE s \in Range(p \o q)
  <2>1. PICK i \in 1..Len(p) : s = p[i]
    BY <1>1, <1>3 DEF Range
  <2>2. i \in DOMAIN (p \o q)
    BY <1>3
  <2> QED BY <1>3, <2>1, <2>2 DEF Range
<1>6. ASSUME NEW s \in T PROVE s \in Range(p \o q)
  <2>1. PICK i \in 1..Len(q) : s = q[i]
    BY <1>1, <1>3 DEF Range
  <2>2. Len(p) + i \in DOMAIN (p \o q) /\ (p \o q)[Len(p) + i] = s
    BY <1>3, <2>1
  <2> QED BY <2>2 DEF Range
<1> QED BY <1>4, <1>5, <1>6 DEF GoesThrough, Range

\* Sections joined in a row go through what all of them go through.
LEMMA FlattenedGoesThrough ==
  ASSUME NEW sections, Len(sections) \in Nat, DOMAIN sections = 1..Len(sections),
         sections = <<>> \/ Len(sections) > 0,
         \A i \in DOMAIN sections : List(sections[i])
  PROVE  GoesThrough(FlattenSeq(sections), UNION {Range(sections[i]) : i \in DOMAIN sections})
<1> DEFINE n == Len(sections)
           Upto(k) == UNION {Range(sections[i]) : i \in 1..k}
<1>1. CASE n = 0
  <2>1. sections = <<>> /\ FlattenSeq(sections) = <<>>
    BY <1>1 DEF FlattenSeq
  <2>2. UNION {Range(sections[i]) : i \in DOMAIN sections} = {}
    BY <1>1
  <2> QED BY <2>1, <2>2, EmptyGoesThrough
<1>2. CASE n > 0
  <2>1. PICK flat : /\ flat[1] = sections[1]
                    /\ \A i \in 1..Len(sections) :
                         flat[i] = IF i = 1 THEN sections[i] ELSE flat[i-1] \o sections[i]
                    /\ FlattenSeq(sections) = flat[Len(sections)]
    BY <1>2, FlatteningSteps
  <2> DEFINE T == {k \in 0..n : k > 0 => GoesThrough(flat[k], Upto(k))}
  <2>2. 0 \in T
    OBVIOUS
  <2>3. ASSUME NEW k \in 1..n, k-1 \in T PROVE k \in T
    <3>1. flat[k] = IF k = 1 THEN sections[k] ELSE flat[k-1] \o sections[k]
      BY <2>1
    <3>2. GoesThrough(sections[k], Range(sections[k])) /\ k \in 0..n
      BY DEF GoesThrough
    <3>3. k # 1 => GoesThrough(flat[k-1], Upto(k-1))
      BY <2>3
    <3>4. Upto(k) = Upto(k-1) \union Range(sections[k])
      <4>1. 1..k = (1..(k-1)) \union {k}
        OBVIOUS
      <4> QED BY <4>1
    <3>5. k = 1 => Upto(k) = Range(sections[k])
      <4>1. k = 1 => 1..k = {k}
        OBVIOUS
      <4> QED BY <4>1
    <3> HIDE DEF Upto
    <3>6. GoesThrough(flat[k], Upto(k))
      <4>1. CASE k = 1
        BY <3>1, <3>2, <3>5, <4>1
      <4>2. CASE k # 1
        <5>1. GoesThrough(flat[k-1] \o sections[k], Upto(k-1) \union Range(sections[k]))
          BY <3>2, <3>3, <4>2, JoinedGoThrough
        <5> QED BY <3>1, <3>4, <4>2, <5>1
      <4> QED BY <4>1, <4>2
    <3> QED BY <3>2, <3>6
  <2>4. n \in T
    <3>1. n \in Nat /\ n \in 0..n
      OBVIOUS
    <3> HIDE DEF T
    <3>2. \A k \in 0..n : k \in T
      BY <2>2, <2>3, <3>1, UpToInduction
    <3> QED BY <3>1, <3>2
  <2> QED BY <1>2, <2>1, <2>4
<1> QED BY <1>1, <1>2

LEMMA DropsGoThrough ==
  ASSUME NEW S, S \subseteq Range(Alphabet)
  PROVE  GoesThrough(Drops(S), {DropTable(t) : t \in S})
<1> DEFINE q == InOrder(S)
           Made == {DropTable(t) : t \in S}
<1>1. q \in Seq(Range(q)) /\ Range(q) = S
  BY InOrderHoldsTheSet DEF GoesThrough, List
<1>2. Len(q) \in Nat /\ DOMAIN q = 1..Len(q) /\ \A i \in DOMAIN q : q[i] \in S
  BY <1>1
<1>3. Drops(S) = [i \in DOMAIN q |-> DropTable(q[i])]
  BY DEF Drops
<1> HIDE DEF q
<1>4. Drops(S) \in Seq(Made)
  <2> HIDE DEF Made
  <2>1. \A i \in DOMAIN q : DropTable(q[i]) \in Made
    BY <1>2 DEF Made
  <2> QED BY <1>2, <1>3, <2>1
<1>5. List(Drops(S)) /\ \A i \in DOMAIN Drops(S) : Drops(S)[i] \in Made
  <2> HIDE DEF Made
  <2> QED BY <1>4, ListsAreLists
<1>6. ASSUME NEW t \in S PROVE DropTable(t) \in Range(Drops(S))
  <2>1. PICK i \in DOMAIN q : q[i] = t
    BY <1>1 DEF Range
  <2>2. i \in DOMAIN Drops(S) /\ Drops(S)[i] = DropTable(t)
    BY <1>3, <2>1
  <2> QED BY <2>2 DEF Range
<1> QED BY <1>5, <1>6 DEF GoesThrough, Range

\* What TableCreateStmts goes through.
CreateStmts(m, t) ==
  {VertexTableDDL(v, m.vertices[v]) : v \in DOMAIN m.vertices \intersect {t}}
  \union {EdgeTableDDL(e, m.edges[e]) : e \in DOMAIN m.edges \intersect {t}}
  \union {IndexDDL(i, m.indexes[i]) : i \in {x \in DOMAIN m.indexes : m.indexes[x].table = t}}

LEMMA ImagesAreFinite ==
  ASSUME NEW f, IsFiniteSet(DOMAIN f)
  PROVE  IsFiniteSet({f[x] : x \in DOMAIN f})
<1> DEFINE S == DOMAIN f
           T == {f[x] : x \in S}
           h == [x \in S |-> f[x]]
<1>1. h \in [S -> T]
  OBVIOUS
<1>2. ASSUME NEW y \in T PROVE \E x \in S : h[x] = y
  OBVIOUS
<1>3. h \in Surjection(S, T)
  BY <1>1, <1>2 DEF Surjection
<1> HIDE DEF h, T
<1>4. IsFiniteSet(T)
  BY <1>3, FS_Surjection
<1> QED BY <1>4 DEF T

LEMMA TableCreateGoesThrough ==
  ASSUME NEW m, NEW t, IsFiniteSet(DOMAIN m.indexes)
  PROVE  GoesThrough(TableCreateStmts(m, t), CreateStmts(m, t))
<1> DEFINE vertex == IF t \in DOMAIN m.vertices THEN <<VertexTableDDL(t, m.vertices[t])>> ELSE <<>>
           edge   == IF t \in DOMAIN m.edges THEN <<EdgeTableDDL(t, m.edges[t])>> ELSE <<>>
           On     == {i \in DOMAIN m.indexes : m.indexes[i].table = t}
           Made   == {IndexDDL(i, m.indexes[i]) : i \in On}
           V == {VertexTableDDL(v, m.vertices[v]) : v \in DOMAIN m.vertices \intersect {t}}
           E == {EdgeTableDDL(e, m.edges[e]) : e \in DOMAIN m.edges \intersect {t}}
<1>1. TableCreateStmts(m, t) = (vertex \o edge) \o Listed(Made)
  BY DEF TableCreateStmts, Each
<1>2. GoesThrough(vertex, V)
  <2>1. CASE t \in DOMAIN m.vertices
    <3>1. V = {VertexTableDDL(t, m.vertices[t])}
      BY <2>1
    <3>2. vertex = <<VertexTableDDL(t, m.vertices[t])>>
      BY <2>1
    <3> HIDE DEF V, vertex
    <3> QED BY <3>1, <3>2, OneGoesThrough
  <2>2. CASE t \notin DOMAIN m.vertices
    BY <2>2, EmptyGoesThrough
  <2> QED BY <2>1, <2>2
<1>3. GoesThrough(edge, E)
  <2>1. CASE t \in DOMAIN m.edges
    <3>1. E = {EdgeTableDDL(t, m.edges[t])}
      BY <2>1
    <3>2. edge = <<EdgeTableDDL(t, m.edges[t])>>
      BY <2>1
    <3> HIDE DEF E, edge
    <3> QED BY <3>1, <3>2, OneGoesThrough
  <2>2. CASE t \notin DOMAIN m.edges
    BY <2>2, EmptyGoesThrough
  <2> QED BY <2>1, <2>2
<1>4. GoesThrough(Listed(Made), Made)
  <2> DEFINE f == [i \in On |-> IndexDDL(i, m.indexes[i])]
  <2>1. IsFiniteSet(On)
    BY FS_Subset
  <2>2. DOMAIN f = On /\ {f[x] : x \in DOMAIN f} = Made
    OBVIOUS
  <2> HIDE DEF f, Made, On
  <2>3. IsFiniteSet(Made)
    BY <2>1, <2>2, ImagesAreFinite
  <2> QED BY <2>3, ListedHoldsTheSet
<1> HIDE DEF vertex, edge, Made, V, E
<1>5. GoesThrough((vertex \o edge) \o Listed(Made), (V \union E) \union Made)
  <2>1. GoesThrough(vertex \o edge, V \union E)
    BY <1>2, <1>3, JoinedGoThrough
  <2> QED BY <1>4, <2>1, JoinedGoThrough
<1> QED BY <1>1, <1>5 DEF CreateStmts, V, E, Made, On

LEMMA CreatesGoThrough ==
  ASSUME NEW m, NEW S, S \subseteq Range(Alphabet), IsFiniteSet(DOMAIN m.indexes)
  PROVE  GoesThrough(Creates(m, S), UNION {CreateStmts(m, t) : t \in S})
<1> DEFINE q == InOrder(S)
           sections == [i \in DOMAIN q |-> TableCreateStmts(m, q[i])]
<1>1. q \in Seq(Range(q)) /\ Range(q) = S
  BY InOrderHoldsTheSet DEF GoesThrough, List
<1>2. Len(q) \in Nat /\ DOMAIN q = 1..Len(q) /\ \A i \in DOMAIN q : q[i] \in S
  BY <1>1
<1>3. Creates(m, S) = FlattenSeq(sections)
  BY DEF Creates
<1>4. /\ DOMAIN sections = 1..Len(q) /\ Len(sections) = Len(q)
      /\ sections = <<>> \/ Len(sections) > 0
      /\ \A i \in DOMAIN sections : sections[i] = TableCreateStmts(m, q[i])
  <2> HIDE DEF q
  <2> QED BY <1>2
<1> HIDE DEF sections, q
<1>5. \A i \in DOMAIN sections : List(sections[i]) /\ Range(sections[i]) = CreateStmts(m, q[i])
  BY <1>4, TableCreateGoesThrough DEF GoesThrough
<1>6. GoesThrough(FlattenSeq(sections), UNION {Range(sections[i]) : i \in DOMAIN sections})
  BY <1>2, <1>4, <1>5, FlattenedGoesThrough
<1>7. {Range(sections[i]) : i \in DOMAIN sections} = {CreateStmts(m, t) : t \in S}
  <2>1. {Range(sections[i]) : i \in DOMAIN sections} = {CreateStmts(m, q[i]) : i \in DOMAIN q}
    BY <1>2, <1>4, <1>5
  <2>2. {CreateStmts(m, q[i]) : i \in DOMAIN q} = {CreateStmts(m, t) : t \in S}
    BY <1>1, <1>2 DEF Range
  <2> QED BY <2>1, <2>2
<1> QED BY <1>3, <1>6, <1>7
------------------------------------------------------------------------------
(* Folding.                                                                *)

\* Two sections folded one after the other are one section folded.
LEMMA FoldingJoined ==
  ASSUME NEW f, NEW p, NEW q, List(p), List(q)
  PROVE  FoldSection(f, p \o q) = FoldSection(FoldSection(f, p), q)
<1> DEFINE U == Range(p) \union Range(q)
           m == Len(p)
           n == Len(q)
<1>0. /\ m \in Nat /\ n \in Nat /\ Len(p \o q) = m + n
      /\ \A i \in 1..m : (p \o q)[i] = p[i]
      /\ \A i \in 1..n : (p \o q)[m + i] = q[i]
  <2>1. p \in Seq(U) /\ q \in Seq(U)
    BY DEF List
  <2> HIDE DEF U
  <2> QED BY <2>1
<1>s1. PICK both : FoldsOf(both, f, p \o q)
  <2>1. Len(p \o q) \in Nat
    BY <1>0
  <2> QED BY <2>1, FoldHasSteps
<1>1. /\ both[0] = f
      /\ \A i \in 1..Len(p \o q) : both[i] = Applied(both[i-1], (p \o q)[i])
      /\ FoldSection(f, p \o q) = both[Len(p \o q)]
  BY <1>s1 DEF FoldsOf
<1>s2. PICK first : FoldsOf(first, f, p)
  <2>1. Len(p) \in Nat
    BY <1>0
  <2> QED BY <2>1, FoldHasSteps
<1>2. /\ first[0] = f
      /\ \A i \in 1..Len(p) : first[i] = Applied(first[i-1], p[i])
      /\ FoldSection(f, p) = first[Len(p)]
  BY <1>s2 DEF FoldsOf
<1> DEFINE g == FoldSection(f, p)
<1>s3. PICK second : FoldsOf(second, g, q)
  <2>1. Len(q) \in Nat
    BY <1>0
  <2> HIDE DEF g
  <2> QED BY <2>1, FoldHasSteps
<1>3. /\ second[0] = g
      /\ \A i \in 1..Len(q) : second[i] = Applied(second[i-1], q[i])
      /\ FoldSection(g, q) = second[Len(q)]
  BY <1>s3 DEF FoldsOf
<1> HIDE DEF m, n, g
<1>4. /\ both[0] = f /\ \A i \in 1..(m + n) : both[i] = Applied(both[i-1], (p \o q)[i])
      /\ first[0] = f /\ \A i \in 1..m : first[i] = Applied(first[i-1], p[i])
      /\ second[0] = first[m] /\ \A i \in 1..n : second[i] = Applied(second[i-1], q[i])
  BY <1>0, <1>1, <1>2, <1>3 DEF m, n, g
<1> DEFINE A == {i \in 0..m : both[i] = first[i]}
           B == {i \in 0..n : both[m + i] = second[i]}
<1>5. \A i \in 0..m : i \in A
  <2>1. 0 \in A
    BY <1>0, <1>4
  <2>2. ASSUME NEW i \in 1..m, i-1 \in A PROVE i \in A
    <3>1. both[i-1] = first[i-1] /\ i \in 0..m /\ i \in 1..(m + n)
      BY <1>0, <2>2
    <3>2. both[i] = Applied(both[i-1], p[i]) /\ first[i] = Applied(first[i-1], p[i])
      BY <1>0, <1>4, <3>1
    <3> QED BY <3>1, <3>2
  <2> HIDE DEF A
  <2> QED BY <1>0, <2>1, <2>2, UpToInduction
<1>6. \A i \in 0..n : i \in B
  <2>1. 0 \in B
    <3>1. m \in 0..m /\ 0 \in 0..n /\ m + 0 = m
      BY <1>0
    <3> QED BY <1>4, <1>5, <3>1
  <2>2. ASSUME NEW i \in 1..n, i-1 \in B PROVE i \in B
    <3>1. both[m + (i-1)] = second[i-1] /\ i \in 0..n /\ m + i \in 1..(m + n) /\ m + (i-1) = (m + i) - 1
      BY <1>0, <2>2
    <3>2. both[m + i] = Applied(both[(m + i) - 1], q[i]) /\ second[i] = Applied(second[i-1], q[i])
      BY <1>0, <1>4, <3>1
    <3> QED BY <3>1, <3>2
  <2> HIDE DEF B
  <2> QED BY <1>0, <2>1, <2>2, UpToInduction
<1>7. both[m + n] = second[n]
  <2>1. n \in 0..n
    BY <1>0
  <2> QED BY <1>6, <2>1
<1> QED BY <1>0, <1>1, <1>3, <1>7 DEF m, n, g

\* A folder, with its columns and the constraints it holds by name.
IsColumn(col) == col = [type |-> col.type, primary |-> col.primary, unique |-> col.unique,
                        default |-> col.default, check |-> col.check, ref |-> col.ref, was |-> col.was]

IsHeld(t, name) == name.table = t /\ name.role \in {"natural_key", "column_check", "table_check"}

ReadableFolder(f) ==
  /\ f = [cols |-> f.cols, cons |-> f.cons, indexes |-> f.indexes, graph |-> f.graph, ok |-> TRUE]
  /\ f.cols = [t \in DOMAIN f.cols |-> [c \in DOMAIN f.cols[t] |-> f.cols[t][c]]]
  /\ f.cons = [t \in DOMAIN f.cols |-> [n \in DOMAIN f.cons[t] |-> f.cons[t][n]]]
  /\ f.indexes = [i \in DOMAIN f.indexes |-> f.indexes[i]]
  /\ \A t \in DOMAIN f.cols : /\ \A c \in DOMAIN f.cols[t] : IsColumn(f.cols[t][c])
                              /\ \A n \in DOMAIN f.cons[t] : IsHeld(t, n)
------------------------------------------------------------------------------
(* What statements that drop leave of a folder: P holds them, and it does   *)
(* not matter in which order they come.                                    *)

ColumnsAfterDrops(t, cols, P) ==
  [c \in {x \in DOMAIN cols : DropColumn(t, x) \notin P} |->
     IF DropUnique(<<t, c>>) \in P THEN [cols[c] EXCEPT !.unique = FALSE] ELSE cols[c]]

HeldAfterDrops(t, cons, P) == [n \in {x \in DOMAIN cons : DropConstraint(t, x) \notin P} |-> cons[n]]
IndexesAfterDrops(indexes, P) ==
  [i \in {x \in DOMAIN indexes : DropIndex(x, indexes[x]) \notin P /\ DropTable(indexes[x].table) \notin P}
     |-> indexes[i]]

Spared(f, P) == {t \in DOMAIN f.cols : DropTable(t) \notin P}

AfterDrops(f, P) ==
  [cols |-> [t \in Spared(f, P) |-> ColumnsAfterDrops(t, f.cols[t], P)],
   cons |-> [t \in Spared(f, P) |-> HeldAfterDrops(t, f.cons[t], P)],
   indexes |-> IndexesAfterDrops(f.indexes, P), graph |-> f.graph, ok |-> TRUE]

\* Statements that drop what there is, each of it once.
DropFrom(f, S) ==
  \A s \in S :
    \/ \E t \in DOMAIN f.cols : s = DropTable(t)
    \/ \E i \in DOMAIN f.indexes : s = DropIndex(i, f.indexes[i])
    \/ \E t \in DOMAIN f.cols :
         /\ DropTable(t) \notin S
         /\ \/ \E c \in DOMAIN f.cols[t] : s = DropColumn(t, c)
            \/ \E c \in DOMAIN f.cols[t] : s = DropUnique(<<t, c>>) /\ DropColumn(t, c) \notin S
            \/ \E n \in DOMAIN f.cons[t] : s = DropConstraint(t, n)

LEMMA NothingDropped ==
  ASSUME NEW f, ReadableFolder(f)
  PROVE  AfterDrops(f, {}) = f
<1>1. Spared(f, {}) = DOMAIN f.cols
  BY DEF Spared
<1>2. ASSUME NEW t \in DOMAIN f.cols
      PROVE  ColumnsAfterDrops(t, f.cols[t], {}) = [c \in DOMAIN f.cols[t] |-> f.cols[t][c]]
  BY DEF ColumnsAfterDrops
<1>3. ASSUME NEW t \in DOMAIN f.cols
      PROVE  HeldAfterDrops(t, f.cons[t], {}) = [n \in DOMAIN f.cons[t] |-> f.cons[t][n]]
  BY DEF HeldAfterDrops
<1>4. IndexesAfterDrops(f.indexes, {}) = [i \in DOMAIN f.indexes |-> f.indexes[i]]
  BY DEF IndexesAfterDrops
<1>5. AfterDrops(f, {}).cols = f.cols
  BY <1>1, <1>2 DEF AfterDrops, ReadableFolder
<1>6. AfterDrops(f, {}).cons = f.cons
  BY <1>1, <1>3 DEF AfterDrops, ReadableFolder
<1>7. AfterDrops(f, {}).indexes = f.indexes
  BY <1>4 DEF AfterDrops, ReadableFolder
<1>8. /\ AfterDrops(f, {}).graph = f.graph /\ AfterDrops(f, {}).ok = TRUE
      /\ AfterDrops(f, {}) = [cols |-> AfterDrops(f, {}).cols, cons |-> AfterDrops(f, {}).cons,
                              indexes |-> AfterDrops(f, {}).indexes, graph |-> AfterDrops(f, {}).graph,
                              ok |-> AfterDrops(f, {}).ok]
  BY DEF AfterDrops
<1> QED BY <1>5, <1>6, <1>7, <1>8 DEF ReadableFolder

\* One more statement: a table.
LEMMA TableDropped ==
  ASSUME NEW f, NEW P, NEW t \in DOMAIN f.cols
  PROVE  Apply(AfterDrops(f, P), DropTable(t)) = AfterDrops(f, P \union {DropTable(t)})
<1> DEFINE s == DropTable(t)
           g == AfterDrops(f, P)
           Q == P \union {s}
           h == ApplyDropTable(g, t)
<1>0. Apply(g, s) = h
  BY DEF Apply, DropTable
<1>1. /\ \A x : DropTable(x) \in Q <=> (DropTable(x) \in P \/ x = t)
      /\ \A x, c : DropColumn(x, c) \in Q <=> DropColumn(x, c) \in P
      /\ \A x, n : DropConstraint(x, n) \in Q <=> DropConstraint(x, n) \in P
      /\ \A x, i : DropIndex(x, i) \in Q <=> DropIndex(x, i) \in P
  BY DEF DropTable, DropColumn, DropConstraint, DropIndex
<1>2. \A x, c : DropUnique(<<x, c>>) \in Q <=> DropUnique(<<x, c>>) \in P
  BY <1>1 DEF DropUnique
<1> HIDE DEF Q
<1> HIDE DEF h, g
<1>3. /\ h.cols = Without(g.cols, {t}) /\ h.cons = Without(g.cons, {t}) /\ h.graph = g.graph /\ h.ok = g.ok
      /\ h.indexes = Without(g.indexes, {i \in DOMAIN g.indexes : g.indexes[i].table = t})
      /\ h = [cols |-> h.cols, cons |-> h.cons, indexes |-> h.indexes, graph |-> h.graph, ok |-> h.ok]
  <2>1. g = [cols |-> g.cols, cons |-> g.cons, indexes |-> g.indexes, graph |-> g.graph, ok |-> g.ok]
    BY DEF AfterDrops, g
  <2> DEFINE a == Without(g.cols, {t})
             b == Without(g.cons, {t})
             e == Without(g.indexes, {i \in DOMAIN g.indexes : g.indexes[i].table = t})
  <2>2. h = [g EXCEPT !.cols = a, !.cons = b, !.indexes = e]
    BY DEF ApplyDropTable, h
  <2> HIDE DEF a, b, e
  <2>3. h = [cols |-> a, cons |-> b, indexes |-> e, graph |-> g.graph, ok |-> g.ok]
    BY <2>1, <2>2
  <2> QED BY <2>3 DEF a, b, e
<1>4. Spared(f, Q) = Spared(f, P) \ {t}
  BY <1>1 DEF Spared
<1>5. /\ \A x, cols : ColumnsAfterDrops(x, cols, Q) = ColumnsAfterDrops(x, cols, P)
      /\ \A x, cons : HeldAfterDrops(x, cons, Q) = HeldAfterDrops(x, cons, P)
  BY <1>1, <1>2 DEF ColumnsAfterDrops, HeldAfterDrops
<1>6. h.cols = [x \in Spared(f, Q) |-> ColumnsAfterDrops(x, f.cols[x], Q)]
  BY <1>3, <1>4, <1>5 DEF AfterDrops, Without, Restrict, g
<1>7. h.cons = [x \in Spared(f, Q) |-> HeldAfterDrops(x, f.cons[x], Q)]
  BY <1>3, <1>4, <1>5 DEF AfterDrops, Without, Restrict, g
<1>8. h.indexes = IndexesAfterDrops(f.indexes, Q)
  <2> DEFINE Left(O) == {i \in DOMAIN f.indexes : /\ DropIndex(i, f.indexes[i]) \notin O
                                                 /\ DropTable(f.indexes[i].table) \notin O}
  <2>1. g.indexes = IndexesAfterDrops(f.indexes, P)
    BY DEF AfterDrops, g
  <2>2. /\ g.indexes = [i \in Left(P) |-> f.indexes[i]]
        /\ DOMAIN g.indexes = Left(P)
        /\ \A i \in Left(P) : g.indexes[i] = f.indexes[i]
    BY <2>1 DEF IndexesAfterDrops
  <2>3. Left(P) \ {i \in DOMAIN g.indexes : g.indexes[i].table = t} = Left(Q)
    BY <1>1, <2>2
  <2>4. h.indexes = [i \in Left(Q) |-> g.indexes[i]]
    BY <1>3, <2>2, <2>3 DEF Without, Restrict
  <2>5. \A i \in Left(Q) : i \in Left(P)
    BY <2>3
  <2> HIDE DEF Left
  <2>6. h.indexes = [i \in Left(Q) |-> f.indexes[i]]
    BY <2>2, <2>4, <2>5
  <2> QED BY <2>6 DEF IndexesAfterDrops, Left
<1>9. h = AfterDrops(f, Q)
  BY <1>3, <1>6, <1>7, <1>8 DEF AfterDrops, g
<1> QED BY <1>0, <1>9 DEF Q, g

\* A folder is its fields; and some of them edited.
IsFolder(f) ==
  f = [cols |-> f.cols, cons |-> f.cons, indexes |-> f.indexes, graph |-> f.graph, ok |-> f.ok]

LEMMA DroppedIsFolder ==
  ASSUME NEW f, NEW P
  PROVE  /\ IsFolder(AfterDrops(f, P)) /\ AfterDrops(f, P).ok = TRUE
         /\ DOMAIN AfterDrops(f, P).cols = Spared(f, P) /\ DOMAIN AfterDrops(f, P).cons = Spared(f, P)
         /\ \A t \in Spared(f, P) : /\ AfterDrops(f, P).cols[t] = ColumnsAfterDrops(t, f.cols[t], P)
                                    /\ AfterDrops(f, P).cons[t] = HeldAfterDrops(t, f.cons[t], P)
         /\ AfterDrops(f, P).indexes = IndexesAfterDrops(f.indexes, P)
         /\ AfterDrops(f, P).graph = f.graph
BY DEF AfterDrops, IsFolder

LEMMA ColumnsEdited ==
  ASSUME NEW g, IsFolder(g), NEW t, NEW cols
  PROVE  /\ IsFolder([g EXCEPT !.cols[t] = cols])
         /\ [g EXCEPT !.cols[t] = cols].cols = [g.cols EXCEPT ![t] = cols]
         /\ [g EXCEPT !.cols[t] = cols].cons = g.cons /\ [g EXCEPT !.cols[t] = cols].indexes = g.indexes
         /\ [g EXCEPT !.cols[t] = cols].graph = g.graph /\ [g EXCEPT !.cols[t] = cols].ok = g.ok
<1> DEFINE e == [g.cols EXCEPT ![t] = cols]
           h == [g EXCEPT !.cols[t] = cols]
<1>1. h = [g EXCEPT !.cols = e]
  OBVIOUS
<1> HIDE DEF h, e
<1>2. h = [cols |-> e, cons |-> g.cons, indexes |-> g.indexes, graph |-> g.graph, ok |-> g.ok]
  BY <1>1 DEF IsFolder
<1>3. IsFolder(h) /\ h.cols = e /\ h.cons = g.cons /\ h.indexes = g.indexes /\ h.graph = g.graph /\ h.ok = g.ok
  BY <1>2 DEF IsFolder
<1> QED BY <1>3 DEF h, e

LEMMA HeldEdited ==
  ASSUME NEW g, IsFolder(g), NEW t, NEW cons
  PROVE  /\ IsFolder([g EXCEPT !.cons[t] = cons])
         /\ [g EXCEPT !.cons[t] = cons].cons = [g.cons EXCEPT ![t] = cons]
         /\ [g EXCEPT !.cons[t] = cons].cols = g.cols /\ [g EXCEPT !.cons[t] = cons].indexes = g.indexes
         /\ [g EXCEPT !.cons[t] = cons].graph = g.graph /\ [g EXCEPT !.cons[t] = cons].ok = g.ok
<1> DEFINE e == [g.cons EXCEPT ![t] = cons]
           h == [g EXCEPT !.cons[t] = cons]
<1>1. h = [g EXCEPT !.cons = e]
  OBVIOUS
<1> HIDE DEF h, e
<1>2. h = [cols |-> g.cols, cons |-> e, indexes |-> g.indexes, graph |-> g.graph, ok |-> g.ok]
  BY <1>1 DEF IsFolder
<1>3. IsFolder(h) /\ h.cols = g.cols /\ h.cons = e /\ h.indexes = g.indexes /\ h.graph = g.graph /\ h.ok = g.ok
  BY <1>2 DEF IsFolder
<1> QED BY <1>3 DEF h, e

LEMMA IndexesEdited ==
  ASSUME NEW g, IsFolder(g), NEW indexes
  PROVE  /\ IsFolder([g EXCEPT !.indexes = indexes])
         /\ [g EXCEPT !.indexes = indexes].indexes = indexes
         /\ [g EXCEPT !.indexes = indexes].cols = g.cols /\ [g EXCEPT !.indexes = indexes].cons = g.cons
         /\ [g EXCEPT !.indexes = indexes].graph = g.graph /\ [g EXCEPT !.indexes = indexes].ok = g.ok
<1> DEFINE h == [g EXCEPT !.indexes = indexes]
<1> HIDE DEF h
<1>1. h = [cols |-> g.cols, cons |-> g.cons, indexes |-> indexes, graph |-> g.graph, ok |-> g.ok]
  BY DEF IsFolder, h
<1>2. IsFolder(h) /\ h.cols = g.cols /\ h.cons = g.cons /\ h.indexes = indexes /\ h.graph = g.graph /\ h.ok = g.ok
  BY <1>1 DEF IsFolder
<1> QED BY <1>2 DEF h

\* Which statements are which.
LEMMA DropsAreApart ==
  /\ \A t, x : DropTable(t) = DropTable(x) <=> t = x
  /\ \A t, c, x, d : DropColumn(t, c) = DropColumn(x, d) <=> t = x /\ c = d
  /\ \A t, n, x, m : DropConstraint(t, n) = DropConstraint(x, m) <=> t = x /\ n = m
  /\ \A i, ix, j, jx : DropIndex(i, ix) = DropIndex(j, jx) <=> i = j /\ ix.table = jx.table
  /\ \A t, x, c : DropTable(t) # DropColumn(x, c)
  /\ \A t, x, n : DropTable(t) # DropConstraint(x, n)
  /\ \A t, i, ix : DropTable(t) # DropIndex(i, ix)
  /\ \A t, c, x, n : DropColumn(t, c) # DropConstraint(x, n)
  /\ \A t, c, i, ix : DropColumn(t, c) # DropIndex(i, ix)
  /\ \A t, n, i, ix : DropConstraint(t, n) # DropIndex(i, ix)
<1>1. \A t, x : DropTable(t) = DropTable(x) <=> t = x
  <2>1. \A t : DropTable(t).table = t
    BY DEF DropTable
  <2> QED BY <2>1
<1>2. \A t, c, x, d : DropColumn(t, c) = DropColumn(x, d) <=> t = x /\ c = d
  <2>1. \A t, c : DropColumn(t, c).table = t /\ DropColumn(t, c).column = c
    BY DEF DropColumn
  <2> QED BY <2>1
<1>3. \A t, n, x, m : DropConstraint(t, n) = DropConstraint(x, m) <=> t = x /\ n = m
  <2>1. \A t, n : DropConstraint(t, n).table = t /\ DropConstraint(t, n).name = n
    BY DEF DropConstraint
  <2> QED BY <2>1
<1>4. \A i, ix, j, jx : DropIndex(i, ix) = DropIndex(j, jx) <=> i = j /\ ix.table = jx.table
  <2>1. \A i, ix : DropIndex(i, ix).index = i /\ DropIndex(i, ix).table = ix.table
    BY DEF DropIndex
  <2>2. \A i, ix, jx : ix.table = jx.table => DropIndex(i, ix) = DropIndex(i, jx)
    BY DEF DropIndex
  <2> QED BY <2>1, <2>2
<1>5. /\ \A t : DropTable(t).op = "drop_table"
      /\ \A t, c : DropColumn(t, c).op = "drop_column"
      /\ \A t, n : DropConstraint(t, n).op = "drop_constraint"
      /\ \A i, ix : DropIndex(i, ix).op = "drop_index"
  BY DEF DropTable, DropColumn, DropConstraint, DropIndex
<1>6. /\ \A t, x, c : DropTable(t) # DropColumn(x, c)
      /\ \A t, x, n : DropTable(t) # DropConstraint(x, n)
      /\ \A t, i, ix : DropTable(t) # DropIndex(i, ix)
  BY <1>5
<1>7. /\ \A t, c, x, n : DropColumn(t, c) # DropConstraint(x, n)
      /\ \A t, c, i, ix : DropColumn(t, c) # DropIndex(i, ix)
      /\ \A t, n, i, ix : DropConstraint(t, n) # DropIndex(i, ix)
  BY <1>5
<1> QED BY <1>1, <1>2, <1>3, <1>4, <1>6, <1>7

\* One more statement: a column.
LEMMA ColumnDropped ==
  ASSUME NEW f, NEW P, NEW t \in Spared(f, P), NEW c
  PROVE  Apply(AfterDrops(f, P), DropColumn(t, c)) = AfterDrops(f, P \union {DropColumn(t, c)})
<1> DEFINE s == DropColumn(t, c)
           g == AfterDrops(f, P)
           Q == P \union {s}
           k == AfterDrops(f, Q)
           new == Without(g.cols[t], {c})
           h == [g EXCEPT !.cols[t] = new]
<1>0. Apply(g, s) = h
  <2>1. t \in DOMAIN g.cols
    BY DEF AfterDrops
  <2>2. Apply(g, s) = FoldDropColumn(g, t, c)
    BY DEF Apply, DropColumn
  <2> HIDE DEF g
  <2> QED BY <2>1, <2>2 DEF FoldDropColumn, WithColumnsOf, FoldedColumns
<1>1. /\ \A x : DropTable(x) \in Q <=> DropTable(x) \in P
      /\ \A x, d : DropColumn(x, d) \in Q <=> (DropColumn(x, d) \in P \/ (x = t /\ d = c))
      /\ \A x, n : DropConstraint(x, n) \in Q <=> DropConstraint(x, n) \in P
      /\ \A x, i : DropIndex(x, i) \in Q <=> DropIndex(x, i) \in P
  BY DropsAreApart
<1> HIDE DEF Q, s
<1>2. \A u : DropUnique(u) \in Q <=> DropUnique(u) \in P
  BY <1>1 DEF DropUnique
<1>3. /\ Spared(f, Q) = Spared(f, P) /\ IndexesAfterDrops(f.indexes, Q) = IndexesAfterDrops(f.indexes, P)
      /\ \A x, cons : HeldAfterDrops(x, cons, Q) = HeldAfterDrops(x, cons, P)
      /\ \A x, cols : x # t => ColumnsAfterDrops(x, cols, Q) = ColumnsAfterDrops(x, cols, P)
  BY <1>1, <1>2 DEF Spared, IndexesAfterDrops, HeldAfterDrops, ColumnsAfterDrops
<1>4. \A cols : ColumnsAfterDrops(t, cols, Q) = Without(ColumnsAfterDrops(t, cols, P), {c})
  BY <1>1, <1>2 DEF ColumnsAfterDrops, Without, Restrict
<1>5. /\ IsFolder(g) /\ g.ok = TRUE
      /\ DOMAIN g.cols = Spared(f, P) /\ DOMAIN g.cons = Spared(f, P)
      /\ \A x \in Spared(f, P) : /\ g.cols[x] = ColumnsAfterDrops(x, f.cols[x], P)
                                 /\ g.cons[x] = HeldAfterDrops(x, f.cons[x], P)
      /\ g.indexes = IndexesAfterDrops(f.indexes, P) /\ g.graph = f.graph
  BY DroppedIsFolder
<1> HIDE DEF g
<1>6. /\ IsFolder(h) /\ h.cols = [g.cols EXCEPT ![t] = new]
      /\ h.cons = g.cons /\ h.indexes = g.indexes /\ h.graph = g.graph /\ h.ok = g.ok
  BY <1>5, ColumnsEdited
<1>7. /\ k.cols = [x \in Spared(f, Q) |-> ColumnsAfterDrops(x, f.cols[x], Q)]
      /\ k.cons = [x \in Spared(f, Q) |-> HeldAfterDrops(x, f.cons[x], Q)]
      /\ k.indexes = IndexesAfterDrops(f.indexes, Q) /\ k.graph = f.graph /\ k.ok = TRUE /\ IsFolder(k)
  BY DEF AfterDrops, IsFolder
<1> HIDE DEF h, k
<1>8. h.cols = k.cols
  <2>1. new = ColumnsAfterDrops(t, f.cols[t], Q)
    BY <1>4, <1>5
  <2> HIDE DEF new
  <2> QED BY <1>3, <1>5, <1>6, <1>7, <2>1
<1>9. h.cons = k.cons
  <2>1. g.cons = [x \in Spared(f, P) |-> HeldAfterDrops(x, f.cons[x], P)]
    BY DEF AfterDrops, g
  <2> QED BY <1>3, <1>6, <1>7, <2>1
<1>10. h = k
  BY <1>3, <1>5, <1>6, <1>7, <1>8, <1>9 DEF IsFolder
<1> QED BY <1>0, <1>10 DEF g, k, Q, s

\* One more statement: the UNIQUE of a column.
LEMMA UniqueDropped ==
  ASSUME NEW f, ReadableFolder(f), NEW P, NEW t \in Spared(f, P),
         NEW c \in DOMAIN f.cols[t], DropColumn(t, c) \notin P
  PROVE  Apply(AfterDrops(f, P), DropUnique(<<t, c>>)) = AfterDrops(f, P \union {DropUnique(<<t, c>>)})
<1> DEFINE s == DropUnique(<<t, c>>)
           g == AfterDrops(f, P)
           Q == P \union {s}
           k == AfterDrops(f, Q)
           new == [g.cols[t] EXCEPT ![c].unique = FALSE]
           h == [g EXCEPT !.cols[t] = new]
           name == UniqueConstraintName(t, c)
<1>5. /\ IsFolder(g) /\ g.ok = TRUE
      /\ DOMAIN g.cols = Spared(f, P) /\ DOMAIN g.cons = Spared(f, P)
      /\ \A x \in Spared(f, P) : /\ g.cols[x] = ColumnsAfterDrops(x, f.cols[x], P)
                                 /\ g.cons[x] = HeldAfterDrops(x, f.cons[x], P)
      /\ g.indexes = IndexesAfterDrops(f.indexes, P) /\ g.graph = f.graph
  BY DroppedIsFolder
<1>0. Apply(g, s) = h
  <2>1. c \in DOMAIN g.cols[t]
    BY <1>5 DEF ColumnsAfterDrops
  <2>2. s = DropConstraint(t, name)
    BY DEF DropUnique
  <2>3. name.role = "unique" /\ name.table = t /\ name.column = c
    BY DEF UniqueConstraintName
  <2> HIDE DEF g, name, s
  <2>4. Apply(g, s) = ApplyConstraint(g, t, [name |-> name], FALSE)
    BY <2>2 DEF Apply, DropConstraint
  <2>5. Apply(g, s) = [g EXCEPT !.cols[t][c].unique = FALSE]
    BY <1>5, <2>1, <2>3, <2>4 DEF ApplyConstraint, ClassifyConstraint
  <2> QED BY <2>5
<1>1. /\ \A x : DropTable(x) \in Q <=> DropTable(x) \in P
      /\ \A x, d : DropColumn(x, d) \in Q <=> DropColumn(x, d) \in P
      /\ \A x, n : DropConstraint(x, n) \in Q <=> (DropConstraint(x, n) \in P \/ (x = t /\ n = name))
      /\ \A x, i : DropIndex(x, i) \in Q <=> DropIndex(x, i) \in P
  BY DropsAreApart DEF DropUnique
<1>2. \A x, d : DropUnique(<<x, d>>) \in Q <=> (DropUnique(<<x, d>>) \in P \/ (x = t /\ d = c))
  <2>1. \A x, d : UniqueConstraintName(x, d) = name => d = c
    BY DEF UniqueConstraintName
  <2>3. name = UniqueConstraintName(t, c)
    OBVIOUS
  <2> HIDE DEF Q, name
  <2>2. \A x, d : DropUnique(<<x, d>>) = DropConstraint(x, UniqueConstraintName(x, d))
    BY DEF DropUnique
  <2>4. ASSUME NEW x, NEW d PROVE DropUnique(<<x, d>>) \in Q <=> (DropUnique(<<x, d>>) \in P \/ (x = t /\ d = c))
    <3>1. x = t /\ d = c => UniqueConstraintName(x, d) = name
      BY <2>3
    <3>2. DropConstraint(x, UniqueConstraintName(x, d)) \in Q <=>
            (DropConstraint(x, UniqueConstraintName(x, d)) \in P \/ (x = t /\ UniqueConstraintName(x, d) = name))
      BY <1>1
    <3> QED BY <2>1, <2>2, <3>1, <3>2
  <2> QED BY <2>4
<1> HIDE DEF Q, s
<1>3. /\ Spared(f, Q) = Spared(f, P) /\ IndexesAfterDrops(f.indexes, Q) = IndexesAfterDrops(f.indexes, P)
      /\ \A x, cols : x # t => ColumnsAfterDrops(x, cols, Q) = ColumnsAfterDrops(x, cols, P)
  BY <1>1, <1>2 DEF Spared, IndexesAfterDrops, ColumnsAfterDrops
<1>4. \A x \in Spared(f, P) : HeldAfterDrops(x, f.cons[x], Q) = HeldAfterDrops(x, f.cons[x], P)
  <2>1. \A x \in Spared(f, P) : \A n \in DOMAIN f.cons[x] : n.role # "unique"
    BY DEF ReadableFolder, Spared, IsHeld
  <2>2. name.role = "unique"
    BY DEF UniqueConstraintName
  <2> HIDE DEF name
  <2>3. \A x \in Spared(f, P) : \A n \in DOMAIN f.cons[x] : DropConstraint(x, n) \in Q <=> DropConstraint(x, n) \in P
    BY <1>1, <2>1, <2>2
  <2> QED BY <2>3 DEF HeldAfterDrops
<1> HIDE DEF g, name
<1>6. /\ IsFolder(h) /\ h.cols = [g.cols EXCEPT ![t] = new]
      /\ h.cons = g.cons /\ h.indexes = g.indexes /\ h.graph = g.graph /\ h.ok = g.ok
  BY <1>5, ColumnsEdited
<1>7. /\ k.cols = [x \in Spared(f, Q) |-> ColumnsAfterDrops(x, f.cols[x], Q)]
      /\ k.cons = [x \in Spared(f, Q) |-> HeldAfterDrops(x, f.cons[x], Q)]
      /\ k.indexes = IndexesAfterDrops(f.indexes, Q) /\ k.graph = f.graph /\ k.ok = TRUE /\ IsFolder(k)
  BY DEF AfterDrops, IsFolder
<1> HIDE DEF h, k
<1>8. new = ColumnsAfterDrops(t, f.cols[t], Q)
  <2> DEFINE old == f.cols[t]
             was == ColumnsAfterDrops(t, old, P)
             now == ColumnsAfterDrops(t, old, Q)
  <2>1. /\ DOMAIN was = {x \in DOMAIN old : DropColumn(t, x) \notin P}
        /\ \A x \in DOMAIN was : was[x] = IF DropUnique(<<t, x>>) \in P THEN [old[x] EXCEPT !.unique = FALSE] ELSE old[x]
    BY DEF ColumnsAfterDrops
  <2>2. /\ DOMAIN now = DOMAIN was /\ now = [x \in DOMAIN now |-> now[x]]
        /\ \A x \in DOMAIN was : now[x] = IF DropUnique(<<t, x>>) \in Q THEN [old[x] EXCEPT !.unique = FALSE] ELSE old[x]
    BY <1>1, <2>1 DEF ColumnsAfterDrops
  <2>3. was = [x \in DOMAIN was |-> was[x]] /\ g.cols[t] = was
    BY <1>5 DEF ColumnsAfterDrops
  <2>4. c \in DOMAIN was
    BY <2>1
  <2> HIDE DEF old, was, now
  <2>5. now[c] = [was[c] EXCEPT !.unique = FALSE]
    <3> DEFINE o == old[c]
    <3>1. now[c] = [o EXCEPT !.unique = FALSE]
      BY <1>2, <2>2, <2>4
    <3>2. was[c] = [o EXCEPT !.unique = FALSE] \/ was[c] = o
      BY <2>1, <2>4
    <3> HIDE DEF o
    <3> QED BY <3>1, <3>2
  <2>6. \A x \in DOMAIN was : x # c => now[x] = was[x]
    BY <1>2, <2>1, <2>2
  <2>7. [was EXCEPT ![c].unique = FALSE] = now
    BY <2>2, <2>3, <2>4, <2>5, <2>6
  <2> QED BY <2>3, <2>7 DEF now, old
<1>9. h.cols = k.cols
  <2> HIDE DEF new
  <2> QED BY <1>3, <1>5, <1>6, <1>7, <1>8
<1>10. h.cons = k.cons
  <2>1. g.cons = [x \in Spared(f, P) |-> HeldAfterDrops(x, f.cons[x], P)]
    BY DEF AfterDrops, g
  <2> QED BY <1>3, <1>4, <1>6, <1>7, <2>1
<1>11. h = k
  BY <1>3, <1>5, <1>6, <1>7, <1>9, <1>10 DEF IsFolder
<1> QED BY <1>0, <1>11 DEF g, k, Q, s

\* One more statement: a named constraint.
LEMMA ConstraintDropped ==
  ASSUME NEW f, NEW P, NEW t \in Spared(f, P), NEW n, IsHeld(t, n)
  PROVE  Apply(AfterDrops(f, P), DropConstraint(t, n)) = AfterDrops(f, P \union {DropConstraint(t, n)})
<1> DEFINE s == DropConstraint(t, n)
           g == AfterDrops(f, P)
           Q == P \union {s}
           k == AfterDrops(f, Q)
           new == Without(g.cons[t], {n})
           h == [g EXCEPT !.cons[t] = new]
<1>5. /\ IsFolder(g) /\ g.ok = TRUE
      /\ DOMAIN g.cols = Spared(f, P) /\ DOMAIN g.cons = Spared(f, P)
      /\ \A x \in Spared(f, P) : /\ g.cols[x] = ColumnsAfterDrops(x, f.cols[x], P)
                                 /\ g.cons[x] = HeldAfterDrops(x, f.cons[x], P)
      /\ g.indexes = IndexesAfterDrops(f.indexes, P) /\ g.graph = f.graph
  BY DroppedIsFolder
<1>0. Apply(g, s) = h
  <2> HIDE DEF g
  <2>1. Apply(g, s) = ApplyConstraint(g, t, [name |-> n], FALSE)
    BY DEF Apply, DropConstraint
  <2>2. n.table = t /\ n.role # "unique" /\ n.role # "unknown"
    BY DEF IsHeld
  <2> QED BY <1>5, <2>1, <2>2 DEF ApplyConstraint, ClassifyConstraint
<1>1. /\ \A x : DropTable(x) \in Q <=> DropTable(x) \in P
      /\ \A x, d : DropColumn(x, d) \in Q <=> DropColumn(x, d) \in P
      /\ \A x, m : DropConstraint(x, m) \in Q <=> (DropConstraint(x, m) \in P \/ (x = t /\ m = n))
      /\ \A x, i : DropIndex(x, i) \in Q <=> DropIndex(x, i) \in P
  BY DropsAreApart
<1> HIDE DEF Q, s
<1>2. \A x, d : DropUnique(<<x, d>>) \in Q <=> DropUnique(<<x, d>>) \in P
  <2>1. \A x, d : UniqueConstraintName(x, d) # n
    BY DEF UniqueConstraintName, IsHeld
  <2> QED BY <1>1, <2>1 DEF DropUnique
<1>3. /\ Spared(f, Q) = Spared(f, P) /\ IndexesAfterDrops(f.indexes, Q) = IndexesAfterDrops(f.indexes, P)
      /\ \A x, cols : ColumnsAfterDrops(x, cols, Q) = ColumnsAfterDrops(x, cols, P)
      /\ \A x, cons : x # t => HeldAfterDrops(x, cons, Q) = HeldAfterDrops(x, cons, P)
  BY <1>1, <1>2 DEF Spared, IndexesAfterDrops, HeldAfterDrops, ColumnsAfterDrops
<1>4. \A cons : HeldAfterDrops(t, cons, Q) = Without(HeldAfterDrops(t, cons, P), {n})
  BY <1>1 DEF HeldAfterDrops, Without, Restrict
<1> HIDE DEF g
<1>6. /\ IsFolder(h) /\ h.cons = [g.cons EXCEPT ![t] = new]
      /\ h.cols = g.cols /\ h.indexes = g.indexes /\ h.graph = g.graph /\ h.ok = g.ok
  BY <1>5, HeldEdited
<1>7. /\ k.cols = [x \in Spared(f, Q) |-> ColumnsAfterDrops(x, f.cols[x], Q)]
      /\ k.cons = [x \in Spared(f, Q) |-> HeldAfterDrops(x, f.cons[x], Q)]
      /\ k.indexes = IndexesAfterDrops(f.indexes, Q) /\ k.graph = f.graph /\ k.ok = TRUE /\ IsFolder(k)
  BY DEF AfterDrops, IsFolder
<1> HIDE DEF h, k
<1>8. h.cons = k.cons
  <2>1. new = HeldAfterDrops(t, f.cons[t], Q)
    BY <1>4, <1>5
  <2> HIDE DEF new
  <2> QED BY <1>3, <1>5, <1>6, <1>7, <2>1
<1>9. h.cols = k.cols
  <2>1. g.cols = [x \in Spared(f, P) |-> ColumnsAfterDrops(x, f.cols[x], P)]
    BY DEF AfterDrops, g
  <2> QED BY <1>3, <1>6, <1>7, <2>1
<1>10. h = k
  BY <1>3, <1>5, <1>6, <1>7, <1>8, <1>9 DEF IsFolder
<1> QED BY <1>0, <1>10 DEF g, k, Q, s

\* One more statement: an index.
LEMMA IndexDropped ==
  ASSUME NEW f, NEW P, NEW i \in DOMAIN f.indexes
  PROVE  Apply(AfterDrops(f, P), DropIndex(i, f.indexes[i])) = AfterDrops(f, P \union {DropIndex(i, f.indexes[i])})
<1> DEFINE s == DropIndex(i, f.indexes[i])
           g == AfterDrops(f, P)
           Q == P \union {s}
           k == AfterDrops(f, Q)
           new == Without(g.indexes, {i})
           h == [g EXCEPT !.indexes = new]
<1>0. Apply(g, s) = h
  BY DEF Apply, DropIndex
<1>1. /\ \A x : DropTable(x) \in Q <=> DropTable(x) \in P
      /\ \A x, d : DropColumn(x, d) \in Q <=> DropColumn(x, d) \in P
      /\ \A x, m : DropConstraint(x, m) \in Q <=> DropConstraint(x, m) \in P
      /\ \A x \in DOMAIN f.indexes :
           DropIndex(x, f.indexes[x]) \in Q <=> (DropIndex(x, f.indexes[x]) \in P \/ x = i)
  BY DropsAreApart
<1> HIDE DEF Q, s
<1>2. \A u : DropUnique(u) \in Q <=> DropUnique(u) \in P
  BY <1>1 DEF DropUnique
<1>3. /\ Spared(f, Q) = Spared(f, P)
      /\ \A x, cols : ColumnsAfterDrops(x, cols, Q) = ColumnsAfterDrops(x, cols, P)
      /\ \A x, cons : HeldAfterDrops(x, cons, Q) = HeldAfterDrops(x, cons, P)
  BY <1>1, <1>2 DEF Spared, HeldAfterDrops, ColumnsAfterDrops
<1>4. IndexesAfterDrops(f.indexes, Q) = Without(IndexesAfterDrops(f.indexes, P), {i})
  BY <1>1 DEF IndexesAfterDrops, Without, Restrict
<1>5. IsFolder(g) /\ g = AfterDrops(f, P)
  BY DroppedIsFolder
<1>6. /\ IsFolder(h) /\ h.indexes = new
      /\ h.cols = g.cols /\ h.cons = g.cons /\ h.graph = g.graph /\ h.ok = g.ok
  <2> HIDE DEF g
  <2> QED BY <1>5, IndexesEdited
<1> HIDE DEF h
<1>7. h = k
  BY <1>3, <1>4, <1>6 DEF IsFolder, AfterDrops
<1> QED BY <1>0, <1>7 DEF g, k, Q, s

LEMMA OneDropped ==
  ASSUME NEW f, ReadableFolder(f), NEW S, DropFrom(f, S), NEW P, P \subseteq S, NEW s \in S
  PROVE  Applied(AfterDrops(f, P), s) = AfterDrops(f, P \union {s})
<1>1. Applied(AfterDrops(f, P), s) = Apply(AfterDrops(f, P), s)
  BY DroppedIsFolder DEF Applied
<1>2. CASE \E t \in DOMAIN f.cols : s = DropTable(t)
  BY <1>1, <1>2, TableDropped
<1>3. CASE \E i \in DOMAIN f.indexes : s = DropIndex(i, f.indexes[i])
  BY <1>1, <1>3, IndexDropped
<1>4. ASSUME NEW t \in DOMAIN f.cols, DropTable(t) \notin S,
             \/ \E c \in DOMAIN f.cols[t] : s = DropColumn(t, c)
             \/ \E c \in DOMAIN f.cols[t] : s = DropUnique(<<t, c>>) /\ DropColumn(t, c) \notin S
             \/ \E n \in DOMAIN f.cons[t] : s = DropConstraint(t, n)
      PROVE  Apply(AfterDrops(f, P), s) = AfterDrops(f, P \union {s})
  <2>1. t \in Spared(f, P)
    BY <1>4 DEF Spared
  <2>2. CASE \E c \in DOMAIN f.cols[t] : s = DropColumn(t, c)
    BY <2>1, <2>2, ColumnDropped
  <2>3. CASE \E c \in DOMAIN f.cols[t] : s = DropUnique(<<t, c>>) /\ DropColumn(t, c) \notin S
    <3>1. PICK c \in DOMAIN f.cols[t] : s = DropUnique(<<t, c>>) /\ DropColumn(t, c) \notin S
      BY <2>3
    <3>2. DropColumn(t, c) \notin P
      BY <3>1
    <3> QED BY <2>1, <3>1, <3>2, UniqueDropped
  <2>4. CASE \E n \in DOMAIN f.cons[t] : s = DropConstraint(t, n)
    <3>1. PICK n \in DOMAIN f.cons[t] : s = DropConstraint(t, n)
      BY <2>4
    <3>2. IsHeld(t, n)
      BY DEF ReadableFolder
    <3> QED BY <2>1, <3>1, <3>2, ConstraintDropped
  <2> QED BY <1>4, <2>2, <2>3, <2>4
<1> QED BY <1>1, <1>2, <1>3, <1>4 DEF DropFrom

\* A section whose statements each drop something that is there leaves the
\* folder without exactly what they name: no drop the reader applies
\* (fold.go:225) undoes or prevents another.
THEOREM DropsFolded ==
  ASSUME NEW f, ReadableFolder(f), NEW q, List(q), DropFrom(f, Range(q))
  PROVE  FoldSection(f, q) = AfterDrops(f, Range(q))
<1> DEFINE S == Range(q)
<1>1. /\ Len(q) \in Nat /\ DOMAIN q = 1..Len(q) /\ \A i \in 1..Len(q) : q[i] \in S
      /\ S = {q[i] : i \in 1..Len(q)}
  BY DEF List, Range
<1> HIDE DEF S
<1>s2. PICK after : FoldsOf(after, f, q)
  <2>1. Len(q) \in Nat
    BY <1>1
  <2> QED BY <2>1, FoldHasSteps
<1>2. /\ after[0] = f
      /\ \A i \in 1..Len(q) : after[i] = Applied(after[i-1], q[i])
      /\ FoldSection(f, q) = after[Len(q)]
  BY <1>s2 DEF FoldsOf
<1> DEFINE n == Len(q)
           Met(k) == {q[i] : i \in 1..k}
           T == {k \in 0..n : after[k] = AfterDrops(f, Met(k))}
<1>3. n \in Nat /\ DropFrom(f, S)
  BY <1>1 DEF S
<1>4. 0 \in T
  <2>1. Met(0) = {} /\ 0 \in 0..n
    BY <1>3
  <2> QED BY <1>2, <2>1, NothingDropped
<1>5. ASSUME NEW k \in 1..n, k-1 \in T PROVE k \in T
  <2>1. /\ after[k-1] = AfterDrops(f, Met(k-1)) /\ k \in 0..n
        /\ after[k] = Applied(after[k-1], q[k]) /\ q[k] \in S
    BY <1>1, <1>2, <1>3, <1>5
  <2>2. Met(k-1) \subseteq S /\ Met(k) = Met(k-1) \union {q[k]}
    <3>1. 1..k = (1..(k-1)) \union {k} /\ 1..(k-1) \subseteq 1..n
      BY <1>3
    <3> QED BY <1>1, <3>1
  <2> HIDE DEF Met
  <2>3. Applied(AfterDrops(f, Met(k-1)), q[k]) = AfterDrops(f, Met(k-1) \union {q[k]})
    BY <1>3, <2>1, <2>2, OneDropped
  <2> QED BY <2>1, <2>2, <2>3
<1>6. n \in T
  <2>1. n \in 0..n
    BY <1>3
  <2> HIDE DEF T
  <2>2. \A i \in 0..n : i \in T
    BY <1>3, <1>4, <1>5, UpToInduction
  <2> QED BY <2>1, <2>2
<1>7. Met(n) = S
  BY <1>1
<1> QED BY <1>2, <1>6, <1>7 DEF S
------------------------------------------------------------------------------
(* What statements that add make of a folder, on the way to the schema w: P  *)
(* holds them, and again it does not matter in which order they come.       *)

NewColumns(cols) == [c \in DOMAIN cols |-> FoldedColumn(ColumnDDL(cols[c]))]
HeldAs(t, vt, n) == CHOOSE k \in TableConstraints(t, vt) : k.name = n
HeldNames(t, vt) == {k.name : k \in TableConstraints(t, vt)}
NewHeld(t, vt)   == [n \in HeldNames(t, vt) |-> HeldAs(t, vt, n)]

AddedColumns(t, vt, P) == {c \in DOMAIN vt.cols : AddColumn(t, c, vt.cols[c]) \in P}
ColumnAfterAdds(t, c, col, default, P) ==
  [type |-> col.type, primary |-> col.primary,
   unique |-> IF AddUnique(<<t, c>>) \in P THEN TRUE ELSE col.unique,
   default |-> IF SetDefault(t, c, default) \in P THEN default ELSE col.default,
   check |-> col.check, ref |-> col.ref, was |-> col.was]

ColumnsAfterAdds(t, cols, vt, P) ==
  [c \in DOMAIN cols \union AddedColumns(t, vt, P) |->
     IF c \in DOMAIN cols THEN ColumnAfterAdds(t, c, cols[c], vt.cols[c].default, P)
     ELSE FoldedColumn(ColumnDDL(vt.cols[c]))]

AddedHeld(t, vt, P) == {k.name : k \in {x \in TableConstraints(t, vt) : AddConstraint(t, x) \in P}}
HeldAfterAdds(t, cons, vt, P) ==
  [n \in DOMAIN cons \union AddedHeld(t, vt, P) |->
     IF n \in AddedHeld(t, vt, P) THEN HeldAs(t, vt, n) ELSE cons[n]]

MadeVertices(w, P) == {v \in DOMAIN w.vertices : VertexTableDDL(v, w.vertices[v]) \in P}
MadeEdges(w, P)    == {e \in DOMAIN w.edges : EdgeTableDDL(e, w.edges[e]) \in P}
MadeIndexes(w, P)  == {i \in DOMAIN w.indexes : IndexDDL(i, w.indexes[i]) \in P}

TablesAfterAdds(w, f, P) == DOMAIN f.cols \union MadeVertices(w, P) \union MadeEdges(w, P)
TableAfterAdds(w, f, P, t) ==
  IF t \in DOMAIN f.cols THEN ColumnsAfterAdds(t, f.cols[t], w.vertices[t], P)
  ELSE IF t \in DOMAIN w.vertices THEN NewColumns(w.vertices[t].cols) ELSE NewColumns(w.edges[t].cols)

TableHeldAfterAdds(w, f, P, t) ==
  IF t \in DOMAIN f.cols THEN HeldAfterAdds(t, f.cons[t], w.vertices[t], P)
  ELSE IF t \in DOMAIN w.vertices THEN NewHeld(t, w.vertices[t]) ELSE <<>>

IndexesAfterAdds(w, indexes, P) ==
  [i \in DOMAIN indexes \union MadeIndexes(w, P) |->
     IF i \in MadeIndexes(w, P) THEN [table |-> w.indexes[i].table, column |-> w.indexes[i].column]
     ELSE indexes[i]]

AfterAdds(w, f, P) ==
  [cols |-> [t \in TablesAfterAdds(w, f, P) |-> TableAfterAdds(w, f, P, t)],
   cons |-> [t \in TablesAfterAdds(w, f, P) |-> TableHeldAfterAdds(w, f, P, t)],
   indexes |-> IndexesAfterAdds(w, f.indexes, P), graph |-> f.graph, ok |-> TRUE]

\* A schema as the differ gets it from the SDL.
WantedSchema(w) ==
  /\ \A t \in DOMAIN w.vertices : MadeTable(t, w.vertices[t])
  /\ DOMAIN w.vertices \intersect DOMAIN w.edges = {}

\* Statements that add what is wanted and not yet there.
AddTo(w, f, S) ==
  \A s \in S :
    \/ \E v \in DOMAIN w.vertices \ DOMAIN f.cols : s = VertexTableDDL(v, w.vertices[v])
    \/ \E e \in DOMAIN w.edges \ DOMAIN f.cols : s = EdgeTableDDL(e, w.edges[e])
    \/ \E i \in DOMAIN w.indexes : s = IndexDDL(i, w.indexes[i])
    \/ \E t \in DOMAIN f.cols \intersect DOMAIN w.vertices :
         \/ \E c \in DOMAIN w.vertices[t].cols \ DOMAIN f.cols[t] : s = AddColumn(t, c, w.vertices[t].cols[c])
         \/ \E c \in DOMAIN f.cols[t] : s = SetDefault(t, c, w.vertices[t].cols[c].default)
         \/ \E c \in DOMAIN f.cols[t] : s = AddUnique(<<t, c>>)
         \/ \E k \in TableConstraints(t, w.vertices[t]) : s = AddConstraint(t, k)

LEMMA AddsAreApart ==
  /\ \A t, x, vt, vx : VertexTableDDL(t, vt) = VertexTableDDL(x, vx) => t = x
  /\ \A t, x, vt, vx : EdgeTableDDL(t, vt) = EdgeTableDDL(x, vx) => t = x
  /\ \A t, x, vt, vx : VertexTableDDL(t, vt) = EdgeTableDDL(x, vx) => t = x
  /\ \A i, ix, j, jx : IndexDDL(i, ix) = IndexDDL(j, jx) => i = j
  /\ \A t, c, col, x, d, cox : AddColumn(t, c, col) = AddColumn(x, d, cox) => t = x /\ c = d
  /\ \A t, c, a, x, d, b : SetDefault(t, c, a) = SetDefault(x, d, b) => t = x /\ c = d
  /\ \A t, k, x, j : AddConstraint(t, k) = AddConstraint(x, j) => t = x /\ k = j
  /\ \A t, vt : VertexTableDDL(t, vt).op = "create_table"
  /\ \A t, vt : EdgeTableDDL(t, vt).op = "create_table"
  /\ \A i, ix : IndexDDL(i, ix).op = "create_index"
  /\ \A t, c, col : AddColumn(t, c, col).op = "add_column"
  /\ \A t, c, a : SetDefault(t, c, a).op = "set_default"
  /\ \A t, k : AddConstraint(t, k).op = "add_constraint"
<1>1. /\ \A t, vt : VertexTableDDL(t, vt).op = "create_table" /\ VertexTableDDL(t, vt).table = t
      /\ \A t, vt : EdgeTableDDL(t, vt).op = "create_table" /\ EdgeTableDDL(t, vt).table = t
      /\ \A i, ix : IndexDDL(i, ix).op = "create_index" /\ IndexDDL(i, ix).index = i
  BY DEF VertexTableDDL, EdgeTableDDL, IndexDDL
<1>2. /\ \A t, c, col : AddColumn(t, c, col).op = "add_column" /\ AddColumn(t, c, col).table = t
                        /\ AddColumn(t, c, col).column = c
      /\ \A t, c, a : SetDefault(t, c, a).op = "set_default" /\ SetDefault(t, c, a).table = t
                      /\ SetDefault(t, c, a).column = c
      /\ \A t, k : AddConstraint(t, k).op = "add_constraint" /\ AddConstraint(t, k).table = t
                   /\ AddConstraint(t, k).con = k
  BY DEF AddColumn, SetDefault, AddConstraint
<1>3. /\ \A t, x, vt, vx : VertexTableDDL(t, vt) = VertexTableDDL(x, vx) => t = x
      /\ \A t, x, vt, vx : EdgeTableDDL(t, vt) = EdgeTableDDL(x, vx) => t = x
      /\ \A t, x, vt, vx : VertexTableDDL(t, vt) = EdgeTableDDL(x, vx) => t = x
      /\ \A i, ix, j, jx : IndexDDL(i, ix) = IndexDDL(j, jx) => i = j
  BY <1>1
<1>4. \A t, c, col, x, d, cox : AddColumn(t, c, col) = AddColumn(x, d, cox) => t = x /\ c = d
  BY <1>2
<1>5. \A t, c, a, x, d, b : SetDefault(t, c, a) = SetDefault(x, d, b) => t = x /\ c = d
  BY <1>2
<1>6. \A t, k, x, j : AddConstraint(t, k) = AddConstraint(x, j) => t = x /\ k = j
  BY <1>2
<1> QED BY <1>1, <1>2, <1>3, <1>4, <1>5, <1>6

LEMMA ConstraintsAreApart ==
  ASSUME NEW t, NEW k, NEW x, NEW j, AddConstraint(t, k) = AddConstraint(x, j)
  PROVE  t = x /\ k = j
BY DEF AddConstraint

\* What a new statement s leaves of the parts it is not about.
Untouched(w, P, Q, s) ==
  /\ s.op # "create_table" => MadeVertices(w, Q) = MadeVertices(w, P) /\ MadeEdges(w, Q) = MadeEdges(w, P)
  /\ s.op # "create_index" => MadeIndexes(w, Q) = MadeIndexes(w, P)
  /\ s.op # "add_column" => \A t, vt : AddedColumns(t, vt, Q) = AddedColumns(t, vt, P)
  /\ s.op \notin {"set_default", "add_constraint"} =>
       \A t, c, col, a : ColumnAfterAdds(t, c, col, a, Q) = ColumnAfterAdds(t, c, col, a, P)
  /\ s.op # "add_constraint" => \A t, vt : AddedHeld(t, vt, Q) = AddedHeld(t, vt, P)

LEMMA OthersUntouched ==
  ASSUME NEW w, NEW P, NEW s
  PROVE  Untouched(w, P, P \union {s}, s)
<1> DEFINE Q == P \union {s}
<1>1. s.op # "create_table" => MadeVertices(w, Q) = MadeVertices(w, P) /\ MadeEdges(w, Q) = MadeEdges(w, P)
  BY AddsAreApart DEF MadeVertices, MadeEdges
<1>2. s.op # "create_index" => MadeIndexes(w, Q) = MadeIndexes(w, P)
  BY AddsAreApart DEF MadeIndexes
<1>3. s.op # "add_column" => \A t, vt : AddedColumns(t, vt, Q) = AddedColumns(t, vt, P)
  BY AddsAreApart DEF AddedColumns
<1>4. s.op \notin {"set_default", "add_constraint"} =>
        \A t, c, col, a : ColumnAfterAdds(t, c, col, a, Q) = ColumnAfterAdds(t, c, col, a, P)
  <2>1. ASSUME s.op \notin {"set_default", "add_constraint"}
        PROVE  /\ \A u : AddUnique(u) \in Q <=> AddUnique(u) \in P
               /\ \A t, c, a : SetDefault(t, c, a) \in Q <=> SetDefault(t, c, a) \in P
    BY <2>1, AddsAreApart DEF AddUnique
  <2> HIDE DEF Q
  <2> QED BY <2>1 DEF ColumnAfterAdds
<1>5. s.op # "add_constraint" => \A t, vt : AddedHeld(t, vt, Q) = AddedHeld(t, vt, P)
  <2>1. s.op # "add_constraint" => \A t, k : AddConstraint(t, k) \in Q <=> AddConstraint(t, k) \in P
    BY AddsAreApart
  <2> HIDE DEF Q
  <2> QED BY <2>1 DEF AddedHeld
<1> HIDE DEF Q
<1>6. Untouched(w, P, Q, s)
  BY <1>1, <1>2, <1>3, <1>4, <1>5 DEF Untouched
<1> QED BY <1>6 DEF Q

LEMMA AddedIsFolder ==
  ASSUME NEW w, NEW f, NEW P
  PROVE  /\ IsFolder(AfterAdds(w, f, P)) /\ AfterAdds(w, f, P).ok = TRUE
         /\ AfterAdds(w, f, P).cols = [t \in TablesAfterAdds(w, f, P) |-> TableAfterAdds(w, f, P, t)]
         /\ AfterAdds(w, f, P).cons = [t \in TablesAfterAdds(w, f, P) |-> TableHeldAfterAdds(w, f, P, t)]
         /\ AfterAdds(w, f, P).indexes = IndexesAfterAdds(w, f.indexes, P)
         /\ AfterAdds(w, f, P).graph = f.graph
BY DEF AfterAdds, IsFolder

LEMMA NothingAdded ==
  ASSUME NEW w, NEW f, ReadableFolder(f)
  PROVE  AfterAdds(w, f, {}) = f
<1>1. /\ MadeVertices(w, {}) = {} /\ MadeEdges(w, {}) = {} /\ MadeIndexes(w, {}) = {}
      /\ \A t, vt : AddedColumns(t, vt, {}) = {} /\ AddedHeld(t, vt, {}) = {}
  BY DEF MadeVertices, MadeEdges, MadeIndexes, AddedColumns, AddedHeld
<1>2. TablesAfterAdds(w, f, {}) = DOMAIN f.cols
  BY <1>1 DEF TablesAfterAdds
<1>3. \A t, c, col, a : IsColumn(col) => ColumnAfterAdds(t, c, col, a, {}) = col
  BY DEF IsColumn, ColumnAfterAdds
<1>4. ASSUME NEW t \in DOMAIN f.cols PROVE TableAfterAdds(w, f, {}, t) = f.cols[t]
  <2> DEFINE old == f.cols[t]
             vt == w.vertices[t]
  <2>1. \A c \in DOMAIN old : IsColumn(old[c])
    BY DEF ReadableFolder
  <2>2. old = [c \in DOMAIN old |-> old[c]]
    BY DEF ReadableFolder
  <2>3. TableAfterAdds(w, f, {}, t) = ColumnsAfterAdds(t, old, vt, {})
    BY DEF TableAfterAdds
  <2> HIDE DEF old, vt
  <2>4. ColumnsAfterAdds(t, old, vt, {}) = [c \in DOMAIN old |-> ColumnAfterAdds(t, c, old[c], vt.cols[c].default, {})]
    BY <1>1 DEF ColumnsAfterAdds
  <2>5. \A c \in DOMAIN old : ColumnAfterAdds(t, c, old[c], vt.cols[c].default, {}) = old[c]
    BY <1>3, <2>1
  <2>6. ColumnsAfterAdds(t, old, vt, {}) = old
    BY <2>2, <2>4, <2>5
  <2> QED BY <2>3, <2>6 DEF old
<1>5. ASSUME NEW t \in DOMAIN f.cols PROVE TableHeldAfterAdds(w, f, {}, t) = f.cons[t]
  <2> DEFINE old == f.cons[t]
             vt == w.vertices[t]
  <2>1. old = [n \in DOMAIN old |-> old[n]]
    BY DEF ReadableFolder
  <2>2. TableHeldAfterAdds(w, f, {}, t) = HeldAfterAdds(t, old, vt, {})
    BY DEF TableHeldAfterAdds
  <2> HIDE DEF old, vt
  <2>3. HeldAfterAdds(t, old, vt, {}) = [n \in DOMAIN old |-> old[n]]
    BY <1>1 DEF HeldAfterAdds
  <2> QED BY <2>1, <2>2, <2>3 DEF old
<1>6. IndexesAfterAdds(w, f.indexes, {}) = [i \in DOMAIN f.indexes |-> f.indexes[i]]
  BY <1>1 DEF IndexesAfterAdds
<1> DEFINE g == AfterAdds(w, f, {})
<1>7. /\ IsFolder(g) /\ g.ok = TRUE /\ g.graph = f.graph /\ g.indexes = IndexesAfterAdds(w, f.indexes, {})
      /\ g.cols = [t \in TablesAfterAdds(w, f, {}) |-> TableAfterAdds(w, f, {}, t)]
      /\ g.cons = [t \in TablesAfterAdds(w, f, {}) |-> TableHeldAfterAdds(w, f, {}, t)]
  BY DEF AfterAdds, IsFolder
<1> HIDE DEF g
<1>8. IsFolder(f) /\ f.ok = TRUE /\ DOMAIN f.cons = DOMAIN f.cols
      /\ f.cols = [t \in DOMAIN f.cols |-> f.cols[t]] /\ f.cons = [t \in DOMAIN f.cols |-> f.cons[t]]
      /\ f.indexes = [i \in DOMAIN f.indexes |-> f.indexes[i]]
  <2>1. f = [cols |-> f.cols, cons |-> f.cons, indexes |-> f.indexes, graph |-> f.graph, ok |-> TRUE]
    BY DEF ReadableFolder
  <2>2. f.ok = TRUE
    BY <2>1
  <2>3. IsFolder(f)
    BY <2>1, <2>2 DEF IsFolder
  <2> QED BY <2>2, <2>3 DEF ReadableFolder
<1>9. g.cols = f.cols
  BY <1>2, <1>4, <1>7, <1>8
<1>10. g.cons = f.cons
  BY <1>2, <1>5, <1>7, <1>8
<1>11. g.indexes = f.indexes
  BY <1>6, <1>7, <1>8
<1>12. g = f
  BY <1>7, <1>8, <1>9, <1>10, <1>11 DEF IsFolder
<1> QED BY <1>12 DEF g

\* The constraints of a table are held under their names, each under its own.
LEMMA ConstraintsAreHeld ==
  ASSUME NEW t, NEW vt, MadeTable(t, vt)
  PROVE  /\ \A k \in TableConstraints(t, vt) : IsHeld(t, k.name)
         /\ \A j, k \in TableConstraints(t, vt) : j.name = k.name => j = k
<1> DEFINE Key == [name |-> vt.key.name, kind |-> "UNIQUE", columns |-> vt.key.columns, expr |-> None]
           OnColumn(c) == [name |-> ColumnCheckConstraintName(t, c), kind |-> "CHECK", columns |-> <<>>,
                           expr |-> vt.cols[c].check]
           OnTable(i)  == [name |-> TableCheckConstraintName(t, i), kind |-> "CHECK", columns |-> <<>>,
                           expr |-> vt.checks[i]]
<1>1. ASSUME NEW k \in TableConstraints(t, vt)
      PROVE  \/ vt.key # None /\ k = Key
             \/ \E c \in DOMAIN vt.cols : k = OnColumn(c)
             \/ \E i \in DOMAIN vt.checks : k = OnTable(i)
  BY DEF TableConstraints
<1>2. vt.key # None => Key.name.role = "natural_key" /\ Key.name.table = t
  BY DEF MadeTable, NaturalKeyConstraintName
<1>3. \A c : OnColumn(c).name.role = "column_check" /\ OnColumn(c).name.table = t /\ OnColumn(c).name.column = c
  BY DEF ColumnCheckConstraintName
<1>4. \A i : OnTable(i).name.role = "table_check" /\ OnTable(i).name.table = t /\ OnTable(i).name.n = i
  BY DEF TableCheckConstraintName
<1> HIDE DEF Key, OnColumn, OnTable
<1>5. \A k \in TableConstraints(t, vt) : IsHeld(t, k.name)
  BY <1>1, <1>2, <1>3, <1>4 DEF IsHeld
<1>6. ASSUME NEW j \in TableConstraints(t, vt), NEW k \in TableConstraints(t, vt), j.name = k.name
      PROVE  j = k
  <2>1. CASE vt.key # None /\ k = Key
    BY <1>1, <1>2, <1>3, <1>4, <1>6, <2>1
  <2>2. CASE \E c \in DOMAIN vt.cols : k = OnColumn(c)
    BY <1>1, <1>2, <1>3, <1>4, <1>6, <2>2
  <2>3. CASE \E i \in DOMAIN vt.checks : k = OnTable(i)
    BY <1>1, <1>2, <1>3, <1>4, <1>6, <2>3
  <2> QED BY <1>1, <2>1, <2>2, <2>3
<1> QED BY <1>5, <1>6

LEMMA HeldAsIsIt ==
  ASSUME NEW t, NEW vt, MadeTable(t, vt), NEW k \in TableConstraints(t, vt)
  PROVE  HeldAs(t, vt, k.name) = k
<1>1. \A j \in TableConstraints(t, vt) : j.name = k.name => j = k
  BY ConstraintsAreHeld
<1> QED BY <1>1 DEF HeldAs

\* The folder h is g with one more table.
ReadAs(h, g, t, cols, cons) ==
  /\ IsFolder(h) /\ h.ok = TRUE /\ h.indexes = g.indexes /\ h.graph = g.graph
  /\ h.cols = With(g.cols, t, cols) /\ h.cons = With(g.cons, t, cons)

\* A table made of a vertex type, or of an edge, as the folder reads it.
LEMMA VertexTableRead ==
  ASSUME NEW g, IsFolder(g), g.ok = TRUE, NEW t, NEW vt, MadeTable(t, vt)
  PROVE  ReadAs(Apply(g, VertexTableDDL(t, vt)), g, t, NewColumns(vt.cols), NewHeld(t, vt))
<1> DEFINE s == VertexTableDDL(t, vt)
           Role(con) == ClassifyConstraint(s.table, con.name)
           uniques   == {con.name.column : con \in {k \in s.cons : Role(k) = "unique"}}
           held      == {con \in s.cons : Role(con) \notin {"unique", "unknown"}}
           cols      == [c \in DOMAIN s.cols |-> [FoldedColumn(s.cols[c]) EXCEPT !.unique = @ \/ c \in uniques]]
           named     == [n \in {con.name : con \in held} |-> CHOOSE con \in held : con.name = n]
           h == Apply(g, s)
<1>1. /\ s.op = "create_table" /\ s.table = t /\ s.cons = TableConstraints(t, vt)
      /\ DOMAIN s.cols = DOMAIN vt.cols /\ \A c \in DOMAIN vt.cols : s.cols[c] = ColumnDDL(vt.cols[c])
  BY DEF VertexTableDDL, ColumnsDDL
<1> HIDE DEF s
<1>2. \A k \in s.cons : Role(k) \in {"natural_key", "column_check", "table_check"}
  BY <1>1, ConstraintsAreHeld DEF ClassifyConstraint, IsHeld
<1> HIDE DEF Role
<1>3. uniques = {}
  BY <1>2
<1>4. held = s.cons
  BY <1>2
<1>5. cols = NewColumns(vt.cols)
  <2>1. ASSUME NEW c \in DOMAIN vt.cols
        PROVE  [FoldedColumn(s.cols[c]) EXCEPT !.unique = @ \/ c \in {}] = FoldedColumn(ColumnDDL(vt.cols[c]))
    <3> DEFINE def == ColumnDDL(vt.cols[c])
    <3>1. s.cols[c] = def /\ def.unique \in BOOLEAN
      BY <1>1 DEF ColumnDDL
    <3> HIDE DEF def
    <3>2. (def.unique \/ c \in {}) = def.unique
      BY <3>1
    <3>3. [FoldedColumn(def) EXCEPT !.unique = @ \/ c \in {}] = [FoldedColumn(def) EXCEPT !.unique = (def.unique \/ c \in {})]
      BY DEF FoldedColumn
    <3>4. [FoldedColumn(def) EXCEPT !.unique = (def.unique \/ c \in {})] = FoldedColumn(def)
      BY <3>2 DEF FoldedColumn
    <3> QED BY <3>1, <3>3, <3>4 DEF def
  <2> QED BY <1>1, <1>3, <2>1 DEF NewColumns
<1>6. named = NewHeld(t, vt)
  BY <1>1, <1>4 DEF NewHeld, HeldNames, HeldAs
<1>7. h = [g EXCEPT !.cols = With(@, t, cols), !.cons = With(@, t, named), !.ok = @ /\ uniques \subseteq DOMAIN cols]
  <2>1. h = ApplyCreateTable(g, s)
    BY <1>1 DEF Apply
  <2> QED BY <1>1, <2>1 DEF ApplyCreateTable, Role
<1> HIDE DEF h, cols, named, uniques, held
<1>8. (g.ok /\ uniques \subseteq DOMAIN cols) = TRUE
  BY <1>3
<1>9. h = [cols |-> With(g.cols, t, cols), cons |-> With(g.cons, t, named), indexes |-> g.indexes,
           graph |-> g.graph, ok |-> TRUE]
  BY <1>7, <1>8 DEF IsFolder
<1>10. /\ IsFolder(h) /\ h.cols = With(g.cols, t, cols) /\ h.cons = With(g.cons, t, named)
       /\ h.indexes = g.indexes /\ h.graph = g.graph /\ h.ok = TRUE
  BY <1>9 DEF IsFolder
<1> QED BY <1>5, <1>6, <1>10 DEF h, s, ReadAs

LEMMA EdgeTableRead ==
  ASSUME NEW g, IsFolder(g), g.ok = TRUE, NEW t, NEW et
  PROVE  ReadAs(Apply(g, EdgeTableDDL(t, et)), g, t, NewColumns(et.cols), <<>>)
<1> DEFINE s == EdgeTableDDL(t, et)
           Role(con) == ClassifyConstraint(s.table, con.name)
           uniques   == {con.name.column : con \in {k \in s.cons : Role(k) = "unique"}}
           held      == {con \in s.cons : Role(con) \notin {"unique", "unknown"}}
           cols      == [c \in DOMAIN s.cols |-> [FoldedColumn(s.cols[c]) EXCEPT !.unique = @ \/ c \in uniques]]
           named     == [n \in {con.name : con \in held} |-> CHOOSE con \in held : con.name = n]
           h == Apply(g, s)
<1>1. /\ s.op = "create_table" /\ s.table = t /\ s.cons = {}
      /\ DOMAIN s.cols = DOMAIN et.cols /\ \A c \in DOMAIN et.cols : s.cols[c] = ColumnDDL(et.cols[c])
  BY DEF EdgeTableDDL, ColumnsDDL
<1> HIDE DEF s
<1>2. uniques = {} /\ held = {}
  BY <1>1
<1>5. cols = NewColumns(et.cols)
  <2>1. ASSUME NEW c \in DOMAIN et.cols
        PROVE  [FoldedColumn(s.cols[c]) EXCEPT !.unique = @ \/ c \in {}] = FoldedColumn(ColumnDDL(et.cols[c]))
    <3> DEFINE def == ColumnDDL(et.cols[c])
    <3>1. s.cols[c] = def /\ def.unique \in BOOLEAN
      BY <1>1 DEF ColumnDDL
    <3> HIDE DEF def
    <3>2. (def.unique \/ c \in {}) = def.unique
      BY <3>1
    <3>3. [FoldedColumn(def) EXCEPT !.unique = @ \/ c \in {}] = [FoldedColumn(def) EXCEPT !.unique = (def.unique \/ c \in {})]
      BY DEF FoldedColumn
    <3>4. [FoldedColumn(def) EXCEPT !.unique = (def.unique \/ c \in {})] = FoldedColumn(def)
      BY <3>2 DEF FoldedColumn
    <3> QED BY <3>1, <3>3, <3>4 DEF def
  <2> QED BY <1>1, <1>2, <2>1 DEF NewColumns
<1>6. named = <<>>
  BY <1>2
<1>7. h = [g EXCEPT !.cols = With(@, t, cols), !.cons = With(@, t, named), !.ok = @ /\ uniques \subseteq DOMAIN cols]
  <2>1. h = ApplyCreateTable(g, s)
    BY <1>1 DEF Apply
  <2> QED BY <1>1, <2>1 DEF ApplyCreateTable
<1> HIDE DEF h, cols, named, uniques, held
<1>8. (g.ok /\ uniques \subseteq DOMAIN cols) = TRUE
  BY <1>2
<1>9. h = [cols |-> With(g.cols, t, cols), cons |-> With(g.cons, t, named), indexes |-> g.indexes,
           graph |-> g.graph, ok |-> TRUE]
  BY <1>7, <1>8 DEF IsFolder
<1>10. /\ IsFolder(h) /\ h.cols = With(g.cols, t, cols) /\ h.cons = With(g.cons, t, named)
       /\ h.indexes = g.indexes /\ h.graph = g.graph /\ h.ok = TRUE
  BY <1>9 DEF IsFolder
<1> QED BY <1>5, <1>6, <1>10 DEF h, s, ReadAs

\* Parts of a folder that stay with one more statement.
PartsUntouched(w, f, P, Q, s) ==
  /\ s.op # "create_index" => IndexesAfterAdds(w, f.indexes, Q) = IndexesAfterAdds(w, f.indexes, P)
  /\ s.op # "create_table" => TablesAfterAdds(w, f, Q) = TablesAfterAdds(w, f, P)
  /\ s.op \notin {"add_column", "set_default", "add_constraint"} =>
       \A t : TableAfterAdds(w, f, Q, t) = TableAfterAdds(w, f, P, t)
  /\ s.op # "add_constraint" => \A t : TableHeldAfterAdds(w, f, Q, t) = TableHeldAfterAdds(w, f, P, t)

LEMMA OtherPartsUntouched ==
  ASSUME NEW w, NEW f, NEW P, NEW s
  PROVE  PartsUntouched(w, f, P, P \union {s}, s)
<1> DEFINE Q == P \union {s}
<1>1. Untouched(w, P, Q, s)
  BY OthersUntouched
<1> HIDE DEF Q
<1>2. s.op # "create_index" => IndexesAfterAdds(w, f.indexes, Q) = IndexesAfterAdds(w, f.indexes, P)
  BY <1>1 DEF Untouched, IndexesAfterAdds
<1>3. s.op # "create_table" => TablesAfterAdds(w, f, Q) = TablesAfterAdds(w, f, P)
  BY <1>1 DEF Untouched, TablesAfterAdds
<1>4. s.op \notin {"add_column", "set_default", "add_constraint"} =>
        \A t : TableAfterAdds(w, f, Q, t) = TableAfterAdds(w, f, P, t)
  <2>1. s.op \notin {"add_column", "set_default", "add_constraint"} =>
          \A t, cols, vt : ColumnsAfterAdds(t, cols, vt, Q) = ColumnsAfterAdds(t, cols, vt, P)
    BY <1>1 DEF Untouched, ColumnsAfterAdds
  <2> QED BY <2>1 DEF TableAfterAdds
<1>5. s.op # "add_constraint" => \A t : TableHeldAfterAdds(w, f, Q, t) = TableHeldAfterAdds(w, f, P, t)
  <2>1. s.op # "add_constraint" => \A t, cons, vt : HeldAfterAdds(t, cons, vt, Q) = HeldAfterAdds(t, cons, vt, P)
    BY <1>1 DEF Untouched, HeldAfterAdds
  <2> QED BY <2>1 DEF TableHeldAfterAdds
<1> QED BY <1>2, <1>3, <1>4, <1>5 DEF Q, PartsUntouched

\* One more statement s takes the closed form of P to that of P and s.
AddsOn(w, f, P, s) == Apply(AfterAdds(w, f, P), s) = AfterAdds(w, f, P \union {s})

\* One more statement: a table.
LEMMA TableAdded ==
  ASSUME NEW w, WantedSchema(w), NEW f, NEW P, NEW t, t \notin DOMAIN f.cols, NEW s,
         \/ t \in DOMAIN w.vertices /\ s = VertexTableDDL(t, w.vertices[t])
         \/ t \in DOMAIN w.edges /\ s = EdgeTableDDL(t, w.edges[t])
  PROVE  AddsOn(w, f, P, s)
<1> DEFINE g == AfterAdds(w, f, P)
           Q == P \union {s}
           k == AfterAdds(w, f, Q)
           h == Apply(g, s)
<1>1. s.op = "create_table"
  BY AddsAreApart
<1>2. TablesAfterAdds(w, f, Q) = TablesAfterAdds(w, f, P) \union {t}
  <2>1. ASSUME t \in DOMAIN w.vertices, s = VertexTableDDL(t, w.vertices[t])
        PROVE  /\ MadeVertices(w, Q) = MadeVertices(w, P) \union {t}
               /\ MadeEdges(w, Q) \subseteq MadeEdges(w, P) \union {t}
               /\ MadeEdges(w, P) \subseteq MadeEdges(w, Q)
    BY <2>1, AddsAreApart DEF MadeVertices, MadeEdges
  <2>2. ASSUME t \in DOMAIN w.edges, s = EdgeTableDDL(t, w.edges[t])
        PROVE  /\ MadeEdges(w, Q) = MadeEdges(w, P) \union {t}
               /\ MadeVertices(w, Q) \subseteq MadeVertices(w, P) \union {t}
               /\ MadeVertices(w, P) \subseteq MadeVertices(w, Q)
    BY <2>2, AddsAreApart DEF MadeVertices, MadeEdges
  <2> HIDE DEF Q
  <2> QED BY <2>1, <2>2 DEF TablesAfterAdds
<1>3. /\ IndexesAfterAdds(w, f.indexes, Q) = IndexesAfterAdds(w, f.indexes, P)
      /\ \A x : TableAfterAdds(w, f, Q, x) = TableAfterAdds(w, f, P, x)
      /\ \A x : TableHeldAfterAdds(w, f, Q, x) = TableHeldAfterAdds(w, f, P, x)
  <2>1. PartsUntouched(w, f, P, Q, s)
    BY OtherPartsUntouched
  <2> HIDE DEF Q
  <2> QED BY <1>1, <2>1 DEF PartsUntouched
<1>4. /\ IsFolder(g) /\ g.ok = TRUE /\ g.graph = f.graph
      /\ g.cols = [x \in TablesAfterAdds(w, f, P) |-> TableAfterAdds(w, f, P, x)]
      /\ g.cons = [x \in TablesAfterAdds(w, f, P) |-> TableHeldAfterAdds(w, f, P, x)]
      /\ g.indexes = IndexesAfterAdds(w, f.indexes, P)
  BY DEF AfterAdds, IsFolder
<1>5. /\ IsFolder(k) /\ k.ok = TRUE /\ k.graph = f.graph
      /\ k.cols = [x \in TablesAfterAdds(w, f, Q) |-> TableAfterAdds(w, f, Q, x)]
      /\ k.cons = [x \in TablesAfterAdds(w, f, Q) |-> TableHeldAfterAdds(w, f, Q, x)]
      /\ k.indexes = IndexesAfterAdds(w, f.indexes, Q)
  BY DEF AfterAdds, IsFolder
<1> HIDE DEF g, k, Q
<1>6. /\ IsFolder(h) /\ h.ok = TRUE /\ h.graph = g.graph /\ h.indexes = g.indexes
      /\ h.cols = With(g.cols, t, TableAfterAdds(w, f, P, t))
      /\ h.cons = With(g.cons, t, TableHeldAfterAdds(w, f, P, t))
  <2>1. CASE t \in DOMAIN w.vertices /\ s = VertexTableDDL(t, w.vertices[t])
    <3>1. MadeTable(t, w.vertices[t])
      BY <2>1 DEF WantedSchema
    <3>2. /\ TableAfterAdds(w, f, P, t) = NewColumns(w.vertices[t].cols)
          /\ TableHeldAfterAdds(w, f, P, t) = NewHeld(t, w.vertices[t])
      BY <2>1 DEF TableAfterAdds, TableHeldAfterAdds
    <3>3. ReadAs(Apply(g, VertexTableDDL(t, w.vertices[t])), g, t, NewColumns(w.vertices[t].cols), NewHeld(t, w.vertices[t]))
      BY <1>4, <3>1, VertexTableRead
    <3> QED BY <2>1, <3>2, <3>3 DEF ReadAs
  <2>2. CASE t \in DOMAIN w.edges /\ s = EdgeTableDDL(t, w.edges[t])
    <3>1. t \notin DOMAIN w.vertices
      BY <2>2 DEF WantedSchema
    <3>2. /\ TableAfterAdds(w, f, P, t) = NewColumns(w.edges[t].cols)
          /\ TableHeldAfterAdds(w, f, P, t) = <<>>
      BY <3>1 DEF TableAfterAdds, TableHeldAfterAdds
    <3>3. ReadAs(Apply(g, EdgeTableDDL(t, w.edges[t])), g, t, NewColumns(w.edges[t].cols), <<>>)
      BY <1>4, EdgeTableRead
    <3> QED BY <2>2, <3>2, <3>3 DEF ReadAs
  <2> QED BY <2>1, <2>2
<1> HIDE DEF h
<1>7. h.cols = k.cols
  BY <1>2, <1>3, <1>4, <1>5, <1>6 DEF With
<1>8. h.cons = k.cons
  BY <1>2, <1>3, <1>4, <1>5, <1>6 DEF With
<1>9. h = k
  BY <1>3, <1>4, <1>5, <1>6, <1>7, <1>8 DEF IsFolder
<1> QED BY <1>9 DEF h, g, k, Q, AddsOn

WithColumns(g, t, cols) == [g EXCEPT !.cols[t] = cols]
WithHeld(g, t, cons)    == [g EXCEPT !.cons[t] = cons]

\* One more statement is about the columns, or the constraints, of table t only.
OnlyColumns(w, f, P, Q, t) ==
  /\ TablesAfterAdds(w, f, Q) = TablesAfterAdds(w, f, P)
  /\ IndexesAfterAdds(w, f.indexes, Q) = IndexesAfterAdds(w, f.indexes, P)
  /\ \A x \in TablesAfterAdds(w, f, P) :
       /\ x # t => TableAfterAdds(w, f, Q, x) = TableAfterAdds(w, f, P, x)
       /\ TableHeldAfterAdds(w, f, Q, x) = TableHeldAfterAdds(w, f, P, x)

OnlyHeld(w, f, P, Q, t) ==
  /\ TablesAfterAdds(w, f, Q) = TablesAfterAdds(w, f, P)
  /\ IndexesAfterAdds(w, f.indexes, Q) = IndexesAfterAdds(w, f.indexes, P)
  /\ \A x \in TablesAfterAdds(w, f, P) :
       /\ x # t => TableHeldAfterAdds(w, f, Q, x) = TableHeldAfterAdds(w, f, P, x)
       /\ TableAfterAdds(w, f, Q, x) = TableAfterAdds(w, f, P, x)

LEMMA AddedColumnsEdited ==
  ASSUME NEW w, NEW f, NEW P, NEW Q, NEW t, OnlyColumns(w, f, P, Q, t)
  PROVE  WithColumns(AfterAdds(w, f, P), t, TableAfterAdds(w, f, Q, t)) = AfterAdds(w, f, Q)
<1> DEFINE g == AfterAdds(w, f, P)
           k == AfterAdds(w, f, Q)
           new == TableAfterAdds(w, f, Q, t)
           h == WithColumns(g, t, new)
<1>1. /\ IsFolder(g) /\ g.ok = TRUE /\ g.graph = f.graph
      /\ g.cols = [x \in TablesAfterAdds(w, f, P) |-> TableAfterAdds(w, f, P, x)]
      /\ g.cons = [x \in TablesAfterAdds(w, f, P) |-> TableHeldAfterAdds(w, f, P, x)]
      /\ g.indexes = IndexesAfterAdds(w, f.indexes, P)
  BY DEF AfterAdds, IsFolder
<1>2. /\ IsFolder(k) /\ k.ok = TRUE /\ k.graph = f.graph
      /\ k.cols = [x \in TablesAfterAdds(w, f, Q) |-> TableAfterAdds(w, f, Q, x)]
      /\ k.cons = [x \in TablesAfterAdds(w, f, Q) |-> TableHeldAfterAdds(w, f, Q, x)]
      /\ k.indexes = IndexesAfterAdds(w, f.indexes, Q)
  BY DEF AfterAdds, IsFolder
<1> HIDE DEF g, k
<1>3. /\ IsFolder(h) /\ h.cols = [g.cols EXCEPT ![t] = new]
      /\ h.cons = g.cons /\ h.indexes = g.indexes /\ h.graph = g.graph /\ h.ok = g.ok
  <2> DEFINE e == [g.cols EXCEPT ![t] = new]
  <2>1. h = [g EXCEPT !.cols = e]
    BY DEF WithColumns
  <2> HIDE DEF h, e
  <2>2. h = [cols |-> e, cons |-> g.cons, indexes |-> g.indexes, graph |-> g.graph, ok |-> g.ok]
    BY <1>1, <2>1 DEF IsFolder
  <2> QED BY <2>2 DEF e, IsFolder
<1> HIDE DEF h
<1>4. h.cols = k.cols
  BY <1>1, <1>2, <1>3 DEF OnlyColumns
<1>5. h.cons = k.cons
  BY <1>1, <1>2, <1>3 DEF OnlyColumns
<1>6. h = k
  BY <1>1, <1>2, <1>3, <1>4, <1>5 DEF IsFolder, OnlyColumns
<1> QED BY <1>6 DEF h, g, k

LEMMA AddedHeldEdited ==
  ASSUME NEW w, NEW f, NEW P, NEW Q, NEW t, OnlyHeld(w, f, P, Q, t)
  PROVE  WithHeld(AfterAdds(w, f, P), t, TableHeldAfterAdds(w, f, Q, t)) = AfterAdds(w, f, Q)
<1> DEFINE g == AfterAdds(w, f, P)
           k == AfterAdds(w, f, Q)
           new == TableHeldAfterAdds(w, f, Q, t)
           h == WithHeld(g, t, new)
<1>1. /\ IsFolder(g) /\ g.ok = TRUE /\ g.graph = f.graph
      /\ g.cols = [x \in TablesAfterAdds(w, f, P) |-> TableAfterAdds(w, f, P, x)]
      /\ g.cons = [x \in TablesAfterAdds(w, f, P) |-> TableHeldAfterAdds(w, f, P, x)]
      /\ g.indexes = IndexesAfterAdds(w, f.indexes, P)
  BY DEF AfterAdds, IsFolder
<1>2. /\ IsFolder(k) /\ k.ok = TRUE /\ k.graph = f.graph
      /\ k.cols = [x \in TablesAfterAdds(w, f, Q) |-> TableAfterAdds(w, f, Q, x)]
      /\ k.cons = [x \in TablesAfterAdds(w, f, Q) |-> TableHeldAfterAdds(w, f, Q, x)]
      /\ k.indexes = IndexesAfterAdds(w, f.indexes, Q)
  BY DEF AfterAdds, IsFolder
<1> HIDE DEF g, k
<1>3. /\ IsFolder(h) /\ h.cons = [g.cons EXCEPT ![t] = new]
      /\ h.cols = g.cols /\ h.indexes = g.indexes /\ h.graph = g.graph /\ h.ok = g.ok
  <2> DEFINE e == [g.cons EXCEPT ![t] = new]
  <2>1. h = [g EXCEPT !.cons = e]
    BY DEF WithHeld
  <2> HIDE DEF h, e
  <2>2. h = [cols |-> g.cols, cons |-> e, indexes |-> g.indexes, graph |-> g.graph, ok |-> g.ok]
    BY <1>1, <2>1 DEF IsFolder
  <2> QED BY <2>2 DEF e, IsFolder
<1> HIDE DEF h
<1>4. h.cols = k.cols
  BY <1>1, <1>2, <1>3 DEF OnlyHeld
<1>5. h.cons = k.cons
  BY <1>1, <1>2, <1>3 DEF OnlyHeld
<1>6. h = k
  BY <1>1, <1>2, <1>3, <1>4, <1>5 DEF IsFolder, OnlyHeld
<1> QED BY <1>6 DEF h, g, k

\* One more statement: a column.
LEMMA ColumnAdded ==
  ASSUME NEW w, NEW f, NEW P, NEW t \in DOMAIN f.cols,
         NEW c, c \in DOMAIN w.vertices[t].cols, c \notin DOMAIN f.cols[t],
         NEW s, s = AddColumn(t, c, w.vertices[t].cols[c])
  PROVE  AddsOn(w, f, P, s)
<1> DEFINE g == AfterAdds(w, f, P)
           Q == P \union {s}
           vt == w.vertices[t]
           old == f.cols[t]
           def == FoldedColumn(ColumnDDL(vt.cols[c]))
<1>1. s.op = "add_column" /\ s.table = t /\ s.column = c /\ s.def = ColumnDDL(vt.cols[c])
  BY DEF AddColumn
<1>2. Untouched(w, P, Q, s) /\ PartsUntouched(w, f, P, Q, s)
  BY OthersUntouched, OtherPartsUntouched
<1>3. /\ t \in TablesAfterAdds(w, f, P) /\ g.cols[t] = TableAfterAdds(w, f, P, t)
      /\ TableAfterAdds(w, f, P, t) = ColumnsAfterAdds(t, old, vt, P)
      /\ TableAfterAdds(w, f, Q, t) = ColumnsAfterAdds(t, old, vt, Q)
  BY DEF TablesAfterAdds, AfterAdds, TableAfterAdds
<1>4. /\ AddedColumns(t, vt, Q) = AddedColumns(t, vt, P) \union {c}
      /\ \A x, vx : x # t => AddedColumns(x, vx, Q) = AddedColumns(x, vx, P)
  BY AddsAreApart DEF AddedColumns
<1>5. Apply(g, s) = WithColumns(g, t, With(g.cols[t], c, def))
  <2>1. t \in DOMAIN g.cols
    BY <1>3 DEF AfterAdds
  <2> HIDE DEF g, vt
  <2>2. Apply(g, s) = FoldAddColumn(g, t, c, ColumnDDL(vt.cols[c]))
    BY <1>1 DEF Apply
  <2> QED BY <2>1, <2>2 DEF FoldAddColumn, WithColumnsOf, FoldedColumns, WithColumns
<1> HIDE DEF g, vt, old, Q
<1>6. With(ColumnsAfterAdds(t, old, vt, P), c, def) = ColumnsAfterAdds(t, old, vt, Q)
  <2>1. c \notin DOMAIN old /\ \A x, col, a : ColumnAfterAdds(t, x, col, a, Q) = ColumnAfterAdds(t, x, col, a, P)
    BY <1>1, <1>2 DEF old, Untouched
  <2> QED BY <1>4, <2>1 DEF With, ColumnsAfterAdds
<1>7. \A x : x # t => TableAfterAdds(w, f, Q, x) = TableAfterAdds(w, f, P, x)
  <2>1. \A x, cols, vx : x # t => ColumnsAfterAdds(x, cols, vx, Q) = ColumnsAfterAdds(x, cols, vx, P)
    BY <1>1, <1>2, <1>4 DEF Untouched, ColumnsAfterAdds
  <2> QED BY <2>1 DEF TableAfterAdds
<1>8. WithColumns(g, t, TableAfterAdds(w, f, Q, t)) = AfterAdds(w, f, Q)
  <2>1. /\ TablesAfterAdds(w, f, Q) = TablesAfterAdds(w, f, P)
        /\ IndexesAfterAdds(w, f.indexes, Q) = IndexesAfterAdds(w, f.indexes, P)
        /\ \A x : TableHeldAfterAdds(w, f, Q, x) = TableHeldAfterAdds(w, f, P, x)
    BY <1>1, <1>2 DEF PartsUntouched
  <2>2. OnlyColumns(w, f, P, Q, t)
    BY <1>7, <2>1 DEF OnlyColumns
  <2> QED BY <2>2, AddedColumnsEdited DEF g
<1> QED BY <1>3, <1>5, <1>6, <1>8 DEF g, Q, AddsOn

\* One more statement: a default.
LEMMA DefaultAdded ==
  ASSUME NEW w, NEW f, NEW P, NEW t \in DOMAIN f.cols, NEW c \in DOMAIN f.cols[t],
         NEW s, s = SetDefault(t, c, w.vertices[t].cols[c].default)
  PROVE  AddsOn(w, f, P, s)
<1> DEFINE g == AfterAdds(w, f, P)
           Q == P \union {s}
           vt == w.vertices[t]
           old == f.cols[t]
           a == vt.cols[c].default
           was == ColumnsAfterAdds(t, old, vt, P)
           now == ColumnsAfterAdds(t, old, vt, Q)
<1>1. s.op = "set_default" /\ s.table = t /\ s.column = c /\ s.default = a
  BY DEF SetDefault
<1>2. Untouched(w, P, Q, s) /\ PartsUntouched(w, f, P, Q, s)
  BY OthersUntouched, OtherPartsUntouched
<1>3. /\ t \in TablesAfterAdds(w, f, P) /\ g.cols[t] = TableAfterAdds(w, f, P, t)
      /\ DOMAIN g.cols = TablesAfterAdds(w, f, P)
      /\ TableAfterAdds(w, f, P, t) = was
      /\ TableAfterAdds(w, f, Q, t) = now
  BY DEF TablesAfterAdds, AfterAdds, TableAfterAdds
<1>4. /\ \A u : AddUnique(u) \in Q <=> AddUnique(u) \in P
      /\ \A x, d, b : (x # t \/ d # c) => (SetDefault(x, d, b) \in Q <=> SetDefault(x, d, b) \in P)
      /\ SetDefault(t, c, a) \in Q
  BY AddsAreApart DEF AddUnique
<1> HIDE DEF Q
<1>5. /\ \A x, d, col, b : (x # t \/ d # c) => ColumnAfterAdds(x, d, col, b, Q) = ColumnAfterAdds(x, d, col, b, P)
      /\ \A col : ColumnAfterAdds(t, c, col, a, Q) = [ColumnAfterAdds(t, c, col, a, P) EXCEPT !.default = a]
  <2> HIDE DEF a
  <2>1. \A x, d, col, b : (x # t \/ d # c) => ColumnAfterAdds(x, d, col, b, Q) = ColumnAfterAdds(x, d, col, b, P)
    BY <1>4 DEF ColumnAfterAdds
  <2>2. ASSUME NEW col PROVE ColumnAfterAdds(t, c, col, a, Q) = [ColumnAfterAdds(t, c, col, a, P) EXCEPT !.default = a]
    <3> DEFINE u == IF AddUnique(<<t, c>>) \in P THEN TRUE ELSE col.unique
               o == IF SetDefault(t, c, a) \in P THEN a ELSE col.default
    <3>1. ColumnAfterAdds(t, c, col, a, Q) =
            [type |-> col.type, primary |-> col.primary, unique |-> u, default |-> a,
             check |-> col.check, ref |-> col.ref, was |-> col.was]
      BY <1>4 DEF ColumnAfterAdds
    <3>2. ColumnAfterAdds(t, c, col, a, P) =
            [type |-> col.type, primary |-> col.primary, unique |-> u, default |-> o,
             check |-> col.check, ref |-> col.ref, was |-> col.was]
      BY DEF ColumnAfterAdds
    <3> HIDE DEF u, o
    <3> QED BY <3>1, <3>2
  <2> QED BY <2>1, <2>2
<1>6. AddedColumns(t, vt, Q) = AddedColumns(t, vt, P) /\ \A x, vx : AddedColumns(x, vx, Q) = AddedColumns(x, vx, P)
  BY <1>1, <1>2 DEF Untouched
<1> HIDE DEF g, was, now
<1>7. c \in DOMAIN was /\ Apply(g, s) = WithColumns(g, t, [was EXCEPT ![c].default = a])
  <2>1. c \in DOMAIN was
    BY DEF was, ColumnsAfterAdds
  <2>2. Apply(g, s) = FoldSetDefault(g, t, c, a)
    <3> HIDE DEF a
    <3> QED BY <1>1 DEF Apply
  <2> HIDE DEF a
  <2>3. Apply(g, s) = [g EXCEPT !.cols[t][c].default = a]
    BY <1>3, <2>1, <2>2 DEF FoldSetDefault
  <2> QED BY <1>3, <2>1, <2>3 DEF WithColumns
<1>8. [was EXCEPT ![c].default = a] = now
  <2>1. DOMAIN now = DOMAIN was /\ now = [x \in DOMAIN was |-> now[x]] /\ was = [x \in DOMAIN was |-> was[x]]
    BY <1>6 DEF was, now, ColumnsAfterAdds
  <2>2. \A x \in DOMAIN was : x # c => now[x] = was[x]
    BY <1>5, <1>6 DEF was, now, ColumnsAfterAdds
  <2>3. now[c] = [was[c] EXCEPT !.default = a]
    <3> DEFINE o == old[c]
    <3>1. now[c] = ColumnAfterAdds(t, c, o, a, Q) /\ was[c] = ColumnAfterAdds(t, c, o, a, P)
      BY DEF was, now, ColumnsAfterAdds
    <3> HIDE DEF o, a
    <3> QED BY <1>5, <3>1
  <2> HIDE DEF a
  <2> QED BY <1>7, <2>1, <2>2, <2>3
<1>9. \A x : x # t => TableAfterAdds(w, f, Q, x) = TableAfterAdds(w, f, P, x)
  <2>1. \A x, cols, vx : x # t => ColumnsAfterAdds(x, cols, vx, Q) = ColumnsAfterAdds(x, cols, vx, P)
    BY <1>5, <1>6 DEF ColumnsAfterAdds
  <2> QED BY <2>1 DEF TableAfterAdds
<1>10. WithColumns(g, t, TableAfterAdds(w, f, Q, t)) = AfterAdds(w, f, Q)
  <2>1. /\ TablesAfterAdds(w, f, Q) = TablesAfterAdds(w, f, P)
        /\ IndexesAfterAdds(w, f.indexes, Q) = IndexesAfterAdds(w, f.indexes, P)
        /\ \A x : TableHeldAfterAdds(w, f, Q, x) = TableHeldAfterAdds(w, f, P, x)
    BY <1>1, <1>2 DEF PartsUntouched
  <2>2. OnlyColumns(w, f, P, Q, t)
    BY <1>9, <2>1 DEF OnlyColumns
  <2> QED BY <2>2, AddedColumnsEdited DEF g
<1> QED BY <1>3, <1>7, <1>8, <1>10 DEF g, Q, AddsOn

\* One more statement: the UNIQUE of a column.
LEMMA UniqueAdded ==
  ASSUME NEW w, NEW f, NEW P, NEW t \in DOMAIN f.cols, MadeTable(t, w.vertices[t]),
         NEW c \in DOMAIN f.cols[t], NEW s, s = AddUnique(<<t, c>>)
  PROVE  AddsOn(w, f, P, s)
<1> DEFINE g == AfterAdds(w, f, P)
           Q == P \union {s}
           vt == w.vertices[t]
           old == f.cols[t]
           con == UniqueConstraint(t, c)
           was == ColumnsAfterAdds(t, old, vt, P)
           now == ColumnsAfterAdds(t, old, vt, Q)
<1>1. /\ s = AddConstraint(t, con) /\ s.op = "add_constraint" /\ s.table = t /\ s.con = con
      /\ con.name.role = "unique" /\ con.name.table = t /\ con.name.column = c
  BY DEF AddUnique, AddConstraint, UniqueConstraint, UniqueConstraintName
<1>2. Untouched(w, P, Q, s) /\ PartsUntouched(w, f, P, Q, s)
  BY OthersUntouched, OtherPartsUntouched
<1>3. /\ t \in TablesAfterAdds(w, f, P) /\ g.cols[t] = TableAfterAdds(w, f, P, t)
      /\ DOMAIN g.cols = TablesAfterAdds(w, f, P)
      /\ TableAfterAdds(w, f, P, t) = was
      /\ TableAfterAdds(w, f, Q, t) = now
  BY DEF TablesAfterAdds, AfterAdds, TableAfterAdds
<1>4. /\ \A x, d : (x # t \/ d # c) => (AddUnique(<<x, d>>) \in Q <=> AddUnique(<<x, d>>) \in P)
      /\ \A x, d, b : SetDefault(x, d, b) \in Q <=> SetDefault(x, d, b) \in P
      /\ AddUnique(<<t, c>>) \in Q
  <2>1. \A x, d, b : SetDefault(x, d, b) # s
    BY <1>1, AddsAreApart
  <2>2. ASSUME NEW x, NEW d, AddUnique(<<x, d>>) = s PROVE x = t /\ d = c
    <3>1. /\ AddUnique(<<x, d>>) = AddConstraint(x, UniqueConstraint(x, d))
          /\ UniqueConstraint(x, d).name.column = d
      BY DEF AddUnique, UniqueConstraint, UniqueConstraintName
    <3> HIDE DEF con
    <3>2. AddConstraint(x, UniqueConstraint(x, d)) = AddConstraint(t, con)
      BY <1>1, <2>2, <3>1
    <3>3. x = t /\ UniqueConstraint(x, d) = con
      BY <3>2, ConstraintsAreApart
    <3> QED BY <1>1, <3>1, <3>3
  <2> QED BY <2>1, <2>2
<1> HIDE DEF Q, con
<1>5. /\ \A x, d, col, b : (x # t \/ d # c) => ColumnAfterAdds(x, d, col, b, Q) = ColumnAfterAdds(x, d, col, b, P)
      /\ \A col, a : ColumnAfterAdds(t, c, col, a, Q) = [ColumnAfterAdds(t, c, col, a, P) EXCEPT !.unique = TRUE]
  <2>1. \A x, d, col, b : (x # t \/ d # c) => ColumnAfterAdds(x, d, col, b, Q) = ColumnAfterAdds(x, d, col, b, P)
    BY <1>4 DEF ColumnAfterAdds
  <2>2. ASSUME NEW col, NEW a
        PROVE  ColumnAfterAdds(t, c, col, a, Q) = [ColumnAfterAdds(t, c, col, a, P) EXCEPT !.unique = TRUE]
    <3> DEFINE yes == TRUE
               u == IF AddUnique(<<t, c>>) \in P THEN TRUE ELSE col.unique
               o == IF SetDefault(t, c, a) \in P THEN a ELSE col.default
    <3>1. ColumnAfterAdds(t, c, col, a, Q) =
            [type |-> col.type, primary |-> col.primary, unique |-> yes, default |-> o,
             check |-> col.check, ref |-> col.ref, was |-> col.was]
      BY <1>4 DEF ColumnAfterAdds
    <3>2. ColumnAfterAdds(t, c, col, a, P) =
            [type |-> col.type, primary |-> col.primary, unique |-> u, default |-> o,
             check |-> col.check, ref |-> col.ref, was |-> col.was]
      BY DEF ColumnAfterAdds
    <3> HIDE DEF u, o, yes
    <3>3. ColumnAfterAdds(t, c, col, a, Q) = [ColumnAfterAdds(t, c, col, a, P) EXCEPT !.unique = yes]
      BY <3>1, <3>2
    <3> QED BY <3>3 DEF yes
  <2> QED BY <2>1, <2>2
<1>6. \A x, vx : AddedColumns(x, vx, Q) = AddedColumns(x, vx, P)
  BY <1>1, <1>2 DEF Untouched
<1> HIDE DEF g, was, now
<1>7. c \in DOMAIN was /\ Apply(g, s) = WithColumns(g, t, [was EXCEPT ![c].unique = TRUE])
  <2>1. c \in DOMAIN was
    BY DEF was, ColumnsAfterAdds
  <2>2. Apply(g, s) = ApplyConstraint(g, t, con, TRUE)
    BY <1>1 DEF Apply
  <2>3. Apply(g, s) = [g EXCEPT !.cols[t][c].unique = TRUE]
    BY <1>1, <1>3, <2>1, <2>2 DEF ApplyConstraint, ClassifyConstraint
  <2> QED BY <1>3, <2>1, <2>3 DEF WithColumns
<1>8. [was EXCEPT ![c].unique = TRUE] = now
  <2>1. DOMAIN now = DOMAIN was /\ now = [x \in DOMAIN was |-> now[x]] /\ was = [x \in DOMAIN was |-> was[x]]
    BY <1>6 DEF was, now, ColumnsAfterAdds
  <2>2. \A x \in DOMAIN was : x # c => now[x] = was[x]
    BY <1>5, <1>6 DEF was, now, ColumnsAfterAdds
  <2>3. now[c] = [was[c] EXCEPT !.unique = TRUE]
    <3> DEFINE o == old[c]
               a == vt.cols[c].default
    <3>1. now[c] = ColumnAfterAdds(t, c, o, a, Q) /\ was[c] = ColumnAfterAdds(t, c, o, a, P)
      BY DEF was, now, ColumnsAfterAdds
    <3> HIDE DEF o, a
    <3> QED BY <1>5, <3>1
  <2> QED BY <1>7, <2>1, <2>2, <2>3
<1>9. \A x : x # t => TableAfterAdds(w, f, Q, x) = TableAfterAdds(w, f, P, x)
  <2>1. \A x, cols, vx : x # t => ColumnsAfterAdds(x, cols, vx, Q) = ColumnsAfterAdds(x, cols, vx, P)
    BY <1>5, <1>6 DEF ColumnsAfterAdds
  <2> QED BY <2>1 DEF TableAfterAdds
<1>10. \A x : TableHeldAfterAdds(w, f, Q, x) = TableHeldAfterAdds(w, f, P, x)
  <2>1. \A x, k : k \in TableConstraints(x, w.vertices[x]) => AddConstraint(x, k) # s
    <3>1. ASSUME NEW x, NEW k \in TableConstraints(x, w.vertices[x]), AddConstraint(x, k) = s PROVE FALSE
      <4>1. x = t /\ k = con
        BY <1>1, <3>1, AddsAreApart
      <4>2. IsHeld(t, k.name)
        BY <3>1, <4>1, ConstraintsAreHeld
      <4> QED BY <1>1, <4>1, <4>2 DEF IsHeld
    <3> QED BY <3>1
  <2>2. \A x : AddedHeld(x, w.vertices[x], Q) = AddedHeld(x, w.vertices[x], P)
    BY <2>1 DEF AddedHeld, Q
  <2>3. \A x, cons : HeldAfterAdds(x, cons, w.vertices[x], Q) = HeldAfterAdds(x, cons, w.vertices[x], P)
    BY <2>2 DEF HeldAfterAdds
  <2> QED BY <2>3 DEF TableHeldAfterAdds
<1>11. WithColumns(g, t, TableAfterAdds(w, f, Q, t)) = AfterAdds(w, f, Q)
  <2>1. /\ TablesAfterAdds(w, f, Q) = TablesAfterAdds(w, f, P)
        /\ IndexesAfterAdds(w, f.indexes, Q) = IndexesAfterAdds(w, f.indexes, P)
    BY <1>1, <1>2 DEF PartsUntouched
  <2>2. OnlyColumns(w, f, P, Q, t)
    BY <1>9, <1>10, <2>1 DEF OnlyColumns
  <2> QED BY <2>2, AddedColumnsEdited DEF g
<1> QED BY <1>3, <1>7, <1>8, <1>11 DEF g, Q, AddsOn

\* One more statement: a named constraint.
LEMMA ConstraintAdded ==
  ASSUME NEW w, NEW f, NEW P, NEW t \in DOMAIN f.cols, MadeTable(t, w.vertices[t]),
         NEW k \in TableConstraints(t, w.vertices[t]), NEW s, s = AddConstraint(t, k)
  PROVE  AddsOn(w, f, P, s)
<1> DEFINE g == AfterAdds(w, f, P)
           Q == P \union {s}
           vt == w.vertices[t]
           old == f.cons[t]
           was == HeldAfterAdds(t, old, vt, P)
           now == HeldAfterAdds(t, old, vt, Q)
<1>1. s.op = "add_constraint" /\ s.table = t /\ s.con = k /\ IsHeld(t, k.name) /\ HeldAs(t, vt, k.name) = k
  BY ConstraintsAreHeld, HeldAsIsIt DEF AddConstraint
<1>2. Untouched(w, P, Q, s) /\ PartsUntouched(w, f, P, Q, s)
  BY OthersUntouched, OtherPartsUntouched
<1>3. /\ t \in TablesAfterAdds(w, f, P) /\ g.cons[t] = TableHeldAfterAdds(w, f, P, t)
      /\ DOMAIN g.cols = TablesAfterAdds(w, f, P)
      /\ TableHeldAfterAdds(w, f, P, t) = was
      /\ TableHeldAfterAdds(w, f, Q, t) = now
  BY DEF TablesAfterAdds, AfterAdds, TableHeldAfterAdds
<1>4. /\ \A x, d : AddUnique(<<x, d>>) \in Q <=> AddUnique(<<x, d>>) \in P
      /\ \A x, d, b : SetDefault(x, d, b) \in Q <=> SetDefault(x, d, b) \in P
  <2>1. \A x, d, b : SetDefault(x, d, b) # s
    BY <1>1, AddsAreApart
  <2>2. ASSUME NEW x, NEW d, AddUnique(<<x, d>>) = s PROVE FALSE
    <3>1. /\ AddUnique(<<x, d>>) = AddConstraint(x, UniqueConstraint(x, d))
          /\ UniqueConstraint(x, d).name.role = "unique"
      BY DEF AddUnique, UniqueConstraint, UniqueConstraintName
    <3>3. AddConstraint(x, UniqueConstraint(x, d)) = AddConstraint(t, k)
      BY <2>2, <3>1
    <3>2. UniqueConstraint(x, d) = k
      BY <3>3, ConstraintsAreApart
    <3> QED BY <1>1, <3>1, <3>2 DEF IsHeld
  <2> QED BY <2>1, <2>2
<1> HIDE DEF Q, vt
<1>5. \A x, d, col, b : ColumnAfterAdds(x, d, col, b, Q) = ColumnAfterAdds(x, d, col, b, P)
  BY <1>4 DEF ColumnAfterAdds
<1>6. \A x, vx : AddedColumns(x, vx, Q) = AddedColumns(x, vx, P)
  BY <1>1, <1>2 DEF Untouched
<1>7. /\ AddedHeld(t, vt, Q) = AddedHeld(t, vt, P) \union {k.name}
      /\ \A x, vx : x # t => AddedHeld(x, vx, Q) = AddedHeld(x, vx, P)
  <2>1. {x \in TableConstraints(t, vt) : AddConstraint(t, x) \in Q} =
          {x \in TableConstraints(t, vt) : AddConstraint(t, x) \in P} \union {k}
    BY <1>1, AddsAreApart DEF Q, vt
  <2>2. \A x, vx : x # t => {j \in TableConstraints(x, vx) : AddConstraint(x, j) \in Q} =
                            {j \in TableConstraints(x, vx) : AddConstraint(x, j) \in P}
    BY <1>1, AddsAreApart DEF Q
  <2> QED BY <2>1, <2>2 DEF AddedHeld
<1>8. With(was, k.name, k) = now
  BY <1>1, <1>7 DEF With, HeldAfterAdds
<1> HIDE DEF g, was, now
<1>9. Apply(g, s) = WithHeld(g, t, With(was, k.name, k))
  <2>1. Apply(g, s) = ApplyConstraint(g, t, k, TRUE)
    BY <1>1 DEF Apply
  <2>2. k.name.table = t /\ k.name.role # "unique" /\ k.name.role # "unknown"
    BY <1>1 DEF IsHeld
  <2>3. Apply(g, s) = [g EXCEPT !.cons[t] = With(g.cons[t], k.name, k)]
    BY <1>3, <2>1, <2>2 DEF ApplyConstraint, ClassifyConstraint
  <2> QED BY <1>3, <2>3 DEF WithHeld
<1>10. \A x : TableAfterAdds(w, f, Q, x) = TableAfterAdds(w, f, P, x)
  <2>1. \A x, cols, vx : ColumnsAfterAdds(x, cols, vx, Q) = ColumnsAfterAdds(x, cols, vx, P)
    BY <1>5, <1>6 DEF ColumnsAfterAdds
  <2> QED BY <2>1 DEF TableAfterAdds
<1>11. \A x : x # t => TableHeldAfterAdds(w, f, Q, x) = TableHeldAfterAdds(w, f, P, x)
  <2>1. \A x, cons, vx : x # t => HeldAfterAdds(x, cons, vx, Q) = HeldAfterAdds(x, cons, vx, P)
    BY <1>7 DEF HeldAfterAdds
  <2> QED BY <2>1 DEF TableHeldAfterAdds
<1>12. WithHeld(g, t, TableHeldAfterAdds(w, f, Q, t)) = AfterAdds(w, f, Q)
  <2>1. /\ TablesAfterAdds(w, f, Q) = TablesAfterAdds(w, f, P)
        /\ IndexesAfterAdds(w, f.indexes, Q) = IndexesAfterAdds(w, f.indexes, P)
    BY <1>1, <1>2 DEF PartsUntouched
  <2>2. OnlyHeld(w, f, P, Q, t)
    BY <1>10, <1>11, <2>1 DEF OnlyHeld
  <2> QED BY <2>2, AddedHeldEdited DEF g
<1> QED BY <1>3, <1>8, <1>9, <1>12 DEF g, Q, AddsOn

\* One more statement: an index.
LEMMA IndexAdded ==
  ASSUME NEW w, NEW f, NEW P, NEW i \in DOMAIN w.indexes, NEW s, s = IndexDDL(i, w.indexes[i])
  PROVE  AddsOn(w, f, P, s)
<1> DEFINE g == AfterAdds(w, f, P)
           Q == P \union {s}
           k == AfterAdds(w, f, Q)
           idx == [table |-> w.indexes[i].table, column |-> w.indexes[i].column]
           new == With(g.indexes, i, idx)
           h == [g EXCEPT !.indexes = new]
<1>1. s.op = "create_index" /\ s.index = i /\ s.table = w.indexes[i].table /\ s.column = w.indexes[i].column
  BY DEF IndexDDL
<1>2. Apply(g, s) = h
  <2> HIDE DEF g
  <2> QED BY <1>1 DEF Apply
<1>3. PartsUntouched(w, f, P, Q, s)
  BY OtherPartsUntouched
<1>4. MadeIndexes(w, Q) = MadeIndexes(w, P) \union {i}
  BY AddsAreApart DEF MadeIndexes
<1>5. /\ IsFolder(g) /\ g.ok = TRUE /\ g.graph = f.graph
      /\ g.cols = [x \in TablesAfterAdds(w, f, P) |-> TableAfterAdds(w, f, P, x)]
      /\ g.cons = [x \in TablesAfterAdds(w, f, P) |-> TableHeldAfterAdds(w, f, P, x)]
      /\ g.indexes = IndexesAfterAdds(w, f.indexes, P)
  BY DEF AfterAdds, IsFolder
<1>6. /\ IsFolder(k) /\ k.ok = TRUE /\ k.graph = f.graph
      /\ k.cols = [x \in TablesAfterAdds(w, f, Q) |-> TableAfterAdds(w, f, Q, x)]
      /\ k.cons = [x \in TablesAfterAdds(w, f, Q) |-> TableHeldAfterAdds(w, f, Q, x)]
      /\ k.indexes = IndexesAfterAdds(w, f.indexes, Q)
  BY DEF AfterAdds, IsFolder
<1> HIDE DEF g, k, Q
<1>7. new = IndexesAfterAdds(w, f.indexes, Q)
  BY <1>4, <1>5 DEF With, IndexesAfterAdds
<1>8. h = [cols |-> g.cols, cons |-> g.cons, indexes |-> new, graph |-> g.graph, ok |-> g.ok]
  <2> HIDE DEF new
  <2> QED BY <1>5 DEF IsFolder
<1> HIDE DEF h, new
<1>9. /\ IsFolder(h) /\ h.cols = g.cols /\ h.cons = g.cons /\ h.indexes = new /\ h.graph = g.graph /\ h.ok = g.ok
  BY <1>8 DEF IsFolder
<1>10. h.cols = k.cols /\ h.cons = k.cons
  BY <1>1, <1>3, <1>5, <1>6, <1>9 DEF PartsUntouched
<1>11. h = k
  BY <1>5, <1>6, <1>7, <1>9, <1>10 DEF IsFolder
<1> QED BY <1>2, <1>11 DEF g, k, Q, AddsOn

LEMMA OneAdded ==
  ASSUME NEW w, WantedSchema(w), NEW f, NEW S, AddTo(w, f, S), NEW P, NEW s \in S
  PROVE  Applied(AfterAdds(w, f, P), s) = AfterAdds(w, f, P \union {s})
<1>1. Applied(AfterAdds(w, f, P), s) = Apply(AfterAdds(w, f, P), s)
  <2>1. AfterAdds(w, f, P).ok = TRUE
    BY DEF AfterAdds
  <2> QED BY <2>1 DEF Applied
<1>2. ASSUME NEW v \in DOMAIN w.vertices \ DOMAIN f.cols, s = VertexTableDDL(v, w.vertices[v])
      PROVE  AddsOn(w, f, P, s)
  BY <1>2, TableAdded
<1>3. ASSUME NEW e \in DOMAIN w.edges \ DOMAIN f.cols, s = EdgeTableDDL(e, w.edges[e])
      PROVE  AddsOn(w, f, P, s)
  BY <1>3, TableAdded
<1>4. ASSUME NEW i \in DOMAIN w.indexes, s = IndexDDL(i, w.indexes[i])
      PROVE  AddsOn(w, f, P, s)
  BY <1>4, IndexAdded
<1>5. ASSUME NEW t \in DOMAIN f.cols \intersect DOMAIN w.vertices,
             \/ \E c \in DOMAIN w.vertices[t].cols \ DOMAIN f.cols[t] : s = AddColumn(t, c, w.vertices[t].cols[c])
             \/ \E c \in DOMAIN f.cols[t] : s = SetDefault(t, c, w.vertices[t].cols[c].default)
             \/ \E c \in DOMAIN f.cols[t] : s = AddUnique(<<t, c>>)
             \/ \E k \in TableConstraints(t, w.vertices[t]) : s = AddConstraint(t, k)
      PROVE  AddsOn(w, f, P, s)
  <2>1. t \in DOMAIN f.cols /\ MadeTable(t, w.vertices[t])
    BY DEF WantedSchema
  <2>2. CASE \E c \in DOMAIN w.vertices[t].cols \ DOMAIN f.cols[t] : s = AddColumn(t, c, w.vertices[t].cols[c])
    <3>1. PICK c \in DOMAIN w.vertices[t].cols \ DOMAIN f.cols[t] : s = AddColumn(t, c, w.vertices[t].cols[c])
      BY <2>2
    <3>2. c \in DOMAIN w.vertices[t].cols /\ c \notin DOMAIN f.cols[t]
      OBVIOUS
    <3> QED BY <2>1, <3>1, <3>2, ColumnAdded
  <2>3. CASE \E c \in DOMAIN f.cols[t] : s = SetDefault(t, c, w.vertices[t].cols[c].default)
    <3>1. PICK c \in DOMAIN f.cols[t] : s = SetDefault(t, c, w.vertices[t].cols[c].default)
      BY <2>3
    <3> QED BY <2>1, <3>1, DefaultAdded
  <2>4. CASE \E c \in DOMAIN f.cols[t] : s = AddUnique(<<t, c>>)
    <3>1. PICK c \in DOMAIN f.cols[t] : s = AddUnique(<<t, c>>)
      BY <2>4
    <3> QED BY <2>1, <3>1, UniqueAdded
  <2>5. CASE \E k \in TableConstraints(t, w.vertices[t]) : s = AddConstraint(t, k)
    <3>1. PICK k \in TableConstraints(t, w.vertices[t]) : s = AddConstraint(t, k)
      BY <2>5
    <3> QED BY <2>1, <3>1, ConstraintAdded
  <2> QED BY <1>5, <2>2, <2>3, <2>4, <2>5
<1>6. AddsOn(w, f, P, s)
  BY <1>2, <1>3, <1>4, <1>5 DEF AddTo
<1> QED BY <1>1, <1>6 DEF AddsOn

\* A section whose statements each add something wanted leaves the folder with
\* exactly what they say, however the emitter mixes tables, columns, defaults,
\* constraints and indexes.
THEOREM AddsFolded ==
  ASSUME NEW w, WantedSchema(w), NEW f, ReadableFolder(f), NEW q, List(q), AddTo(w, f, Range(q))
  PROVE  FoldSection(f, q) = AfterAdds(w, f, Range(q))
<1> DEFINE S == Range(q)
<1>1. /\ Len(q) \in Nat /\ DOMAIN q = 1..Len(q) /\ \A i \in 1..Len(q) : q[i] \in S
      /\ S = {q[i] : i \in 1..Len(q)}
  BY DEF List, Range
<1> HIDE DEF S
<1>s2. PICK after : FoldsOf(after, f, q)
  <2>1. Len(q) \in Nat
    BY <1>1
  <2> QED BY <2>1, FoldHasSteps
<1>2. /\ after[0] = f
      /\ \A i \in 1..Len(q) : after[i] = Applied(after[i-1], q[i])
      /\ FoldSection(f, q) = after[Len(q)]
  BY <1>s2 DEF FoldsOf
<1> DEFINE n == Len(q)
           Met(k) == {q[i] : i \in 1..k}
           T == {k \in 0..n : after[k] = AfterAdds(w, f, Met(k))}
<1>3. n \in Nat /\ AddTo(w, f, S)
  BY <1>1 DEF S
<1>4. 0 \in T
  <2>1. Met(0) = {} /\ 0 \in 0..n
    BY <1>3
  <2> QED BY <1>2, <2>1, NothingAdded
<1>5. ASSUME NEW k \in 1..n, k-1 \in T PROVE k \in T
  <2>0. after[k-1] = AfterAdds(w, f, Met(k-1))
    BY <1>5
  <2>1. k \in 0..n /\ after[k] = Applied(after[k-1], q[k]) /\ q[k] \in S
    <3> HIDE DEF Met, T
    <3> QED BY <1>1, <1>2, <1>3
  <2>2. Met(k) = Met(k-1) \union {q[k]}
    <3>1. 1..k = (1..(k-1)) \union {k}
      BY <1>3
    <3> QED BY <3>1
  <2> HIDE DEF Met
  <2>3. Applied(AfterAdds(w, f, Met(k-1)), q[k]) = AfterAdds(w, f, Met(k-1) \union {q[k]})
    BY <1>3, <2>1, OneAdded
  <2> QED BY <2>0, <2>1, <2>2, <2>3
<1>6. n \in T
  <2>1. n \in 0..n
    BY <1>3
  <2> HIDE DEF T
  <2>2. \A i \in 0..n : i \in T
    BY <1>3, <1>4, <1>5, UpToInduction
  <2> QED BY <2>1, <2>2
<1>7. Met(n) = S
  BY <1>1
<1> QED BY <1>2, <1>6, <1>7 DEF S
==============================================================================
