---------------------------- MODULE QueryCompiler ----------------------------
(***************************************************************************)
(* The queries the compiler makes of GraphQL operations.                   *)
(*                                                                         *)
(* A compiled query is the tree of its levels.  A level is known by its    *)
(* path, the positions of the selections that lead to it; the aliases,     *)
(* column names and parameter numbers of the SQL, fresh in the code, are   *)
(* read off it.                                                            *)
(***************************************************************************)
EXTENDS Operations

\* The field of a position, or None.
FindField(target, name) ==
  LET found == SelectSeq(target.fields, LAMBDA f : f.name = name)
  IN  IF found = <<>> THEN None ELSE found[1]
------------------------------------------------------------------------------
(* Leaves: the canonical form a projected scalar takes.                    *)

ScalarKinds == [Int |-> "Int", Float |-> "Float", String |-> "String", Boolean |-> "Boolean",
                ID |-> "ID", DateTime |-> "DateTime", JSON |-> "JSON"]

ColumnTypeKinds ==
  [t \in {"smallint", "integer", "bigint"} |-> "Int"]
  @@ [t \in {"real", "double precision"} |-> "Float"]
  @@ [t \in {"numeric", "decimal"} |-> "Numeric"]
  @@ [t \in {"text", "varchar", "citext"} |-> "String"]
  @@ ("boolean" :> "Boolean") @@ ("uuid" :> "ID") @@ ("timestamptz" :> "DateTime")
  @@ [t \in {"json", "jsonb"} |-> "JSON"]

ClassifyColumnType(type) == IF type \in DOMAIN ColumnTypeKinds THEN ColumnTypeKinds[type] ELSE "unknown"

ClassifyScalar(f) ==
  IF f.columnType # None THEN ClassifyColumnType(f.columnType)
  ELSE IF f.type \in DOMAIN ScalarKinds THEN ScalarKinds[f.type]
  ELSE "unknown"

ProjectedField(f, key) ==
  [key |-> key, column |-> ColumnName(f), kind |-> ClassifyScalar(f), list |-> f.list]
------------------------------------------------------------------------------
(* What a query may select.  c is the compiler, [doc, maxDepth, shaping].  *)

ValidPredicate(target, env, arg) ==
  LET f == FindField(target, arg.name)
  IN  f # None /\ IsScalarColumn(f) /\ BoundValue(env, arg.value) # None

ValidScalarSelection(c, f, s) ==
  /\ s.set = <<>> /\ s.args = <<>>
  /\ ClassifyScalar(f) = "unknown" => c.shaping # "sql"

RECURSIVE ValidVertex(_, _, _, _, _)
ValidVertex(c, env, target, field, depth) ==
  /\ field.set # <<>>
  /\ \A a \in Range(field.args) : ValidPredicate(target, env, a)
  /\ \A s \in Range(field.set) :
       /\ s.sel = "field"
       /\ LET f == FindField(target, s.name)
          IN  /\ f # None
              /\ \/ IsScalarColumn(f) /\ ValidScalarSelection(c, f, s)
                 \/ /\ ~IsScalarColumn(f) /\ f.rel # None
                    /\ depth + 1 <= c.maxDepth
                    /\ f.type \in Positions(c.doc)
                    /\ ValidVertex(c, env, TargetOf(c.doc, f.type), s, depth + 1)

CompilesQuery(c, opdoc, vars) ==
  /\ OneOperation(opdoc, "query")
  /\ LET t == RootTarget(c.doc, RootField(opdoc).name)
     IN  t # None /\ ValidVertex(c, Env(opdoc, vars), TargetOf(c.doc, t), RootField(opdoc), 0)
------------------------------------------------------------------------------
(* The levels of a query.  One nested relationship extends the pattern of  *)
(* its parent; several split it, each into a fragment of its own, named by *)
(* the path of its first level.                                            *)

Predicate(target, env, arg) == [column |-> ColumnName(FindField(target, arg.name)),
                                value  |-> BoundValue(env, arg.value)]

\* What a selection set asks for itself, or through relationships.
Selected(target, field, scalar) ==
  SelectSeq(field.set, LAMBDA s : IsScalarColumn(FindField(target, s.name)) = scalar)

RECURSIVE Level(_, _, _, _, _, _, _)
Level(c, env, t, field, path, frag, edge) ==
  LET target  == TargetOf(c.doc, t)
      scalars == Selected(target, field, TRUE)
      rels    == Selected(target, field, FALSE)
      Child(i) ==
        LET f == FindField(target, rels[i].name)
            at == Append(path, i)
        IN  Level(c, env, f.type, rels[i], at, IF Len(rels) > 1 THEN at ELSE frag, f.rel)
  IN  [path     |-> path, frag |-> frag, edge |-> edge,
       key      |-> ResponseKey(field),
       labels   |-> target.labels, tables |-> target.tables, identity |-> target.identity,
       preds    |-> [i \in DOMAIN field.args |-> Predicate(target, env, field.args[i])],
       fields   |-> [i \in DOMAIN scalars |->
                      ProjectedField(FindField(target, scalars[i].name), ResponseKey(scalars[i]))],
       kids     |-> [i \in DOMAIN rels |-> Child(i)]]

CompileQuery(c, opdoc, vars) ==
  LET root == RootField(opdoc)
  IN  Level(c, Env(opdoc, vars), RootTarget(c.doc, root.name), root, <<>>, <<>>, None)

\* The levels below and including l, in the order of the walk.
RECURSIVE Walk(_)
Walk(l) == <<l>> \o FlattenSeq([i \in DOMAIN l.kids |-> Walk(l.kids[i])])

Overlap(a, b) == a.tables \intersect b.tables # {}

\* The ancestors of a level, and the one its fragment branches off.
Ancestors(root, l) == SelectSeq(Walk(root), LAMBDA a : IsStrictPrefix(a.path, l.path))
BranchPoint(root, l) == CHOOSE a \in Range(Walk(root)) : a.path = Front(l.frag)

\* A fragment's pattern starts at the branch point, bound again without its
\* predicates; its other positions are the levels it holds.  head is its first.
Heads(root) == SelectSeq(Walk(root), LAMBDA l : l.path = l.frag)

PatternPositions(root, head) ==
  LET own == SelectSeq(Walk(head), LAMBDA l : l.frag = head.frag)
  IN  IF head.path = <<>> THEN own ELSE <<[BranchPoint(root, head) EXCEPT !.preds = <<>>]>> \o own

\* Two positions of one pattern that could bind the same row must not.
IsomorphismGuards(positions) ==
  {<<i, j>> \in (DOMAIN positions) \X (DOMAIN positions) :
     i < j /\ Overlap(positions[i], positions[j])}

\* (wrong) A fragment guards only the positions of its own pattern.
NoOnGuards(root, head) == {}

\* So must a level and an ancestor the split has put into another fragment; the
\* branch point is a position of both.
OnGuards(root, head) ==
  {<<a, l>> \in Range(Walk(root)) \X {x \in Range(Walk(head)) : x.frag = head.frag} :
     /\ IsStrictPrefix(a.path, l.path) /\ a.frag # l.frag
     /\ Overlap(a, l)
     /\ a.path # Front(head.frag)}
==============================================================================
