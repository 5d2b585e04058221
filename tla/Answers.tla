------------------------------- MODULE Answers -------------------------------
(***************************************************************************)
(* What a query is answered with, said of the document, the operation and  *)
(* the tables alone: no graph, no fragments, no rows, no arrival of a      *)
(* leaf.  A row is [type, row].                                            *)
(*                                                                         *)
(* A level lists the rows related to the row above it, each once, in the   *)
(* order of their keys; none of the rows it hangs from; only those its     *)
(* arguments select; and, where it selects exactly one relationship, only  *)
(* those it leads somewhere from.  A query that would show a value that    *)
(* JSON has not is an error.                                               *)
(***************************************************************************)
EXTENDS Shape

Stored(world, v) ==
  LET ref == TableRef(world.doc.types[v.type])
  IN  world.tables[[schema |-> Namespace(ref.schema), name |-> ref.name]][v.row]

RowsOfType(world, t) ==
  LET ref == TableRef(world.doc.types[t])
  IN  {[type |-> t, row |-> i] :
         i \in DOMAIN world.tables[[schema |-> Namespace(ref.schema), name |-> ref.name]]}

KeyOfRow(world, v) ==
  LET key == IdentityColumns(world.doc.types[v.type])
  IN  [i \in DOMAIN key |-> Stored(world, v)[key[i]]]

\* The rows a relationship of v's type leads to.
RelatedRows(world, v, name) ==
  LET f   == FieldNamed(world.doc.types[v.type], name)
      ref == EdgeTable(f.rel)
      out == f.rel.dir = "OUT"
      src == IF f.rel.src # <<>> THEN f.rel.src ELSE <<"source_id">>
      dst == IF f.rel.dst # <<>> THEN f.rel.dst ELSE <<"target_id">>
  IN  {w \in RowsOfType(world, f.type) :
         \E e \in Range(world.tables[[schema |-> Namespace(ref.schema), name |-> ref.name]]) :
           LET Key(columns) == [i \in DOMAIN columns |-> e[columns[i]]]
           IN  /\ KeysEqual(Key(IF out THEN src ELSE dst), KeyOfRow(world, v))
               /\ KeysEqual(Key(IF out THEN dst ELSE src), KeyOfRow(world, w))}

\* The JSON of a stored value.
NativeTypes == [Int |-> "number", Float |-> "number", Numeric |-> "number", String |-> "string",
                Boolean |-> "boolean", ID |-> "string", DateTime |-> "string",
                JSON |-> "document", unknown |-> "any"]

Native(kind, v) ==
  IF v = Null THEN Null
  ELSE IF v = NaN THEN Unrepresentable
  ELSE Leaf(NativeTypes[kind], IF kind = "DateTime" THEN At("UTC", v) ELSE v)

NativeField(f, v) ==
  IF v # Null /\ f.list
  THEN LET items == [i \in DOMAIN v |-> Native(ClassifyScalar(f), v[i])]
       IN  IF Unrepresentable \in Range(items) THEN Unrepresentable ELSE Leaf("array", items)
  ELSE Native(ClassifyScalar(f), v)

StoredValue(world, v, name) == Stored(world, v)[ColumnName(FieldNamed(world.doc.types[v.type], name))]

Selects(world, v, args) ==
  \A a \in Range(args) : SqlEqual(StoredValue(world, v, a.name), BoundValue(world.env, a.value))

Relates(world, v, s) == s.name # "__typename" /\ FieldNamed(world.doc.types[v.type], s.name).rel # None

RECURSIVE AnswerList(_, _, _, _)
AnswerList(world, field, rows, above) ==
  LET Shows(v, s) ==
        CASE s.name = "__typename"  -> Leaf("string", v.type)
          [] Relates(world, v, s)   -> AnswerList(world, s, RelatedRows(world, v, s.name), above \union {v})
          [] OTHER                  -> NativeField(FieldNamed(world.doc.types[v.type], s.name),
                                                   StoredValue(world, v, s.name))
      Object(v) == [k \in {ResponseKey(s) : s \in Range(field.set)} |->
                     Shows(v, CHOOSE s \in Range(field.set) : ResponseKey(s) = k)]
      listed == {[row |-> v, object |-> Object(v)] :
                   v \in {w \in rows \ above : Selects(world, w, field.args)}}
      Leads(x) ==
        LET rels == SelectSeq(field.set, LAMBDA s : Relates(world, x.row, s))
        IN  Len(rels) = 1 => x.object[ResponseKey(rels[1])] # <<>>
      sorted == SetToSortSeq({x \in listed : Leads(x)},
                             LAMBDA x, y : KeyBefore(KeyOfRow(world, x.row), KeyOfRow(world, y.row)))
  IN  [i \in DOMAIN sorted |-> sorted[i].object]

RECURSIVE ShowsError(_, _)
ShowsError(field, list) ==
  \E obj \in Range(list) : \E s \in Range(field.set) :
    IF s.set = <<>> THEN obj[ResponseKey(s)] = Unrepresentable
    ELSE ShowsError(s, obj[ResponseKey(s)])

RootRows(world, name) ==
  LET t == CHOOSE u \in Positions(world.doc) : RootFieldOf(u, world.doc.types[u]) = name
  IN  UNION {RowsOfType(world, u) : u \in IF t \in Nodes(world.doc) THEN {t} ELSE Implementors(world.doc, t)}

AnswerTo(doc, tables, opdoc, vars) ==
  LET root == RootField(opdoc)
      world == [doc |-> doc, tables |-> tables, env |-> Env(opdoc, vars)]
      list == AnswerList(world, root, RootRows(world, root.name), {})
  IN  IF ShowsError(root, list) THEN Unrepresentable ELSE ResponseKey(root) :> list
==============================================================================
