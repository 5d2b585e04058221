-------------------------------- MODULE Shape --------------------------------
(***************************************************************************)
(* From rows, or from the JSON the database assembled, to the response:    *)
(* package shape.  A leaf reaches Go as [go, of]: a Go type and the value  *)
(* it holds.  What the two statements deliver for one column differs;      *)
(* normalise maps both to one canonical leaf [json, of].                   *)
(*                                                                         *)
(* A stored value is any value but Null; of a double or a numeric it may   *)
(* be NaN; a timestamptz stores an instant, and is shown in a time zone; a *)
(* list is a sequence.  A response is a function from response keys.       *)
(***************************************************************************)
EXTENDS GraphTable

CONSTANTS NaN,              \* NaN, or an infinity
          Unrepresentable   \* a leaf, or a response, that is an error
------------------------------------------------------------------------------
(* What arrives.  External: pgx's decoding into any, and PostgreSQL's      *)
(* json_build_object.                                                      *)

Go(type, v) == [go |-> type, of |-> v]
At(zone, v) == [instant |-> v, zone |-> zone]

ScannedTypes == [Int |-> "int64", Float |-> "float64", Numeric |-> "Numeric", String |-> "string",
                 Boolean |-> "bool", ID |-> "[16]byte", JSON |-> "string", unknown |-> "any"]

ScannedValue(kind, v) ==
  IF v = Null THEN Null
  ELSE IF kind = "DateTime" THEN Go("Time", At("local", v))
  ELSE Go(ScannedTypes[kind], v)

RenderedTypes == [Int |-> "Number", Float |-> "Number", Numeric |-> "Number", String |-> "string",
                  Boolean |-> "bool", ID |-> "string", JSON |-> "string"]

RenderedValue(kind, v) ==
  IF v = Null THEN Null
  ELSE IF v = NaN THEN Go("string", v)
  ELSE IF kind = "DateTime" THEN Go("string", At("session", v))
  ELSE Go(RenderedTypes[kind], v)

\* A column of documents is cast to text, a list of them as a whole.
Cast(f) == f.list /\ f.kind = "JSON"

Scanned(f, v) ==
  IF v # Null /\ Cast(f) THEN Go("array text", v)
  ELSE IF v # Null /\ f.list THEN Go("slice", [i \in DOMAIN v |-> ScannedValue(f.kind, v[i])])
  ELSE ScannedValue(f.kind, v)

Rendered(f, v) ==
  IF v # Null /\ Cast(f) THEN Go("array text", v)
  ELSE IF v # Null /\ f.list THEN Go("slice", [i \in DOMAIN v |-> RenderedValue(f.kind, v[i])])
  ELSE RenderedValue(f.kind, v)
------------------------------------------------------------------------------
(* normalise.                                                              *)

Leaf(type, v) == [json |-> type, of |-> v]

\* Of the uuids only the scanned value itself is rendered by exec, not the
\* elements of a list.
JsonValue(x) == IF x # Null /\ x.go = "[16]byte" THEN Go("string", x.of) ELSE x

Finite(x) == IF x.of = NaN THEN Unrepresentable ELSE Leaf("number", x.of)

NormaliseInt(x) == IF x.go \in {"Number", "int64"} THEN Leaf("number", x.of) ELSE Unrepresentable

NormaliseFloat(x) == IF x.go \in {"Number", "float64"} THEN Finite(x) ELSE Unrepresentable

NormaliseNumeric(x) == IF x.go \in {"Number", "Numeric"} THEN Finite(x) ELSE NormaliseFloat(x)

NormaliseID(x) == IF x.go \in {"string", "[16]byte"} THEN Leaf("string", x.of) ELSE Unrepresentable

NormaliseDateTime(x) ==
  IF x.go \in {"Time", "string"} THEN Leaf("string", [x.of EXCEPT !.zone = "UTC"])
  ELSE Unrepresentable

\* The text of an array is no document, but for {}, which reads as an object.
NormaliseJSON(x) ==
  IF x.go = "string" \/ (x.go = "array text" /\ x.of = <<>>) THEN Leaf("document", x.of)
  ELSE Unrepresentable

NormaliseScalar(kind, x) ==
  IF x = Null THEN Null ELSE
  CASE kind = "Int"       -> NormaliseInt(x)
    [] kind = "Float"     -> NormaliseFloat(x)
    [] kind = "Numeric"   -> NormaliseNumeric(x)
    [] kind = "String"    -> IF x.go = "string" THEN Leaf("string", x.of) ELSE Unrepresentable
    [] kind = "Boolean"   -> IF x.go = "bool" THEN Leaf("boolean", x.of) ELSE Unrepresentable
    [] kind = "ID"        -> NormaliseID(x)
    [] kind = "DateTime"  -> NormaliseDateTime(x)
    [] kind = "JSON"      -> NormaliseJSON(x)
    [] kind = "unknown"   -> Leaf("any", x.of)

Normalise(f, x) ==
  IF x # Null /\ f.list /\ x.go = "slice"
  THEN LET items == [i \in DOMAIN x.of |-> NormaliseScalar(f.kind, x.of[i])]
       IN  IF Unrepresentable \in Range(items) THEN Unrepresentable ELSE Leaf("array", items)
  ELSE NormaliseScalar(f.kind, x)
------------------------------------------------------------------------------
(* Objects.                                                                *)

Failing(list) == \E i \in DOMAIN list : list[i] = Unrepresentable
OrError(list) == IF Failing(list) THEN Unrepresentable ELSE list

\* What a level's keys hold; a key given twice keeps its last value.
Keyed(l, leaves, lists) ==
  FoldLeft(LAMBDA obj, e : (e.key :> e.value) @@ obj, <<>>,
           [i \in DOMAIN l.fields |-> [key |-> l.fields[i].key, value |-> leaves[i]]]
           \o [i \in DOMAIN l.kids |-> [key |-> l.kids[i].key, value |-> lists[i]]])

ResponseObject(l, leaves, lists) ==
  IF Failing(leaves) \/ Failing(lists) THEN Unrepresentable ELSE Keyed(l, leaves, lists)

Response(root, list) == IF list = Unrepresentable THEN Unrepresentable ELSE root.key :> list

\* Rows: buckets by the key of the level, in the order the keys are first seen.
RECURSIVE Group(_, _)
Group(l, rows) ==
  LET present == SelectSeq(rows, LAMBDA r : Present(r[l.path].key))
      keys == Distinct([i \in DOMAIN present |-> present[i][l.path].key])
      Bucket(k) == SelectSeq(present, LAMBDA r : r[l.path].key = k)
      Object(bucket) ==
        ResponseObject(l, [i \in DOMAIN l.fields |->
                             Normalise(l.fields[i],
                                       JsonValue(Scanned(l.fields[i], bucket[1][l.path].fields[i])))],
                       [i \in DOMAIN l.kids |-> Group(l.kids[i], bucket)])
  IN  OrError([i \in DOMAIN keys |-> Object(Bucket(keys[i]))])

GoSide(root, rows) == Response(root, Group(root, rows))

\* The document the statement builds: an array of what each object has under its keys.
RECURSIVE Delivered(_, _)
Delivered(l, objects) ==
  Go("array", [i \in DOMAIN objects |->
    Keyed(l, [j \in DOMAIN l.fields |-> Rendered(l.fields[j], objects[i].fields[j])],
             [j \in DOMAIN l.kids |-> Delivered(l.kids[j], objects[i].lists[j])])])

Under(object, key) == IF key \in DOMAIN object THEN object[key] ELSE Null

\* Decode: by the keys, a null list and a key the projection has not being errors.
RECURSIVE DecodeList(_, _)
DecodeList(l, x) ==
  LET Keys == {f.key : f \in Range(l.fields)} \union {k.key : k \in Range(l.kids)}
      Unknown(m) == Cardinality(DOMAIN m) # Cardinality(Keys) /\ ~(DOMAIN m \subseteq Keys)
      DecodeObject(m) ==
        IF Unknown(m) THEN Unrepresentable
        ELSE ResponseObject(l, [j \in DOMAIN l.fields |-> Normalise(l.fields[j], Under(m, l.fields[j].key))],
                            [j \in DOMAIN l.kids |-> DecodeList(l.kids[j], Under(m, l.kids[j].key))])
  IN  IF x = Null THEN Unrepresentable
      ELSE IF x.go # "array" THEN Unrepresentable
      ELSE OrError([i \in DOMAIN x.of |-> DecodeObject(x.of[i])])

SqlSide(root, objects) == Response(root, DecodeList(root, Delivered(root, objects)))
==============================================================================
