------------------------------ MODULE McpServer ------------------------------
(***************************************************************************)
(* The query tool of the MCP server: what it answers itself (introspection, *)
(* as far as it says what can be asked), and what it takes out of an        *)
(* operation before the compiler sees it and puts back into the answer.     *)
(***************************************************************************)
EXTENDS Shape

Formats == {"", "json", "markdown"}

IsMeta(name) == SubSeq(name, 1, 2) = "__"

\* The names of the fields a selection set reaches, through its fragments. A
\* fragment is not part of itself.
RECURSIVE SelectedNames(_, _, _)
SelectedNames(set, frags, seen) ==
  UNION {CASE s.sel = "field"  -> {s.name}
           [] s.sel = "inline" -> SelectedNames(s.set, frags, seen)
           [] s.sel = "spread" /\ s.name \notin seen /\ s.name \in DOMAIN frags ->
                SelectedNames(frags[s.name], frags, seen \union {s.name})
           [] OTHER            -> {} : s \in Range(set)}

IsIntrospection(opdoc) ==
  LET names == SelectedNames(opdoc.operations[1].set, opdoc.fragments, {})
  IN  names # {} /\ \A n \in names : IsMeta(n)

SelectsRelationship(target, field) ==
  \E s \in Range(FieldSelections(field.set)) :
    LET f == FindField(target, s.name) IN f # None /\ f.rel # None

SelectedColumns(field) ==
  LET fields == FieldSelections(field.set) IN [i \in DOMAIN fields |-> ResponseKey(fields[i])]

KeyAlias == "_gopgql_key"
Surrogate == [sel |-> "field", name |-> "id", alias |-> KeyAlias, args |-> <<>>, set |-> <<>>]

\* The operation without __typename, and where each must reappear: sites, in
\* the order they are written, [path, key, type, drop].  ok is FALSE where the
\* type is known only row by row.
RECURSIVE StripTypenames(_, _, _, _)
StripTypenames(doc, t, field, path) ==
  LET here == Append(path, ResponseKey(field))
      target == TargetOf(doc, t)
      IsTypename(s) == s.sel = "field" /\ s.name = "__typename"
      Strip(s) ==
        LET f == IF s.sel = "field" THEN FindField(target, s.name) ELSE None
        IN  IF f = None THEN [field |-> s, sites |-> <<>>, ok |-> TRUE]
            ELSE IF f.rel = None \/ f.type \notin Positions(doc)
            THEN [field |-> s, sites |-> <<>>, ok |-> TRUE]
            ELSE StripTypenames(doc, f.type, s, here)
      typenames == SelectSeq(field.set, IsTypename)
      others == SelectSeq(field.set, LAMBDA s : ~IsTypename(s))
      kept == [i \in DOMAIN others |-> Strip(others[i])]
  IN  [field |-> [field EXCEPT !.set = IF kept = <<>> THEN <<Surrogate>>
                                       ELSE [i \in DOMAIN kept |-> kept[i].field]],
       sites |-> [i \in DOMAIN typenames |->
                    [path |-> here, key |-> ResponseKey(typenames[i]), type |-> t, drop |-> FALSE]]
                 \o FlattenSeq([i \in DOMAIN kept |-> kept[i].sites])
                 \o IF kept = <<>>
                    THEN <<[path |-> here, key |-> KeyAlias, type |-> t, drop |-> TRUE]>> ELSE <<>>,
       ok    |-> /\ typenames # <<>> => t \in Nodes(doc)
                 /\ \A i \in DOMAIN kept : kept[i].ok]

\* visitPath and descend.
Without(obj, key) == [k \in DOMAIN obj \ {key} |-> obj[k]]

RECURSIVE Descend(_, _, _)
Descend(list, rest, site) ==
  [i \in DOMAIN list |->
     CASE rest = <<>> /\ site.drop                -> Without(list[i], site.key)
       [] rest = <<>> /\ ~site.drop               -> (site.key :> Leaf("string", site.type)) @@ list[i]
       [] rest # <<>> /\ Head(rest) \in DOMAIN list[i] ->
            [list[i] EXCEPT ![Head(rest)] = Descend(@, Tail(rest), site)]
       [] OTHER                                   -> list[i]]

ApplyTypenames(response, sites) ==
  FoldLeft(LAMBDA r, site : [r EXCEPT ![site.path[1]] = Descend(@, Tail(site.path), site)],
           response, sites)

\* A table: one row an object, its cells in the order of the selection.
RenderMarkdown(response, key, columns) ==
  [i \in DOMAIN response[key] |->
     [j \in DOMAIN columns |-> IF columns[j] \in DOMAIN response[key][i]
                               THEN response[key][i][columns[j]] ELSE Null]]
------------------------------------------------------------------------------
(* What introspection says can be asked: for the Query root and each type a *)
(* query reaches, its fields [of, args], of the type a field leads to.      *)

FilterArguments(target) == {f.name : f \in {g \in Range(target.fields) : IsScalarColumn(g)}}

QueryType(doc) ==
  [root \in {RootFieldOf(t, doc.types[t]) : t \in Positions(doc)} |->
     LET t == RootTarget(doc, root) IN [of |-> t, args |-> FilterArguments(TargetOf(doc, t))]]

QueryableField(doc, f) ==
  [of   |-> f.type,
   args |-> IF f.rel # None /\ f.type \in Positions(doc)
            THEN FilterArguments(TargetOf(doc, f.type)) ELSE {}]

\* (wrong) The fields of the SDL, those that map to nothing included.
DeclaredFields(doc, t) ==
  [name \in {f.name : f \in Range(doc.types[t].fields)} |->
     QueryableField(doc, FieldNamed(doc.types[t], name))]

QueryableFields(doc, t) ==
  [name \in {f.name : f \in {g \in Range(doc.types[t].fields) : ~g.ignore}} |->
     QueryableField(doc, FieldNamed(doc.types[t], name))]

Introspection(doc) ==
  [query |-> QueryType(doc), types |-> [t \in Positions(doc) |-> QueryableFields(doc, t)]]
------------------------------------------------------------------------------
(* What becomes of a request: it is refused, answered from the document,   *)
(* or executed.                                                            *)

Parses(opdoc, format) == /\ format \in Formats
                         /\ Len(opdoc.operations) = 1 /\ opdoc.operations[1].kind = "query"

Introspects(opdoc, format) ==
  Parses(opdoc, format) /\ IsIntrospection(opdoc) /\ format # "markdown"

Stripped(doc, opdoc) ==
  LET root == RootField(opdoc) IN StripTypenames(doc, RootTarget(doc, root.name), root, <<>>)

Rewritten(opdoc, field) ==
  [opdoc EXCEPT !.operations[1].set =
     [i \in DOMAIN @ |-> IF @[i].sel = "field" THEN field ELSE @[i]]]

\* The operation the tool hands to the compiler exists.
Queryable(doc, opdoc, format) ==
  /\ Parses(opdoc, format) /\ ~IsIntrospection(opdoc)
  /\ Len(FieldSelections(opdoc.operations[1].set)) = 1
  /\ LET t == RootTarget(doc, RootField(opdoc).name)
     IN  /\ t # None
         /\ format = "markdown" => ~SelectsRelationship(TargetOf(doc, t), RootField(opdoc))
  /\ Stripped(doc, opdoc).ok

\* What the tool makes of the response to the rewritten operation.
Presented(opdoc, format, stripped, response) ==
  LET key == ResponseKey(RootField(opdoc))
      restored == ApplyTypenames(response, stripped.sites)
  IN  IF format = "markdown" THEN RenderMarkdown(restored, key, SelectedColumns(RootField(opdoc)))
      ELSE restored
==============================================================================
