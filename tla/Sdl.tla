--------------------------------- MODULE Sdl ---------------------------------
(***************************************************************************)
(* The mapping model read from an SDL document, and the documents sdl      *)
(* refuses.  A document is [types, mutation]:                              *)
(*   types     type name -> [kind, label, table, schema, readonly, key,    *)
(*             implements, was, fields]; kind is "node" (an object with    *)
(*             @node), "object" or "interface", fields a sequence;         *)
(*   mutation  None, or the sequence of the Mutation type's fields.        *)
(* A field is [name, type, nonNull, list, ignore, column, columnType,      *)
(* marks, was, rel]; marks are the directives @unique, @index, @default,   *)
(* @check and @function; rel is None or the @relationship [label, dir,     *)
(* table, schema, src, dst, inverse].  A directive argument that is absent *)
(* is None; so is an absent schema.                                        *)
(*                                                                         *)
(* gqlparser has accepted the document before any of this runs: every type *)
(* a field names exists, an object declares the fields of the interfaces   *)
(* it implements, names within a type are distinct.                        *)
(***************************************************************************)
EXTENDS Naturals, FiniteSets, SequencesExt, TLC

CONSTANTS None,
          Alphabet,     \* every name, in alphabetical order
          ToLower,      \* a type name -> the same in lower case
          NotPlain      \* the names PostgreSQL would need in quotes

InOrder(S) == SelectSeq(Alphabet, LAMBDA x : x \in S)
------------------------------------------------------------------------------
(* Names. *)

EndsIn(s, t) == /\ Len(s) >= Len(t)
                /\ SubSeq(s, Len(s) - Len(t) + 1, Len(s)) = t

EndsInVowelY(s) == \E v \in {"ay", "ey", "iy", "oy", "uy"} : EndsIn(s, v)

Pluralize(s) ==
  IF \E t \in {"s", "x", "z", "ch", "sh"} : EndsIn(s, t) THEN s \o "es"
  ELSE IF EndsIn(s, "y") /\ ~EndsInVowelY(s) THEN SubSeq(s, 1, Len(s) - 1) \o "ies"
  ELSE s \o "s"

IsScalarColumn(f) == ~f.ignore /\ f.rel = None
ColumnName(f)     == IF f.column # None THEN f.column ELSE f.name

Columns(def) == SelectSeq(def.fields, IsScalarColumn)
FieldsNamed(def, name) == {f \in Range(def.fields) : f.name = name}
FieldNamed(def, name)  == CHOOSE f \in FieldsNamed(def, name) : TRUE

TableOf(def) == IF def.table # None THEN def.table ELSE Pluralize(def.label)
TableRef(def) == [schema |-> def.schema, name |-> TableOf(def)]

RootFieldOf(t, def) ==
  IF def.kind = "node" THEN TableOf(def)
  ELSE Pluralize(IF def.label # None THEN def.label ELSE ToLower[t])

\* The columns that identify a row: id, unless the table is somebody else's and
\* declares a key.
IdentityColumns(def) ==
  IF def.readonly /\ def.key # None /\ def.key # <<>>
  THEN LET stored == SelectSeq(def.key, LAMBDA k : \E f \in FieldsNamed(def, k) : IsScalarColumn(f))
       IN  [i \in DOMAIN stored |->
              ColumnName(CHOOSE f \in FieldsNamed(def, stored[i]) : IsScalarColumn(f))]
  ELSE <<"id">>
------------------------------------------------------------------------------
(* The parts of a document. *)

OfKind(doc, kind) == {t \in DOMAIN doc.types : doc.types[t].kind = kind}
Nodes(doc)        == OfKind(doc, "node")

Implementors(doc, i) == {t \in Nodes(doc) : i \in doc.types[t].implements}

\* An interface no @node type implements is GraphQL's alone.
Interfaces(doc) == {i \in OfKind(doc, "interface") : Implementors(doc, i) # {}}

Mutations(doc) == IF doc.mutation = None THEN <<>> ELSE doc.mutation

MutationByField(doc, name) ==
  LET found == {m \in Range(Mutations(doc)) : m.name = name}
  IN  IF found = {} THEN None ELSE CHOOSE m \in found : TRUE
------------------------------------------------------------------------------
(* The Mutation type: every field names the function it calls.  A mutation *)
(* is [name, function, returns, type, nonNull, list, args]; function is    *)
(* None without @function; an argument is [name, column, columnType, type, *)
(* nonNull, list, default].                                                *)

ScalarReturns == {"Int", "Float", "String", "Boolean", "ID", "DateTime", "JSON"}

ValidReturn(m) ==
  \/ m.returns = "VOID" /\ m.type = "Boolean" /\ m.nonNull /\ ~m.list
  \/ m.returns = "SCALAR" /\ ~m.list /\ m.type \in ScalarReturns

Param(a) == IF a.column # None THEN a.column ELSE a.name

ValidArgument(a) == a.columnType = None /\ Param(a) \notin NotPlain

FunctionsOnlyOnMutations(doc) ==
  \A t \in DOMAIN doc.types : \A f \in Range(doc.types[t].fields) : "function" \notin f.marks

ValidMutation(m) == /\ m.function # None
                    /\ ValidReturn(m)
                    /\ \A a \in Range(m.args) : ValidArgument(a)

ValidMutations(doc) == /\ FunctionsOnlyOnMutations(doc)
                       /\ \A m \in Range(Mutations(doc)) : ValidMutation(m)
------------------------------------------------------------------------------
(* What one type may say. *)

\* A row can be identified: by id: ID!, or, where allowed, by a declared key.
ValidKey(fields, allowNaturalKey, hasNaturalKey) ==
  LET ids == {f \in Range(fields) : f.name = "id"}
  IN  IF ids # {} THEN \A f \in ids : f.type = "ID" /\ f.nonNull /\ ~f.list
      ELSE allowNaturalKey /\ hasNaturalKey

ValidRelField(doc, f) ==
  f.rel = None \/ (f.rel.label # "" /\ f.list /\ f.type \in Nodes(doc))

MappingMarks == {"unique", "index", "default", "check"}

ValidMappingDirectives(f) ==
  LET marks == f.marks \intersect MappingMarks
  IN  f.column # None \/ f.columnType # None \/ marks # {} =>
        /\ IsScalarColumn(f)
        /\ f.name = "id" => f.columnType = None /\ marks \subseteq {"check"}

ValidInverse(doc, f) ==
  f.rel # None /\ f.rel.inverse # None =>
    \E inv \in FieldsNamed(doc.types[f.type], f.rel.inverse) :
      inv.rel # None /\ inv.rel.label = f.rel.label /\ inv.rel.dir # f.rel.dir

ValidColumnNames(def) ==
  LET cols == Columns(def)
  IN  \A i, j \in DOMAIN cols : ColumnName(cols[i]) = ColumnName(cols[j]) => i = j

ValidNaturalKey(def) ==
  def.key # None =>
    /\ def.key # <<>>
    /\ IsInjective(def.key)
    /\ \A k \in Range(def.key) : \E f \in FieldsNamed(def, k) : IsScalarColumn(f)

\* What was renamed is no longer there under the old name.
ValidRenameHints(doc, t) ==
  LET def == doc.types[t]
  IN  /\ def.was # None =>
           /\ def.was \notin Nodes(doc) \union Interfaces(doc)
           /\ \A u \in Nodes(doc) \ {t} :
                TableRef(doc.types[u]) # [schema |-> def.schema, name |-> def.was]
      /\ \A f, g \in Range(def.fields) :
           f.was # None => /\ g.name # f.was
                           /\ g # f /\ IsScalarColumn(g) => ColumnName(g) # f.was

\* An edge is a table of its own, or maps a table that exists; the latter is
\* the only way to relate to a table that is not gopgql's.
MapsTable(rel) == rel.src # <<>> \/ rel.dst # <<>>

ValidRelationshipMapping(doc, t, f) ==
  LET here == doc.types[t]
      there == doc.types[f.type]
      src == IF f.rel.dir = "IN" THEN there ELSE here
      dst == IF f.rel.dir = "IN" THEN here ELSE there
  IN  IF ~MapsTable(f.rel)
      THEN f.rel.schema = None /\ ~here.readonly /\ ~there.readonly
      ELSE /\ f.rel.src # <<>> /\ f.rel.dst # <<>>
           /\ f.rel.table # None
           /\ Len(f.rel.src) = Len(IdentityColumns(src))
           /\ Len(f.rel.dst) = Len(IdentityColumns(dst))

ValidNode(doc, t) ==
  LET def == doc.types[t]
  IN  /\ ValidKey(def.fields, def.readonly, def.key # None /\ def.key # <<>>)
      /\ \A f \in Range(def.fields) : /\ ValidRelField(doc, f)
                                      /\ ValidMappingDirectives(f)
                                      /\ ValidInverse(doc, f)
      /\ ValidColumnNames(def)
      /\ ValidNaturalKey(def)
      /\ ValidRenameHints(doc, t)
      /\ \A f \in Range(def.fields) : f.rel # None => ValidRelationshipMapping(doc, t, f)
------------------------------------------------------------------------------
(* What an interface may say. *)

UsesNaturalKey(doc, i) ==
  \E t \in Implementors(doc, i) :
    doc.types[t].readonly /\ doc.types[t].key # None /\ doc.types[t].key # <<>>

\* An implementor relates, or does not, as the interface says; GraphQL has
\* aligned the types, and the names of the columns are not compared.
ValidImplementors(doc, i, f) ==
  \A t \in Implementors(doc, i) :
    \E g \in FieldsNamed(doc.types[t], f.name) :
      /\ (f.rel = None) <=> (g.rel = None)
      /\ f.rel # None => g.rel.label = f.rel.label /\ g.rel.dir = f.rel.dir
      /\ f.ignore = g.ignore

ValidInterface(doc, i) ==
  LET def == doc.types[i]
  IN  /\ ValidKey(def.fields, UsesNaturalKey(doc, i), TRUE)
      /\ \A f \in Range(def.fields) : /\ ValidRelField(doc, f)
                                      /\ ValidMappingDirectives(f)
                                      /\ ValidImplementors(doc, i, f)

ImplementedByNodes(doc, i) ==
  \A t \in OfKind(doc, "object") : i \notin doc.types[t].implements
------------------------------------------------------------------------------
(* The positions a query can select: one for each @node type, one for each *)
(* interface.                                                              *)

Positions(doc) == Nodes(doc) \union Interfaces(doc)

NodeTarget(def) == [labels |-> {def.label}, fields |-> def.fields,
                    tables |-> {TableOf(def)}, identity |-> IdentityColumns(def)]

\* (wrong) The tables of the first implementor alone.
InterfaceTargetOfFirst(doc, i) ==
  LET def == doc.types[i]
      impls == Implementors(doc, i)
      first == doc.types[Head(InOrder(impls))]
  IN  [labels |-> IF def.label # None THEN {def.label} ELSE {doc.types[t].label : t \in impls},
       fields |-> def.fields, tables |-> {TableOf(first)}, identity |-> IdentityColumns(first)]

\* Without a label an interface is matched by its implementors' own.
InterfaceTarget(doc, i) ==
  LET def == doc.types[i]
      impls == Implementors(doc, i)
      first == CHOOSE t \in impls : t = Head(InOrder(impls))
  IN  [labels |-> IF def.label # None THEN {def.label} ELSE {doc.types[t].label : t \in impls},
       fields |-> def.fields,
       tables |-> {TableOf(doc.types[t]) : t \in impls},
       identity |-> IdentityColumns(doc.types[first])]

TargetOf(doc, t) == IF t \in Nodes(doc) THEN NodeTarget(doc.types[t]) ELSE InterfaceTarget(doc, t)

\* The position a root field selects; None where nothing answers to the name.
RootTarget(doc, field) ==
  LET found == {t \in Positions(doc) : RootFieldOf(t, doc.types[t]) = field}
  IN  IF found = {} THEN None ELSE CHOOSE t \in found : TRUE

ValidTargets(doc) ==
  /\ \A t, u \in Positions(doc) :
       RootFieldOf(t, doc.types[t]) = RootFieldOf(u, doc.types[u]) => t = u
  /\ \A i \in Interfaces(doc) : \A t, u \in Implementors(doc, i) :
       IdentityColumns(doc.types[t]) = IdentityColumns(doc.types[u])
------------------------------------------------------------------------------
\* ParseSources.
Accepted(doc) ==
  /\ ValidMutations(doc)
  /\ Nodes(doc) # {} \/ Mutations(doc) # <<>>
  /\ \A t, u \in Nodes(doc) : TableRef(doc.types[t]) = TableRef(doc.types[u]) => t = u
  /\ \A i \in Interfaces(doc) : ImplementedByNodes(doc, i)
  /\ \A t \in Nodes(doc) : ValidNode(doc, t)
  /\ \A i \in Interfaces(doc) : ValidInterface(doc, i)
  /\ ValidTargets(doc)
==============================================================================
