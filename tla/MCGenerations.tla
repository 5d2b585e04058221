---------------------------- MODULE MCGenerations ----------------------------
(***************************************************************************)
(* Families of schemas for TLC.  Within one, the SDL moves from any schema *)
(* to any other, as often as it likes.                                     *)
(***************************************************************************)
EXTENDS Generations

MCAlphabet == <<"customers", "knows", "orders", "orgs", "people", "persons", "works_at">>

Id == [Column("uuid") EXCEPT !.primary = TRUE]
Expr(text, over) == [text |-> text, over |-> over]

Vertex(t, cols, key, checks, was) ==
  [cols |-> ("id" :> Id) @@ cols, checks |-> checks, was |-> was, unmanaged |-> FALSE,
   props |-> {"id"} \union DOMAIN cols,
   key |-> IF key = <<>> THEN None ELSE [name |-> NaturalKeyConstraintName(t), columns |-> key]]
Edge(src, dst) == [cols |-> EdgeColumns(src, dst), src |-> src, dst |-> dst, unmanaged |-> FALSE]
TargetIndex(e) == (e \o "_target_idx") :> [table |-> e, column |-> "target_id"]
FieldIndex(t, c) == (t \o "_" \o c \o "_idx") :> [table |-> t, column |-> c]

Schema(vertices, edges, indexes) ==
  [named |-> TRUE, vertices |-> vertices, edges |-> edges, indexes |-> indexes]

OneOf(S) == S \union {<<>>}     \* a function, or the empty one

\* One table: a column comes and goes, with or without UNIQUE, DEFAULT, CHECK.
Fields ==
  {Schema("persons" :> Vertex("persons", x, <<>>, <<>>, <<>>), <<>>, <<>>) :
     x \in OneOf({"x" :> [Column("text") EXCEPT !.unique = u, !.default = d, !.check = k] :
                   u \in BOOLEAN, d \in {None, "d1"},
                   k \in {None, Expr("c1", {"x"}), Expr("c2", {"x"})}})}

\* One table: a second column, a natural key, table checks, an index.
Keys ==
  {Schema("persons" :> Vertex("persons", ("x" :> Column("text")) @@ y, key, k, <<>>), <<>>, i) :
     y \in OneOf({"y" :> Column("int")}), key \in {<<>>, <<"x">>, <<"x", "id">>},
     k \in {<<>>, <<Expr("k1", {"x"})>>, <<Expr("k2", {"id"}), Expr("k1", {"x"})>>},
     i \in OneOf({FieldIndex("persons", "x")})}

\* Tables and edges come and go.
Orgs == "orgs" :> Vertex("orgs", <<>>, <<>>, <<>>, <<>>)
Persons(cols) == "persons" :> Vertex("persons", cols, <<>>, <<>>, <<>>)
Knows == "knows" :> Edge("persons", "persons")
WorksAt == "works_at" :> Edge("persons", "orgs")
Tables ==
  UNION {{Schema(Persons(x), k, IF k = <<>> THEN <<>> ELSE TargetIndex("knows")),
          Schema(Persons(x) @@ Orgs, k, IF k = <<>> THEN <<>> ELSE TargetIndex("knows")),
          Schema(Persons(x) @@ Orgs, k @@ WorksAt,
                 (IF k = <<>> THEN <<>> ELSE TargetIndex("knows")) @@ TargetIndex("works_at"))} :
         x \in OneOf({"x" :> Column("text")}), k \in OneOf({Knows})}
  \union {Schema(Orgs, <<>>, <<>>)}

\* A table and a column are renamed, with what hangs on them.
Named(t, was, c, cwas, u, i) ==
  Schema(t :> Vertex(t, (c :> [Column("text") EXCEPT !.was = cwas, !.default = "d1"])
                        @@ ("y" :> [Column("int") EXCEPT !.unique = u, !.check = Expr("c1", {"y"})]),
                     <<c>>, <<Expr("k1", {"y"})>>, was),
         "knows" :> Edge(t, t),
         TargetIndex("knows") @@ (IF i THEN FieldIndex(t, c) ELSE <<>>))
Renames ==
  {Named(IF p THEN "persons" ELSE "people", IF p THEN <<"people">> ELSE <<"persons">>,
         IF x THEN "x" ELSE "z", IF x THEN <<"w", "z">> ELSE <<"x">>, u, i) :
     p \in BOOLEAN, x \in BOOLEAN, u \in {TRUE}, i \in BOOLEAN}

\* A table of somebody else, and an owned one that is an edge to it as well.
Customers == "customers" :> [Vertex("customers", "region" :> Column("text"), <<"region">>, <<>>, <<>>)
                               EXCEPT !.unmanaged = TRUE]
Orders(cols) == "orders" :> Vertex("orders", ("customer" :> Column("uuid")) @@ cols, <<>>, <<>>, <<>>)
OrdersEdge == "orders" :> [cols |-> <<>>, src |-> "orders", dst |-> "customers", unmanaged |-> TRUE]
Surfaced ==
  {Schema(c @@ Orders(x), e, i) :
     c \in {Customers}, x \in OneOf({"x" :> Column("text")}), e \in OneOf({OrdersEdge}),
     i \in OneOf({FieldIndex("orders", "customer")})}
  \union {Schema(Orders(<<>>), <<>>, <<>>), Schema(Customers, <<>>, <<>>)}

MCForeign == "customers" :> [cols |-> [c \in {"id", "region"} |-> TableColumn(ColumnDDL(
                                         IF c = "id" THEN Id ELSE Column("text")))],
                             cons |-> <<>>, key |-> {}]

Family(schemas, g, c) == [schemas |-> schemas, graph |-> g, crashes |-> c, keeps |-> TRUE]

MCFamilies == <<Family(Fields, BOOLEAN, 1), Family(Keys, BOOLEAN, 0), Family(Tables, {TRUE}, 0),
                Family(Renames, BOOLEAN, 1), Family(Surfaced, {TRUE}, 1)>>

\* All but the renames are plain edits.
ASSUME PlainFamilies == \A schemas \in {Fields, Keys, Tables, Surfaced} : Plain(schemas) /\ Sound(schemas)
------------------------------------------------------------------------------
(* The edits after which the code does not do what it says. *)

Field(c, type, u, k, was) ==
  Schema("persons" :> Vertex("persons", c :> [Column(type) EXCEPT !.unique = u, !.check = k,
                                                                  !.was = was], <<>>, <<>>, <<>>),
         <<>>, <<>>)

\* A field changes its type.
MCRetyped == <<Family({Field("x", type, FALSE, None, <<>>) : type \in {"text", "int"}}, {TRUE}, 0)>>

\* A @unique field is renamed.
MCUniqueRenamed ==
  <<Family({Field("x", "text", TRUE, None, <<>>), Field("z", "text", TRUE, None, <<"x">>)}, {TRUE}, 0)>>

\* A @check field is renamed; the new expression speaks of the new column.
MCCheckRenamed ==
  <<Family({Field("x", "text", FALSE, Expr("c1", {"x"}), <<>>),
            Field("z", "text", FALSE, Expr("c1", {"z"}), <<"x">>)}, {TRUE}, 0)>>

\* A type and an edge to it leave in one edit, in a directory without a graph.
MCDroppedTogether ==
  <<Family({Schema(Persons(<<>>) @@ Orgs, WorksAt, TargetIndex("works_at")),
            Schema(Persons(<<>>), <<>>, <<>>)}, {FALSE}, 0)>>

\* A type gopgql does not own leaves the SDL.
MCReleased == <<[Family(Surfaced, {TRUE}, 0) EXCEPT !.keeps = FALSE]>>
==============================================================================
