------------------------------ MODULE MCService ------------------------------
(***************************************************************************)
(* Families of scenes for TLC: documents, near misses among them, their    *)
(* tables, and what is asked.                                              *)
(***************************************************************************)
EXTENDS Service

MCAlphabet == <<"Bot", "Company", "Customer", "Entity", "Named", "Order", "Org", "Person", "Reading",
                "bot", "company", "customer", "follows", "knows", "named", "order", "org", "person",
                "placed", "reading", "works", "zz">>
MCToLower == [Entity |-> "entity", Named |-> "named", Bot |-> "bot"]
MCNotPlain == {"user"}
MCStrays == {[schema |-> "public", name |-> "stray"], [schema |-> "other", name |-> "persons"]}
------------------------------------------------------------------------------
(* Documents. *)

F(name, type) == [name |-> name, type |-> type, nonNull |-> FALSE, list |-> FALSE, ignore |-> FALSE,
                  column |-> None, columnType |-> None, marks |-> {}, was |-> None, rel |-> None]
Id == [F("id", "ID") EXCEPT !.nonNull = TRUE]
Name == F("name", "String")
Rel(name, type, label, dir) ==
  [F(name, type) EXCEPT !.list = TRUE,
     !.rel = [label |-> label, dir |-> dir, table |-> None, schema |-> None,
              src |-> <<>>, dst |-> <<>>, inverse |-> None]]
Type(kind, label, fields) ==
  [kind |-> kind, label |-> label, table |-> None, schema |-> None, readonly |-> FALSE, key |-> None,
   implements |-> {}, was |-> None, fields |-> fields]
Node(label, fields) == Type("node", label, fields)
Doc(types) == [types |-> types, mutation |-> None]

Person == [Node("person", <<Id, Name, Rel("follows", "Person", "follows", "OUT"),
                            [Rel("followers", "Person", "follows", "IN") EXCEPT !.rel.inverse = "follows"],
                            Rel("employers", "Org", "works", "OUT")>>) EXCEPT !.implements = {"Named", "Entity"}]
Org == [Node("org", <<Id, Name, Rel("staff", "Person", "works", "IN")>>)
          EXCEPT !.implements = {"Named", "Entity"}]
NamedThing == Type("interface", "named", <<Id, Name>>)
Entity == Type("interface", None, <<Id, Name>>)
Social == Doc([Person |-> Person, Org |-> Org, Named |-> NamedThing, Entity |-> Entity])

\* Tables that are somebody else's: keys of two columns, an edge over a table.
Customer == [Node("customer", <<F("region", "Int"), [F("code", "Int") EXCEPT !.column = "number"], Name,
                                [Rel("orders", "Order", "placed", "OUT")
                                   EXCEPT !.rel.table = "sales", !.rel.schema = "shop",
                                          !.rel.src = <<"region", "number">>, !.rel.dst = <<"order_id">>]>>)
               EXCEPT !.readonly = TRUE, !.key = <<"region", "code">>, !.schema = "shop"]
Order == [Node("order", <<Id, F("total", "Int"),
                          [Rel("customers", "Customer", "placed", "IN")
                             EXCEPT !.rel.table = "sales", !.rel.schema = "shop",
                                    !.rel.src = <<"region", "number">>, !.rel.dst = <<"order_id">>]>>)
            EXCEPT !.table = "purchases"]
Shop == Doc([Customer |-> Customer, Order |-> Order])
Table(primary, types) ==
  [primary |-> primary, types |-> [c \in DOMAIN types |-> [base |-> types[c], array |-> FALSE]]]
Customers == Table(FALSE, [region |-> "integer", number |-> "integer", name |-> "text", note |-> "text"])
Sales == Table(TRUE, [region |-> "integer", number |-> "integer", order_id |-> "uuid"])
ShopTables(customers, sales) == (Key("shop", "customers") :> customers) @@ (Key("shop", "sales") :> sales)
ShopForeign == ShopTables(Customers, Sales)

\* Tables that are not what the document says of them.
Unfit ==
  {Key("shop", "sales") :> Sales,
   ShopTables([Customers EXCEPT !.types.name.base = "integer"], Sales),
   ShopTables(Table(TRUE, [region |-> "integer", number |-> "integer"]), Sales),
   ShopTables(Customers, [Sales EXCEPT !.primary = FALSE]),
   ShopTables(Customers, [Sales EXCEPT !.types.region.base = "text"]),
   ShopForeign @@ (Key("public", "purchases") :> Table(TRUE, [id |-> "uuid", total |-> "integer"]))}

\* What maps to nothing: a field, the type it leads to, an interface no table has.
Secretive ==
  Doc([Person |-> [Person EXCEPT !.fields = Append(@, [F("secret", "Aside") EXCEPT !.ignore = TRUE])],
       Org |-> Org, Named |-> NamedThing, Entity |-> Entity,
       Aside |-> Type("object", None, <<F("note", "String")>>),
       Loose |-> Type("interface", None, <<F("note", "String")>>)])

\* One type with a leaf of every kind.
Typed(name, type, columnType, list) == [F(name, type) EXCEPT !.columnType = columnType, !.list = list]
Leaves == <<Id, F("n", "Int"), F("score", "Float"), Typed("price", "Float", "numeric", FALSE),
            F("label", "String"), F("open", "Boolean"), F("at", "DateTime"), F("doc", "JSON"),
            Typed("ip", "String", "inet", FALSE), Typed("refs", "ID", None, TRUE),
            Typed("scores", "Float", None, TRUE)>>
Readings == Doc([Reading |-> Node("reading", Leaves)])

Rival == Node("person", <<Id, Name, Rel("follows", "Person", "follows", "OUT")>>)

\* What two careless edits away from these documents looks like.
WithField(doc, t, f) == [doc EXCEPT !.types[t].fields = Append(@, f)]
NearMisses ==
  {WithField(Social, "Person", [Name EXCEPT !.name = "nick", !.column = "name"]),
   WithField(Social, "Person", Rel("boss", "Person", "works", "OUT")),
   WithField(Social, "Person", [Rel("knows", "Person", "knows", "OUT") EXCEPT !.rel.table = "follows"]),
   WithField(Social, "Person", Rel("orgs", "Org", "org", "OUT")),
   WithField(Social, "Person", [Rel("fans", "Person", "follows", "OUT") EXCEPT !.rel.inverse = "follows"]),
   WithField(Social, "Person", [Name EXCEPT !.name = "nick", !.marks = {"index"}]),
   [Social EXCEPT !.types.Org.label = "person"],
   [Social EXCEPT !.types.Org.table = "persons"],
   [Social EXCEPT !.types.Person.fields = <<Id, Name>>],
   WithField([Social EXCEPT !.types.Org.label = "person", !.types.Org.table = "orgs"], "Org", F("size", "Int")),
   [Social EXCEPT !.types.Named.label = "org"],
   [Social EXCEPT !.types.Org.was = "Person"],
   [Social EXCEPT !.types.Entity.fields = <<Name>>],
   [Social EXCEPT !.types.Entity.label = "named"],
   [Social EXCEPT !.types.Person.fields = <<Id, [Name EXCEPT !.column = "label"]>>, !.types.Org.fields = <<Id, Name>>],
   [Social EXCEPT !.types.Org = [Node("org", <<Id>>) EXCEPT !.schema = "hr"]],
   WithField(Social, "Person", [F("age", "Int") EXCEPT !.columnType = "text"]),
   WithField(WithField(Social, "Person", F("age", "Int")), "Org", F("age", "String")),
   WithField(WithField(Social, "Person", F("age", "Int")), "Org", F("age", "Int")),
   WithField(Social, "Person", [Rel("boss", "Org", "boss", "OUT") EXCEPT !.rel.table = "orgs"]),
   Doc([Person |-> [Rival EXCEPT !.fields[1].column = "uid"]]),
   Doc([Person |-> [Rival EXCEPT !.fields[1].ignore = TRUE]]),
   WithField(Shop, "Order", F("region", "String")),
   [Shop EXCEPT !.types.Customer.key = <<"region", "region">>],
   [Shop EXCEPT !.types.Customer.readonly = FALSE],
   [Shop EXCEPT !.types.Customer.key = <<"region">>],
   [Shop EXCEPT !.types.Order.fields[3].rel.src = <<>>]}
------------------------------------------------------------------------------
(* Tables. *)

In(name) == Key("public", name)
Edges(pairs) == [i \in DOMAIN pairs |-> [source_id |-> pairs[i][1], target_id |-> pairs[i][2]]]

\* Somebody follows themselves, two follow each other, one is followed by all
\* and employed by none.
SocialRows ==
  (In("persons") :> <<[id |-> 2, name |-> "b"], [id |-> 1, name |-> "a"], [id |-> 3, name |-> Null]>>)
  @@ (In("orgs") :> <<[id |-> 11, name |-> "a"], [id |-> 12, name |-> "o"]>>)
  @@ (In("follows") :> Edges(<<<<1, 1>>, <<1, 2>>, <<2, 1>>, <<2, 3>>, <<1, 3>>>>))
  @@ (In("works") :> Edges(<<<<1, 11>>, <<2, 11>>, <<1, 12>>>>))

\* Two customers of one region, one number in two regions; a sale told twice.
ShopRows ==
  (Key("shop", "customers") :> <<[region |-> 1, number |-> 2, name |-> "a"], [region |-> 1, number |-> 1, name |-> "b"],
                                 [region |-> 2, number |-> 1, name |-> "c"]>>)
  @@ (In("purchases") :> <<[id |-> 7, total |-> 5], [id |-> 8, total |-> 6]>>)
  @@ (Key("shop", "sales") :> <<[region |-> 1, number |-> 1, order_id |-> 7], [region |-> 1, number |-> 1, order_id |-> 7],
                                [region |-> 1, number |-> 2, order_id |-> 7], [region |-> 2, number |-> 1, order_id |-> 8]>>)

ReadingRow(score, price, refs, scores) ==
  [id |-> 1, n |-> 4, score |-> score, price |-> price, label |-> "x", open |-> TRUE, at |-> 9,
   doc |-> 5, ip |-> 6, refs |-> refs, scores |-> scores]
ReadingRows(r) == In("readings") :> <<r>>
------------------------------------------------------------------------------
(* Operations. *)

Sel(name, set) == [sel |-> "field", name |-> name, alias |-> None, args |-> <<>>, set |-> set]
S(name) == Sel(name, <<>>)
As(alias, s) == [s EXCEPT !.alias = alias]
Literally(v) == [kind |-> "literal", of |-> v]
Variable(name) == [kind |-> "variable", of |-> name]
Where(s, name, v) == [s EXCEPT !.args = Append(@, [name |-> name, value |-> v])]
Inline(set) == [sel |-> "inline", set |-> set]
Spread(name) == [sel |-> "spread", name |-> name]
Operation(kind, vs, set, frags) ==
  [operations |-> <<[kind |-> kind, vars |-> vs, set |-> set]>>, fragments |-> frags]
Query(root) == Operation("query", <<>>, <<root>>, <<>>)

SocialQueries ==
  {Query(Sel("persons", <<S("name"), S("id")>>)),
   Query(Sel("persons", <<S("name"), Sel("follows", <<S("name")>>)>>)),
   Query(Sel("persons", <<S("name"), Sel("followers", <<As("who", S("id"))>>)>>)),
   Query(Sel("persons", <<Sel("follows", <<S("id"), Sel("follows", <<S("id")>>)>>)>>)),
   Query(Sel("persons", <<S("id"), Sel("follows", <<S("id")>>), Sel("employers", <<S("name")>>)>>)),
   Query(Sel("persons", <<S("id"), Sel("follows", <<S("id"), Sel("followers", <<S("id")>>), Sel("employers", <<S("id")>>)>>)>>)),
   Query(Sel("persons", <<S("id"), Sel("follows", <<S("id"), Sel("employers", <<S("id"), Sel("staff", <<S("id")>>)>>)>>),
                          Sel("employers", <<Sel("staff", <<S("name")>>)>>)>>)),
   Query(Where(Sel("orgs", <<S("id"), Where(Sel("staff", <<S("id")>>), "name", Literally("b"))>>), "name", Literally("a"))),
   Query(Where(Sel("persons", <<S("id")>>), "name", Literally(Null))),
   Query(Sel("named", <<>>)),
   Query(Sel("nameds", <<S("name"), S("id")>>)),
   Query(Sel("entities", <<As("n", S("name"))>>)),
   Query(Sel("persons", <<Sel("follows", <<Sel("follows", <<Sel("follows", <<S("id")>>)>>)>>)>>)),
   Query(Sel("persons", <<S("follows"), S("nobody")>>))}

ShopQueries ==
  {Query(Sel("customers", <<S("name"), S("code"), Sel("orders", <<S("total")>>)>>)),
   Query(Sel("purchases", <<S("id"), Sel("customers", <<S("region"), Sel("orders", <<S("id")>>)>>)>>)),
   Query(Sel("customers", <<S("name"), As("a", Sel("orders", <<S("id")>>)),
                            As("b", Sel("orders", <<Sel("customers", <<S("name")>>)>>))>>))}

Introspect == Operation("query", <<>>, <<S("__schema")>>, <<>>)

McpOperations ==
  {Query(Sel("persons", <<S("__typename"), S("name"), As("t", S("__typename"))>>)),
   Query(Sel("persons", <<S("name"), Sel("follows", <<S("__typename")>>), Sel("employers", <<S("id"), S("__typename")>>)>>)),
   Query(Sel("orgs", <<S("__typename")>>)),
   Query(Sel("nameds", <<S("__typename"), S("name")>>)),
   Query(Sel("persons", <<Inline(<<S("name")>>)>>)),
   Operation("query", <<>>, <<Spread("meta")>>, [meta |-> <<S("__typename"), Spread("schema")>>, schema |-> <<S("__schema")>>]),
   Introspect,
   Operation("mutation", <<>>, <<S("touch")>>, <<>>),
   Query(Sel("strangers", <<S("id")>>))}
------------------------------------------------------------------------------
(* Calls. *)

Arg(name, nonNull, default) ==
  [name |-> name, column |-> None, columnType |-> None, type |-> "Int", nonNull |-> nonNull,
   list |-> FALSE, default |-> default]
Mutation(name, returns, args) ==
  [name |-> name, function |-> name, returns |-> returns, type |-> IF returns = "VOID" THEN "Boolean" ELSE "Int",
   nonNull |-> returns = "VOID", list |-> FALSE, args |-> args]
CallDoc ==
  [Social EXCEPT !.mutation = <<Mutation("bump", "SCALAR", <<Arg("a", TRUE, None), Arg("b", FALSE, Literally(5)),
                                                           [Arg("c", FALSE, None) EXCEPT !.column = "d"]>>),
                                Mutation("touch", "VOID", <<>>)>>]
Bump(vs, args) == Operation("mutation", vs, <<[S("bump") EXCEPT !.args = args]>>, <<>>)
Passing(name, v) == [name |-> name, value |-> v]
Declares(nonNull, default) == [nonNull |-> nonNull, default |-> default]
Bumps ==
  {Bump(<<>>, <<Passing("a", Literally(1))>>),
   Bump(<<>>, <<Passing("a", Literally(1)), Passing("b", Literally(Null)), Passing("c", Literally(3))>>),
   Bump(<<>>, <<Passing("a", Literally(Null))>>),
   Bump("x" :> Declares(FALSE, None), <<Passing("a", Literally(1)), Passing("b", Variable("x"))>>),
   Bump("x" :> Declares(FALSE, Literally(8)), <<Passing("a", Variable("x")), Passing("c", Variable("x"))>>),
   Bump("x" :> Declares(TRUE, None), <<Passing("a", Variable("x"))>>),
   Bump(<<>>, <<Passing("z", Literally(1))>>),
   Bump(<<>>, <<Passing("b", Literally(1))>>)}
------------------------------------------------------------------------------
(* Scenes. *)

Scene(task, doc, foreign, rows, op) ==
  [task |-> task, doc |-> doc, foreign |-> foreign, rows |-> rows, op |-> op, vars |-> <<>>,
   shaping |-> "go", handle |-> "pgx", format |-> "json", maxDepth |-> 3, alters |-> 0,
   function |-> <<>>, columns |-> <<>>]

Checked(doc, foreign, n) == [Scene("check", doc, foreign, <<>>, None) EXCEPT !.alters = n]
EitherWay(scenes) == {[s EXCEPT !.shaping = x] : s \in scenes, x \in {"go", "sql"}}

CheckedDocuments == {Checked(d, ShopForeign, 0) : d \in NearMisses}
                    \union {Checked(Shop, tables, 0) : tables \in Unfit}
Drifts == {Checked(Doc([Person |-> Rival]), <<>>, 1),
           Checked(Shop, ShopForeign, 1)}
QueryScenes ==
  EitherWay({Scene("query", Social, <<>>, SocialRows, q) : q \in SocialQueries}
            \union {Scene("query", Shop, ShopForeign, ShopRows, q) : q \in ShopQueries})
LeafQueries ==
  EitherWay({Scene("query", Readings, <<>>, ReadingRows(r), Query(Sel("readings", leaves))) :
               r \in {ReadingRow(s, p, refs, ss) : s \in {2, NaN, Null}, p \in {3, NaN}, refs \in {<<1, Null>>},
                                                ss \in {<<1, 2>>, <<NaN>>, Null}},
               leaves \in {<<S("n"), S("score"), S("label"), S("open"), S("at"), S("doc")>>,
                           <<S("price")>>, <<S("ip")>>, <<S("refs"), S("id"), S("scores")>>}})
Handled ==
  {[s EXCEPT !.handle = h] :
     s \in EitherWay({Scene("query", Social, <<>>, SocialRows, Query(Sel("orgs", <<S("id")>>)))}), h \in Handles}
Tools ==
  EitherWay({[Scene("mcp", Social, <<>>, SocialRows, q) EXCEPT !.format = f] : q \in McpOperations,
               f \in {"json", "markdown", "csv"}}
            \union {Scene("mcp", Secretive, <<>>, SocialRows, Introspect),
                    Scene("mcp", Shop, ShopForeign, ShopRows, Introspect),
                    Scene("mcp", Readings, <<>>, ReadingRows(ReadingRow(2, 3, Null, Null)), Introspect)})
CallScenes ==
  {[Scene("call", CallDoc, <<>>, <<>>, op) EXCEPT !.handle = h, !.columns = c, !.vars = vs,
                                                  !.function = [a |-> 100, b |-> 101, d |-> 102]] :
     op \in Bumps \union {Operation("mutation", <<>>, <<S("touch")>>, <<>>)},
     h \in Handles, c \in {<<"bump">>, <<"x", "y">>}, vs \in {<<>>, [x |-> 9], [x |-> Null]}}

\* A document of functions alone: there is no graph, to check or to query.
CallsOnly == [types |-> <<>>, mutation |-> CallDoc.mutation]
Graphless == {Checked(CallsOnly, <<>>, 1), Scene("query", CallsOnly, <<>>, <<>>, Query(Sel("persons", <<S("id")>>)))}
             \union {[s EXCEPT !.doc = CallsOnly] : s \in {c \in CallScenes : c.handle = "pgx" /\ c.vars = <<>>}}

\* One label, one table, two relationships; an edge and one alteration.
RivalDocument ==
  Doc([Person |-> Rival, Company |-> Node("company", <<Id, Name, Rel("follows", "Company", "follows", "OUT")>>)])
MCRivalScenes == <<{Checked(RivalDocument, <<>>, 1)}>>
MCRelabelledScenes == <<{Checked(Doc([Person |-> Rival]), <<>>, 1)}>>

MCScenes == <<CheckedDocuments, Drifts, QueryScenes, LeafQueries, Handled, Tools, CallScenes, Graphless>>
==============================================================================
