------------------------------- MODULE Service -------------------------------
(***************************************************************************)
(* A document on its way from its text to a live graph, and what is then   *)
(* asked of it: a conformance check while others alter the graph, a query  *)
(* under either strategy, directly or through the MCP server, a function   *)
(* call.  A scene fixes the document, the tables and the request:          *)
(*   doc, foreign (the tables that are somebody else's, [types, primary]), *)
(*   rows (table -> its rows), task ("check", "query", "mcp", "call"),     *)
(*   alters, op, vars, handle, function and columns (CheckRun.tla,         *)
(*   CallRun.tla), shaping, format and maxDepth.                           *)
(***************************************************************************)
EXTENDS Answers, McpServer, CheckRun, CallRun

vars == <<generatorVars, checkVars, plan, execVars>>

Init == /\ Written
        /\ Unchecked
        /\ plan = None
        /\ Idle

\* The document on its way to a graph, and its check.
Prepare == CheckNext /\ UNCHANGED <<plan, execVars>>

\* A call of a function; and each step of a statement, whatever it is for.
Call == Calling /\ UNCHANGED <<reflected, altered, held>>
------------------------------------------------------------------------------
(* A query, under either strategy.  plan is [root, stripped], stripped     *)
(* what the MCP server took out.                                           *)

Compiler == [doc |-> scene.doc, maxDepth |-> scene.maxDepth, shaping |-> scene.shaping]

\* Compiled against a graph that has what it reads, or not.
Compiled(root, stripped) ==
  /\ plan' = [root |-> root, stripped |-> stripped]
  /\ stage' = IF Executes([elements |-> catalog.elements], root) THEN "compiled" ELSE "broken"
  /\ UNCHANGED reply

Compile ==
  /\ stage = "live" /\ scene.task = "query"
  /\ IF CompilesQuery(Compiler, scene.op, scene.vars)
     THEN Compiled(CompileQuery(Compiler, scene.op, scene.vars), None)
     ELSE Refuse
  /\ UNCHANGED <<scene, graph, catalog, reflected, altered, held, execVars>>

CompileRewritten(stripped, op) ==
  IF CompilesQuery(Compiler, op, scene.vars)
  THEN Compiled(CompileQuery(Compiler, op, scene.vars), stripped)
  ELSE Refuse

QueryTool ==
  /\ stage = "live" /\ scene.task = "mcp"
  /\ \/ /\ Introspects(scene.op, scene.format)
        /\ reply' = [introspected |-> Introspection(scene.doc)]
        /\ stage' = "done"
        /\ UNCHANGED plan
     \/ /\ Queryable(scene.doc, scene.op, scene.format)
        /\ LET stripped == Stripped(scene.doc, scene.op)
           IN  CompileRewritten(stripped, Rewritten(scene.op, stripped.field))
     \/ /\ ~Introspects(scene.op, scene.format) /\ ~Queryable(scene.doc, scene.op, scene.format)
        /\ Refuse
  /\ UNCHANGED <<scene, graph, catalog, reflected, altered, held, execVars>>

Database == [elements |-> catalog.elements, tables |-> scene.rows]

RunQuery ==
  /\ stage = "compiled" /\ scene.task # "call"
  /\ Start([kind     |-> IF scene.shaping = "sql" THEN "shaped" ELSE "flat",
            handle   |-> scene.handle,
            recorded |-> OutputColumns(plan.root),
            columns  |-> IF scene.shaping = "sql" THEN <<"response">> ELSE OutputColumns(plan.root),
            rows     |-> IF scene.shaping = "sql" THEN <<ShapedRow(Database, plan.root)>>
                         ELSE FlatRows(Database, plan.root)])
  /\ stage' = "running"
  /\ UNCHANGED <<scene, graph, catalog, reflected, altered, held, plan, reply>>

Shaped(answer) == IF job.kind = "shaped" THEN SqlSide(plan.root, answer) ELSE GoSide(plan.root, answer)

Respond(answer) ==
  LET response == Shaped(answer)
  IN  IF response = Unrepresentable THEN Refused
      ELSE [data |-> IF plan.stripped = None THEN response
                     ELSE Presented(scene.op, scene.format, plan.stripped, response)]

Reply ==
  /\ stage = "running" /\ scene.task # "call" /\ outcome # Nil
  /\ reply' = IF outcome.ok THEN Respond(outcome.value) ELSE Refused
  /\ stage' = "done"
  /\ UNCHANGED <<scene, graph, catalog, reflected, altered, held, plan, execVars>>

Next == \/ Prepare
        \/ Call
        \/ Compile \/ QueryTool \/ RunQuery \/ Reply

Spec == Init /\ [][Next]_vars
------------------------------------------------------------------------------
(* What the documents, the tables and the others are asked to respect.     *)

\* What an interface says of its columns its implementors say too, and under a
\* label of its own it names fields and columns alike.
InterfacesNameColumns(doc) ==
  \A i \in Interfaces(doc) : \A f \in Range(Columns(doc.types[i])) :
    /\ \A t \in Implementors(doc, i) : ColumnName(FieldNamed(doc.types[t], f.name)) = ColumnName(f)
    /\ doc.types[i].label # None => ColumnName(f) = f.name

\* The keys of the rows one position can bind differ, and none is NULL.
KeysTellRowsApart(doc, tables) ==
  LET world == [doc |-> doc, tables |-> tables]
      OfPosition(p) == UNION {RowsOfType(world, t) : t \in ({p} \intersect Nodes(doc)) \union Implementors(doc, p)}
  IN  \A p \in Positions(doc) : \A v, w \in OfPosition(p) :
        /\ Null \notin Range(KeyOfRow(world, v))
        /\ KeyOfRow(world, v) = KeyOfRow(world, w) => v = w

------------------------------------------------------------------------------
TypeOK ==
  /\ stage \in {"written", "refused", "parsed", "generated", "rejected", "live", "looked up",
                "labels read", "reflected", "compiled", "broken", "running", "done"}
  /\ stage \in {"written", "refused", "parsed"} <=> graph = None
  /\ stage = "running" => job # Nil
  /\ stage = "done" <=> reply # None

\* A query that compiles executes, and is answered, under either strategy and
\* through the MCP server alike, with exactly what Answers.tla says, or with an
\* error where that is an error; only a failure of the database or a missing
\* handle leaves it unanswered.
Sound == /\ LabelsTellRelationshipsApart(scene.doc) /\ LabelsTellTypesApart(scene.doc)
         /\ InterfacesNameColumns(scene.doc) /\ KeysTellRowsApart(scene.doc, scene.rows)

Expected ==
  LET answer == AnswerTo(scene.doc, scene.rows, scene.op, scene.vars)
  IN  IF scene.format = "markdown" /\ answer # Unrepresentable
      THEN RenderMarkdown(answer, ResponseKey(RootField(scene.op)), SelectedColumns(RootField(scene.op)))
      ELSE answer

AnswerIsRight ==
  scene.task \in {"query", "mcp"} /\ graph # None /\ Sound =>
    /\ stage # "broken"
    /\ Done /\ plan # None =>
         IF reply = Refused THEN fault # Nil \/ scene.handle = "nil" \/ Expected = Unrepresentable
         ELSE reply.data = Expected

\* Introspection and the compiler agree: what introspection shows of the root
\* fields, the fields and their filters compiles, and nothing else does. Asked
\* are all selections two levels deep of any field with any filter.
Asked(name, args, set) ==
  [sel |-> "field", name |-> name, alias |-> None, set |-> set,
   args |-> [i \in DOMAIN args |-> [name |-> args[i], value |-> [kind |-> "literal", of |-> Null]]]]

RECURSIVE Shown(_, _, _)
Shown(types, field, s) ==
  /\ \A a \in Range(s.args) : a.name \in field.args
  /\ IF field.of \notin DOMAIN types THEN s.set = <<>>
     ELSE /\ s.set # <<>>
          /\ \A sub \in Range(s.set) :
               sub.name \in DOMAIN types[field.of] /\ Shown(types, types[field.of][sub.name], sub)

\* Only the SQL side refuses a column whose type it has no canonical form for.
EveryLeafHasAForm ==
  scene.shaping = "go" \/ \A t \in Positions(scene.doc) : \A f \in Range(Columns(scene.doc.types[t])) :
                           ClassifyScalar(f) # "unknown"

IntrospectionIsExact ==
  Done /\ scene.task = "mcp" /\ "introspected" \in DOMAIN reply /\ EveryLeafHasAForm =>
    LET shown == reply.introspected
        names == UNION {{f.name : f \in Range(scene.doc.types[t].fields)} : t \in DOMAIN scene.doc.types}
        filters == {<<>>} \union {<<n>> : n \in names}
        Compiles(s) ==
          CompilesQuery(Compiler, [operations |-> <<[kind |-> "query", vars |-> <<>>, set |-> <<s>>]>>,
                                   fragments |-> <<>>], <<>>)
    IN  \A root \in DOMAIN shown.query \union names, n \in names, filter \in filters :
          \A s \in {Asked(root, filter, <<Asked(n, <<>>, <<>>)>>)}
                   \union {Asked(root, <<>>, <<Asked(n, filter, <<Asked(m, <<>>, <<>>)>>)>>) : m \in names} :
            Compiles(s) <=> root \in DOMAIN shown.query /\ Shown(shown.types, shown.query[root], s)

==============================================================================
