-------------------------------- MODULE CallRun --------------------------------
(***************************************************************************)
(* A mutation on its way: compiled to a call of the function the document  *)
(* names, run through a handle, its value handed back.  What a function    *)
(* returns here is what it saw of its parameters.  A scene also says what  *)
(* is called, op and vars, through which handle, and, of the function,     *)
(* function (parameter -> its SQL DEFAULT) and columns (those it returns). *)
(***************************************************************************)
EXTENDS Requests, Operations, Execution

VARIABLE plan   \* what the operation was compiled to

callVars == <<plan, reply, execVars>>

\* What the parser hands over: the arguments of a call in their order, each with
\* a value.
ASSUME ArgumentsHaveValues ==
  \A s \in {x \in UNION Range(Scenes) : x.task = "call"} :
    /\ DOMAIN RootField(s.op).args \subseteq Nat
    /\ \A a \in Range(RootField(s.op).args) : a.value # None
------------------------------------------------------------------------------

Refuse == /\ reply' = Refused
          /\ stage' = "done"
          /\ UNCHANGED plan

CompileCall ==
  /\ stage = "live" /\ scene.task = "call"
  /\ IF CompilesMutation(scene.doc, scene.op, scene.vars)
     THEN /\ plan' = CompileMutation(scene.doc, scene.op, scene.vars)
          /\ stage' = "compiled"
          /\ UNCHANGED reply
     ELSE Refuse
  /\ UNCHANGED <<scene, graph, catalog, execVars>>

\* Named notation: the parameters a call mentions, and the function's own
\* defaults for the others.
Parameters(args, function) ==
  [p \in DOMAIN args \union DOMAIN function |-> IF p \in DOMAIN args THEN args[p] ELSE function[p]]

RunCall ==
  /\ stage = "compiled" /\ scene.task = "call"
  /\ Start([kind     |-> IF plan.returns = "VOID" THEN "void" ELSE "scalar",
            handle   |-> scene.handle,
            recorded |-> <<>>,
            columns  |-> scene.columns,
            rows     |-> <<Parameters(plan.args, scene.function)>>])
  /\ stage' = "running"
  /\ UNCHANGED <<scene, graph, catalog, plan, reply>>

Statement == /\ stage = "running"
             /\ Execute
             /\ UNCHANGED <<generatorVars, plan, reply>>

ReturnCall ==
  /\ stage = "running" /\ scene.task = "call" /\ outcome # Nil
  /\ reply' = IF outcome.ok THEN [data |-> outcome.value] ELSE Refused
  /\ stage' = "done"
  /\ UNCHANGED <<scene, graph, catalog, plan, execVars>>

Calling == CompileCall \/ RunCall \/ Statement \/ ReturnCall

CallInit == Written /\ plan = None /\ reply = None /\ Idle
CallNext == (Generating /\ UNCHANGED callVars) \/ Calling
CallSpec == CallInit /\ [][CallNext]_<<generatorVars, callVars>>
------------------------------------------------------------------------------
Called == MutationByField(scene.doc, RootField(scene.op).name)

\* The function is the one the document describes, with one parameter for each
\* argument: only PostgreSQL looks, when it is called.
FunctionIsAsDeclared ==
  /\ DOMAIN scene.function = {Param(a) : a \in Range(Called.args)}
  /\ \A a, b \in Range(Called.args) : Param(a) = Param(b) => a = b

\* What a value of the operation means; a nullable variable nobody sets is NULL.
Means(v) ==
  LET declared == scene.op.operations[1].vars[v.of]
  IN  CASE v.kind # "variable"          -> v.of
        [] v.kind = "variable" /\ v.of \in DOMAIN scene.vars -> scene.vars[v.of]
        [] OTHER -> IF declared.default # None THEN declared.default.of ELSE Null

\* What an argument should come to: what the operation passes for it, an explicit
\* NULL included; else what the SDL defaults it to; else the function's own
\* DEFAULT.
Meant(a) ==
  LET passed == {x \in Range(RootField(scene.op).args) : x.name = a.name}
  IN  IF passed # {} THEN {Means(x.value) : x \in passed}
      ELSE IF a.default # None THEN {Means(a.default)}
      ELSE {scene.function[Param(a)]}

\* A function sees of each parameter what is meant: between the operation, the
\* variables, the SDL and the function's declaration no default takes the place
\* of another, and none that of a NULL (callArgs), and nothing of a failed call
\* is taken for its value (scalarResult).
FunctionSeesWhatIsMeant ==
  Done /\ scene.task = "call" /\ reply # Refused /\ job.kind = "scalar" /\ FunctionIsAsDeclared =>
    /\ DOMAIN reply.data = DOMAIN scene.function
    /\ \A a \in Range(Called.args) : reply.data[Param(a)] \in Meant(a)
==============================================================================
