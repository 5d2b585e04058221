------------------------------ MODULE Operations ------------------------------
(***************************************************************************)
(* GraphQL operations, and the function calls the compiler makes of        *)
(* mutations.                                                              *)
(*                                                                         *)
(* An operation document is [operations, fragments]; an operation [kind,   *)
(* vars, set], vars its variable definitions, name -> [default, nonNull].  *)
(* A selection is a field [sel, name, alias, args, set], an inline         *)
(* fragment [sel, set] or the spread of a named one [sel, name].  A value  *)
(* is [kind, of]: a "variable" and its name, a "literal" and its value, or *)
(* something that cannot be bound (an Int past 64 bits, a list).           *)
(***************************************************************************)
EXTENDS Sdl

CONSTANTS Null          \* SQL's NULL, and JSON's

FieldSelections(set) == SelectSeq(set, LAMBDA s : s.sel = "field")
ResponseKey(f) == IF f.alias # None THEN f.alias ELSE f.name
------------------------------------------------------------------------------
(* Values.  env is [vars, defs]: what the caller supplies and what the     *)
(* operation declares.                                                     *)

Literal(v) == IF v.kind = "literal" THEN v.of ELSE None

\* The value an argument binds; None where it cannot.
BoundValue(env, v) ==
  IF v.kind # "variable" THEN Literal(v)
  ELSE IF v.of \in DOMAIN env.vars THEN env.vars[v.of]
  ELSE IF v.of \notin DOMAIN env.defs THEN None
  ELSE IF env.defs[v.of].default # None THEN Literal(env.defs[v.of].default)
  ELSE IF env.defs[v.of].nonNull THEN None
  ELSE Null

\* The one operation of a document, of the kind the entry point compiles, and
\* its one root field.
OneOperation(opdoc, kind) == /\ Len(opdoc.operations) = 1
                             /\ opdoc.operations[1].kind = kind
                             /\ Len(FieldSelections(opdoc.operations[1].set)) = 1

RootField(opdoc) == FieldSelections(opdoc.operations[1].set)[1]
Env(opdoc, vars) == [vars |-> vars, defs |-> opdoc.operations[1].vars]
------------------------------------------------------------------------------
(* Mutations. *)

\* Where the operation passes a declared argument.
Given(field, decl) == {i \in DOMAIN field.args : field.args[i].name = decl.name}

\* (wrong) The defaults of the SDL are the function's own business.
PassedBare(field, decl) ==
  IF Given(field, decl) # {} THEN field.args[Min(Given(field, decl))].value ELSE None

\* The value the call passes for a declared argument: what the operation
\* passes, or the declared default; otherwise the parameter is not mentioned.
Passed(field, decl) ==
  IF Given(field, decl) # {} THEN field.args[Min(Given(field, decl))].value ELSE decl.default

ValidCallArgs(m, field, env) ==
  /\ \A a \in Range(field.args) : \E d \in Range(m.args) : d.name = a.name
  /\ \A d \in Range(m.args) :
       Passed(field, d) # None =>
         /\ ~(d.nonNull /\ Passed(field, d) = [kind |-> "literal", of |-> Null])
         /\ BoundValue(env, Passed(field, d)) # None

CallArgs(m, field, env) ==
  LET named == {d \in Range(m.args) : Passed(field, d) # None}
  IN  [p \in {Param(d) : d \in named} |-> BoundValue(env, Passed(field, CHOOSE d \in named : Param(d) = p))]

CompilesMutation(doc, opdoc, vars) ==
  /\ OneOperation(opdoc, "mutation")
  /\ LET m == MutationByField(doc, RootField(opdoc).name)
     IN  /\ m # None
         /\ RootField(opdoc).set = <<>>
         /\ ValidCallArgs(m, RootField(opdoc), Env(opdoc, vars))

CompileMutation(doc, opdoc, vars) ==
  LET m == MutationByField(doc, RootField(opdoc).name)
  IN  [function |-> m.function, returns |-> m.returns,
       args     |-> CallArgs(m, RootField(opdoc), Env(opdoc, vars))]
==============================================================================
